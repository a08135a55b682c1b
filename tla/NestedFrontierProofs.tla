------------------------ MODULE NestedFrontierProofs ------------------------
(***************************************************************************)
(* Proofs about the frontiers of a scope in a scope, from its inductive    *)
(* invariant (NestedScopeProofs): they never go back (NeverRetreats), and  *)
(* when nothing is left to do or to deliver they are those of what is      *)
(* alive (RestIsExact), for any number of workers and messages.            *)
(*                                                                         *)
(* The second rests on an invariant of its own, KeptInv: what a worker     *)
(* holds back need not be sent, for it knows of something earlier, and its *)
(* nested scope, once it may be shut down, is.  At rest, then, what some   *)
(* worker counts and is not alive would be preceded, at every worker, by   *)
(* something that is not alive either, at an earlier point.                *)
(***************************************************************************)
EXTENDS NestedScopeProofs

-----------------------------------------------------------------------------
(* Frontiers only advance.                                                  *)

\* A worker that knows of a capability of A before the end of what it has received, knew of one before.
LEMMA KnewOf ==
    ASSUME NestedInv, NEW w \in Workers, NEW v \in Workers, NEW s \in OuterTimes, Know(v, w, 0, s) > 0,
           NEW t \in OuterTimes, s <= t
    PROVE  Outer!Implied(tracker[w], In, t)
<1>0. /\ Typed /\ Caps /\ OuterBalance /\ News /\ None \in Prefixes(w) /\ A \in 1 .. 4 /\ In \in 1 .. 4 /\ A <= In
      /\ tracker[w] \in Batches(OuterPoints) /\ final[w] \in Batches(OuterPoints)
  <2>1. Typed /\ Caps /\ OuterBalance /\ News
    BY DEF NestedInv
  <2>2. tracker[w] \in Batches(OuterPoints) /\ final[w] \in Batches(OuterPoints)
    BY <2>1 DEF Typed
  <2>3. None \in Prefixes(w)
    BY <2>1, NoneIn
  <2>. QED  BY <2>1, <2>2, <2>3, PortFacts
<1> DEFINE K == Outer!Plus(tracker[w], final[w])
<1>1. K \in Batches(OuterPoints) /\ \A p : At(K, p) = At(tracker[w], p) + At(final[w], p)
  BY <1>0, OuterFacts
<1>2. Balance(w, K, None)
  BY <1>0 DEF OuterBalance, None
<1> HIDE DEF K
<1>3. Know(v, w, None[v], s) > 0
  BY DEF None
<1>4. At(K, <<A, s>>) > 0
  <2>1. Know(v, w, None[v], s) <= At(K, <<A, s>>)
    BY <1>0, <1>1, <1>2, Known
  <2>2. At(K, <<A, s>>) \in Int
    BY <1>1, BatchFacts
  <2>3. Know(v, w, None[v], s) \in Int
    <3>1. 0 \in 0 .. Len(mail[v][w])
      <4>1. mail[v][w] \in Seq(Honest)
        BY <1>0 DEF Typed
      <4>. QED  BY <4>1
    <3>2. ComingO(v, w, 0) \in Honest
      BY <1>0, <3>1, SentHolds DEF Sent
    <3>3. At(ComingO(v, w, 0), <<A, s>>) \in Int
      BY <3>2, HonestIn, BatchFacts
    <3>4. cap(v, s) \in Int
      BY <1>0, TruthFacts DEF cap
    <3>. QED  BY <3>3, <3>4 DEF Know, None
  <2>. QED  BY <1>3, <2>1, <2>2, <2>3
<1>5. At(tracker[w], <<A, s>>) > 0
  <2>1. At(final[w], <<A, s>>) = 0
    BY <1>0 DEF News
  <2>2. At(tracker[w], <<A, s>>) \in Int
    BY <1>0, BatchFacts
  <2>3. At(K, <<A, s>>) = At(tracker[w], <<A, s>>) + At(final[w], <<A, s>>)
    BY <1>1
  <2>. QED  BY <1>4, <2>1, <2>2, <2>3
<1>. QED  BY <1>0, <1>5, OuterImplied

\* What a worker counts in the outer scope after a step was not behind its frontiers before.
LEMMA OuterAdvances ==
    ASSUME NestedInv, NEW w \in Workers, NEW upto \in Prefixes(w),
           NEW m \in 1 .. 4, NEW s \in OuterTimes, At(Propagated(w, upto), <<m, s>>) > 0
    PROVE  /\ Outer!Implied(tracker[w], B, s)
           /\ m <= In => Outer!Implied(tracker[w], In, s)
<1>0. /\ Typed /\ Caps /\ OuterBalance /\ News /\ In \in 1 .. 4 /\ B \in 1 .. 4 /\ In <= B /\ m <= B /\ s <= s /\ m <= m
      /\ tracker[w] \in Batches(OuterPoints) /\ final[w] \in Batches(OuterPoints)
  <2>1. Typed /\ Caps /\ OuterBalance /\ News
    BY DEF NestedInv
  <2>2. tracker[w] \in Batches(OuterPoints) /\ final[w] \in Batches(OuterPoints)
    BY <2>1 DEF Typed
  <2>3. s <= s
    BY ConstantFacts
  <2>. QED  BY <2>1, <2>2, <2>3, PortFacts
<1> DEFINE T == Propagated(w, upto)
           R == Outer!Totals(Received(mail, w, upto))
           p == <<m, s>>
<1>1. R \in Honest /\ \A q : At(AllComingO(w, None), q) = At(R, q) + At(AllComingO(w, upto), q)
  BY <1>0, ReceivedFacts
<1>2. Balance(w, T, upto)
  BY <1>0, StepBalance
<1>3. T = Outer!Plus(tracker[w], Outer!Plus(final[w], R))
  BY DEF Propagated
<1> HIDE DEF T, R
<1>4. R \in Batches(OuterPoints)
  BY <1>1, HonestIn
<1>5. T \in Batches(OuterPoints) /\ At(T, p) = At(tracker[w], p) + (At(final[w], p) + At(R, p))
  <2> DEFINE X == Outer!Plus(final[w], R)
  <2>1. X \in Batches(OuterPoints) /\ At(X, p) = At(final[w], p) + At(R, p)
    BY <1>0, <1>4, OuterFacts
  <2>2. T = Outer!Plus(tracker[w], X)
    BY <1>3
  <2> HIDE DEF X
  <2>3. T \in Batches(OuterPoints) /\ At(T, p) = At(tracker[w], p) + At(X, p)
    BY <1>0, <2>1, <2>2, OuterFacts
  <2>. QED  BY <2>1, <2>3
<1>6. At(tracker[w], p) \in Int /\ At(final[w], p) \in Int /\ At(R, p) \in Int
  BY <1>0, <1>4, BatchFacts
<1>7. ASSUME At(tracker[w], p) > 0
      PROVE  Outer!Implied(tracker[w], B, s) /\ (m <= In => Outer!Implied(tracker[w], In, s))
  BY <1>0, <1>7, OuterImplied
<1>8. ASSUME Outer!Implied(tracker[w], In, s)
      PROVE  Outer!Implied(tracker[w], B, s)
  BY <1>0, <1>8, OuterLater
<1>9. CASE m = A
  <2>1. At(T, <<A, s>>) > 0
    BY <1>9 DEF T
  <2>2. PICK v \in Workers : Know(v, w, upto[v], s) > 0
    BY <1>0, <1>2, <1>5, <2>1, Known
  <2>3. upto[v] \in 0 .. Len(mail[v][w])
    <3>1. mail[v][w] \in Seq(Honest)
      BY <1>0 DEF Typed
    <3>. QED  BY <3>1 DEF Prefixes
  <2>4. CapsAt(v, w, upto[v]) /\ 0 \in 0 .. upto[v]
    BY <1>0, <2>3 DEF Caps
  <2>5. PICK r \in OuterTimes : r <= s /\ Know(v, w, 0, r) > 0
    BY <2>2, <2>4 DEF CapsAt
  <2>6. Outer!Implied(tracker[w], In, s)
    BY <2>5, KnewOf
  <2>. QED  BY <1>8, <2>6
<1>10. CASE m = In
  <2>1. At(final[w], p) <= 0
    BY <1>0, <1>10 DEF News
  <2>2. ASSUME At(R, p) > 0 PROVE Outer!Implied(tracker[w], In, s)
    <3> DEFINE f == [v \in Workers |-> ComingO(v, w, None[v])]
    <3>1. /\ f \in [Workers -> Honest] /\ AllComingO(w, None) = Inner!Total(f)
          /\ AllComingO(w, upto) \in Honest /\ AllComingO(w, None) \in Honest
      BY <1>0, NoneIn, SummedHolds, SameCounts DEF Summed, AllComingO
    <3>2. At(AllComingO(w, upto), <<In, s>>) >= 0
      BY <3>1 DEF Honest
    <3>3. At(AllComingO(w, None), p) > 0
      <4>1. At(AllComingO(w, upto), p) \in Int
        BY <3>1, HonestIn, BatchFacts
      <4>2. At(AllComingO(w, None), p) = At(R, p) + At(AllComingO(w, upto), p)
        BY <1>1
      <4>. QED  BY <1>6, <1>10, <2>2, <3>2, <4>1, <4>2
    <3>4. \A v \in Workers : f[v] = ComingO(v, w, 0)
      BY DEF None
    <3> HIDE DEF f
    <3>5. f \in [Workers -> Batches(OuterPoints)]
      BY <3>1, HonestIn
    <3>6. PICK v \in Workers : At(f[v], p) > 0
      BY <3>1, <3>3, <3>5, ConstantFacts, TotalSigns
    <3>7. At(ComingO(v, w, 0), <<In, s>>) > 0
      BY <1>10, <3>4, <3>6
    <3>8. 0 \in 0 .. Len(mail[v][w])
      <4>1. mail[v][w] \in Seq(Honest)
        BY <1>0 DEF Typed
      <4>. QED  BY <4>1
    <3>9. CapsAt(v, w, 0)
      BY <1>0, <3>8 DEF Caps
    <3>10. PICK r \in OuterTimes : r <= s /\ Know(v, w, 0, r) > 0
      BY <3>7, <3>9 DEF CapsAt
    <3>. QED  BY <3>10, KnewOf
  <2>3. At(tracker[w], p) > 0 \/ At(R, p) > 0
    BY <1>5, <1>6, <2>1 DEF T
  <2>. QED  BY <1>7, <1>8, <2>2, <2>3
<1>11. CASE m = Out \/ m = B
  <2>1. At(R, p) <= 0
    <3>1. At(R, <<Out, s>>) = 0 /\ At(R, <<B, s>>) <= 0
      BY <1>1 DEF Honest
    <3>. QED  BY <1>11, <3>1
  <2>2. At(tracker[w], p) > 0 \/ At(final[w], p) > 0
    BY <1>5, <1>6, <2>1 DEF T
  <2>3. At(final[w], p) > 0 => Outer!Implied(tracker[w], B, s)
    BY <1>0, <1>11 DEF News
  <2>4. ~ m <= In
    BY <1>11, PortFacts
  <2>. QED  BY <1>7, <2>2, <2>3, <2>4
<1>12. m = A \/ m = In \/ m = Out \/ m = B
  BY PortFacts
<1>. QED  BY <1>9, <1>10, <1>11, <1>12

\* Where the nested scope of w expects nothing, nothing is to come to it: what it will hear sums up to what is there.
LEMMA NothingUnderWay ==
    ASSUME NestedInv, NEW w \in Workers, NEW D, Closed(D),
           \A p \in D : p[1] \in {Source, PIn} /\ At(nested[w], p) <= 0,
           NEW v \in Workers, NEW k \in 0 .. Len(post[v][w]), NEW q \in D
    PROVE  At(Inner!Total(SubSeq(post[v][w], 1, k)), q) = 0
<1>0. Typed /\ InnerBalance /\ Accepts /\ D \subseteq InnerPoints /\ Source \in 1 .. 4
  BY PortFacts DEF NestedInv, Closed
<1> DEFINE f == [u \in Workers |-> Coming(u, w)]
           s == post[v][w]
<1>1. f \in [Workers -> Genuine] /\ AllComing(w) = Inner!Total(f) /\ AllComing(w) \in Batches(InnerPoints)
  BY <1>0, SummedHolds, GenuineIn DEF Summed, AllComing
<1>2. f[v] = Coming(v, w)
  OBVIOUS
<1>3. s \in Seq(Genuine)
  BY <1>0 DEF Typed
<1> HIDE DEF f
<1>4. ASSUME NEW p \in D PROVE At(AllComing(w), p) >= 0
  <2>0. p \in InnerPoints /\ p[1] \in {Source, PIn} /\ At(nested[w], p) <= 0 /\ p[2].outer \in OuterTimes
        /\ p = <<p[1], p[2]>> /\ p[2] \in InnerTimes
    BY <1>0, InnerPointFacts, ConstantFacts
  <2>1. At(AllComing(w), p) \in Int /\ At(nested[w], p) \in Int
    <3>1. nested[w] \in Batches(InnerPoints)
      BY <1>0 DEF Typed
    <3>. QED  BY <1>1, <3>1, BatchFacts
  <2>2. CASE p[1] = Source
    <3>1. ASSUME At(AllComing(w), p) < 0 PROVE FALSE
      <4> DEFINE t == p[2].outer
      <4>1. p \in Line(Source, t)
        BY <2>0, <2>2 DEF Line
      <4>2. Acc(w, t)
        BY <1>0, <2>0, <3>1, <4>1 DEF Accepts
      <4>3. PICK x \in OuterTimes : x <= t /\ At(nested[w], <<Source, to_inner(x)>>) > 0
        BY <4>2 DEF Acc
      <4> DEFINE r == <<Source, to_inner(x)>>
      <4>4. r \in InnerPoints /\ to_inner(x) \in InnerTimes /\ r[1] = Source /\ r[2] = to_inner(x)
        BY <1>0, ConstantFacts, InnerPointFacts
      <4>5. Leq(r, p)
        <5>1. to_inner(x).outer = x /\ to_inner(x).round = 0 /\ p[2].round \in Nat /\ Source <= Source
          BY <2>0, ConstantFacts, PortFacts DEF to_inner
        <5>. QED  BY <2>2, <4>3, <4>4, <5>1 DEF Leq
      <4>6. r \in D
        BY <4>4, <4>5 DEF Closed
      <4>7. At(nested[w], r) <= 0 /\ At(nested[w], r) > 0
        BY <4>3, <4>6
      <4>8. At(nested[w], r) \in Int
        <5>1. nested[w] \in Batches(InnerPoints)
          BY <1>0 DEF Typed
        <5>. QED  BY <5>1, BatchFacts
      <4> HIDE DEF r
      <4>. QED  BY <4>7, <4>8
    <3>. QED  BY <2>1, <3>1
  <2>3. CASE p[1] = PIn
    <3>1. p \in Ports(InnerPoints, {PIn, POut})
      BY <2>0, <2>3 DEF Ports
    <3>2. At(nested[w], p) + At(AllComing(w), p) = At(Truth, p)
      BY <1>0, <3>1 DEF InnerBalance
    <3>3. At(Truth, p) \in Nat
      BY <1>0, TruthFacts
    <3>. QED  BY <2>0, <2>1, <3>2, <3>3
  <2>. QED  BY <2>0, <2>2, <2>3
<1>5. \A p \in D : At(f[v], p) = 0
  <2>1. \A p \in D : At(Inner!Total(f), p) >= 0
    BY <1>1, <1>4
  <2>. QED  BY <1>1, <2>1, ConstantFacts, NothingBelow
<1>6. \A p \in D : At(Inner!Total(s), p) = 0
  <2>1. Coming(v, w) = Inner!Plus(Inner!Total(s), Mine(v)) /\ Mine(v) \in Genuine
    BY <1>0, MadeHolds DEF Coming, Made
  <2>2. Inner!Total(s) \in Genuine
    BY <1>3, SequenceGenuine
  <2> HIDE DEF s
  <2>3. \A p \in D : At(Inner!Plus(Inner!Total(s), Mine(v)), p) >= 0
    BY <1>2, <1>5, <2>1
  <2>. QED  BY <2>1, <2>2, <2>3, GenuinePlus
<1>7. k \in 0 .. Len(s)
  OBVIOUS
<1> HIDE DEF s
<1> DEFINE I == 1 .. Len(s)
           b == SubSeq(s, 1, k)
           J == 1 .. Len(b)
<1>8. IsFiniteSet(I) /\ s \in [I -> Genuine]
  BY <1>3, SequenceGenuine, SequenceTotal
<1>9. J \subseteq I /\ b \in Seq(Genuine) /\ \A i \in J : b[i] = s[i]
  BY <1>3, <1>7
<1>10. IsFiniteSet(J) /\ b \in [J -> Batches(InnerPoints)]
  BY <1>9, SequenceGenuine, SequenceTotal
<1> HIDE DEF I, J, b
<1>11. \A i \in I : At(s[i], q) = 0
  <2>1. \A p \in D : At(Inner!Total(s), p) >= 0
    BY <1>6
  <2>. QED  BY <1>8, <2>1, NothingBelow
<1>12. \A i \in J : At(b[i], q) = 0
  BY <1>9, <1>11
<1>13. At(Inner!Total(b), q) = 0
  BY <1>10, <1>12, TotalSigns
<1>. QED  BY <1>13 DEF b, s

\* What the nested scope counts after a step was not behind its frontiers before.
LEMMA InnerAdvances ==
    ASSUME NestedInv, NEW w, NEW upto, NEW upin, Ran(w, upto, upin), NEW t \in InnerTimes,
           Inner!Implied(Knows(w, upto, upin), PIn, t)
    PROVE  Inner!Implied(nested[w], PIn, t)
<1>0. /\ Typed /\ Accepts /\ w \in Workers /\ w \in open /\ upto \in Prefixes(w) /\ Propagated(w, upto) \in Batches(OuterPoints)
      /\ Knows(w, upto, upin) \in Batches(InnerPoints) /\ nested[w] \in Batches(InnerPoints)
      /\ upin \in Upto(post, w) /\ Runs(w, Propagated(w, upto), upin)
  BY RunsSums DEF Ran, NestedInv, Typed, Runs
<1>1. PIn \in 1 .. 4 /\ Source \in 1 .. 4 /\ In \in 1 .. 4 /\ Source <= PIn
      /\ \A l \in 1 .. 4 : l <= PIn => l = Source \/ l = PIn
  BY PortFacts
<1> DEFINE K == Knows(w, upto, upin)
           T == Propagated(w, upto)
           S == Outer!Frontier(T, In)
           e == <<PIn, t>>
<1>2. PICK q \in InnerPoints : Leq(q, e) /\ At(K, q) > 0
  BY <1>0, <1>1, InnerImplied
<1>3. /\ \A p \in Ports(InnerPoints, {PIn, POut}) : At(K, p) = At(nested[w], p) + At(Batch(w, upin), p)
      /\ \A p \in InnerPoints : p[1] = Source /\ At(K, p) # 0 => \E s \in S : p = <<Source, to_inner(s)>>
      /\ S \subseteq OuterTimes
  <2>1. \A p \in Ports(InnerPoints, {PIn, POut}) : At(K, p) = At(nested[w], p) + At(Batch(w, upin), p)
    BY KnowsFacts
  <2>2. \A p \in InnerPoints : p[1] = Source /\ At(K, p) # 0 => \E s \in S : p = <<Source, to_inner(s)>>
    BY KnowsFacts
  <2>3. S \subseteq OuterTimes
    BY <1>0, <1>1, OuterFrontier
  <2>. QED  BY <2>1, <2>2, <2>3
<1>4. /\ e \in InnerPoints /\ e[1] = PIn /\ e[2] = t
      /\ q[1] \in 1 .. 4 /\ q[2] \in InnerTimes /\ q = <<q[1], q[2]>>
  BY <1>1, InnerPointFacts
<1>5. q[1] = Source \/ q[1] = PIn
  BY <1>1, <1>2, <1>4 DEF Leq
<1>6. SUFFICES ASSUME \A p \in InnerPoints : Leq(p, e) => ~ At(nested[w], p) > 0 PROVE FALSE
  BY <1>0, <1>1, InnerImplied
<1> HIDE DEF K
<1>7. CASE q[1] = Source
  <2>1. At(K, q) # 0
    BY <1>2
  <2>2. PICK s \in S : q = <<Source, to_inner(s)>>
    BY <1>3, <1>7, <2>1
  <2>3. s \in OuterTimes /\ Outer!Implied(T, In, s)
    BY <1>0, <1>1, <1>3, OuterFrontier
  <2> HIDE DEF S
  <2>4. Outer!Implied(tracker[w], In, s)
    <3>1. PICK m \in 1 .. 4 : \E r \in OuterTimes : m <= In /\ r <= s /\ At(T, <<m, r>>) > 0
      <4>1. Outer!Implied(T, In, s) <=>
                \E m \in 1 .. 4 : \E r \in OuterTimes : m <= In /\ r <= s /\ At(T, <<m, r>>) > 0
        <5>1. T \in Batches(OuterPoints) /\ In \in 1 .. 4 /\ s \in OuterTimes
          BY <1>0, <1>1, <2>3
        <5> HIDE DEF T
        <5>. QED  BY <5>1, OuterImplied
      <4>. QED  BY <2>3, <4>1
    <3>2. PICK r \in OuterTimes : m <= In /\ r <= s /\ At(T, <<m, r>>) > 0
      BY <3>1
    <3>3. Outer!Implied(tracker[w], In, r)
      BY <1>0, <3>2, OuterAdvances
    <3>4. tracker[w] \in Batches(OuterPoints) /\ In <= In
      BY <1>0, PortFacts DEF Typed
    <3>. QED  BY <1>1, <2>3, <3>2, <3>3, <3>4, OuterLater
  <2>5. Acc(w, s)
    BY <1>0, <2>3, <2>4 DEF Accepts
  <2>6. PICK r \in OuterTimes : r <= s /\ At(nested[w], <<Source, to_inner(r)>>) > 0
    BY <2>5 DEF Acc
  <2>7. <<Source, to_inner(r)>> \in InnerPoints /\ to_inner(r) \in InnerTimes
    BY <1>1, ConstantFacts, InnerPointFacts
  <2>8. Leq(<<Source, to_inner(r)>>, e)
    <3>1. to_inner(r).outer = r /\ to_inner(r).round = 0 /\ q[2].outer = s /\ q[2].outer <= t.outer
      BY <1>2, <1>4, <2>2 DEF Leq, to_inner
    <3>2. t.round \in Nat /\ t.outer \in Nat /\ r \in Nat /\ s \in Nat
      BY <2>3, ConstantFacts
    <3>3. <<Source, to_inner(r)>>[1] = Source /\ <<Source, to_inner(r)>>[2] = to_inner(r)
      OBVIOUS
    <3>4. r <= t.outer /\ 0 <= t.round
      BY <2>6, <3>1, <3>2
    <3>. QED  BY <1>1, <1>4, <3>1, <3>3, <3>4 DEF Leq
  <2>. QED  BY <1>6, <2>6, <2>7, <2>8
<1>8. CASE q[1] = PIn
  <2> DEFINE D == {p \in InnerPoints : Leq(p, e)}
             g == [v \in Workers |-> Inner!Total(SubSeq(post[v][w], 1, upin[v]))]
  <2>1. \A p : At(nested[w], p) \in Int /\ At(Batch(w, upin), p) \in Int
    <3>1. Batch(w, upin) \in Batches(InnerPoints)
      BY RunsSums
    <3>. QED  BY <1>0, <3>1, BatchFacts
  <2>2. At(Batch(w, upin), q) > 0
    <3>1. q \in Ports(InnerPoints, {PIn, POut})
      BY <1>8 DEF Ports
    <3>2. At(K, q) = At(nested[w], q) + At(Batch(w, upin), q)
      BY <1>3, <3>1
    <3>3. ~ At(nested[w], q) > 0
      BY <1>2, <1>6
    <3>4. At(nested[w], q) \in Int /\ At(Batch(w, upin), q) \in Int
      BY <2>1
    <3>. QED  BY <1>2, <3>2, <3>3, <3>4
  <2>3. Closed(D)
    BY <1>4, LeqFacts DEF Closed
  <2>4. ASSUME NEW p \in D PROVE p[1] \in {Source, PIn} /\ At(nested[w], p) <= 0
    <3>1. p \in InnerPoints /\ Leq(p, e) /\ p[1] \in 1 .. 4
      BY InnerPointFacts
    <3>2. p[1] <= PIn
      BY <1>4, <3>1 DEF Leq
    <3>3. At(nested[w], p) \in Int /\ ~ At(nested[w], p) > 0
      BY <1>6, <2>1, <3>1
    <3>4. At(nested[w], p) <= 0
      BY <3>3
    <3>5. p[1] = Source \/ p[1] = PIn
      BY <1>1, <3>1, <3>2
    <3>. QED  BY <3>4, <3>5
  <2>5. q \in D
    BY <1>2
  <2> HIDE DEF D
  <2>6. /\ Batch(w, upin) = Inner!Total(g)
        /\ \A v \in Workers : upin[v] \in 0 .. Len(post[v][w])
        /\ \A v \in Workers : Inner!Total(SubSeq(post[v][w], 1, upin[v])) \in Genuine
    BY <1>0, BatchIn
  <2>7. g \in [Workers -> Batches(InnerPoints)]
    BY <2>6, GenuineIn
  <2>8. \A v \in Workers : At(Inner!Total(SubSeq(post[v][w], 1, upin[v])), q) = 0
    BY <1>0, <2>3, <2>4, <2>5, <2>6, NothingUnderWay
  <2>9. \A v \in Workers : At(g[v], q) = 0
    BY <2>8
  <2> HIDE DEF g
  <2>10. At(Inner!Total(g), q) = 0
    BY <2>7, <2>9, ConstantFacts, TotalSigns
  <2>. QED  BY <2>2, <2>6, <2>10
<1>. QED  BY <1>5, <1>7, <1>8

\* A step of the progress protocol only advances frontiers, at each worker.
LEMMA StepAdvances ==
    ASSUME NestedInv, NEW w \in Workers, NEW upto \in Upto(mail, w), Step(w, upto), NEW u \in Workers
    PROVE  ~ Retreats(u)
<1> DEFINE T == Propagated(w, upto)
<1>0. Typed /\ upto \in Prefixes(w) /\ T \in Batches(OuterPoints) /\ B \in 1 .. 4
  <2>1. Typed
    BY DEF NestedInv
  <2>2. PICK runs \in BOOLEAN : schedule(w, upto, runs)
    BY DEF Step
  <2>. QED  BY <2>1, <2>2, ScheduleFacts, PortFacts
<1>1. tracker'[u] = IF u = w THEN T ELSE tracker[u]
  <2>1. PICK runs \in BOOLEAN : schedule(w, upto, runs)
    BY DEF Step
  <2>. QED  BY <1>0, <2>1, ScheduleFacts
<1>2. ASSUME NEW t \in OuterTimes, Outer!Implied(T, B, t) PROVE Outer!Implied(tracker[w], B, t)
  <2> HIDE DEF T
  <2>1. PICK m \in 1 .. 4 : \E r \in OuterTimes : m <= B /\ r <= t /\ At(T, <<m, r>>) > 0
    <3>1. Outer!Implied(T, B, t) <=>
              \E m \in 1 .. 4 : \E r \in OuterTimes : m <= B /\ r <= t /\ At(T, <<m, r>>) > 0
      BY <1>0, OuterImplied
    <3>. QED  BY <1>2, <3>1
  <2>2. PICK r \in OuterTimes : r <= t /\ At(T, <<m, r>>) > 0
    BY <2>1
  <2>3. Outer!Implied(tracker[w], B, r)
    BY <1>0, <2>2, OuterAdvances DEF T
  <2>4. tracker[w] \in Batches(OuterPoints) /\ B <= B
    BY <1>0, PortFacts DEF Typed
  <2>. QED  BY <1>0, <2>2, <2>3, <2>4, OuterLater
<1>3. nested'[u] = nested[u] \/ \A t \in InnerTimes : Inner!Implied(nested'[u], PIn, t) => Inner!Implied(nested[u], PIn, t)
  <2>1. CASE schedule(w, upto, FALSE) /\ Rests(w, T)
    BY <2>1 DEF Rests
  <2>2. ASSUME schedule(w, upto, TRUE), NEW upin \in Upto(post, w), Runs(w, T, upin)
        PROVE  nested'[u] = nested[u] \/ \A t \in InnerTimes : Inner!Implied(nested'[u], PIn, t) => Inner!Implied(nested[u], PIn, t)
    <3>1. Ran(w, upto, upin)
      BY <1>0, <2>2 DEF Ran
    <3>2. nested'[u] = IF u = w THEN Knows(w, upto, upin) ELSE nested[u]
      BY <1>0, <2>2, RunsFacts
    <3>3. \A t \in InnerTimes : Inner!Implied(Knows(w, upto, upin), PIn, t) => Inner!Implied(nested[w], PIn, t)
      BY <3>1, InnerAdvances
    <3>. QED  BY <3>2, <3>3
  <2>. QED  BY <2>1, <2>2 DEF Step
<1> HIDE DEF T
<1>. QED  BY <1>1, <1>2, <1>3 DEF Retreats

\* ... and so does every step.
LEMMA Advances ==
    ASSUME NestedInv, [Next]_vars, NEW u \in Workers
    PROVE  ~ Retreats(u)
<1>1. CASE UNCHANGED <<tracker, nested>>
  BY <1>1 DEF Retreats
<1>2. CASE UNCHANGED vars
  BY <1>1, <1>2 DEF vars
<1>3. CASE User
  <2>1. UNCHANGED work_vars
    BY <1>3 DEF User, send, downgrade, consume, handle
  <2>. QED  BY <1>1, <2>1 DEF work_vars
<1>4. CASE \E w \in Workers : \E upto \in Upto(mail, w) : Step(w, upto)
  <2>1. PICK w \in Workers : \E upto \in Upto(mail, w) : Step(w, upto)
    BY <1>4
  <2>2. PICK upto \in Upto(mail, w) : Step(w, upto)
    BY <2>1
  <2>. QED  BY <2>2, StepAdvances
<1>. QED  BY <1>2, <1>3, <1>4 DEF Next

(* The frontier at B and the frontier at the nested operator never go back, *)
(* at any worker, whichever of its reports a worker has heard.              *)
THEOREM NeverRetreatsHolds == Spec => NeverRetreats
<1> DEFINE Advance ==
        \A w \in Workers :
            /\ \A t \in OuterTimes : Outer!Implied(tracker'[w], B, t) => Outer!Implied(tracker[w], B, t)
            /\ \A t \in InnerTimes : Inner!Implied(nested'[w], PIn, t) => Inner!Implied(nested[w], PIn, t)
<1>1. NestedInv /\ [Next]_vars => [Advance]_<<tracker, nested>>
  BY Advances DEF Retreats
<1>2. NeverRetreats <=> [][Advance]_<<tracker, nested>>
  BY DEF NeverRetreats
<1> HIDE DEF Advance
<1>. QED  BY <1>1, <1>2, NestedInvHolds, PTL DEF Spec

-----------------------------------------------------------------------------
(* What is held back.                                                       *)

\* Batches that count later rounds at the source are not made from others.
LEMMA FirstRounds ==
    /\ FirstRound(Inner!Nothing)
    /\ \A b, c \in Batches(InnerPoints) : FirstRound(b) /\ FirstRound(c) => FirstRound(Inner!Plus(b, c))
    /\ \A p \in InnerPoints : \A n \in Int : p[1] # Source \/ p[2].round = 0 => FirstRound(Inner!Change(p, n))
<1>1. FirstRound(Inner!Nothing)
  BY NothingFacts DEF FirstRound
<1>2. ASSUME NEW b \in Batches(InnerPoints), NEW c \in Batches(InnerPoints), FirstRound(b), FirstRound(c)
      PROVE  FirstRound(Inner!Plus(b, c))
  <2>1. \A p : At(Inner!Plus(b, c), p) = At(b, p) + At(c, p)
    BY PlusFacts
  <2>. QED  BY <1>2, <2>1 DEF FirstRound
<1>3. ASSUME NEW p \in InnerPoints, NEW n \in Int, p[1] # Source \/ p[2].round = 0
      PROVE  FirstRound(Inner!Change(p, n))
  <2>1. \A q : At(Inner!Change(p, n), q) = IF q = p THEN n ELSE 0
    BY ChangeFacts
  <2>. QED  BY <1>3, <2>1 DEF FirstRound
<1>. QED  BY <1>1, <1>2, <1>3

\* A function that is changed at one worker, by a batch that counts nothing in later rounds.
LEMMA FirstRoundAfter ==
    ASSUME NEW f, NEW g, NEW w \in Workers, NEW c \in Batches(InnerPoints), FirstRound(c),
           \A v \in Workers : f[v] \in Batches(InnerPoints) /\ FirstRound(f[v]),
           \A v \in Workers : g[v] = IF v = w THEN Inner!Plus(f[v], c) ELSE f[v]
    PROVE  \A v \in Workers : FirstRound(g[v])
  BY FirstRounds

\* What an operator records in the nested scope.
LEMMA RecordedP ==
    ASSUME Typed, NEW w \in Workers, NEW c \in Batches(InnerPoints), FirstRound(c), Record(w, "P", c),
           \A v \in Workers : FirstRound(shared[v]["P"])
    PROVE  \A v \in Workers : FirstRound(shared'[v]["P"])
<1>1. shared \in [Workers -> [Children -> Genuine \cup Honest]] /\ "P" \in Children
  BY DEF Typed, Children
<1>2. shared' = [shared EXCEPT ![w]["P"] = Inner!Plus(@, c)]
  BY DEF Record
<1>3. \A v \in Workers : shared'[v]["P"] = IF v = w THEN Inner!Plus(shared[v]["P"], c) ELSE shared[v]["P"]
  BY <1>1, <1>2
<1>4. \A v \in Workers : shared[v]["P"] \in Batches(InnerPoints)
  BY GenuineIn DEF Typed
<1> DEFINE f == [v \in Workers |-> shared[v]["P"]]
           g == [v \in Workers |-> shared'[v]["P"]]
<1>5. \A v \in Workers : f[v] = shared[v]["P"] /\ g[v] = shared'[v]["P"]
  OBVIOUS
<1> HIDE DEF f, g
<1>6. /\ \A v \in Workers : f[v] \in Batches(InnerPoints) /\ FirstRound(f[v])
      /\ \A v \in Workers : g[v] = IF v = w THEN Inner!Plus(f[v], c) ELSE f[v]
  BY <1>3, <1>4, <1>5
<1>7. \A v \in Workers : FirstRound(g[v])
  BY <1>6, FirstRoundAfter
<1>. QED  BY <1>5, <1>7

\* ... and in the outer one.
LEMMA RecordedO ==
    ASSUME Typed, NEW w \in Workers, NEW o \in {"A", "B"}, NEW c, Record(w, o, c)
    PROVE  \A v \in Workers : shared'[v]["P"] = shared[v]["P"]
<1>1. shared \in [Workers -> [Children -> Genuine \cup Honest]] /\ o \in Children /\ o # "P" /\ "P" \in Children
  BY DEF Typed, Children
<1>2. shared' = [shared EXCEPT ![w][o] = Outer!Plus(@, c)]
  BY <1>1 DEF Record
<1>. QED  BY <1>1, <1>2

\* The steps of operators.
LEMMA UserKept ==
    ASSUME Typed, KeptInv, User
    PROVE  KeptInv'
<1>1. UNCHANGED work_vars
  BY DEF User, send, downgrade, consume, handle
<1>2. \A v \in Workers : FirstRound(entering[v]) /\ FirstRound(inner[v]) /\ FirstRound(shared[v]["P"])
  BY DEF KeptInv, KeptAt
<1>3. (\A v \in Workers : FirstRound(entering'[v])) /\ (\A v \in Workers : FirstRound(shared'[v]["P"]))
  <2>1. ASSUME NEW w \in Workers, NEW t \in OuterTimes, NEW x \in Workers, send(w, t, x)
        PROVE  (\A v \in Workers : FirstRound(entering'[v])) /\ (\A v \in Workers : FirstRound(shared'[v]["P"]))
    <3> DEFINE c == Inner!Change(<<Source, to_inner(t)>>, 1)
    <3>1. Record(w, "A", Outer!Change(<<In, t>>, 1)) /\ entering' = [entering EXCEPT ![w] = Inner!Plus(@, c)]
      BY <2>1 DEF send, IngressNub
    <3>2. \A v \in Workers : shared'[v]["P"] = shared[v]["P"]
      BY <3>1, RecordedO
    <3>3. c \in Batches(InnerPoints) /\ FirstRound(c)
      <4>1. <<Source, to_inner(t)>> \in InnerPoints /\ <<Source, to_inner(t)>>[2] = to_inner(t) /\ to_inner(t).round = 0
        BY ConstantFacts, PortMembers DEF to_inner
      <4>2. 1 \in Int /\ <<Source, to_inner(t)>>[2].round = 0
        BY <4>1
      <4>. QED  BY <4>1, <4>2, ChangeFacts, FirstRounds
    <3>4. \A v \in Workers : entering[v] \in Batches(InnerPoints)
      BY CountsIn, PortsMore DEF Typed
    <3> HIDE DEF c
    <3>5. \A v \in Workers : entering'[v] = IF v = w THEN Inner!Plus(entering[v], c) ELSE entering[v]
      BY <3>1 DEF Typed
    <3>6. \A v \in Workers : FirstRound(entering'[v])
      <4> TAKE v \in Workers
      <4>1. entering[v] \in Batches(InnerPoints) /\ FirstRound(entering[v])
        BY <1>2, <3>4
      <4>2. FirstRound(Inner!Plus(entering[v], c))
        BY <3>3, <4>1, FirstRounds
      <4>. QED  BY <3>5, <4>1, <4>2
    <3>. QED  BY <1>2, <3>2, <3>6
  <2>2. ASSUME NEW w \in Workers, NEW t, NEW N, downgrade(w, t, N)
        PROVE  entering' = entering /\ \A v \in Workers : shared'[v]["P"] = shared[v]["P"]
    <3>1. entering' = entering /\ \E c : Record(w, "A", c)
      BY <2>2 DEF downgrade
    <3>. QED  BY <3>1, RecordedO
  <2>3. ASSUME NEW w \in Workers, NEW t, consume(w, t)
        PROVE  entering' = entering /\ \A v \in Workers : shared'[v]["P"] = shared[v]["P"]
    <3>1. entering' = entering /\ \E c : Record(w, "B", c)
      BY <2>3 DEF consume
    <3>. QED  BY <3>1, RecordedO
  <2>4. ASSUME NEW w \in Workers, NEW l \in {PIn, POut}, NEW t \in InnerTimes, handle(w, <<l, t>>)
        PROVE  entering' = entering /\ \A v \in Workers : FirstRound(shared'[v]["P"])
    <3> DEFINE p == <<l, t>>
               d == Inner!Change(p, -1)
    <3>1. p \in InnerPoints /\ p[1] # Source /\ p[2] = t
      BY PortFacts, InnerPointFacts
    <3>2. d \in Batches(InnerPoints) /\ FirstRound(d)
      <4>1. -1 \in Int
        OBVIOUS
      <4>. QED  BY <3>1, <4>1, ChangeFacts, FirstRounds
    <3>3. ASSUME NEW m \in {POut, Target}, NEW u \in InnerTimes
          PROVE  Inner!Plus(d, Inner!Change(<<m, u>>, 1)) \in Batches(InnerPoints)
                 /\ FirstRound(Inner!Plus(d, Inner!Change(<<m, u>>, 1)))
      <4>1. <<m, u>> \in InnerPoints /\ <<m, u>>[1] # Source /\ 1 \in Int
        BY PortFacts, InnerPointFacts
      <4>2. Inner!Change(<<m, u>>, 1) \in Batches(InnerPoints) /\ FirstRound(Inner!Change(<<m, u>>, 1))
        BY <4>1, ChangeFacts, FirstRounds
      <4>. QED  BY <3>2, <4>2, PlusFacts, FirstRounds
    <3>4. \E c \in Batches(InnerPoints) : FirstRound(c) /\ Record(w, "P", c)
      <4>1. ASSUME NEW u \in InnerTimes, Keeps(w, p, u) PROVE \E c \in Batches(InnerPoints) : FirstRound(c) /\ Record(w, "P", c)
        <5>1. Record(w, "P", Inner!Plus(d, Inner!Change(<<POut, u>>, 1)))
          BY <4>1 DEF Keeps
        <5>. QED  BY <3>3, <5>1
      <4>2. ASSUME NEW v \in Workers, Leaves(w, p, v) PROVE \E c \in Batches(InnerPoints) : FirstRound(c) /\ Record(w, "P", c)
        <5>1. Record(w, "P", Inner!Plus(d, Inner!Change(<<Target, t>>, 1)))
          BY <4>2 DEF Leaves
        <5>. QED  BY <3>3, <5>1
      <4>3. ASSUME Drops(w, p) PROVE \E c \in Batches(InnerPoints) : FirstRound(c) /\ Record(w, "P", c)
        BY <3>2, <4>3 DEF Drops
      <4> HIDE DEF p, d
      <4>. QED  BY <2>4, <4>1, <4>2, <4>3 DEF handle, p
    <3>5. entering' = entering
      BY <2>4 DEF handle
    <3> HIDE DEF p, d
    <3>6. \A v \in Workers : FirstRound(shared'[v]["P"])
      <4>1. PICK c \in Batches(InnerPoints) : FirstRound(c) /\ Record(w, "P", c)
        BY <3>4
      <4>. QED  BY <1>2, <4>1, RecordedP
    <3>. QED  BY <3>5, <3>6
  <2>5. CASE \E w, v \in Workers, t \in OuterTimes : send(w, t, v)
    BY <2>1, <2>5
  <2>6. CASE entering' = entering /\ \A v \in Workers : FirstRound(shared'[v]["P"])
    BY <1>2, <2>6
  <2>. QED  BY <1>2, <2>2, <2>3, <2>4, <2>5, <2>6 DEF User
<1>4. ASSUME NEW w \in Workers PROVE KeptAt(w)'
  <2>1. KeptAt(w)
    BY DEF KeptInv
  <2>. QED  BY <1>1, <1>3, <2>1 DEF KeptAt, work_vars
<1>. QED  BY <1>4 DEF KeptInv

\* A scope has neither an input frontier nor capabilities inside when nothing is counted up to its output.
LEMMA ShutFacts ==
    ASSUME NEW T \in Batches(OuterPoints)
    PROVE  may_shut_down(T) <=> \A t \in OuterTimes : ~ Outer!Implied(T, Out, t)
<1> DEFINE S == {p[2] : p \in {q \in Outer!Counted(T) : q[1] = Out}}
<1>1. Outer!Pointstamps(T, Out) = Outer!Least(S)
  BY DEF Outer!Pointstamps
<1>2. \A p : p \in Outer!Counted(T) <=> p \in OuterPoints /\ At(T, p) > 0
  BY BatchFacts DEF Outer!Counted, At
<1>3. S \in SUBSET OuterTimes /\ \A s \in OuterTimes : s \in S <=> At(T, <<Out, s>>) > 0
  BY <1>2, OuterPointFacts, PortFacts
<1> HIDE DEF S
<1>4. Outer!Least(S) = {} <=> S = {}
  BY <1>3, OuterLeast
<1>5. Outer!Frontier(T, In) = {} <=> \A t \in OuterTimes : ~ Outer!Implied(T, In, t)
  BY PortFacts, OuterFrontier
<1>6. ASSUME may_shut_down(T), NEW t \in OuterTimes, Outer!Implied(T, Out, t) PROVE FALSE
  <2>1. Out \in 1 .. 4 /\ In \in 1 .. 4 /\ In = 2 /\ Out = 3
    BY PortFacts
  <2>2. Outer!Implied(T, Out, t) <=> \E m \in 1 .. 4 : \E s \in OuterTimes : m <= Out /\ s <= t /\ At(T, <<m, s>>) > 0
    BY <2>1, OuterImplied
  <2>3. PICK m \in 1 .. 4, s \in OuterTimes : m <= Out /\ s <= t /\ At(T, <<m, s>>) > 0
    BY <1>6, <2>2
  <2>4. S = {} /\ \A u \in OuterTimes : ~ Outer!Implied(T, In, u)
    BY <1>1, <1>4, <1>5, <1>6 DEF may_shut_down
  <2>5. m # Out
    BY <1>3, <2>3, <2>4
  <2>6. m <= In
    BY <2>1, <2>3, <2>5
  <2>7. Outer!Implied(T, In, s) <=> \E n \in 1 .. 4 : \E u \in OuterTimes : n <= In /\ u <= s /\ At(T, <<n, u>>) > 0
    BY <2>1, OuterImplied
  <2>8. s <= s
    BY ConstantFacts
  <2>. QED  BY <2>3, <2>4, <2>6, <2>7, <2>8
<1>7. ASSUME \A t \in OuterTimes : ~ Outer!Implied(T, Out, t) PROVE may_shut_down(T)
  <2>1. \A t \in OuterTimes : ~ Outer!Implied(T, In, t)
    <3> SUFFICES ASSUME NEW t \in OuterTimes, Outer!Implied(T, In, t) PROVE FALSE
      OBVIOUS
    <3>1. In \in 1 .. 4 /\ Out \in 1 .. 4 /\ In <= Out /\ t <= t
      BY PortFacts, ConstantFacts
    <3>. QED  BY <1>7, <3>1, OuterLater
  <2>2. S = {}
    <3> SUFFICES ASSUME NEW s \in S PROVE FALSE
      OBVIOUS
    <3>1. s \in OuterTimes /\ At(T, <<Out, s>>) > 0 /\ s <= s /\ Out <= Out /\ Out \in 1 .. 4
      BY <1>3, PortFacts, ConstantFacts
    <3>2. Outer!Implied(T, Out, s) <=> \E m \in 1 .. 4 : \E u \in OuterTimes : m <= Out /\ u <= s /\ At(T, <<m, u>>) > 0
      BY <3>1, OuterImplied
    <3>. QED  BY <1>7, <3>1, <3>2
  <2>. QED  BY <1>1, <1>4, <1>5, <2>1, <2>2 DEF may_shut_down
<1>. QED  BY <1>6, <1>7

\* What a worker does not send, it need not send by what it knows.
LEMMA KeptBack ==
    ASSUME Typed, KeptInv, NEW w \in Workers, NEW upto \in Upto(mail, w), NEW runs \in BOOLEAN, schedule(w, upto, runs),
           NEW u \in Workers
    PROVE  ~ Outer!must_send(tracker'[u], local'[u])
<1> DEFINE T == Propagated(w, upto)
           b == Outer!Plus(local[w], Outer!Plus(shared[w]["A"], shared[w]["B"]))
<1>1. /\ tracker' = [tracker EXCEPT ![w] = T]
      /\ \/ local' = [local EXCEPT ![w] = Outer!Nothing]
         \/ local' = [local EXCEPT ![w] = b] /\ (b = Outer!Nothing \/ ~ Outer!must_send(T, b))
  BY DEF schedule
<1> HIDE DEF T, b
<1>2. ~ Outer!must_send(T, Outer!Nothing)
  BY DEF Outer!must_send, Outer!Nothing
<1>3. tracker \in [Workers -> Batches(OuterPoints)] /\ local \in [Workers -> Honest]
  BY DEF Typed
<1>4. ~ Outer!must_send(tracker[u], local[u])
  BY DEF KeptInv, KeptAt
<1>5. CASE u = w
  <2>1. tracker'[u] = T /\ (local'[u] = Outer!Nothing \/ (local'[u] = b /\ (b = Outer!Nothing \/ ~ Outer!must_send(T, b))))
    BY <1>1, <1>3, <1>5
  <2>. QED  BY <1>2, <2>1
<1>6. CASE u # w
  BY <1>1, <1>3, <1>4, <1>6
<1>. QED  BY <1>5, <1>6

\* A step in which the nested scope does not run.
LEMMA RestKept ==
    ASSUME Typed, KeptInv, NEW w \in Workers, NEW upto \in Upto(mail, w), schedule(w, upto, FALSE),
           Rests(w, Propagated(w, upto))
    PROVE  KeptInv'
<1> DEFINE T == Propagated(w, upto)
<1>1. FALSE \in BOOLEAN
  OBVIOUS
<1>2. /\ T \in Batches(OuterPoints)
      /\ \A u \in Workers : tracker'[u] = IF u = w THEN T ELSE tracker[u]
      /\ \A u \in Workers : shared'[u]["P"] = IF u = w /\ FALSE THEN Inner!Nothing ELSE shared[u]["P"]
  BY <1>1, ScheduleFacts
<1>3. \A u \in Workers : ~ Outer!must_send(tracker'[u], local'[u])
  BY <1>1, KeptBack
<1>4. UNCHANGED <<nested, entering, internals, inner, open>> /\ (w \in open => ~ Active(w, T))
  BY DEF Rests
<1> HIDE DEF T
<1>5. \A u \in Workers : KeptAt(u)
  BY DEF KeptInv
<1>6. ASSUME w \in open PROVE ~ (may_shut_down(T) /\ Inner!Counted(nested[w]) = {})
  <2> SUFFICES ASSUME may_shut_down(T), Inner!Counted(nested[w]) = {} PROVE FALSE
    OBVIOUS
  <2>1. Outer!Frontier(T, Out) = Outer!Frontier(tracker[w], Out)
    BY <1>4, <1>6 DEF Active
  <2>2. Out \in 1 .. 4 /\ tracker[w] \in Batches(OuterPoints)
    BY PortFacts DEF Typed
  <2>3. \A t \in OuterTimes : ~ Outer!Implied(T, Out, t)
    BY <1>2, ShutFacts
  <2>4. Outer!Frontier(T, Out) = {} <=> \A t \in OuterTimes : ~ Outer!Implied(T, Out, t)
    BY <1>2, <2>2, OuterFrontier
  <2>5. Outer!Frontier(tracker[w], Out) = {} <=> \A t \in OuterTimes : ~ Outer!Implied(tracker[w], Out, t)
    BY <2>2, OuterFrontier
  <2>6. may_shut_down(tracker[w])
    BY <2>1, <2>2, <2>3, <2>4, <2>5, ShutFacts
  <2>. QED  BY <1>5, <1>6, <2>6 DEF KeptAt
<1>7. ASSUME NEW u \in Workers PROVE KeptAt(u)'
  <2>1. KeptAt(u) /\ nested'[u] = nested[u] /\ inner'[u] = inner[u] /\ internals'[u] = internals[u] /\ entering'[u] = entering[u]
        /\ shared'[u]["P"] = shared[u]["P"] /\ open' = open
    BY <1>2, <1>4, <1>5
  <2>2. u \in open => ~ (may_shut_down(tracker'[u]) /\ Inner!Counted(nested[u]) = {})
    <3>1. CASE u = w
      BY <1>2, <1>6, <3>1
    <3>2. CASE u # w
      BY <1>2, <2>1, <3>2 DEF KeptAt
    <3>. QED  BY <3>1, <3>2
  <2>. QED  BY <1>3, <2>1, <2>2 DEF KeptAt
<1>. QED  BY <1>7 DEF KeptInv

\* What a nested scope records when it runs is of the first round, and it sends what it must.
LEMMA RunsKeeps ==
    ASSUME KeptInv, NEW w, NEW upto, NEW upin, Ran(w, upto, upin)
    PROVE  FirstRound(Mine(w)) /\ FirstRound(inner'[w]) /\ ~ Inner!must_send(nested'[w], inner'[w])
<1> DEFINE T == Knows(w, upto, upin)
           b == Mine(w)
<1>1. w \in Workers /\ Typed /\ KeptAt(w) /\ Made
  BY MadeHolds DEF Ran, KeptInv
<1>2. /\ nested' = [nested EXCEPT ![w] = T]
      /\ \/ inner' = [inner EXCEPT ![w] = Inner!Nothing]
         \/ inner' = [inner EXCEPT ![w] = b] /\ (b = Inner!Nothing \/ ~ Inner!must_send(T, b))
  BY DEF Ran, Runs, schedule_nested, Mine, Knows, Batch
<1>3. nested \in [Workers -> Batches(InnerPoints)] /\ inner \in [Workers -> Genuine]
  BY <1>1 DEF Typed
<1>4. ~ Inner!must_send(T, Inner!Nothing)
  BY DEF Inner!must_send, Inner!Nothing
<1>5. FirstRound(b)
  <2> SUFFICES ASSUME NEW t \in InnerTimes, t.round # 0 PROVE At(b, <<Source, t>>) = 0
    BY DEF FirstRound
  <2>1. At(b, <<Source, t>>)
          = At(inner[w], <<Source, t>>) + (At(harvest_inputs(w), <<Source, t>>) + At(shared[w]["P"], <<Source, t>>))
    BY <1>1 DEF Made
  <2>2. At(harvest_inputs(w), <<Source, t>>) = - At(entering[w], <<Source, t>>)
    BY <1>1 DEF Made
  <2>3. At(inner[w], <<Source, t>>) = 0 /\ At(entering[w], <<Source, t>>) = 0 /\ At(shared[w]["P"], <<Source, t>>) = 0
    BY <1>1 DEF KeptAt, FirstRound
  <2>. QED  BY <2>1, <2>2, <2>3
<1>6. FirstRound(Inner!Nothing)
  BY FirstRounds
<1> HIDE DEF T, b
<1>7. nested'[w] = T /\ (inner'[w] = Inner!Nothing \/ (inner'[w] = b /\ (b = Inner!Nothing \/ ~ Inner!must_send(T, b))))
  BY <1>1, <1>2, <1>3
<1>. QED  BY <1>4, <1>5, <1>6, <1>7 DEF b

\* A step in which the nested scope runs.
LEMMA RunsKept ==
    ASSUME KeptInv, NEW w, NEW upto, NEW upin, Ran(w, upto, upin)
    PROVE  KeptInv'
<1> DEFINE T == Propagated(w, upto)
           K == Knows(w, upto, upin)
<1>1. /\ w \in Workers /\ Typed /\ upto \in Upto(mail, w) /\ schedule(w, upto, TRUE) /\ upin \in Upto(post, w)
      /\ Runs(w, T, upin) /\ TRUE \in BOOLEAN
  BY DEF Ran
<1>2. /\ \A u \in Workers : tracker'[u] = IF u = w THEN T ELSE tracker[u]
      /\ \A u \in Workers : shared'[u]["P"] = IF u = w /\ TRUE THEN Inner!Nothing ELSE shared[u]["P"]
  BY <1>1, ScheduleFacts
<1>3. \A u \in Workers : ~ Outer!must_send(tracker'[u], local'[u])
  BY <1>1, KeptBack
<1>4. /\ \A u \in Workers :
            /\ nested'[u] = IF u = w THEN K ELSE nested[u]
            /\ entering'[u] = IF u = w THEN Inner!Nothing ELSE entering[u]
            /\ internals'[u] = IF u = w THEN pushed_output(K) ELSE internals[u]
      /\ open' = IF may_shut_down(T) /\ Inner!Counted(K) = {} THEN open \ {w} ELSE open
  BY <1>1, RunsFacts
<1>5. FirstRound(inner'[w]) /\ ~ Inner!must_send(nested'[w], inner'[w])
  BY RunsKeeps
<1>6. \A u \in Workers : u # w => inner'[u] = inner[u]
  <2>1. \/ inner' = [inner EXCEPT ![w] = Inner!Nothing]
        \/ inner' = [inner EXCEPT ![w] = Mine(w)]
    BY DEF Ran, Runs, schedule_nested, Mine
  <2>. QED  BY <1>1, <2>1 DEF Typed
<1>7. \A t \in InnerTimes : At(K, <<Target, t>>) = 0
  <2>1. \A p \in InnerPoints : p[1] = Target => At(K, p) = 0
    BY KnowsFacts
  <2> HIDE DEF K
  <2>2. \A t \in InnerTimes : <<Target, t>> \in InnerPoints /\ <<Target, t>>[1] = Target
    BY PortFacts, InnerPointFacts
  <2>. QED  BY <2>1, <2>2
<1>8. FirstRound(Inner!Nothing) /\ \A u \in Workers : KeptAt(u)
  BY FirstRounds DEF KeptInv
<1> HIDE DEF T, K
<1>9. ASSUME NEW u \in Workers PROVE KeptAt(u)'
  <2>1. CASE u = w
    <3>1. u \in open' => ~ (may_shut_down(tracker'[u]) /\ Inner!Counted(nested'[u]) = {})
      BY <1>2, <1>4, <2>1
    <3>2. internals'[u] = pushed_output(nested'[u]) /\ entering'[u] = Inner!Nothing /\ shared'[u]["P"] = Inner!Nothing
      BY <1>2, <1>4, <2>1
    <3>3. \A t \in InnerTimes : At(nested'[u], <<Target, t>>) = 0
      BY <1>4, <1>7, <2>1
    <3>. QED  BY <1>3, <1>5, <1>8, <2>1, <3>1, <3>2, <3>3 DEF KeptAt
  <2>2. CASE u # w
    <3>1. /\ tracker'[u] = tracker[u] /\ nested'[u] = nested[u] /\ inner'[u] = inner[u] /\ internals'[u] = internals[u]
          /\ entering'[u] = entering[u] /\ shared'[u]["P"] = shared[u]["P"] /\ (u \in open' => u \in open)
      BY <1>2, <1>4, <1>6, <2>2
    <3>2. KeptAt(u)
      BY <1>8
    <3>. QED  BY <1>3, <3>1, <3>2 DEF KeptAt
  <2>. QED  BY <2>1, <2>2
<1>. QED  BY <1>9 DEF KeptInv

\* At first nothing is held back, and no scope may be shut down.
LEMMA InitKept ==
    ASSUME Init, SomethingAlive
    PROVE  KeptInv
<1> SUFFICES ASSUME NEW w \in Workers PROVE KeptAt(w)
  BY DEF KeptInv
<1>1. /\ local[w] = Outer!Nothing /\ inner[w] = Inner!Nothing /\ entering[w] = Inner!Nothing
      /\ shared[w]["P"] = Inner!Nothing /\ internals[w] = Held(start.p)
  BY DEF Init, NoChange, Children
<1>2. /\ ~ Outer!must_send(tracker[w], Outer!Nothing) /\ ~ Inner!must_send(nested[w], Inner!Nothing)
      /\ FirstRound(Inner!Nothing)
  BY FirstRounds DEF Outer!must_send, Outer!Nothing, Inner!must_send, Inner!Nothing
<1>3. nested[w] \in Batches(InnerPoints)
      /\ \A p : At(nested[w], p) = Lone(Cardinality(start.p), <<POut, to_inner(0)>>, p)
                                    + Lone(Cardinality(Held(start.a)), <<Source, to_inner(0)>>, p)
  BY InitBegun DEF Begun
<1>4. \A S \in {start.a, start.p} :
         /\ Cardinality(S) \in Nat /\ (Cardinality(S) > 0 <=> S # {})
         /\ Held(S) \in SUBSET OuterTimes /\ Cardinality(Held(S)) \in Nat
         /\ S # {} => Held(S) = {0} /\ Cardinality(Held(S)) = 1
         /\ S = {} => Held(S) = {} /\ Cardinality(Held(S)) = 0
  BY StartFacts
<1>5. start.a # {} \/ start.p # {}
  BY DEF Init, SomethingAlive
<1> DEFINE n == Cardinality(start.p)
           m == Cardinality(Held(start.a))
           p0 == <<POut, to_inner(0)>>
           s0 == <<Source, to_inner(0)>>
<1>6. /\ n \in Nat /\ (n > 0 <=> start.p # {}) /\ m \in Nat /\ (m > 0 <=> start.a # {})
      /\ (start.p # {} => internals[w] = {0}) /\ (start.p = {} => internals[w] = {})
  BY <1>1, <1>4
<1>7. /\ p0 \in InnerPoints /\ p0[1] = POut /\ p0[2] = to_inner(0) /\ s0 \in InnerPoints /\ s0[1] = Source /\ p0 # s0
      /\ p0 \in Ports(InnerPoints, {PIn, POut}) /\ p0[2].outer = 0
      /\ \A t : <<Target, t>> # p0 /\ <<Target, t>> # s0
  <2>1. to_inner(0) \in InnerTimes /\ to_inner(0).outer = 0
    BY ConstantFacts DEF to_inner
  <2> DEFINE i == to_inner(0)
  <2> HIDE DEF i
  <2>2. <<POut, i>> \in InnerPoints /\ <<Source, i>> \in InnerPoints /\ <<POut, i>> \in Ports(InnerPoints, {PIn, POut})
    BY <2>1, PortMembers DEF i
  <2>3. \A t : <<Target, t>> # <<POut, i>> /\ <<Target, t>> # <<Source, i>> /\ <<POut, i>> # <<Source, i>>
    BY PortFacts
  <2>4. p0 = <<POut, i>> /\ s0 = <<Source, i>> /\ i = to_inner(0) /\ i.outer = 0
    BY <2>1 DEF i
  <2> HIDE DEF p0, s0
  <2>. QED  BY <2>2, <2>3, <2>4
<1>8. \A p : At(nested[w], p) = Lone(n, p0, p) + Lone(m, s0, p)
  BY <1>3
<1> HIDE DEF n, m, p0, s0
<1>9. Inner!Counted(nested[w]) # {}
  <2>1. \A p : At(nested[w], p) > 0 => p \in Inner!Counted(nested[w])
    BY DEF Inner!Counted, At
  <2>2. CASE start.p # {}
    <3>1. At(nested[w], p0) > 0
      BY <1>6, <1>7, <1>8, <2>2 DEF Lone
    <3>. QED  BY <2>1, <3>1
  <2>3. CASE start.a # {}
    <3>1. At(nested[w], s0) > 0
      BY <1>6, <1>7, <1>8, <2>3 DEF Lone
    <3>. QED  BY <2>1, <3>1
  <2>. QED  BY <1>5, <2>2, <2>3
<1>10. \A t \in InnerTimes : At(nested[w], <<Target, t>>) = 0
  BY <1>6, <1>7, <1>8 DEF Lone
<1>11. internals[w] = pushed_output(nested[w])
  <2> DEFINE X == pushed_output(nested[w])
  <2>1. /\ \A p \in Ports(InnerPoints, {PIn, POut}) : At(nested[w], p) > 0 => \E s \in X : s <= p[2].outer
        /\ \A s \in X : \E p \in Ports(InnerPoints, {PIn, POut}) : At(nested[w], p) > 0 /\ p[2].outer = s
    BY <1>3, PushedFacts
  <2> HIDE DEF X
  <2>2. \A p \in Ports(InnerPoints, {PIn, POut}) : p # s0
    BY <1>7, PortFacts DEF Ports
  <2>3. \A p \in Ports(InnerPoints, {PIn, POut}) : At(nested[w], p) > 0 => p = p0 /\ n > 0
    BY <1>6, <1>8, <2>2 DEF Lone
  <2>4. CASE start.p = {}
    <3>1. X = {}
      BY <1>6, <2>1, <2>3, <2>4
    <3>. QED  BY <1>6, <2>4, <3>1 DEF X
  <2>5. CASE start.p # {}
    <3>1. \A s \in X : s = 0
      BY <1>7, <2>1, <2>3
    <3>2. At(nested[w], p0) > 0
      BY <1>6, <1>7, <1>8, <2>5 DEF Lone
    <3>3. \E s \in X : TRUE
      BY <1>7, <2>1, <3>2
    <3>4. X = {0}
      BY <3>1, <3>3
    <3>. QED  BY <1>6, <2>5, <3>4 DEF X
  <2>. QED  BY <2>4, <2>5
<1>. QED  BY <1>1, <1>2, <1>9, <1>10, <1>11 DEF KeptAt

\* Every step keeps it.
LEMMA NextKept ==
    ASSUME Typed, KeptInv, [Next]_vars
    PROVE  KeptInv'
<1>1. CASE User
  BY <1>1, UserKept
<1>2. ASSUME NEW w \in Workers, NEW upto \in Upto(mail, w), Step(w, upto) PROVE KeptInv'
  <2>1. CASE schedule(w, upto, FALSE) /\ Rests(w, Propagated(w, upto))
    BY <2>1, RestKept
  <2>2. ASSUME schedule(w, upto, TRUE), NEW upin \in Upto(post, w), Runs(w, Propagated(w, upto), upin) PROVE KeptInv'
    <3>1. Ran(w, upto, upin)
      BY <2>2 DEF Ran
    <3>. QED  BY <3>1, RunsKept
  <2>. QED  BY <1>2, <2>1, <2>2 DEF Step
<1>3. CASE UNCHANGED vars
  BY <1>3 DEF KeptInv, KeptAt, vars
<1>. QED  BY <1>1, <1>2, <1>3 DEF Next

\* At all times the workers hold back only what the others need not hear of yet.
LEMMA KeptHolds == SomethingAlive => (Spec => []KeptInv)
<1> SUFFICES ASSUME SomethingAlive PROVE Spec => []KeptInv
  OBVIOUS
<1>1. Init => KeptInv
  BY InitKept
<1>2. Typed /\ KeptInv /\ [Next]_vars => KeptInv'
  BY NextKept
<1>3. NestedInv => Typed
  BY DEF NestedInv
<1>. QED  BY <1>1, <1>2, <1>3, NestedInvHolds, PTL DEF Spec

\* An update that need not be sent, of something that is gone, comes after something that is counted.
LEMMA OuterBehind ==
    ASSUME NEW T \in Batches(OuterPoints), NEW b \in Batches(OuterPoints), ~ Outer!must_send(T, b),
           NEW l \in 1 .. 4, NEW t \in OuterTimes, At(b, <<l, t>>) < 0
    PROVE  \E m \in 1 .. 4 : \E s \in OuterTimes :
               m <= l /\ s <= t /\ At(T, <<m, s>>) > 0 /\ (m # l \/ s # t)
<1> DEFINE p == <<l, t>>
<1>1. p \in DOMAIN b /\ b[p] < 0 /\ p[1] = l /\ p[2] = t
  BY BatchFacts DEF At
<1>2. ~ Outer!is_global(T, p)
  BY <1>1 DEF Outer!must_send
<1> HIDE DEF p
<1>3. \/ \E s \in Outer!Frontier(T, l) : Outer!less_than(s, t)
      \/ l > 1 /\ t \in Outer!Frontier(T, l - 1)
  BY <1>1, <1>2 DEF Outer!is_global
<1>4. CASE \E s \in Outer!Frontier(T, l) : Outer!less_than(s, t)
  <2>1. PICK s \in Outer!Frontier(T, l) : Outer!less_than(s, t)
    BY <1>4
  <2>2. s \in OuterTimes /\ Outer!Implied(T, l, s)
    BY OuterFrontier
  <2>3. s <= t /\ s # t
    BY <2>1, <2>2, OuterOrder
  <2>4. Outer!Implied(T, l, s) <=> \E m \in 1 .. 4 : \E u \in OuterTimes : m <= l /\ u <= s /\ At(T, <<m, u>>) > 0
    BY <2>2, OuterImplied
  <2>5. PICK m \in 1 .. 4, u \in OuterTimes : m <= l /\ u <= s /\ At(T, <<m, u>>) > 0
    BY <2>2, <2>4
  <2>6. u <= t /\ u # t
    <3>1. u \in Nat /\ s \in Nat /\ t \in Nat
      BY <2>2, ConstantFacts
    <3>. QED  BY <2>3, <2>5, <3>1
  <2>. QED  BY <2>5, <2>6
<1>5. CASE l > 1 /\ t \in Outer!Frontier(T, l - 1)
  <2>1. l - 1 \in 1 .. 4
    BY <1>5
  <2> DEFINE k == l - 1
  <2>2. k \in 1 .. 4 /\ t \in Outer!Frontier(T, k)
    BY <1>5, <2>1
  <2> HIDE DEF k
  <2>3. Outer!Implied(T, k, t)
    BY <2>2, OuterFrontier
  <2>4. Outer!Implied(T, k, t) <=> \E m \in 1 .. 4 : \E u \in OuterTimes : m <= k /\ u <= t /\ At(T, <<m, u>>) > 0
    BY <2>2, OuterImplied
  <2>5. PICK m \in 1 .. 4, u \in OuterTimes : m <= k /\ u <= t /\ At(T, <<m, u>>) > 0
    BY <2>3, <2>4
  <2>6. m <= l /\ m # l
    BY <2>5 DEF k
  <2>. QED  BY <2>5, <2>6
<1>. QED  BY <1>3, <1>4, <1>5

\* ... in the nested scope as well.
LEMMA InnerBehind ==
    ASSUME NEW T \in Batches(InnerPoints), NEW b \in Batches(InnerPoints), ~ Inner!must_send(T, b),
           NEW p \in InnerPoints, At(b, p) < 0
    PROVE  \E q \in InnerPoints : Leq(q, p) /\ At(T, q) > 0 /\ q # p
<1>1. p \in DOMAIN b /\ b[p] < 0
  BY BatchFacts DEF At
<1>2. ~ Inner!is_global(T, p)
  BY <1>1 DEF Inner!must_send
<1>3. p[1] \in 1 .. 4 /\ p[2] \in InnerTimes /\ p = <<p[1], p[2]>>
  BY InnerPointFacts
<1> DEFINE l == p[1]
           t == p[2]
<1>4. l \in 1 .. 4 /\ t \in InnerTimes /\ p = <<l, t>>
  BY <1>3
<1>5. \/ \E s \in Inner!Frontier(T, l) : Inner!less_than(s, t)
      \/ l > 1 /\ t \in Inner!Frontier(T, l - 1)
  BY <1>2 DEF Inner!is_global
<1> HIDE DEF l, t
<1>6. ASSUME NEW k \in 1 .. 4, NEW s \in Inner!Frontier(T, k)
      PROVE  /\ s \in InnerTimes
             /\ \E q \in InnerPoints : Leq(q, <<k, s>>) /\ At(T, q) > 0
  <2>1. s \in InnerTimes /\ Inner!Implied(T, k, s)
    BY <1>6 DEF Inner!Frontier, Inner!Least
  <2>2. Inner!Implied(T, k, s) <=> \E q \in InnerPoints : Leq(q, <<k, s>>) /\ At(T, q) > 0
    BY <2>1, InnerImplied
  <2>. QED  BY <2>1, <2>2
<1>7. CASE \E s \in Inner!Frontier(T, l) : Inner!less_than(s, t)
  <2>1. PICK s \in Inner!Frontier(T, l) : Inner!less_than(s, t)
    BY <1>7
  <2>2. s \in InnerTimes /\ \E q \in InnerPoints : Leq(q, <<l, s>>) /\ At(T, q) > 0
    BY <1>4, <1>6
  <2>3. s.outer <= t.outer /\ s.round <= t.round /\ s # t
    BY <1>4, <2>1, <2>2, InnerOrder DEF Inner!less_than
  <2>4. PICK q \in InnerPoints : Leq(q, <<l, s>>) /\ At(T, q) > 0
    BY <2>2
  <2>5. <<l, s>> \in InnerPoints /\ <<l, s>> # p /\ Leq(<<l, s>>, p)
    <3>1. <<l, s>> \in InnerPoints
      BY <1>4, <2>2, InnerPointFacts
    <3>2. <<l, s>> # <<l, t>>
      BY <2>3
    <3>3. Leq(<<l, s>>, <<l, t>>)
      BY <1>4, <2>3 DEF Leq
    <3>. QED  BY <1>4, <3>1, <3>2, <3>3
  <2>6. Leq(q, p) /\ q # p
    BY <2>4, <2>5, LeqFacts
  <2>. QED  BY <2>4, <2>6
<1>8. CASE l > 1 /\ t \in Inner!Frontier(T, l - 1)
  <2> DEFINE k == l - 1
  <2>1. k \in 1 .. 4 /\ t \in Inner!Frontier(T, k) /\ k <= l /\ k # l
    BY <1>4, <1>8
  <2> HIDE DEF k
  <2>2. PICK q \in InnerPoints : Leq(q, <<k, t>>) /\ At(T, q) > 0
    BY <1>6, <2>1
  <2>3. <<k, t>> \in InnerPoints /\ <<k, t>> # p /\ Leq(<<k, t>>, p)
    <3>1. <<k, t>> \in InnerPoints
      BY <1>4, <2>1, InnerPointFacts
    <3>2. <<k, t>> # <<l, t>>
      BY <2>1
    <3>3. Leq(<<k, t>>, <<l, t>>)
      <4>1. t.outer <= t.outer /\ t.round <= t.round
        BY <1>4, ConstantFacts
      <4>. QED  BY <2>1, <4>1 DEF Leq
    <3>. QED  BY <1>4, <3>1, <3>2, <3>3
  <2>4. Leq(q, p) /\ q # p
    BY <2>2, <2>3, LeqFacts, <1>4
  <2>. QED  BY <2>2, <2>4
<1>. QED  BY <1>5, <1>7, <1>8

\* The least of some times.
LEMMA FirstTime ==
    ASSUME NEW S \in SUBSET OuterTimes, S # {}
    PROVE  \E s \in S : \A t \in S : t <= s => t = s
<1>1. PICK s \in Outer!Least(S) : TRUE
  BY OuterLeast
<1>2. s \in S /\ \A t \in S : ~ Outer!less_than(t, s)
  BY <1>1 DEF Outer!Least
<1>3. \A t \in S : t <= s => t = s
  BY <1>2, OuterOrder
<1>. QED  BY <1>2, <1>3

-----------------------------------------------------------------------------
(* At rest.                                                                 *)

\* The rest that Quiet describes is such a state.
LEMMA QuietIsStill ==
    ASSUME NestedInv, Quiet
    PROVE  Still
<1>1. Typed /\ Gone /\ Made /\ Sent
  BY MadeHolds, SentHolds DEF NestedInv
<1> SUFFICES ASSUME NEW v \in Workers, NEW w \in Workers
             PROVE  /\ \A p : At(Coming(v, w), p) = At(inner[v], p)
                    /\ \A p : At(ComingO(v, w, 0), p) = At(local[v], p)
                    /\ \A p : At(final[v], p) = 0
  BY DEF Still
<1>2. /\ shared[v]["A"] = Outer!Nothing /\ shared[v]["B"] = Outer!Nothing /\ shared[v]["P"] = Inner!Nothing
      /\ final[v] = Outer!Nothing /\ mail[v][w] = <<>> /\ post[v][w] = <<>>
      /\ (v \in open => ~ Active(v, tracker[v]))
  BY DEF Quiet, NoChange, Children
<1>3. entering[v] = Inner!Nothing
  <2>1. CASE v \in open
    BY <1>2, <2>1 DEF Active
  <2>2. CASE v \notin open
    BY <1>1, <2>2 DEF Gone, GoneAt
  <2>. QED  BY <2>1, <2>2
<1>4. \A p : At(Inner!Nothing, p) = 0 /\ At(Outer!Nothing, p) = 0
  BY NothingFacts, OuterFacts
<1>5. ASSUME NEW p PROVE At(harvest_inputs(v), p) = 0
  <2>1. harvest_inputs(v) \in Batches(InnerPoints)
    BY <1>1, GenuineIn DEF Made
  <2>2. CASE p \notin InnerPoints
    BY <2>1, <2>2, BatchFacts
  <2>3. CASE p \in InnerPoints
    <3>1. p[1] \in 1 .. 4 /\ p[2] \in InnerTimes /\ p = <<p[1], p[2]>>
      BY <2>3, InnerPointFacts
    <3> DEFINE t == p[2]
               l == p[1]
    <3>2. l \in 1 .. 4 /\ t \in InnerTimes /\ p = <<l, t>>
      BY <3>1
    <3> HIDE DEF t, l
    <3>3. /\ At(harvest_inputs(v), <<Source, t>>) = - At(entering[v], <<Source, t>>)
          /\ At(harvest_inputs(v), <<PIn, t>>) = At(entering[v], <<Source, t>>)
          /\ At(harvest_inputs(v), <<POut, t>>) = 0 /\ At(harvest_inputs(v), <<Target, t>>) = 0
      BY <1>1, <3>2 DEF Made
    <3>4. At(entering[v], <<Source, t>>) = 0
      BY <1>3, <1>4
    <3>5. l = Source \/ l = PIn \/ l = POut \/ l = Target
      BY <3>2, PortFacts
    <3>. QED  BY <3>2, <3>3, <3>4, <3>5
  <2>. QED  BY <2>2, <2>3
<1>6. ASSUME NEW p PROVE At(Coming(v, w), p) = At(inner[v], p)
  <2>1. At(Coming(v, w), p) = At(Inner!Total(post[v][w]), p) + At(Mine(v), p)
    BY <1>1 DEF Sent
  <2>2. At(Mine(v), p) = At(inner[v], p) + (At(harvest_inputs(v), p) + At(shared[v]["P"], p))
    BY <1>1 DEF Made
  <2>3. At(Inner!Total(post[v][w]), p) = 0 /\ At(shared[v]["P"], p) = 0
    BY <1>2, <1>4, EmptyTotal
  <2>4. At(inner[v], p) \in Int
    <3>1. inner[v] \in Batches(InnerPoints)
      BY <1>1, GenuineIn DEF Typed
    <3>. QED  BY <3>1, BatchFacts
  <2>. QED  BY <1>5, <2>1, <2>2, <2>3, <2>4
<1>7. ASSUME NEW p PROVE At(ComingO(v, w, 0), p) = At(local[v], p)
  <2>1. Len(mail[v][w]) = 0 /\ 0 \in 0 .. Len(mail[v][w])
    BY <1>2
  <2>2. At(ComingO(v, w, 0), p) = At(Outer!Total(SubSeq(mail[v][w], 0 + 1, Len(mail[v][w]))), p) + At(MineO(v), p)
    BY <1>1, <2>1 DEF Sent
  <2>3. At(MineO(v), p) = At(local[v], p) + (At(shared[v]["A"], p) + At(shared[v]["B"], p))
    BY <1>1 DEF Made
  <2>4. SubSeq(mail[v][w], 0 + 1, Len(mail[v][w])) = <<>>
    BY <1>2, <2>1, SubSeqEmpty
  <2>5. Outer!Total(<<>>) = Outer!Nothing
    BY EmptyTotal, SameCounts
  <2>6. At(local[v], p) \in Int
    <3>1. local[v] \in Batches(OuterPoints)
      BY <1>1, HonestIn DEF Typed
    <3>. QED  BY <3>1, BatchFacts
  <2>7. At(shared[v]["A"], p) = 0 /\ At(shared[v]["B"], p) = 0
    BY <1>2, <1>4
  <2>8. At(Outer!Total(SubSeq(mail[v][w], 0 + 1, Len(mail[v][w]))), p) = 0
    BY <1>4, <2>4, <2>5
  <2>. QED  BY <2>2, <2>3, <2>6, <2>7, <2>8
<1>. QED  BY <1>2, <1>4, <1>6, <1>7

\* What all of them are still to hear of, then, is what is held back.
LEMMA BackFacts ==
    ASSUME Resting, NEW w \in Workers
    PROVE  /\ Back \in Batches(InnerPoints) /\ BackO \in Batches(OuterPoints)
           /\ AllComing(w) = Back /\ AllComingO(w, None) = BackO
           /\ \A v \in Workers : inner[v] \in Batches(InnerPoints) /\ local[v] \in Batches(OuterPoints)
           /\ \A p : At(Back, p) < 0 => \E v \in Workers : At(inner[v], p) < 0
           /\ \A p : At(BackO, p) < 0 => \E v \in Workers : At(local[v], p) < 0
           /\ \A t \in OuterTimes : At(BackO, <<In, t>>) >= 0
           /\ \A t \in InnerTimes : At(Back, <<Target, t>>) >= 0
<1>1. Typed /\ Still /\ Summed
  BY SummedHolds DEF Resting, NestedInv
<1>2. inner \in [Workers -> Genuine] /\ local \in [Workers -> Honest] /\ IsFiniteSet(Workers)
  BY <1>1, ConstantFacts DEF Typed
<1>3. inner \in [Workers -> Batches(InnerPoints)] /\ local \in [Workers -> Batches(OuterPoints)]
  BY <1>2, GenuineIn, HonestIn
<1>4. /\ Back \in Batches(InnerPoints) /\ BackO \in Batches(OuterPoints) /\ BackO = Inner!Total(local)
      /\ Back \in Genuine /\ BackO \in Honest
  <2>1. Back \in Genuine /\ BackO \in Honest
    BY <1>2, GenuineTotal, HonestTotal, SameCounts DEF Back, BackO
  <2>2. BackO = Inner!Total(local)
    BY SameCounts DEF BackO
  <2>. QED  BY <2>1, <2>2, GenuineIn, HonestIn
<1>5. AllComing(w) = Back
  <2> DEFINE f == [v \in Workers |-> Coming(v, w)]
  <2>1. f \in [Workers -> Batches(InnerPoints)] /\ AllComing(w) = Inner!Total(f) /\ AllComing(w) \in Batches(InnerPoints)
    BY <1>1, GenuineIn DEF Summed, AllComing
  <2>2. \A v \in Workers : \A p : At(f[v], p) = At(inner[v], p)
    BY <1>1 DEF Still
  <2> HIDE DEF f
  <2>3. ASSUME NEW p \in InnerPoints PROVE At(AllComing(w), p) = At(Back, p)
    <3>1. At(Inner!Total(f), p) = SumFunctionOnSet([i \in Workers |-> At(f[i], p)], Workers)
      BY <1>2, <2>1, TotalAt
    <3>2. At(Inner!Total(inner), p) = SumFunctionOnSet([i \in Workers |-> At(inner[i], p)], Workers)
      BY <1>2, <1>3, TotalAt
    <3>3. [i \in Workers |-> At(f[i], p)] = [i \in Workers |-> At(inner[i], p)]
      BY <2>2
    <3>. QED  BY <2>1, <3>1, <3>2, <3>3 DEF Back
  <2>. QED  BY <1>4, <2>1, <2>3, BatchEqual
<1>6. AllComingO(w, None) = BackO
  <2> DEFINE f == [v \in Workers |-> ComingO(v, w, None[v])]
  <2>0. None \in Prefixes(w)
    BY <1>1, NoneIn
  <2>1. f \in [Workers -> Batches(OuterPoints)] /\ AllComingO(w, None) = Inner!Total(f)
        /\ AllComingO(w, None) \in Batches(OuterPoints)
    BY <1>1, <2>0, HonestIn, SameCounts DEF Summed, AllComingO
  <2>2. \A v \in Workers : \A p : At(f[v], p) = At(local[v], p)
    BY <1>1 DEF Still, None
  <2> HIDE DEF f
  <2>3. ASSUME NEW p \in OuterPoints PROVE At(AllComingO(w, None), p) = At(BackO, p)
    <3>1. At(Inner!Total(f), p) = SumFunctionOnSet([i \in Workers |-> At(f[i], p)], Workers)
      BY <1>2, <2>1, TotalAt
    <3>2. At(Inner!Total(local), p) = SumFunctionOnSet([i \in Workers |-> At(local[i], p)], Workers)
      BY <1>2, <1>3, TotalAt
    <3>3. [i \in Workers |-> At(f[i], p)] = [i \in Workers |-> At(local[i], p)]
      BY <2>2
    <3>. QED  BY <1>4, <2>1, <3>1, <3>2, <3>3
  <2>. QED  BY <1>4, <2>1, <2>3, BatchEqual
<1>7. ASSUME NEW p, At(Back, p) < 0 PROVE \E v \in Workers : At(inner[v], p) < 0
  <2> SUFFICES ASSUME \A v \in Workers : ~ (At(inner[v], p) < 0) PROVE FALSE
    OBVIOUS
  <2>1. \A v \in Workers : At(inner[v], p) >= 0
    <3> TAKE v \in Workers
    <3>1. At(inner[v], p) \in Int
      BY <1>3, BatchFacts
    <3>. QED  BY <3>1
  <2>2. At(Inner!Total(inner), p) >= 0
    BY <1>2, <1>3, <2>1, TotalSigns
  <2>. QED  BY <1>4, <1>7, <2>2, BatchFacts DEF Back
<1>8. ASSUME NEW p, At(BackO, p) < 0 PROVE \E v \in Workers : At(local[v], p) < 0
  <2> SUFFICES ASSUME \A v \in Workers : ~ (At(local[v], p) < 0) PROVE FALSE
    OBVIOUS
  <2>1. \A v \in Workers : At(local[v], p) >= 0
    <3> TAKE v \in Workers
    <3>1. At(local[v], p) \in Int
      BY <1>3, BatchFacts
    <3>. QED  BY <3>1
  <2>2. At(Inner!Total(local), p) >= 0
    BY <1>2, <1>3, <2>1, TotalSigns
  <2>. QED  BY <1>4, <1>8, <2>2, BatchFacts
<1>9. /\ \A t \in OuterTimes : At(BackO, <<In, t>>) >= 0
      /\ \A t \in InnerTimes : At(Back, <<Target, t>>) >= 0
  BY <1>4 DEF Genuine, Honest
<1>. QED  BY <1>3, <1>4, <1>5, <1>6, <1>7, <1>8, <1>9

\* The balances, at rest.
LEMMA StillBalance ==
    ASSUME Resting, NEW w \in Workers
    PROVE  /\ \A t \in OuterTimes :
                /\ At(tracker[w], <<A, t>>) + At(BackO, <<A, t>>) = At(TruthO, <<A, t>>)
                /\ At(tracker[w], <<In, t>>) + At(BackO, <<In, t>>) + Across(Back, Source, t) = 0
                /\ At(tracker[w], <<B, t>>) + At(BackO, <<B, t>>) + Across(Back, Target, t) = At(TruthO, <<B, t>>)
                /\ At(tracker[w], <<Out, t>>) = IF t \in internals[w] THEN 1 ELSE 0
           /\ \A p \in Ports(InnerPoints, {PIn, POut}) : At(nested[w], p) + At(Back, p) = At(Truth, p)
           /\ tracker[w] \in Batches(OuterPoints) /\ nested[w] \in Batches(InnerPoints)
<1>1. /\ tracker[w] \in Batches(OuterPoints) /\ final[w] \in Batches(OuterPoints) /\ nested[w] \in Batches(InnerPoints)
      /\ Balance(w, Outer!Plus(tracker[w], final[w]), None)
      /\ \A p : At(final[w], p) = 0
  BY DEF Resting, NestedInv, Typed, OuterBalance, Still, None
<1>2. AllComing(w) = Back /\ AllComingO(w, None) = BackO
  BY BackFacts
<1>3. \A p : At(Outer!Plus(tracker[w], final[w]), p) = At(tracker[w], p)
  <2> TAKE p
  <2>1. At(Outer!Plus(tracker[w], final[w]), p) = At(tracker[w], p) + At(final[w], p) /\ At(tracker[w], p) \in Int
    BY <1>1, OuterFacts, BatchFacts
  <2>. QED  BY <1>1, <2>1
<1>4. \A p \in Ports(InnerPoints, {PIn, POut}) : At(nested[w], p) + At(Back, p) = At(Truth, p)
  BY <1>2 DEF Resting, NestedInv, InnerBalance
<1>. QED  BY <1>1, <1>2, <1>3, <1>4 DEF Balance

\* All workers know the same, of the nested scope's operators and of the outer scope.
LEMMA Agreed ==
    ASSUME Resting, NEW v \in Workers, NEW w \in Workers
    PROVE  /\ tracker[v] = tracker[w]
           /\ \A p \in Ports(InnerPoints, {PIn, POut}) : At(nested[v], p) = At(nested[w], p)
<1>1. nested[v] \in Batches(InnerPoints) /\ nested[w] \in Batches(InnerPoints)
      /\ tracker[v] \in Batches(OuterPoints) /\ tracker[w] \in Batches(OuterPoints)
  BY StillBalance
<1>2. \A p : /\ At(nested[v], p) \in Int /\ At(nested[w], p) \in Int /\ At(Back, p) \in Int
             /\ At(tracker[v], p) \in Int /\ At(tracker[w], p) \in Int /\ At(BackO, p) \in Int
  <2>1. Back \in Batches(InnerPoints) /\ BackO \in Batches(OuterPoints)
    BY BackFacts
  <2>. QED  BY <1>1, <2>1, BatchFacts
<1>3. \A p \in Ports(InnerPoints, {PIn, POut}) : At(nested[v], p) = At(nested[w], p)
  <2> TAKE p \in Ports(InnerPoints, {PIn, POut})
  <2>1. At(nested[v], p) + At(Back, p) = At(Truth, p) /\ At(nested[w], p) + At(Back, p) = At(Truth, p)
    BY StillBalance
  <2>2. At(nested[v], p) \in Int /\ At(nested[w], p) \in Int /\ At(Back, p) \in Int
    BY <1>2
  <2> DEFINE a == At(nested[v], p)
             b == At(nested[w], p)
             c == At(Back, p)
             d == At(Truth, p)
  <2>3. a + c = d /\ b + c = d /\ a \in Int /\ b \in Int /\ c \in Int
    BY <2>1, <2>2
  <2> HIDE DEF a, b, c, d
  <2>4. a = b
    BY <2>3
  <2>. QED  BY <2>4 DEF a, b
<1>4. internals[v] = internals[w]
  <2>1. Own(nested[v]) = Own(nested[w])
    <3>1. /\ Own(nested[v]) \in Batches(InnerPoints) /\ Own(nested[w]) \in Batches(InnerPoints)
          /\ \A p : At(Own(nested[v]), p) = IF p[1] \in {PIn, POut} THEN At(nested[v], p) ELSE 0
          /\ \A p : At(Own(nested[w]), p) = IF p[1] \in {PIn, POut} THEN At(nested[w], p) ELSE 0
      BY <1>1, RestrictedFacts DEF Own
    <3>2. \A p \in InnerPoints : At(Own(nested[v]), p) = At(Own(nested[w]), p)
      BY <1>3, <3>1 DEF Ports
    <3>. QED  BY <3>1, <3>2, BatchEqual
  <2>2. internals[v] = pushed_output(nested[v]) /\ internals[w] = pushed_output(nested[w])
    BY DEF Resting, KeptInv, KeptAt
  <2>. QED  BY <2>1, <2>2 DEF pushed_output
<1>5. ASSUME NEW p \in OuterPoints PROVE At(tracker[v], p) = At(tracker[w], p)
  <2> DEFINE l == p[1]
             t == p[2]
  <2>1. l \in 1 .. 4 /\ t \in OuterTimes /\ p = <<l, t>>
    BY OuterPointFacts
  <2> HIDE DEF l, t
  <2>2. Across(Back, Source, t) \in Int /\ Across(Back, Target, t) \in Int
    <3>1. Back \in Batches(InnerPoints) /\ Source \in 1 .. 4 /\ Target \in 1 .. 4
      BY BackFacts, PortFacts
    <3>. QED  BY <2>1, <3>1, AcrossFacts
  <2>3. l = A \/ l = In \/ l = Out \/ l = B
    BY <2>1, PortFacts
  <2>4. CASE l = A
    <3>1. /\ At(tracker[v], <<A, t>>) + At(BackO, <<A, t>>) = At(TruthO, <<A, t>>)
          /\ At(tracker[w], <<A, t>>) + At(BackO, <<A, t>>) = At(TruthO, <<A, t>>)
      BY <2>1, StillBalance
    <3>. QED  BY <1>2, <2>1, <2>4, <3>1
  <2>5. CASE l = In
    <3>1. /\ At(tracker[v], <<In, t>>) + At(BackO, <<In, t>>) + Across(Back, Source, t) = 0
          /\ At(tracker[w], <<In, t>>) + At(BackO, <<In, t>>) + Across(Back, Source, t) = 0
      BY <2>1, StillBalance
    <3> DEFINE a == At(tracker[v], <<In, t>>)
               b == At(tracker[w], <<In, t>>)
               c == At(BackO, <<In, t>>)
               d == Across(Back, Source, t)
    <3>2. a + c + d = 0 /\ b + c + d = 0 /\ a \in Int /\ b \in Int /\ c \in Int /\ d \in Int
      BY <1>2, <2>2, <3>1
    <3> HIDE DEF a, b, c, d
    <3>3. a = b
      BY <3>2
    <3>. QED  BY <2>1, <2>5, <3>3 DEF a, b
  <2>6. CASE l = Out
    <3>1. /\ At(tracker[v], <<Out, t>>) = IF t \in internals[v] THEN 1 ELSE 0
          /\ At(tracker[w], <<Out, t>>) = IF t \in internals[w] THEN 1 ELSE 0
      BY <2>1, StillBalance
    <3>. QED  BY <1>4, <2>1, <2>6, <3>1
  <2>7. CASE l = B
    <3>1. /\ At(tracker[v], <<B, t>>) + At(BackO, <<B, t>>) + Across(Back, Target, t) = At(TruthO, <<B, t>>)
          /\ At(tracker[w], <<B, t>>) + At(BackO, <<B, t>>) + Across(Back, Target, t) = At(TruthO, <<B, t>>)
      BY <2>1, StillBalance
    <3>. QED  BY <1>2, <2>1, <2>2, <2>7, <3>1
  <2>. QED  BY <2>3, <2>4, <2>5, <2>6, <2>7
<1>. QED  BY <1>1, <1>3, <1>5, BatchEqual

\* Without capabilities of A, no worker counts any.
LEMMA NoneAtA ==
    ASSUME Resting, NEW t \in OuterTimes, NoCap(t), NEW w \in Workers, NEW s \in OuterTimes, s <= t
    PROVE  ~ At(tracker[w], <<A, s>>) > 0
<1> DEFINE S == {u \in OuterTimes : u <= t /\ At(tracker[w], <<A, u>>) > 0}
<1> SUFFICES ASSUME S # {} PROVE FALSE
  OBVIOUS
<1>1. PICK u \in S : \A r \in S : r <= u => r = u
  BY FirstTime
<1>2. u \in OuterTimes /\ u <= t /\ At(tracker[w], <<A, u>>) > 0
  BY <1>1
<1>3. At(TruthO, <<A, u>>) = 0
  <2>1. Typed /\ Summed
    BY SummedHolds DEF Resting, NestedInv
  <2>2. alive \in [Workers -> Batches(OuterPoints)] /\ IsFiniteSet(Workers)
    BY <2>1, ConstantFacts DEF Summed
  <2>3. \A v \in Workers : At(alive[v], <<A, u>>) = 0
    BY <1>2 DEF NoCap, cap
  <2>4. At(Inner!Total(alive), <<A, u>>) = 0
    BY <2>2, <2>3, TotalSigns
  <2>. QED  BY <2>4, SameCounts DEF TruthO
<1>4. At(BackO, <<A, u>>) < 0
  <2>1. At(tracker[w], <<A, u>>) + At(BackO, <<A, u>>) = At(TruthO, <<A, u>>)
    BY <1>2, StillBalance
  <2>2. BackO \in Batches(OuterPoints) /\ tracker[w] \in Batches(OuterPoints)
    BY BackFacts, StillBalance
  <2>3. At(BackO, <<A, u>>) \in Int /\ At(tracker[w], <<A, u>>) \in Int
    BY <2>2, BatchFacts
  <2>. QED  BY <1>2, <1>3, <2>1, <2>3
<1>5. PICK v \in Workers : At(local[v], <<A, u>>) < 0
  BY <1>4, BackFacts
<1>6. local[v] \in Batches(OuterPoints) /\ tracker[w] \in Batches(OuterPoints) /\ tracker[v] = tracker[w]
      /\ ~ Outer!must_send(tracker[w], local[v]) /\ A \in 1 .. 4 /\ A = 1
  <2>1. tracker[v] = tracker[w] /\ ~ Outer!must_send(tracker[v], local[v])
    BY Agreed DEF Resting, KeptInv, KeptAt
  <2>. QED  BY <2>1, BackFacts, StillBalance, PortFacts
<1>7. PICK m \in 1 .. 4, r \in OuterTimes : m <= A /\ r <= u /\ At(tracker[w], <<m, r>>) > 0 /\ (m # A \/ r # u)
  <2> DEFINE T == tracker[w]
             b == local[v]
  <2>1. T \in Batches(OuterPoints) /\ b \in Batches(OuterPoints) /\ ~ Outer!must_send(T, b) /\ At(b, <<A, u>>) < 0
        /\ A \in 1 .. 4 /\ u \in OuterTimes
    BY <1>2, <1>5, <1>6
  <2> HIDE DEF T, b
  <2>2. \E m \in 1 .. 4 : \E r \in OuterTimes : m <= A /\ r <= u /\ At(T, <<m, r>>) > 0 /\ (m # A \/ r # u)
    BY <2>1, OuterBehind
  <2>. QED  BY <2>2 DEF T
<1>8. m = A /\ r # u
  BY <1>6, <1>7
<1>9. r <= t
  <2>1. r \in Nat /\ u \in Nat /\ t \in Nat
    BY <1>2, ConstantFacts
  <2>. QED  BY <1>2, <1>7, <2>1
<1>10. r \in S
  BY <1>7, <1>8, <1>9
<1>. QED  BY <1>1, <1>7, <1>8, <1>10

\* What a nested scope accepts is what is implied outside.
LEMMA SourceOpen ==
    ASSUME Resting, NEW v \in open, NEW p \in InnerPoints, p[1] = Source, At(nested[v], p) > 0
    PROVE  p = <<Source, to_inner(p[2].outer)>> /\ p[2].outer \in OuterTimes /\ Outer!Implied(tracker[v], In, p[2].outer)
<1> DEFINE s == p[2].outer
<1>1. v \in Workers /\ Accepts
  BY DEF Resting, NestedInv, Typed
<1>2. s \in OuterTimes /\ p \in Line(Source, s) /\ s <= s
  <2>1. p[2] \in InnerTimes
    BY InnerPointFacts
  <2>2. s \in OuterTimes
    BY <2>1, ConstantFacts
  <2>3. s <= s
    <3>1. s \in Nat
      BY <2>2, ConstantFacts
    <3>. QED  BY <3>1
  <2>. QED  BY <2>2, <2>3 DEF Line
<1> HIDE DEF s
<1>3. p = <<Source, to_inner(s)>>
  BY <1>1, <1>2 DEF Accepts
<1>4. Acc(v, s)
  BY <1>2, <1>3 DEF Acc
<1>5. Outer!Implied(tracker[v], In, s)
  BY <1>1, <1>2, <1>4 DEF Accepts
<1>. QED  BY <1>2, <1>3, <1>5 DEF s

\* What is held back in a nested scope is held back by one that is not shut down.
LEMMA BackOpen ==
    ASSUME Resting, NEW v \in Workers, NEW p, At(inner[v], p) < 0
    PROVE  v \in open
<1>1. Typed /\ Gone
  BY DEF Resting, NestedInv
<1>2. ASSUME v \notin open PROVE FALSE
  <2>1. inner[v] = Inner!Nothing
    BY <1>1, <1>2 DEF Gone, GoneAt
  <2>2. At(inner[v], p) = 0
    BY <2>1, NothingFacts
  <2>. QED  BY <2>2
<1>. QED  BY <1>2

\* ... nor does any wait for messages that enter.
LEMMA NoneAtIn ==
    ASSUME Resting, NEW t \in OuterTimes, NoCap(t), NEW w \in Workers, NEW s \in OuterTimes, s <= t
    PROVE  ~ Outer!Implied(tracker[w], In, s)
<1> DEFINE S == {u \in OuterTimes : u <= t /\ At(tracker[w], <<In, u>>) > 0}
<1>1. tracker[w] \in Batches(OuterPoints) /\ BackO \in Batches(OuterPoints) /\ Back \in Batches(InnerPoints)
  BY BackFacts, StillBalance
<1>2. In \in 1 .. 4 /\ In = 2 /\ A = 1 /\ Source \in 1 .. 4 /\ Source = 1
  BY PortFacts
<1>3. ASSUME NEW u \in OuterTimes, u <= t, Outer!Implied(tracker[w], In, u)
      PROVE  \E r \in S : r <= u
  <2>1. Outer!Implied(tracker[w], In, u) <=>
            \E m \in 1 .. 4 : \E r \in OuterTimes : m <= In /\ r <= u /\ At(tracker[w], <<m, r>>) > 0
    BY <1>1, <1>2, OuterImplied
  <2>2. PICK m \in 1 .. 4, r \in OuterTimes : m <= In /\ r <= u /\ At(tracker[w], <<m, r>>) > 0
    BY <1>3, <2>1
  <2>3. r <= t
    <3>1. r \in Nat /\ u \in Nat /\ t \in Nat
      BY ConstantFacts
    <3>. QED  BY <1>3, <2>2, <3>1
  <2>4. m = A \/ m = In
    BY <1>2, <2>2
  <2>5. m # A
    BY <2>2, <2>3, NoneAtA
  <2>. QED  BY <2>2, <2>3, <2>4, <2>5
<1>4. ASSUME S # {} PROVE FALSE
  <2>1. PICK u \in S : \A r \in S : r <= u => r = u
    BY <1>4, FirstTime
  <2>2. u \in OuterTimes /\ u <= t /\ At(tracker[w], <<In, u>>) > 0
    BY <2>1
  <2>3. Across(Back, Source, u) < 0
    <3>1. At(tracker[w], <<In, u>>) + At(BackO, <<In, u>>) + Across(Back, Source, u) = 0
      BY <2>2, StillBalance
    <3>2. At(BackO, <<In, u>>) >= 0 /\ At(BackO, <<In, u>>) \in Int /\ At(tracker[w], <<In, u>>) \in Int
      BY <1>1, <2>2, BackFacts, BatchFacts
    <3>3. Across(Back, Source, u) \in Int
      BY <1>1, <1>2, <2>2, AcrossFacts
    <3>. QED  BY <2>2, <3>1, <3>2, <3>3
  <2>4. PICK p \in Line(Source, u) : At(Back, p) < 0
    BY <1>1, <1>2, <2>2, <2>3, AcrossFacts
  <2>5. PICK v \in Workers : At(inner[v], p) < 0
    BY <2>4, BackFacts
  <2>6. v \in open
    BY <2>5, BackOpen
  <2>7. p \in InnerPoints /\ p[1] = Source /\ p[2] \in InnerTimes /\ p[2].outer = u /\ p = <<Source, p[2]>>
    <3>1. p \in InnerPoints /\ p[1] = Source /\ p[2].outer = u
      BY DEF Line
    <3>2. p = <<p[1], p[2]>> /\ p[2] \in InnerTimes
      BY <3>1, InnerPointFacts
    <3>. QED  BY <3>1, <3>2
  <2>8. p[2].round = 0
    <3>1. FirstRound(inner[v])
      BY DEF Resting, KeptInv, KeptAt
    <3>. QED  BY <2>5, <2>7, <3>1 DEF FirstRound
  <2>9. inner[v] \in Batches(InnerPoints) /\ nested[v] \in Batches(InnerPoints) /\ ~ Inner!must_send(nested[v], inner[v])
    BY BackFacts, StillBalance DEF Resting, KeptInv, KeptAt
  <2>10. PICK q \in InnerPoints : Leq(q, p) /\ At(nested[v], q) > 0 /\ q # p
    BY <2>5, <2>7, <2>9, InnerBehind
  <2>11. q[1] = Source
    <3>1. q[1] \in 1 .. 4 /\ q[1] <= p[1]
      BY <2>10, InnerPointFacts DEF Leq
    <3>. QED  BY <1>2, <2>7, <3>1
  <2> DEFINE r == q[2].outer
  <2>12. q = <<Source, to_inner(r)>> /\ r \in OuterTimes /\ Outer!Implied(tracker[v], In, r)
    BY <2>6, <2>10, <2>11, SourceOpen
  <2>13. r <= u
    BY <2>7, <2>10 DEF Leq
  <2>14. r # u
    <3> SUFFICES ASSUME r = u PROVE FALSE
      OBVIOUS
    <3>1. q = <<Source, to_inner(u)>>
      BY <2>12
    <3>2. p[2] = to_inner(u)
      <4>1. p[2] = [outer |-> p[2].outer, round |-> p[2].round]
        BY <2>7 DEF InnerTimes
      <4>. QED  BY <2>7, <2>8, <4>1 DEF to_inner
    <3>. QED  BY <2>7, <2>10, <3>1, <3>2
  <2> HIDE DEF r
  <2>15. r <= t
    <3>1. r \in Nat /\ u \in Nat /\ t \in Nat
      BY <2>2, <2>12, ConstantFacts
    <3>. QED  BY <2>2, <2>13, <3>1
  <2>16. tracker[v] = tracker[w]
    BY Agreed
  <2>17. PICK x \in S : x <= r
    BY <1>3, <2>12, <2>15, <2>16
  <2>18. x <= u /\ x # u
    <3>1. r \in Nat /\ u \in Nat /\ x \in Nat
      BY <2>2, <2>12, ConstantFacts
    <3>. QED  BY <2>13, <2>14, <2>17, <3>1
  <2>. QED  BY <2>1, <2>17, <2>18
<1> HIDE DEF S
<1>. QED  BY <1>3, <1>4

\* Where neither capabilities of A nor anything inside can be, nothing is counted inside.
LEMMA NoneWithin ==
    ASSUME Resting, NEW t \in OuterTimes, NoCap(t), NEW D, Early(D, t), NEW w \in Workers, NEW p \in D
    PROVE  p[1] # Source \/ w \in open => ~ At(nested[w], p) > 0
<1>1. D \subseteq InnerPoints /\ nested[w] \in Batches(InnerPoints) /\ Back \in Batches(InnerPoints)
  BY StillBalance, BackFacts DEF Early, Closed
<1>2. ASSUME NEW v \in open, NEW q \in D, q[1] = Source, At(nested[v], q) > 0 PROVE FALSE
  <2>1. v \in Workers
    BY DEF Resting, NestedInv, Typed
  <2>2. q[2].outer \in OuterTimes /\ Outer!Implied(tracker[v], In, q[2].outer)
    BY <1>1, <1>2, SourceOpen
  <2>3. q[2].outer <= t
    BY DEF Early
  <2>. QED  BY <2>1, <2>2, <2>3, NoneAtIn
<1> DEFINE S == {q \in D : q[1] \in {PIn, POut} /\ At(nested[w], q) > 0}
<1>3. ASSUME S # {} PROVE FALSE
  <2>1. S \in SUBSET InnerPoints
    BY <1>1
  <2>2. PICK q \in S : \A r \in S : Leq(r, q) => r = q
    BY <1>3, <2>1, FirstPoint
  <2>3. q \in D /\ q \in InnerPoints /\ q \in Ports(InnerPoints, {PIn, POut}) /\ At(nested[w], q) > 0
    BY <1>1, <2>2 DEF Ports
  <2>4. At(Truth, q) = 0
    <3>1. Typed /\ Summed
      BY SummedHolds DEF Resting, NestedInv
    <3>2. within \in [Workers -> Batches(InnerPoints)] /\ IsFiniteSet(Workers)
      BY <3>1, ConstantFacts DEF Summed
    <3>3. \A v \in Workers : At(within[v], q) = 0
      BY <2>3 DEF Early
    <3>. QED  BY <3>2, <3>3, TotalSigns DEF Truth
  <2>5. At(Back, q) < 0
    <3>1. At(nested[w], q) + At(Back, q) = At(Truth, q)
      BY <2>3, StillBalance
    <3>2. At(nested[w], q) \in Int /\ At(Back, q) \in Int
      BY <1>1, BatchFacts
    <3>. QED  BY <2>3, <2>4, <3>1, <3>2
  <2>6. PICK v \in Workers : At(inner[v], q) < 0
    BY <2>5, BackFacts
  <2>7. v \in open
    BY <2>6, BackOpen
  <2>8. inner[v] \in Batches(InnerPoints) /\ nested[v] \in Batches(InnerPoints) /\ ~ Inner!must_send(nested[v], inner[v])
    BY BackFacts, StillBalance DEF Resting, KeptInv, KeptAt
  <2>9. PICK r \in InnerPoints : Leq(r, q) /\ At(nested[v], r) > 0 /\ r # q
    BY <2>3, <2>6, <2>8, InnerBehind
  <2>10. r \in D
    BY <2>3, <2>9 DEF Early, Closed
  <2>11. r[1] # Source
    BY <1>2, <2>7, <2>9, <2>10
  <2>12. r[1] \in {PIn, POut}
    <3>1. r[1] \in 1 .. 4 /\ r[1] # Target
      BY <2>9, <2>10, InnerPointFacts DEF Early
    <3>. QED  BY <2>11, <3>1, PortFacts
  <2>13. At(nested[v], r) = At(nested[w], r)
    <3>1. r \in Ports(InnerPoints, {PIn, POut})
      BY <2>9, <2>12 DEF Ports
    <3>. QED  BY <3>1, Agreed
  <2>14. r \in S
    BY <2>9, <2>10, <2>12, <2>13
  <2>. QED  BY <2>2, <2>9, <2>14
<1>4. p[1] \in {Source, PIn, POut}
  <2>1. p[1] \in 1 .. 4 /\ p[1] # Target
    BY <1>1, InnerPointFacts DEF Early
  <2>. QED  BY <2>1, PortFacts
<1>5. CASE p[1] = Source
  BY <1>2, <1>5
<1>6. CASE p[1] # Source
  BY <1>3, <1>4, <1>6
<1>. QED  BY <1>5, <1>6

\* ... is such a set.
LEMMA BeforeEarly ==
    ASSUME NEW t \in OuterTimes, NoneInside(t)
    PROVE  Early(Before(t), t)
<1>1. ASSUME NEW p \in Before(t), NEW q \in InnerPoints, Leq(q, p) PROVE q \in Before(t)
  <2>1. p \in InnerPoints /\ p[1] # Target /\ p[2].outer <= t
    BY DEF Before
  <2>2. p[1] \in 1 .. 4 /\ q[1] \in 1 .. 4 /\ q[1] <= p[1] /\ Target = 4
    BY <1>1, <2>1, InnerPointFacts, PortFacts DEF Leq
  <2>3. q[1] # Target
    BY <2>1, <2>2
  <2>4. q[2].outer <= p[2].outer /\ q[2].outer \in Nat /\ p[2].outer \in Nat /\ t \in Nat
    BY <1>1, <2>1, InnerPointFacts, ConstantFacts DEF Leq
  <2>5. q[2].outer <= t
    BY <2>1, <2>4
  <2>. QED  BY <2>3, <2>5 DEF Before
<1>2. Closed(Before(t))
  BY <1>1 DEF Closed, Before
<1>. QED  BY <1>2 DEF Early, Before, NoneInside

\* Then the nested scope has no capability that the outer one would count.
LEMMA NoneAtOut ==
    ASSUME Resting, NEW t \in OuterTimes, NoCap(t), NoneInside(t), NEW w \in Workers, NEW s \in OuterTimes, s <= t
    PROVE  ~ Outer!Implied(tracker[w], Out, s)
<1>1. tracker[w] \in Batches(OuterPoints) /\ nested[w] \in Batches(InnerPoints)
  BY StillBalance
<1>2. Out \in 1 .. 4 /\ Out = 3 /\ In \in 1 .. 4 /\ In = 2
  BY PortFacts
<1>3. ASSUME NEW r \in OuterTimes, r <= t, At(tracker[w], <<Out, r>>) > 0 PROVE FALSE
  <2>1. r \in internals[w]
    <3>1. At(tracker[w], <<Out, r>>) = IF r \in internals[w] THEN 1 ELSE 0
      BY StillBalance
    <3>. QED  BY <1>3, <3>1
  <2>2. internals[w] = pushed_output(nested[w])
    BY DEF Resting, KeptInv, KeptAt
  <2>3. PICK p \in Ports(InnerPoints, {PIn, POut}) : At(nested[w], p) > 0 /\ p[2].outer = r
    BY <1>1, <2>1, <2>2, PushedFacts
  <2>4. p \in InnerPoints /\ p[1] # Target /\ p[1] # Source
    BY PortFacts DEF Ports
  <2>5. p \in Before(t)
    BY <1>3, <2>3, <2>4 DEF Before
  <2>. QED  BY <2>3, <2>4, <2>5, BeforeEarly, NoneWithin
<1>4. ASSUME Outer!Implied(tracker[w], Out, s) PROVE FALSE
  <2>1. Outer!Implied(tracker[w], Out, s) <=>
            \E m \in 1 .. 4 : \E r \in OuterTimes : m <= Out /\ r <= s /\ At(tracker[w], <<m, r>>) > 0
    BY <1>1, <1>2, OuterImplied
  <2>2. PICK m \in 1 .. 4, r \in OuterTimes : m <= Out /\ r <= s /\ At(tracker[w], <<m, r>>) > 0
    BY <1>4, <2>1
  <2>3. r <= t /\ r <= r
    <3>1. r \in Nat /\ s \in Nat /\ t \in Nat
      BY ConstantFacts
    <3>. QED  BY <2>2, <3>1
  <2>4. m # Out
    BY <1>3, <2>2, <2>3
  <2>5. m <= In
    BY <1>2, <2>2, <2>4
  <2>6. Outer!Implied(tracker[w], In, r) <=>
            \E n \in 1 .. 4 : \E u \in OuterTimes : n <= In /\ u <= r /\ At(tracker[w], <<n, u>>) > 0
    BY <1>1, <1>2, OuterImplied
  <2>7. Outer!Implied(tracker[w], In, r)
    BY <2>2, <2>3, <2>5, <2>6
  <2>. QED  BY <2>3, <2>7, NoneAtIn
<1>. QED  BY <1>4

\* ... and B waits for nothing but its own messages.
LEMMA NoneAtB ==
    ASSUME Resting, NEW t \in OuterTimes, NoCap(t), NoneInside(t),
           \A v \in Workers : \A s \in OuterTimes : s <= t => At(alive[v], <<B, s>>) = 0,
           NEW w \in Workers, NEW s \in OuterTimes, s <= t
    PROVE  ~ Outer!Implied(tracker[w], B, s)
<1>1. tracker[w] \in Batches(OuterPoints) /\ BackO \in Batches(OuterPoints) /\ Back \in Batches(InnerPoints)
  BY BackFacts, StillBalance
<1>2. B \in 1 .. 4 /\ B = 4 /\ Out \in 1 .. 4 /\ Out = 3 /\ Target \in 1 .. 4
  BY PortFacts
<1>3. ASSUME NEW m \in 1 .. 4, NEW r \in OuterTimes, r <= t, At(tracker[w], <<m, r>>) > 0, m # B PROVE FALSE
  <2>1. m <= Out /\ r <= r
    <3>1. m <= Out
      BY <1>2, <1>3
    <3>2. r \in Nat
      BY ConstantFacts
    <3>. QED  BY <3>1, <3>2
  <2>2. Outer!Implied(tracker[w], Out, r) <=>
            \E n \in 1 .. 4 : \E u \in OuterTimes : n <= Out /\ u <= r /\ At(tracker[w], <<n, u>>) > 0
    BY <1>1, <1>2, OuterImplied
  <2>3. Outer!Implied(tracker[w], Out, r)
    BY <1>3, <2>1, <2>2
  <2>. QED  BY <1>3, <2>3, NoneAtOut
<1> DEFINE S == {u \in OuterTimes : u <= t /\ At(tracker[w], <<B, u>>) > 0}
<1>4. ASSUME S # {} PROVE FALSE
  <2>1. PICK u \in S : \A r \in S : r <= u => r = u
    BY <1>4, FirstTime
  <2>2. u \in OuterTimes /\ u <= t /\ At(tracker[w], <<B, u>>) > 0
    BY <2>1
  <2>3. At(TruthO, <<B, u>>) = 0
    <3>1. Typed /\ Summed
      BY SummedHolds DEF Resting, NestedInv
    <3>2. alive \in [Workers -> Batches(OuterPoints)] /\ IsFiniteSet(Workers)
      BY <3>1, ConstantFacts DEF Summed
    <3>3. \A v \in Workers : At(alive[v], <<B, u>>) = 0
      BY <2>2
    <3>4. At(Inner!Total(alive), <<B, u>>) = 0
      BY <3>2, <3>3, TotalSigns
    <3>. QED  BY <3>4, SameCounts DEF TruthO
  <2>4. At(BackO, <<B, u>>) < 0
    <3>1. At(tracker[w], <<B, u>>) + At(BackO, <<B, u>>) + Across(Back, Target, u) = At(TruthO, <<B, u>>)
      BY <2>2, StillBalance
    <3>2. At(BackO, <<B, u>>) \in Int /\ At(tracker[w], <<B, u>>) \in Int
      BY <1>1, BatchFacts
    <3>3. Across(Back, Target, u) >= 0 /\ Across(Back, Target, u) \in Int
      <4>1. ASSUME NEW q \in Line(Target, u) PROVE At(Back, q) >= 0
        <5>1. q = <<Target, q[2]>> /\ q[2] \in InnerTimes
          BY <1>2, <2>2, LineFacts
        <5>2. At(Back, <<Target, q[2]>>) >= 0
          BY <5>1, BackFacts
        <5>. QED  BY <5>1, <5>2
      <4>. QED  BY <1>1, <1>2, <2>2, <4>1, AcrossFacts
    <3>. QED  BY <2>2, <2>3, <3>1, <3>2, <3>3
  <2>5. PICK v \in Workers : At(local[v], <<B, u>>) < 0
    BY <2>4, BackFacts
  <2>6. tracker[v] = tracker[w] /\ ~ Outer!must_send(tracker[v], local[v])
    BY Agreed DEF Resting, KeptInv, KeptAt
  <2>7. PICK m \in 1 .. 4, r \in OuterTimes : m <= B /\ r <= u /\ At(tracker[w], <<m, r>>) > 0 /\ (m # B \/ r # u)
    <3> DEFINE T == tracker[w]
               b == local[v]
    <3>1. T \in Batches(OuterPoints) /\ b \in Batches(OuterPoints) /\ ~ Outer!must_send(T, b) /\ At(b, <<B, u>>) < 0
          /\ B \in 1 .. 4 /\ u \in OuterTimes
      BY <1>1, <1>2, <2>2, <2>5, <2>6, BackFacts
    <3> HIDE DEF T, b
    <3>2. \E m \in 1 .. 4 : \E r \in OuterTimes : m <= B /\ r <= u /\ At(T, <<m, r>>) > 0 /\ (m # B \/ r # u)
      BY <3>1, OuterBehind
    <3>. QED  BY <3>2 DEF T
  <2>8. r <= t
    <3>1. r \in Nat /\ u \in Nat /\ t \in Nat
      BY <2>2, ConstantFacts
    <3>. QED  BY <2>2, <2>7, <3>1
  <2>9. m = B
    BY <1>3, <2>7, <2>8
  <2>. QED  BY <2>1, <2>7, <2>8, <2>9
<1>5. ASSUME Outer!Implied(tracker[w], B, s) PROVE FALSE
  <2>1. Outer!Implied(tracker[w], B, s) <=>
            \E m \in 1 .. 4 : \E r \in OuterTimes : m <= B /\ r <= s /\ At(tracker[w], <<m, r>>) > 0
    BY <1>1, <1>2, OuterImplied
  <2>2. PICK m \in 1 .. 4, r \in OuterTimes : m <= B /\ r <= s /\ At(tracker[w], <<m, r>>) > 0
    BY <1>5, <2>1
  <2>3. r <= t
    <3>1. r \in Nat /\ s \in Nat /\ t \in Nat
      BY ConstantFacts
    <3>. QED  BY <2>2, <3>1
  <2>4. m = B
    BY <1>3, <2>2, <2>3
  <2>5. r \in S
    BY <2>2, <2>3, <2>4
  <2>. QED  BY <1>4, <2>5
<1>. QED  BY <1>5

\* At rest, what B's input waits for is alive.
LEMMA RestOuter ==
    ASSUME Resting, NEW w \in Workers, NEW t \in OuterTimes, Outer!Implied(tracker[w], B, t)
    PROVE  \E v \in Workers : \/ \E p \in DOMAIN alive[v] : p[2] <= t
                              \/ \E p \in DOMAIN within[v] : to_outer(p[2]) <= t
<1> SUFFICES ASSUME \A v \in Workers : /\ \A p \in DOMAIN alive[v] : ~ (p[2] <= t)
                                       /\ \A p \in DOMAIN within[v] : ~ (to_outer(p[2]) <= t)
             PROVE  FALSE
  OBVIOUS
<1>1. ASSUME NEW v \in Workers, NEW l, NEW s \in OuterTimes, s <= t PROVE At(alive[v], <<l, s>>) = 0
  <2>1. <<l, s>> \notin DOMAIN alive[v]
    BY <1>1
  <2>. QED  BY <2>1 DEF At
<1>2. NoCap(t)
  BY <1>1 DEF NoCap, cap
<1>3. NoneInside(t)
  BY DEF NoneInside, At, to_outer
<1>4. t <= t
  BY ConstantFacts
<1>. QED  BY <1>1, <1>2, <1>3, <1>4, NoneAtB

\* At rest, so is what P's input waits for.
LEMMA RestInner ==
    ASSUME Resting, NEW w \in open, NEW t \in InnerTimes, Inner!Implied(nested[w], PIn, t)
    PROVE  \E v \in Workers :
               \/ \E p \in DOMAIN alive[v] : p[1] = A /\ Inner!less_equal(to_inner(p[2]), t)
               \/ \E p \in DOMAIN within[v] : p[1] = PIn /\ Inner!less_equal(p[2], t)
<1> SUFFICES ASSUME \A v \in Workers :
                       /\ \A p \in DOMAIN alive[v] : ~ (p[1] = A /\ Inner!less_equal(to_inner(p[2]), t))
                       /\ \A p \in DOMAIN within[v] : ~ (p[1] = PIn /\ Inner!less_equal(p[2], t))
             PROVE  FALSE
  OBVIOUS
<1> DEFINE s0 == t.outer
           D == {p \in InnerPoints : p[1] \in {Source, PIn} /\ p[2].outer <= t.outer /\ p[2].round <= t.round}
<1>1. w \in Workers /\ nested[w] \in Batches(InnerPoints) /\ Typed
  BY StillBalance DEF Resting, NestedInv, Typed
<1>2. s0 \in OuterTimes /\ t.outer \in Nat /\ t.round \in Nat
  BY ConstantFacts
<1>3. NoCap(s0)
  <2> SUFFICES ASSUME NEW v \in Workers, NEW s \in OuterTimes, s <= s0, cap(v, s) # 0 PROVE FALSE
    BY DEF NoCap
  <2>1. <<A, s>> \in DOMAIN alive[v]
    BY DEF cap, At
  <2>2. to_inner(s) \in InnerTimes /\ to_inner(s).outer = s /\ to_inner(s).round = 0
    BY ConstantFacts DEF to_inner
  <2>3. Inner!less_equal(to_inner(s), t)
    <3>1. Inner!less_equal(to_inner(s), t) <=> to_inner(s).outer <= t.outer /\ to_inner(s).round <= t.round
      BY <2>2, InnerOrder
    <3>. QED  BY <1>2, <2>2, <3>1
  <2>4. <<A, s>>[1] = A /\ <<A, s>>[2] = s
    OBVIOUS
  <2>. QED  BY <2>1, <2>3, <2>4
<1>4. Early(D, s0)
  <2>1. Closed(D)
    <3> SUFFICES ASSUME NEW p \in D, NEW q \in InnerPoints, Leq(q, p) PROVE q \in D
      BY DEF Closed
    <3>1. p \in InnerPoints /\ p[1] \in {Source, PIn} /\ p[2].outer <= t.outer /\ p[2].round <= t.round
      OBVIOUS
    <3>2. q[1] \in 1 .. 4 /\ q[1] <= p[1] /\ q[2].outer <= p[2].outer /\ q[2].round <= p[2].round
      BY InnerPointFacts DEF Leq
    <3>3. q[1] \in {Source, PIn}
      BY <3>1, <3>2, PortFacts
    <3>4. /\ q[2].outer \in Nat /\ q[2].round \in Nat /\ p[2].outer \in Nat /\ p[2].round \in Nat
      BY <3>1, InnerPointFacts, ConstantFacts
    <3>5. q[2].outer <= t.outer /\ q[2].round <= t.round
      BY <1>2, <3>1, <3>2, <3>4
    <3>. QED  BY <3>3, <3>5
  <2>2. \A p \in D : p[1] # Target /\ p[2].outer <= s0
    BY PortFacts
  <2>3. ASSUME NEW v \in Workers, NEW p \in D PROVE At(within[v], p) = 0
    <3>1. p \in InnerPoints /\ p[1] \in {Source, PIn} /\ p[2].outer <= t.outer /\ p[2].round <= t.round /\ p[2] \in InnerTimes
      BY InnerPointFacts
    <3>2. CASE p[1] = PIn
      <4>1. Inner!less_equal(p[2], t)
        BY <3>1, InnerOrder
      <4>2. p \notin DOMAIN within[v]
        BY <3>2, <4>1
      <4>. QED  BY <4>2 DEF At
    <3>3. CASE p[1] = Source
      <4>1. At(within[v], p) > 0 => p \in Ports(InnerPoints, {PIn, POut})
        BY <1>1, TruthFacts
      <4>2. At(within[v], p) \in Nat
        BY <1>1, TruthFacts
      <4>3. p \notin Ports(InnerPoints, {PIn, POut})
        BY <3>3, PortFacts DEF Ports
      <4>. QED  BY <4>1, <4>2, <4>3
    <3>. QED  BY <3>1, <3>2, <3>3
  <2> HIDE DEF D, s0
  <2>. QED  BY <2>1, <2>2, <2>3 DEF Early
<1>5. PICK q \in InnerPoints : Leq(q, <<PIn, t>>) /\ At(nested[w], q) > 0
  <2>1. PIn \in 1 .. 4
    BY PortFacts
  <2>2. Inner!Implied(nested[w], PIn, t) <=> \E q \in InnerPoints : Leq(q, <<PIn, t>>) /\ At(nested[w], q) > 0
    BY <1>1, <2>1, InnerImplied
  <2>. QED  BY <2>2
<1>6. q \in D
  <2>1. q[1] \in 1 .. 4 /\ q[1] <= PIn /\ q[2].outer <= t.outer /\ q[2].round <= t.round
    BY <1>5, InnerPointFacts DEF Leq
  <2>2. q[1] \in {Source, PIn}
    BY <2>1, PortFacts
  <2>. QED  BY <2>1, <2>2
<1> HIDE DEF D, s0
<1>. QED  BY <1>1, <1>2, <1>3, <1>4, <1>5, <1>6, NoneWithin

\* At rest, nested scopes with nothing to wait for are shut down.
LEMMA RestShut ==
    ASSUME Resting, NoneAlive
    PROVE  open = {}
<1> SUFFICES ASSUME NEW w \in open PROVE FALSE
  OBVIOUS
<1>1. w \in Workers /\ nested[w] \in Batches(InnerPoints) /\ tracker[w] \in Batches(OuterPoints)
  BY StillBalance DEF Resting, NestedInv, Typed
<1>2. \A v \in Workers : \A p : At(alive[v], p) = 0 /\ At(within[v], p) = 0
  BY NothingFacts, OuterFacts DEF NoneAlive
<1>3. \A t \in OuterTimes : NoCap(t) /\ NoneInside(t) /\ t <= t
  <2> TAKE t \in OuterTimes
  <2>1. NoCap(t) /\ NoneInside(t)
    BY <1>2 DEF NoCap, cap, NoneInside
  <2>. QED  BY <2>1, ConstantFacts
<1>4. may_shut_down(tracker[w])
  <2>1. \A t \in OuterTimes : ~ Outer!Implied(tracker[w], Out, t)
    BY <1>1, <1>3, NoneAtOut
  <2>. QED  BY <1>1, <2>1, ShutFacts
<1>5. Inner!Counted(nested[w]) = {}
  <2> SUFFICES ASSUME NEW p \in Inner!Counted(nested[w]) PROVE FALSE
    OBVIOUS
  <2>1. p \in InnerPoints /\ At(nested[w], p) > 0
    BY <1>1, BatchFacts DEF Inner!Counted, At
  <2>2. p[1] \in 1 .. 4 /\ p[2] \in InnerTimes /\ p = <<p[1], p[2]>> /\ p[2].outer \in OuterTimes
    BY <2>1, InnerPointFacts, ConstantFacts
  <2> DEFINE t == p[2].outer
  <2>3. t \in OuterTimes /\ NoCap(t) /\ NoneInside(t) /\ p[2].outer <= t
    BY <1>3, <2>2
  <2> HIDE DEF t
  <2>4. CASE p[1] = Target
    <3>1. \A u \in InnerTimes : At(nested[w], <<Target, u>>) = 0
      BY <1>1 DEF Resting, KeptInv, KeptAt
    <3>2. At(nested[w], p) = 0
      BY <2>2, <2>4, <3>1
    <3>. QED  BY <2>1, <3>2
  <2>5. CASE p[1] # Target
    <3>1. p \in Before(t) /\ Early(Before(t), t)
      BY <2>1, <2>3, <2>5, BeforeEarly DEF Before
    <3>. QED  BY <1>1, <2>1, <2>3, <3>1, NoneWithin
  <2>. QED  BY <2>4, <2>5
<1>. QED  BY <1>1, <1>4, <1>5 DEF Resting, KeptInv, KeptAt

(* When every worker has come to rest, its frontiers are those of what is   *)
(* alive, and nested scopes without anything alive are shut down, although  *)
(* the updates that seem redundant were held back: provided that something  *)
(* is alive at first, for any number of workers and any times.              *)
THEOREM RestIsExactHolds == SomethingAlive => (Spec => []RestIsExact)
<1> SUFFICES ASSUME SomethingAlive PROVE Spec => []RestIsExact
  OBVIOUS
<1>1. Spec => []KeptInv
  BY KeptHolds
<1>2. NestedInv /\ KeptInv => RestIsExact
  <2> SUFFICES ASSUME NestedInv, KeptInv, Quiet PROVE RestIsExact
    BY DEF RestIsExact
  <2>1. Resting
    BY QuietIsStill DEF Resting
  <2>. QED  BY <2>1, RestOuter, RestInner, RestShut DEF RestIsExact
<1>. QED  BY <1>1, <1>2, NestedInvHolds, PTL

=============================================================================
