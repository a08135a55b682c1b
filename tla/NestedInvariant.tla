--------------------------- MODULE NestedInvariant ---------------------------
(***************************************************************************)
(* The inductive invariant of a scope in a scope (NestedInv), and the      *)
(* words in which NestedScopeProofs speaks of its states and steps.        *)
(*                                                                         *)
(* The counts a worker has, with what it has yet to hear of, are what is   *)
(* alive (InnerBalance, OuterBalance).  That alone does not keep frontiers *)
(* behind what is alive: what is yet to come must not be able to cancel    *)
(* what is counted.  Inside a scope that is so because what operators      *)
(* record is upright (Upright), outside because a worker always knows of   *)
(* some capability of A that is early enough (Caps), and of the nested     *)
(* scope's capabilities through its own (Inside, Accepts, News).           *)
(***************************************************************************)
EXTENDS NestedScope

-----------------------------------------------------------------------------
(* Batches of changes.                                                      *)

\* What b counts at p.
At(b, p) == IF p \in DOMAIN b THEN b[p] ELSE 0

\* A batch for some points, without zeros.
Batches(P) == UNION {[D -> Int \ {0}] : D \in SUBSET P}

-----------------------------------------------------------------------------
(* Points and frontiers.                                                    *)

\* In the nested scope, q could result in p.
Leq(q, p) == q[1] <= p[1] /\ q[2].outer <= p[2].outer /\ q[2].round <= p[2].round

-----------------------------------------------------------------------------
(* What operators record.                                                   *)

\* What appears in the nested scope follows from something earlier that is gone.
Upright(b) == \A p \in InnerPoints : At(b, p) > 0 => \E q \in InnerPoints : Leq(q, p) /\ At(b, q) < 0

(* The scope only consumes messages that enter it, and produces those that  *)
(* leave it.                                                                *)
Genuine ==
    {b \in Batches(InnerPoints) :
        /\ Upright(b)
        /\ \A t \in InnerTimes : At(b, <<Source, t>>) <= 0 /\ At(b, <<Target, t>>) >= 0}

\* In the outer scope, A produces for the nested scope and B consumes.
Honest ==
    {b \in Batches(OuterPoints) :
        \A t \in OuterTimes : At(b, <<Out, t>>) = 0 /\ At(b, <<In, t>>) >= 0 /\ At(b, <<B, t>>) <= 0}

\* What is earlier than something in D is in D.
Closed(D) == D \subseteq InnerPoints /\ \A p \in D : \A q \in InnerPoints : Leq(q, p) => q \in D

-----------------------------------------------------------------------------
(* From the nested scope to the outer one.                                  *)

\* The points of a port at an outer time, and what a batch counts there.
Line(l, t) == {p \in InnerPoints : p[1] = l /\ p[2].outer = t}
Across(b, l, t) == SumFunctionOnSet([p \in InnerPoints |-> At(b, p)], Line(l, t))

-----------------------------------------------------------------------------
(* The invariant.                                                           *)

\* The points at some ports, and batches that count nothing negative.
Ports(points, ls) == {p \in points : p[1] \in ls}
Counts(P) == {b \in Batches(P) : \A p \in P : At(b, p) >= 0}

\* What v has recorded, and not sent yet.
Mine(v) == Inner!Plus(inner[v], Inner!Plus(harvest_inputs(v), shared[v]["P"]))
MineO(v) == Outer!Plus(local[v], Outer!Plus(shared[v]["A"], shared[v]["B"]))

\* What w has yet to hear of from v; in the outer scope, after k batches.
Coming(v, w) == Inner!Plus(Inner!Total(post[v][w]), Mine(v))
ComingO(v, w, k) == Outer!Plus(Outer!Total(SubSeq(mail[v][w], k + 1, Len(mail[v][w]))), MineO(v))

\* ... and from all of them.
AllComing(w) == Inner!Total([v \in Workers |-> Coming(v, w)])
AllComingO(w, k) == Outer!Total([v \in Workers |-> ComingO(v, w, k[v])])

\* What is alive.
Truth == Inner!Total(within)
TruthO == Outer!Total(alive)
cap(v, t) == At(alive[v], <<A, t>>)

\* The capabilities of v's A that w knows of after k batches.
Know(v, w, k, t) == cap(v, t) - At(ComingO(v, w, k), <<A, t>>)

(* Types: who is alive at which port, and that what is recorded, kept and   *)
(* sent is honest in the outer scope and genuine in the nested one.         *)
Typed ==
    /\ start \in Starts /\ open \in SUBSET Workers
    /\ alive \in [Workers -> Counts(Ports(OuterPoints, {A, B}))]
    /\ within \in [Workers -> Counts(Ports(InnerPoints, {PIn, POut}))]
    /\ entering \in [Workers -> Counts(Ports(InnerPoints, {Source}))]
    /\ shared \in [Workers -> [Children -> Genuine \cup Honest]]
    /\ \A w \in Workers : shared[w]["A"] \in Honest /\ shared[w]["B"] \in Honest /\ shared[w]["P"] \in Genuine
    /\ local \in [Workers -> Honest] /\ inner \in [Workers -> Genuine]
    /\ tracker \in [Workers -> Batches(OuterPoints)] /\ final \in [Workers -> Batches(OuterPoints)]
    /\ nested \in [Workers -> Batches(InnerPoints)]
    /\ mail \in [Workers -> [Workers -> Seq(Honest)]]
    /\ post \in [Workers -> [Workers -> Seq(Genuine)]]
    /\ internals \in [Workers -> SUBSET OuterTimes]

(* Inside the nested scope: what w counts, and what it has yet to hear of,  *)
(* are what is alive there.                                                 *)
InnerBalance ==
    \A w \in Workers : \A p \in Ports(InnerPoints, {PIn, POut}) :
        At(nested[w], p) + At(AllComing(w), p) = At(Truth, p)

(* K, after k batches of each worker, is what is alive outside and what is  *)
(* inside, without what w has yet to hear of or its nested scope to report. *)
Balance(w, K, k) ==
    \A t \in OuterTimes :
        /\ At(K, <<A, t>>) + At(AllComingO(w, k), <<A, t>>) = At(TruthO, <<A, t>>)
        /\ At(K, <<In, t>>) + At(AllComingO(w, k), <<In, t>>) + Across(AllComing(w), Source, t) = 0
        /\ At(K, <<B, t>>) + At(AllComingO(w, k), <<B, t>>) + Across(AllComing(w), Target, t) = At(TruthO, <<B, t>>)
        /\ At(K, <<Out, t>>) = IF t \in internals[w] THEN 1 ELSE 0
OuterBalance == \A w \in Workers : Balance(w, Outer!Plus(tracker[w], final[w]), [v \in Workers |-> 0])

(* After whatever part of v's news, w knows of a capability that is not     *)
(* later than those v has, than messages that it will hear of, and than     *)
(* the capabilities that it will.                                           *)
CapsAt(v, w, k) ==
    \A t \in OuterTimes :
        /\ Know(v, w, k, t) >= 0
        /\ cap(v, t) > 0 \/ At(ComingO(v, w, k), <<In, t>>) > 0
              => \E s \in OuterTimes : s <= t /\ Know(v, w, k, s) > 0
        /\ \A j \in 0 .. k : Know(v, w, k, t) > 0 => \E s \in OuterTimes : s <= t /\ Know(v, w, j, s) > 0
Caps == \A v, w \in Workers : \A k \in 0 .. Len(mail[v][w]) : CapsAt(v, w, k)

(* The frontier that the nested scope has accepted does not pass messages   *)
(* whose entry is still unheard of, nor capabilities of A; while it is not  *)
(* shut down, it is that of the outer scope.                                *)
Acc(w, t) == \E s \in OuterTimes : s <= t /\ At(nested[w], <<Source, to_inner(s)>>) > 0

Accepts ==
    \A w \in Workers : \A t \in OuterTimes :
        /\ \A p \in Line(Source, t) : At(AllComing(w), p) < 0 => Acc(w, t)
        /\ \A v \in Workers : cap(v, t) > 0 => Acc(w, t)
        /\ w \in open => (Acc(w, t) <=> Outer!Implied(tracker[w], In, t))
        /\ \A p \in Line(Source, t) : At(nested[w], p) # 0 => p = <<Source, to_inner(t)>>

\* The outer scope knows of what is counted inside.
Inside ==
    \A w \in Workers : \A p \in Ports(InnerPoints, {PIn, POut}) :
        At(nested[w], p) > 0 => \E s \in internals[w] : s <= p[2].outer

\* Nothing alive is behind a frontier of an outer scope.
OuterCovered ==
    \A w, v \in Workers :
        /\ \A p \in OuterPoints : At(alive[v], p) > 0 => Outer!Implied(tracker[w], p[1], p[2])
        /\ \A p \in InnerPoints : At(within[v], p) > 0 => Outer!Implied(tracker[w], B, p[2].outer)

\* When a nested scope is shut down, there is nothing to come to it.
GoneAt(w) ==
    /\ \A t \in OuterTimes : ~ Outer!Implied(tracker[w], In, t)
    /\ \A v \in Workers :
          /\ \A t \in OuterTimes : cap(v, t) = 0 /\ Know(v, w, 0, t) = 0
          /\ within[v] = Inner!Nothing /\ entering[v] = Inner!Nothing /\ inner[v] = Inner!Nothing
          /\ shared[v]["P"] = Inner!Nothing
          /\ \A i \in DOMAIN post[v][w] : post[v][w][i] = Inner!Nothing
Gone == \A w \in Workers \ open : GoneAt(w)

(* What a nested scope reports of itself is no news for B, and it reports   *)
(* of A nothing, and of its input that messages are consumed.               *)
News ==
    \A w \in Workers : \A t \in OuterTimes :
        /\ At(final[w], <<A, t>>) = 0 /\ At(final[w], <<In, t>>) <= 0
        /\ \A l \in {Out, B} : At(final[w], <<l, t>>) > 0 => Outer!Implied(tracker[w], B, t)

\* The inductive invariant.
NestedInv ==
    /\ Typed /\ InnerBalance /\ OuterBalance /\ Caps /\ Accepts /\ Inside /\ OuterCovered /\ Gone /\ News

-----------------------------------------------------------------------------
(* What a state amounts to.                                                 *)

\* How much w may have heard from each of them.
Prefixes(w) == {k \in [Workers -> Nat] : \A v \in Workers : k[v] <= Len(mail[v][w])}

\* What v has recorded, count by count.
Made ==
    \A v \in Workers :
        /\ harvest_inputs(v) \in Genuine
        /\ \A t \in InnerTimes :
              /\ At(harvest_inputs(v), <<Source, t>>) = - At(entering[v], <<Source, t>>)
              /\ At(harvest_inputs(v), <<PIn, t>>) = At(entering[v], <<Source, t>>)
              /\ At(harvest_inputs(v), <<POut, t>>) = 0 /\ At(harvest_inputs(v), <<Target, t>>) = 0
        /\ Mine(v) \in Genuine
        /\ \A p : At(Mine(v), p) = At(inner[v], p) + (At(harvest_inputs(v), p) + At(shared[v]["P"], p))
        /\ MineO(v) \in Honest
        /\ \A p : At(MineO(v), p) = At(local[v], p) + (At(shared[v]["A"], p) + At(shared[v]["B"], p))

\* ... what is on its way from v to w,
Sent ==
    \A v, w \in Workers :
        /\ Inner!Total(post[v][w]) \in Genuine /\ Coming(v, w) \in Genuine
        /\ \A p : At(Coming(v, w), p) = At(Inner!Total(post[v][w]), p) + At(Mine(v), p)
        /\ \A k \in 0 .. Len(mail[v][w]) :
              /\ Outer!Total(SubSeq(mail[v][w], k + 1, Len(mail[v][w]))) \in Honest
              /\ ComingO(v, w, k) \in Honest
              /\ \A p : At(ComingO(v, w, k), p)
                          = At(Outer!Total(SubSeq(mail[v][w], k + 1, Len(mail[v][w]))), p) + At(MineO(v), p)

\* ... and the sums over all workers.
Summed ==
    /\ \A w \in Workers : [v \in Workers |-> Coming(v, w)] \in [Workers -> Genuine] /\ AllComing(w) \in Genuine
    /\ \A w \in Workers : \A k \in Prefixes(w) :
          [v \in Workers |-> ComingO(v, w, k[v])] \in [Workers -> Honest] /\ AllComingO(w, k) \in Honest
    /\ within \in [Workers -> Batches(InnerPoints)] /\ alive \in [Workers -> Batches(OuterPoints)]
    /\ Truth \in Batches(InnerPoints) /\ TruthO \in Batches(OuterPoints)

-----------------------------------------------------------------------------
(* What the operators do.                                                   *)

\* x has d more, the others have what they had.
More(d, p, v, x) == IF v = x THEN At(d, p) ELSE 0

(* A step of operators: w records dI inside and dO outside, y's P gets eI   *)
(* and x's A or B gets eO.                                                  *)
Moved(w, x, y, dI, dO, eI, eO) ==
    /\ UNCHANGED work_vars
    /\ \A v \in Workers : \A p :
          /\ At(Mine(v)', p) = At(Mine(v), p) + More(dI, p, v, w)
          /\ At(MineO(v)', p) = At(MineO(v), p) + More(dO, p, v, w)
          /\ At(within'[v], p) = At(within[v], p) + More(eI, p, v, y)
          /\ At(alive'[v], p) = At(alive[v], p) + More(eO, p, v, x)

\* What is recorded in both scopes fits what becomes alive outside.
Level(dI, dO, eO) ==
    \A t \in OuterTimes :
        /\ At(dO, <<A, t>>) = At(eO, <<A, t>>)
        /\ At(dO, <<In, t>>) + Across(dI, Source, t) = 0
        /\ At(dO, <<B, t>>) + Across(dI, Target, t) = At(eO, <<B, t>>)

\* What is recorded for child zero's input goes to B.
Passes(c, o) == \A t \in OuterTimes : At(o, <<A, t>>) = 0 /\ Across(c, Target, t) = At(o, <<B, t>>)

\* What P has recorded (c) of what it did (e, and o outside) at p is neither at Source nor earlier than p.
AtExit(c, e, o, p) ==
    /\ \A q \in Ports(InnerPoints, {PIn, POut}) : At(c, q) = At(e, q)
    /\ \A t \in InnerTimes : At(c, <<Source, t>>) = 0
    /\ Passes(c, o)
    /\ \A q \in InnerPoints : At(e, q) > 0 => p[2].outer <= q[2].outer
    /\ \A q \in OuterPoints : At(o, q) > 0 => q = <<B, p[2].outer>>

\* t is what is left of s without its first d elements.
Dropped(S, s, d, b, t) ==
    /\ t \in Seq(S) /\ Len(t) = Len(s) - d /\ Append(t, b) \in Seq(S) /\ Len(Append(t, b)) = Len(t) + 1
    /\ \A k \in 0 .. Len(t) :
          /\ SubSeq(t, k + 1, Len(t)) = SubSeq(s, k + d + 1, Len(s))
          /\ SubSeq(Append(t, b), k + 1, Len(t) + 1) = Append(SubSeq(s, k + d + 1, Len(s)), b)
    /\ SubSeq(Append(t, b), Len(t) + 2, Len(t) + 1) = <<>>

\* How much of channel[v][u] a step of w takes.
Ahead(w, upto, v, u) == IF u = w THEN upto[v] ELSE 0

\* ... and what is left in it.
Rest(c, w, upto, v, u) == SubSeq(c[v][u], Ahead(w, upto, v, u) + 1, Len(c[v][u]))

(* A step of w has taken part of what the channels c hold for it, and may   *)
(* have sent b: they hold n then.                                           *)
Passed(S, c, w, upto, b, sending, n) ==
    /\ c \in [Workers -> [Workers -> Seq(S)]] /\ upto \in [Workers -> Nat] /\ b \in S /\ sending \in BOOLEAN
    /\ \A v \in Workers : upto[v] <= Len(c[v][w])
    /\ n = IF sending = TRUE THEN Sends(Takes(c, w, upto), w, b) ELSE Takes(c, w, upto)

\* Then channel [v][u] holds the rest, and b after it when v has sent it.
Left(S, c, w, upto, b, sending, n, v, u) ==
    /\ Ahead(w, upto, v, u) \in 0 .. Len(c[v][u])
    /\ sending = TRUE /\ v = w => n[v][u] = Append(Rest(c, w, upto, v, u), b)
    /\ ~ (sending = TRUE /\ v = w) => n[v][u] = Rest(c, w, upto, v, u)

-----------------------------------------------------------------------------
(* A step of a worker in the outer scope.                                   *)

\* What the worker sends, or keeps; sending is whether it sends.
Kept(w, upto, sending) ==
    /\ local' = [local EXCEPT ![w] = IF sending THEN Outer!Nothing ELSE MineO(w)]
    /\ mail' = IF sending THEN Sends(Takes(mail, w, upto), w, MineO(w)) ELSE Takes(mail, w, upto)

\* The batches that a worker has heard none of.
None == [v \in Workers |-> 0]

\* Nothing changes inside the nested scopes.
Idle ==
    /\ UNCHANGED <<nested, entering, internals, inner, post, open, within, alive>>
    /\ \A v \in Workers : shared'[v]["P"] = shared[v]["P"]

\* Whether t is in S, as a count.
Has(S, t) == IF t \in S THEN 1 ELSE 0

\* A step of w and of its nested scope, which hears upto and upin of what was sent to it.
Ran(w, upto, upin) ==
    /\ Typed /\ w \in Workers /\ upto \in Upto(mail, w) /\ schedule(w, upto, TRUE) /\ upin \in Upto(post, w)
    /\ Runs(w, Propagated(w, upto), upin)

\* What w hears inside the nested scope, and knows then.
Batch(w, upin) == Inner!Totals(Received(post, w, upin))

Knows(w, upto, upin) ==
    Inner!Plus(accept_frontier(w, Outer!Frontier(Propagated(w, upto), In)), Own(Batch(w, upin)))

\* What the nested scope sends, or keeps; sending is whether it sends.
KeptIn(w, upin, sending) ==
    /\ sending = TRUE => Mine(w) # Inner!Nothing
    /\ inner' = [inner EXCEPT ![w] = IF sending THEN Inner!Nothing ELSE Mine(w)]
    /\ post' = IF sending THEN Sends(Takes(post, w, upin), w, Mine(w)) ELSE Takes(post, w, upin)

\* What w takes of what v has sent to u.
Taken(w, upin, v, u, p) == IF u = w THEN At(Inner!Total(SubSeq(post[v][w], 1, upin[v])), p) ELSE 0

-----------------------------------------------------------------------------
(* A nested scope that is shut down.                                        *)

\* What the nested scope of w knows, and what is yet to come to it, leaves nothing in it.
Settled(w) ==
    /\ Typed /\ InnerBalance
    /\ \A p \in InnerPoints : At(AllComing(w), p) >= 0
    /\ \A p \in Ports(InnerPoints, {PIn, POut}) : At(nested[w], p) <= 0

\* Nothing is in it, and nothing is to come.
Vacant(w) ==
    \A v \in Workers :
        /\ within[v] = Inner!Nothing /\ entering[v] = Inner!Nothing /\ inner[v] = Inner!Nothing
        /\ shared[v]["P"] = Inner!Nothing
        /\ \A i \in DOMAIN post[v][w] : post[v][w][i] = Inner!Nothing

\* Of every worker.
Shut == \A w \in Workers : Settled(w) => Vacant(w)

-----------------------------------------------------------------------------
(* The beginning.                                                           *)

\* n counts, at q only.
Lone(n, q, p) == IF p = q THEN n ELSE 0

\* The capabilities that operators start with, and what the trackers have been told of them.
Begun(v, p) ==
    /\ At(alive[v], p) = Lone(Has(start.a, v), <<A, 0>>, p)
    /\ At(within[v], p) = Lone(Has(start.p, v), <<POut, to_inner(0)>>, p)
    /\ At(tracker[v], p) = Lone(Cardinality(start.a), <<A, 0>>, p) + Lone(Cardinality(Held(start.p)), <<Out, 0>>, p)
    /\ At(nested[v], p) = Lone(Cardinality(start.p), <<POut, to_inner(0)>>, p)
                              + Lone(Cardinality(Held(start.a)), <<Source, to_inner(0)>>, p)

\* A frontier that NeverRetreats speaks of goes back at w.
Retreats(w) ==
    \/ \E t \in OuterTimes : Outer!Implied(tracker'[w], B, t) /\ ~ Outer!Implied(tracker[w], B, t)
    \/ \E t \in InnerTimes : Inner!Implied(nested'[w], PIn, t) /\ ~ Inner!Implied(nested[w], PIn, t)

-----------------------------------------------------------------------------
(* What is held back.                                                       *)

\* What enters the nested scope does so in the first round.
FirstRound(b) == \A t \in InnerTimes : t.round # 0 => At(b, <<Source, t>>) = 0

(* What a worker has not sent, it need not send by what it knows; the outer *)
(* scope is told of the capabilities that the nested one has; and a nested  *)
(* scope that may be shut down is.                                          *)
KeptAt(w) ==
    /\ ~ Outer!must_send(tracker[w], local[w]) /\ ~ Inner!must_send(nested[w], inner[w])
    /\ internals[w] = pushed_output(nested[w])
    /\ w \in open => ~ (may_shut_down(tracker[w]) /\ Inner!Counted(nested[w]) = {})
    /\ FirstRound(entering[w]) /\ FirstRound(inner[w]) /\ FirstRound(shared[w]["P"])
    /\ \A t \in InnerTimes : At(nested[w], <<Target, t>>) = 0
KeptInv == \A w \in Workers : KeptAt(w)

\* Something is alive at first.
SomethingAlive == \A s \in Starts : s.a # {} \/ s.p # {}

-----------------------------------------------------------------------------
(* At rest.                                                                 *)

\* When nothing is under way, what is to come is what is held back.
Still ==
    \A v, w \in Workers :
        /\ \A p : At(Coming(v, w), p) = At(inner[v], p)
        /\ \A p : At(ComingO(v, w, 0), p) = At(local[v], p)
        /\ \A p : At(final[v], p) = 0

\* What all workers hold back.
Back == Inner!Total(inner)
BackO == Outer!Total(local)

\* The invariants, and a state of rest.
Resting == NestedInv /\ KeptInv /\ Still

\* No capability of A is as early as t.
NoCap(t) == \A v \in Workers : \A s \in OuterTimes : s <= t => cap(v, s) = 0

\* D holds what is earlier than its points, before child zero's input and up to t; nothing inside is alive in it.
Early(D, t) ==
    /\ Closed(D) /\ \A p \in D : p[1] # Target /\ p[2].outer <= t
    /\ \A v \in Workers : \A p \in D : At(within[v], p) = 0

\* Nothing inside is as early as t.
NoneInside(t) == \A v \in Workers : \A p \in InnerPoints : p[2].outer <= t => At(within[v], p) = 0

\* What is not later than t in the nested scope, before child zero's input.
Before(t) == {p \in InnerPoints : p[1] # Target /\ p[2].outer <= t}
=============================================================================
