----------------------------- MODULE NestedScope -----------------------------
(***************************************************************************)
(* A scope within a scope: how a Subgraph is an operator of its parent.    *)
(*                                                                         *)
(* In the outer scope, operator A sends to the nested scope, and that to   *)
(* operator B; the nested scope has one operator, P.  Each worker has an   *)
(* instance of all of these.  A message of A is pushed through the         *)
(* IngressNub, at its own worker, to an instance of P; one of P through    *)
(* the EgressNub to an instance of B.                                      *)
(*                                                                         *)
(* Both scopes broadcast the progress of their operators, in channels of   *)
(* their own; those of the nested scope are not sent again by the outer    *)
(* one (Subgraph::local is false): each worker reports to its outer scope  *)
(* what it hears in the nested one.  So the beginning of a message and its *)
(* end may come by different channels.                                     *)
(***************************************************************************)
EXTENDS Integers, Sequences, FiniteSetsExt

CONSTANTS
    Workers,
    MaxTime,       \* times of the outer scope are 0 .. MaxTime,
    MaxRound,      \* with rounds 0 .. MaxRound in the nested one
    Starts,        \* the states that a behaviour may start in, and its bounds
    Eager          \* ProgressMode::Eager

(* The workers whose A, and whose P, has not dropped its first capability;  *)
(* bounds of the messages that A and P send, of the times of A and of the   *)
(* rounds of P.                                                             *)
Start == [a : SUBSET Workers, p : SUBSET Workers, sends : Nat, leaves : Nat,
          time : 0 .. MaxTime, round : 0 .. MaxRound]

ASSUME NestedAssumption ==
    IsFiniteSet(Workers) /\ MaxTime \in Nat /\ MaxRound \in Nat /\ Starts \subseteq Start /\ Eager \in BOOLEAN

OuterTimes == 0 .. MaxTime
InnerTimes == [outer : OuterTimes, round : 0 .. MaxRound]

to_inner(t) == [outer |-> t, round |-> 0]
to_outer(t) == t.outer

\* A's output, the nested scope's input and output, and B's input
A == 1
In == 2
Out == 3
B == 4

\* the outputs and inputs of child zero, and between them P
Source == 1
PIn == 2
POut == 3
Target == 4

OuterLeq == {<<e[1], e[2]>> : e \in {d \in OuterTimes \X OuterTimes : d[1] <= d[2]}}
InnerLeq == {<<e[1], e[2]>> : e \in {d \in InnerTimes \X InnerTimes :
                                        d[1].outer <= d[2].outer /\ d[1].round <= d[2].round}}
OuterPoints == {<<p[1], p[2]>> : p \in (1 .. 4) \X OuterTimes}
InnerPoints == {<<p[1], p[2]>> : p \in (1 .. 4) \X InnerTimes}

\* In both scopes the ports are in a row, and the time changes nowhere.
Reaches(points, leq) == [p \in points |-> {q \in points : q[1] <= p[1] /\ <<q[2], p[2]>> \in leq}]
OuterBelow == Reaches(OuterPoints, OuterLeq)
InnerBelow == Reaches(InnerPoints, InnerLeq)

Outer == INSTANCE ScopeTracker WITH
    Times <- OuterTimes, TimeLeq <- OuterLeq, Below <- OuterBelow
Inner == INSTANCE ScopeTracker WITH
    Times <- InnerTimes, TimeLeq <- InnerLeq, Below <- InnerBelow

VARIABLES
    alive,      \* alive[w]: the capabilities and messages of w's A and B, those under way included,
    within,     \* and of its P
    shared,     \* shared[w][o]: what operator o has recorded
    entering,   \* entering[w]: input_messages, what the IngressNub has counted
    local,      \* local[w]: local_pointstamp of the outer scope,
    inner,      \* and of the nested one
    final,      \* final[w]: final_pointstamp of the outer scope, between schedules
    mail,       \* mail[v][w]: the batches from v to w in the outer scope,
    post,       \* and in the nested one
    tracker,    \* tracker[w]: the counts of the outer scope,
    nested,     \* and of the nested one
    internals,  \* internals[w]: output_capabilities, reported to the outer scope
    open,       \* the workers whose nested scope is not shut down
    start,      \* the start and the bounds
    sends, leaves   \* messages sent so far by A and P

vars == <<alive, within, shared, entering, local, inner, final, mail, post, tracker, nested,
          internals, open, start, sends, leaves>>
work_vars == <<start, local, inner, final, mail, post, tracker, nested, internals, open>>

Children == {"A", "P", "B"}
NoChange == [o \in Children |-> IF o = "P" THEN Inner!Nothing ELSE Outer!Nothing]

(* get_internal_summary and set_external_summary have told the trackers of  *)
(* the capabilities that operators start with; of those that are dropped    *)
(* already, everyone has heard.                                             *)
Held(ws) == IF ws = {} THEN {} ELSE {0}

Init ==
    /\ start \in Starts
    /\ alive = [w \in Workers |-> IF w \in start.a THEN Outer!Change(<<A, 0>>, 1) ELSE Outer!Nothing]
    /\ within = [w \in Workers |-> IF w \in start.p THEN Inner!Change(<<POut, to_inner(0)>>, 1) ELSE Inner!Nothing]
    /\ shared = [w \in Workers |-> NoChange]
    /\ entering = [w \in Workers |-> Inner!Nothing]
    /\ local = [w \in Workers |-> Outer!Nothing]
    /\ inner = [w \in Workers |-> Inner!Nothing]
    /\ final = [w \in Workers |-> Outer!Nothing]
    /\ mail = [v \in Workers |-> [w \in Workers |-> <<>>]]
    /\ post = [v \in Workers |-> [w \in Workers |-> <<>>]]
    /\ tracker = [w \in Workers |-> Outer!Plus(Outer!Change(<<A, 0>>, Cardinality(start.a)),
                                               Outer!Change(<<Out, 0>>, Cardinality(Held(start.p))))]
    /\ nested = [w \in Workers |-> Inner!Plus(Inner!Change(<<POut, to_inner(0)>>, Cardinality(start.p)),
                                              Inner!Change(<<Source, to_inner(0)>>, Cardinality(Held(start.a))))]
    /\ internals = [w \in Workers |-> Held(start.p)]
    /\ open = Workers
    /\ sends = 0
    /\ leaves = 0

-----------------------------------------------------------------------------
\* What the operators do.

\* Each operator records what it made and dropped.
Record(w, o, change) == shared' = [shared EXCEPT ![w][o] = IF o = "P" THEN Inner!Plus(@, change)
                                                                      ELSE Outer!Plus(@, change)]

(* A sends at the time of a capability: the message is counted as produced, *)
(* and again by the IngressNub that passes it to an instance of P.          *)
IngressNub(w, t, v) ==
    /\ entering' = [entering EXCEPT ![w] = Inner!Plus(@, Inner!Change(<<Source, to_inner(t)>>, 1))]
    /\ within' = [within EXCEPT ![v] = Inner!Plus(@, Inner!Change(<<PIn, to_inner(t)>>, 1))]

send(w, t, v) ==
    /\ <<A, t>> \in DOMAIN alive[w] /\ sends < start.sends
    /\ sends' = sends + 1
    /\ Record(w, "A", Outer!Change(<<In, t>>, 1))
    /\ IngressNub(w, t, v)
    /\ UNCHANGED <<alive, leaves, work_vars>>

\* A downgrades its capability, or drops it.
downgrade(w, t, later) ==
    /\ <<A, t>> \in DOMAIN alive[w]
    /\ LET change == Outer!Plus(Outer!Change(<<A, t>>, -1),
                                IF later = {} THEN Outer!Nothing ELSE Outer!Change(<<A, CHOOSE u \in later : TRUE>>, 1))
       IN  /\ alive' = [alive EXCEPT ![w] = Outer!Plus(@, change)]
           /\ Record(w, "A", change)
    /\ UNCHANGED <<within, entering, sends, leaves, work_vars>>

\* The EgressNub passes a message of P to an instance of B, at the outer time.
EgressNub(t, v) == alive' = [alive EXCEPT ![v] = Outer!Plus(@, Outer!Change(<<B, to_outer(t)>>, 1))]

(* P gives up a message or a capability for time t, after it has kept a     *)
(* capability for a time that is not earlier, or sent a message.            *)
Keeps(w, p, u) ==
    /\ Inner!less_equal(p[2], u) /\ u.round <= start.round
    /\ LET change == Inner!Plus(Inner!Change(p, -1), Inner!Change(<<POut, u>>, 1))
       IN  /\ within' = [within EXCEPT ![w] = Inner!Plus(@, change)]
           /\ Record(w, "P", change)
    /\ UNCHANGED <<alive, leaves>>

Leaves(w, p, v) ==
    /\ leaves < start.leaves
    /\ leaves' = leaves + 1
    /\ within' = [within EXCEPT ![w] = Inner!Plus(@, Inner!Change(p, -1))]
    /\ Record(w, "P", Inner!Plus(Inner!Change(p, -1), Inner!Change(<<Target, p[2]>>, 1)))
    /\ EgressNub(p[2], v)

Drops(w, p) ==
    /\ within' = [within EXCEPT ![w] = Inner!Plus(@, Inner!Change(p, -1))]
    /\ Record(w, "P", Inner!Change(p, -1))
    /\ UNCHANGED <<alive, leaves>>

handle(w, p) ==
    /\ p \in DOMAIN within[w] /\ w \in open
    /\ \/ \E u \in InnerTimes : Keeps(w, p, u)
       \/ \E v \in Workers : Leaves(w, p, v)
       \/ Drops(w, p)
    /\ UNCHANGED <<entering, sends, work_vars>>

\* B has read a message.
consume(w, t) ==
    /\ <<B, t>> \in DOMAIN alive[w]
    /\ alive' = [alive EXCEPT ![w] = Outer!Plus(@, Outer!Change(<<B, t>>, -1))]
    /\ Record(w, "B", Outer!Change(<<B, t>>, -1))
    /\ UNCHANGED <<within, entering, sends, leaves, work_vars>>

-----------------------------------------------------------------------------
\* Subgraph::schedule of the nested scope.

(* accept_frontier: child zero's output has the frontier of the scope's     *)
(* input.                                                                   *)
accept_frontier(w, frontier) ==
    Inner!Plus(Inner!Restricted(nested[w], {PIn, POut}),
               [p \in {<<Source, to_inner(t)>> : t \in frontier} |-> 1])

\* A mutant: messages are consumed, and not expected at the operators.
harvest_inputs_forgets(w) == [p \in DOMAIN entering[w] |-> - entering[w][p]]

\* harvest_inputs: messages are consumed by the scope, and expected at its operators.
harvest_inputs(w) ==
    Inner!Plus([p \in DOMAIN entering[w] |-> - entering[w][p]],
               [p \in {<<PIn, q[2]>> : q \in DOMAIN entering[w]} |-> entering[w][<<Source, p[2]>>]])

\* The part of a batch that is about the scope's own operators.
Own(batch) == Inner!Restricted(batch, {PIn, POut})

\* The part of a batch at port l, as changes at port m for the outer times.
Projected(batch, l, m) ==
    LET sum(t) == SumFunctionOnSet(batch, {p \in DOMAIN batch : p[1] = l /\ to_outer(p[2]) = t})
    IN  [p \in {<<m, t>> : t \in {u \in OuterTimes : sum(u) # 0}} |-> sum(p[2])]

(* The frontier of child zero's input, for what is counted at operators of  *)
(* the scope.                                                               *)
pushed_output(T) == Outer!Least({to_outer(p[2]) : p \in Inner!Counted(Own(T))})

\* A mutant: the new capabilities inside are not reported.
Reported_loses(batch, before, after) ==
    Outer!Total(<<Projected(batch, Source, In),
                  [p \in {<<Out, t>> : t \in before \ after} |-> -1],
                  Projected(batch, Target, B)>>)

(* What propagate_pointstamps reports to the outer scope: what is consumed, *)
(* the changes of the capabilities inside, and what is produced for B.      *)
Reported(batch, before, after) ==
    Outer!Total(<<Projected(batch, Source, In),
                  [p \in {<<Out, t>> : t \in before \ after} |-> -1],
                  [p \in {<<Out, t>> : t \in after \ before} |-> 1],
                  Projected(batch, Target, B)>>)

Sends(channel, w, batch) == [channel EXCEPT ![w] = [v \in Workers |-> Append(@[v], batch)]]
Takes(channel, w, upto) ==
    [v \in Workers |-> [channel[v] EXCEPT ![w] = SubSeq(@, upto[v] + 1, Len(@))]]
Received(channel, w, upto) == [v \in Workers |-> SubSeq(channel[v][w], 1, upto[v])]

\* Any part of what others have sent to w may have arrived, and all of its own.
Upto(channel, w) ==
    LET longest == Max({Len(channel[v][w]) : v \in Workers})
    IN  {f \in [Workers -> 0 .. longest] : \A v \in Workers :
            f[v] <= Len(channel[v][w]) /\ (v = w => f[v] = Len(channel[v][w]))}

(* The nested scope runs; frontier is what its input was told last.  The    *)
(* result is extracted as it is, into final_pointstamp of the outer scope.  *)
schedule_nested(w, frontier, upto) ==
    LET batch == Inner!Totals(Received(post, w, upto))
        T == Inner!Plus(accept_frontier(w, frontier), Own(batch))
        statements == Inner!Plus(inner[w], Inner!Plus(harvest_inputs(w), shared[w]["P"]))
        sending == statements # Inner!Nothing /\ (Eager \/ Inner!must_send(T, statements))
        taken == Takes(post, w, upto)
    IN  /\ nested' = [nested EXCEPT ![w] = T]
        /\ entering' = [entering EXCEPT ![w] = Inner!Nothing]
        /\ internals' = [internals EXCEPT ![w] = pushed_output(T)]
        /\ final' = [final EXCEPT ![w] = Reported(batch, internals[w], pushed_output(T))]
        /\ inner' = [inner EXCEPT ![w] = IF sending THEN Inner!Nothing ELSE statements]
        /\ post' = IF sending THEN Sends(taken, w, statements) ELSE taken

-----------------------------------------------------------------------------
\* Subgraph::schedule of the outer scope.

\* The counts after recv and propagate_pointstamps, without those of the nested scope's report to come.
Propagated(w, upto) == Outer!Plus(tracker[w], Outer!Plus(final[w], Outer!Totals(Received(mail, w, upto))))

\* The frontier that the nested scope has accepted.
Accepted(w) == {to_outer(t) : t \in Inner!Pointstamps(nested[w], Source)}

\* activate_child: neither capabilities nor an input frontier
may_shut_down(T) == Outer!Frontier(T, In) = {} /\ Outer!Pointstamps(T, Out) = {}

shut_down(w, T) ==
    open' = IF may_shut_down(T) /\ ~ Inner!tracking_anything(nested'[w]) THEN open \ {w} ELSE open

(* The scope runs, and the nested one with it or not: what the children     *)
(* have recorded is extracted, and sent if it must be.                      *)
schedule(w, upto, runs) ==
    LET T == Propagated(w, upto)
        statements == Outer!Plus(local[w], Outer!Plus(shared[w]["A"], shared[w]["B"]))
        sending == statements # Outer!Nothing /\ (Eager \/ Outer!must_send(T, statements))
        taken == Takes(mail, w, upto)
    IN  /\ tracker' = [tracker EXCEPT ![w] = T]
        /\ local' = [local EXCEPT ![w] = IF sending THEN Outer!Nothing ELSE statements]
        /\ mail' = IF sending THEN Sends(taken, w, statements) ELSE taken
        /\ shared' = [shared EXCEPT ![w] = [o \in Children |-> IF o = "P" /\ ~ runs THEN @[o] ELSE NoChange[o]]]
        /\ UNCHANGED <<alive, within, start, sends, leaves>>

\* A mutant: news of the scope's output does not activate it.
Active_forgets(w, T) ==
    \/ Outer!Frontier(T, In) # Accepted(w)
    \/ entering[w] # Inner!Nothing
    \/ shared[w]["P"] # Inner!Nothing

(* The nested scope is active at once if its frontier has changed, if       *)
(* records enter, if P is active, or if there is news of it after which it  *)
(* may be shut down.                                                        *)
Active(w, T) ==
    \/ Outer!Frontier(T, In) # Accepted(w)
    \/ entering[w] # Inner!Nothing
    \/ shared[w]["P"] # Inner!Nothing
    \/ Outer!Frontier(T, Out) # Outer!Frontier(tracker[w], Out) /\ may_shut_down(T)

\* The nested scope runs, as activate_child of the outer one; it may be shut down then.
Runs(w, T, upin) ==
    /\ w \in open
    /\ schedule_nested(w, Outer!Frontier(T, In), upin)
    /\ shut_down(w, T)

(* It does not run: a batch for it, which would activate it, has not        *)
(* arrived, and nothing else activates it.                                  *)
Rests(w, T) ==
    /\ w \in open => ~ Active(w, T)
    /\ final' = [final EXCEPT ![w] = Outer!Nothing]
    /\ UNCHANGED <<nested, entering, internals, inner, post, open>>

Step(w, upto) ==
    LET T == Propagated(w, upto)
    IN  \/ schedule(w, upto, TRUE) /\ \E upin \in Upto(post, w) : Runs(w, T, upin)
        \/ schedule(w, upto, FALSE) /\ Rests(w, T)

User ==
    \/ \E w, v \in Workers, t \in OuterTimes : send(w, t, v)
    \/ \E w \in Workers, t \in OuterTimes :
          \/ downgrade(w, t, {})
          \/ \E u \in 0 .. start.time : Outer!less_than(t, u) /\ downgrade(w, t, {u})
          \/ consume(w, t)
    \/ \E w \in Workers, l \in {PIn, POut}, t \in InnerTimes : handle(w, <<l, t>>)

Next ==
    \/ User
    \/ \E w \in Workers : \E upto \in Upto(mail, w) : Step(w, upto)

Spec == Init /\ [][Next]_vars

-----------------------------------------------------------------------------
(* Correctness.                                                             *)

(* Nothing that is alive, on any worker and in either scope, is behind a    *)
(* frontier of any worker: P's input has been told to expect what A may     *)
(* still send, B's what is still inside the nested scope or on its way in.  *)
NothingBehind ==
    \A w, v \in Workers :
        /\ \A p \in DOMAIN alive[v] :
              /\ Outer!Implied(tracker[w], p[1], p[2])
              /\ p[1] = A => Inner!Implied(nested[w], PIn, to_inner(p[2]))
        /\ \A p \in DOMAIN within[v] :
              /\ Inner!Implied(nested[w], p[1], p[2])
              /\ Outer!Implied(tracker[w], B, to_outer(p[2]))

(* A nested scope is shut down at a worker only when nothing can come to it *)
(* and it owes nothing: else it would be told of progress, which panics     *)
(* ("Operator prematurely shut down"), or its counts would be lost for all. *)
NothingToCome ==
    \A w \in Workers \ open :
        /\ Outer!Frontier(tracker[w], In) = {}
        /\ entering[w] = Inner!Nothing /\ inner[w] = Inner!Nothing /\ shared[w]["P"] = Inner!Nothing
        /\ \A v \in Workers : within[v] = Inner!Nothing /\ Inner!Total(post[v][w]) = Inner!Nothing

(* Whatever is known in one scope only, the other has been told enough:     *)
(* neither do frontiers pass what is alive, nor is a scope gone too early.  *)
NestedSafe == NothingBehind /\ NothingToCome

(* The frontiers that P and B are told only advance, although a worker      *)
(* hears of the two ends of a message in different channels.                *)
NeverRetreats ==
    [][\A w \in Workers :
          /\ \A t \in OuterTimes : Outer!Implied(tracker'[w], B, t) => Outer!Implied(tracker[w], B, t)
          /\ \A t \in InnerTimes : Inner!Implied(nested'[w], PIn, t) => Inner!Implied(nested[w], PIn, t)]_<<tracker, nested>>

NoneAlive == \A w \in Workers : alive[w] = Outer!Nothing /\ within[w] = Inner!Nothing

\* No worker has anything to do, and nothing is under way.
Quiet ==
    \A w \in Workers :
        /\ shared[w] = NoChange /\ final[w] = Outer!Nothing
        /\ \A v \in Workers : mail[v][w] = <<>> /\ post[v][w] = <<>>
        /\ w \in open => ~ Active(w, tracker[w])

(* When the workers have come to rest, every one of them knows exactly what *)
(* can still come, although both scopes hold back the updates that seem     *)
(* redundant, and nobody looks at them again without a reason: the          *)
(* frontiers are those of what is alive, and without anything alive the     *)
(* nested scopes are all shut down.                                         *)
RestIsExact ==
    Quiet => /\ \A w \in Workers, t \in OuterTimes :
                   Outer!Implied(tracker[w], B, t) =>
                       \E v \in Workers : \/ \E p \in DOMAIN alive[v] : p[2] <= t
                                          \/ \E p \in DOMAIN within[v] : to_outer(p[2]) <= t
             /\ \A w \in open, t \in InnerTimes :
                   Inner!Implied(nested[w], PIn, t) =>
                       \E v \in Workers :
                           \/ \E p \in DOMAIN alive[v] : p[1] = A /\ Inner!less_equal(to_inner(p[2]), t)
                           \/ \E p \in DOMAIN within[v] : p[1] = PIn /\ Inner!less_equal(p[2], t)
             /\ NoneAlive => open = {}
=============================================================================
