---------------------------- MODULE Reachability ----------------------------
(***************************************************************************)
(* progress::reachability::Tracker: from counts of pointstamps to the      *)
(* frontier of every port, incrementally.                                  *)
(*                                                                         *)
(* Tracker::propagate_all is one call in the code; here its first part is  *)
(* the action Absorb and every turn of its worklist loop is an action Pop, *)
(* so that what the loop's comment claims of its order and its end can be  *)
(* stated.  Nothing interleaves with it.                                   *)
(***************************************************************************)
EXTENDS Integers, FiniteSets, FiniteSetsExt

CONSTANTS
    Locations,     \* the ports of the operators of a scope, and of child zero
    LocationOrd,   \* their total order (Ord of Location), as a set of pairs
    ScopeInputs,   \* child zero's output ports: where the scope's inputs enter
    ScopeOutputs,  \* child zero's input ports: the scope's outputs
    Times, TimeLeq, TimeOrd,
    Step, Leq,     \* one hop of the graph and its closure: see ProgressProtocol
    OuterTimes, OuterLeq, OuterOrd,
    to_outer,      \* Refines::to_outer, as a function from Times to OuterTimes
    MaxUpdates     \* bound: updates ever given to the tracker

Points == Locations \X Times
Tracked == {p \in Points : p[1] \notin ScopeOutputs}

Below == [p \in Points |-> {q \in Points : <<q, p>> \in Leq}]
OutOf == [p \in Points |-> {q \in Points : <<p, q>> \in Step}]
Into == [p \in Points |-> {q \in Points : <<q, p>> \in Step}]

Chain == INSTANCE MutableAntichain
Outer == INSTANCE MutableAntichain
             WITH Times <- OuterTimes, TimeLeq <- OuterLeq, TimeOrd <- OuterOrd

\* q is at the location of p, at its time or an earlier one.
NoLater(q, p) == q[1] = p[1] /\ Chain!less_equal(q[2], p[2])

(* Times are ordered; could-result-in is made of hops and later times only; *)
(* summaries are monotone; no cycle, and in particular no single hop, leaves *)
(* the time unchanged; and to_outer keeps the order of times.               *)
ASSUME TrackerAssumption ==
    /\ Chain!Ordered /\ Outer!Ordered
    /\ IsFiniteSet(Locations) /\ IsFiniteSet(Times) /\ IsFiniteSet(OuterTimes)
    /\ ScopeInputs \subseteq Locations /\ ScopeOutputs \subseteq Locations
    /\ Step \subseteq Leq /\ Leq \subseteq Points \X Points
    /\ \A p, q \in Points : NoLater(q, p) => <<q, p>> \in Leq
    /\ \A p, q, r \in Points : <<p, q>> \in Leq /\ <<q, r>> \in Leq => <<p, r>> \in Leq
    /\ \A p \in Points : \A q \in Below[p] :
          NoLater(q, p) \/ \E r \in Points : NoLater(r, p) /\ \E s \in Into[r] : q \in Below[s]
    /\ \A p, q \in Points : NoLater(q, p) =>
          \A r \in OutOf[p] : \E s \in OutOf[q] : NoLater(s, r)
    /\ \A p, q \in Points : <<p, q>> \in Leq /\ <<q, p>> \in Leq => p = q
    /\ \A p \in Points : <<p, p>> \notin Step
    /\ to_outer \in [Times -> OuterTimes]
    /\ \A s, t \in Times : Chain!less_equal(s, t) => Outer!less_equal(to_outer[s], to_outer[t])
    /\ MaxUpdates \in Nat

VARIABLES
    changes,        \* target_changes and source_changes
    pointstamps,    \* per location: the MutableAntichain of its own counts
    implications,   \* per location: the MutableAntichain of what reaches it
    worklist,       \* what is to be added to implications, summed by pointstamp
    total_counts,
    pushed,         \* pushed_changes
    output_changes, \* per scope output and time: changes projected to it
    told,           \* the sum of the frontier changes given to the children
    output_capabilities, \* per scope output: the MutableAntichain of outer times
    given           \* how many updates the tracker has been given

vars == <<changes, pointstamps, implications, worklist, total_counts, pushed,
          output_changes, told, output_capabilities, given>>

Zero == [p \in Points |-> 0]
NoOutput == [o \in ScopeOutputs |-> [t \in Times |-> 0]]
Indicator(b) == IF b THEN 1 ELSE 0

\* Faulty: scope inputs are projected as well.
output_summaries_all ==
    [p \in Points |-> {q \in Points : q[1] \in ScopeOutputs /\ p \in Below[q]}]

(* Where a pointstamp can leave the scope, along the minimal path summaries *)
(* that summarize_outputs compiles; scope inputs are not projected.         *)
output_summaries ==
    [p \in Points |->
        IF p[1] \in ScopeInputs \cup ScopeOutputs THEN {}
        ELSE LET reached == {q \in Points : q[1] \in ScopeOutputs /\ p \in Below[q]}
             IN  {q \in reached : ~ \E r \in reached :
                                      r[1] = q[1] /\ Chain!less_than(r[2], q[2])}]

Init ==
    /\ changes = Zero
    /\ pointstamps = [l \in Locations |-> Chain!Empty]
    /\ implications = [l \in Locations |-> Chain!Empty]
    /\ worklist = Zero
    /\ total_counts = 0
    /\ pushed = Zero
    /\ output_changes = NoOutput
    /\ told = Zero
    /\ output_capabilities = [o \in ScopeOutputs |-> Outer!Empty]
    /\ given = 0

\* Subgraph::propagate_pointstamps has returned.
Returned == worklist = Zero /\ pushed = Zero /\ output_changes = NoOutput

\* Tracker::update, from accept_frontier or with what Progcaster::recv brought.
update(p, d) ==
    /\ given < MaxUpdates
    /\ Returned
    /\ given' = given + 1
    /\ changes' = [changes EXCEPT ![p] = @ + d]
    /\ UNCHANGED <<pointstamps, implications, worklist, total_counts, pushed,
                   output_changes, told, output_capabilities>>

(* Step 1 of propagate_all: the changes are filtered through pointstamps;   *)
(* only changes of a location's own frontier have consequences.             *)
Absorb ==
    /\ Returned
    /\ changes # Zero
    /\ pointstamps' = [l \in Locations |->
           Chain!update_iter(pointstamps[l], [t \in Times |-> changes[<<l, t>>]])]
    /\ worklist' = [p \in Points |->
           Chain!Change(pointstamps[p[1]], pointstamps'[p[1]], p[2])]
    /\ LET Sum(S) == Cardinality({p \in S : worklist'[p] = 1})
                       - Cardinality({p \in S : worklist'[p] = -1})
       IN  /\ total_counts' = total_counts + Sum(Points)
           /\ output_changes' = [o \in ScopeOutputs |-> [t \in Times |->
                  Sum({p \in Points : <<o, t>> \in output_summaries[p]})]]
    /\ changes' = Zero
    /\ UNCHANGED <<implications, pushed, told, output_capabilities, given>>

Pending == {p \in Points : worklist[p] # 0}

\* The heap yields the least time and, for it, the least location.
Least(p) ==
    \A q \in Pending : /\ <<p[2], q[2]>> \in TimeOrd
                       /\ p[2] = q[2] => <<p[1], q[1]>> \in LocationOrd

\* Faulty: the count that was applied is sent on, not the change of the frontier.
PopUnfiltered ==
    \E p \in Pending :
        /\ Least(p)
        /\ implications' = [implications EXCEPT ![p[1]] = Chain!update_iter(@,
               [t \in Times |-> IF t = p[2] THEN worklist[p] ELSE 0])]
        /\ worklist' = [q \in Points |-> (IF p \in Into[q] THEN worklist[p] ELSE 0)
                                         + IF q = p THEN 0 ELSE worklist[q]]
        /\ pushed' = [pushed EXCEPT ![p] = @ + worklist[p]]
        /\ UNCHANGED <<changes, pointstamps, total_counts, output_changes, told,
                       output_capabilities, given>>

\* One turn of the loop of step 2 of propagate_all.
Pop ==
    \E p \in Pending :
        /\ Least(p)
        /\ implications' = [implications EXCEPT ![p[1]] = Chain!update_iter(@,
               [t \in Times |-> IF t = p[2] THEN worklist[p] ELSE 0])]
        /\ LET Diff(q) == IF q[1] # p[1] THEN 0
                          ELSE Chain!Change(implications[q[1]], implications'[q[1]], q[2])
               Moved(q, d) == Cardinality({r \in Into[q] : Diff(r) = d})
           IN  /\ worklist' = [q \in Points |->
                     Moved(q, 1) - Moved(q, -1) + IF q = p THEN 0 ELSE worklist[q]]
               /\ pushed' = [q \in Points |-> pushed[q] + Diff(q)]
        /\ UNCHANGED <<changes, pointstamps, total_counts, output_changes, told,
                       output_capabilities, given>>

\* Faulty: an early return when no frontier inside the scope has changed.
DrainIfPushed ==
    /\ worklist = Zero /\ changes = Zero
    /\ pushed # Zero
    /\ told' = [p \in Points |-> told[p] + pushed[p]]
    /\ pushed' = Zero
    /\ output_changes' = NoOutput
    /\ UNCHANGED <<changes, pointstamps, implications, worklist, total_counts,
                   output_capabilities, given>>

(* The rest of Subgraph::propagate_pointstamps: frontier changes go to the  *)
(* children, and what the scope may still emit, in times of the parent, is  *)
(* filtered through output_capabilities into the parent's view of it.       *)
Drain ==
    /\ worklist = Zero /\ changes = Zero
    /\ pushed # Zero \/ output_changes # NoOutput
    /\ told' = [p \in Points |-> told[p] + pushed[p]]
    /\ pushed' = Zero
    /\ output_capabilities' = [o \in ScopeOutputs |->
           Outer!update_iter(output_capabilities[o], [s \in OuterTimes |->
               MapThenSumSet(LAMBDA t : output_changes[o][t],
                             {t \in Times : to_outer[t] = s})])]
    /\ output_changes' = NoOutput
    /\ UNCHANGED <<changes, pointstamps, implications, worklist, total_counts, given>>

propagate_pointstamps == Absorb \/ Pop \/ Drain

Next ==
    \/ \E p \in Tracked, d \in {-1, 1} : update(p, d)
    \/ propagate_pointstamps

Spec == Init /\ [][Next]_vars

\* The worker keeps calling propagate_pointstamps, and runs what it calls.
FairSpec == Spec /\ WF_vars(propagate_pointstamps)
-----------------------------------------------------------------------------
TypeOK ==
    /\ changes \in [Points -> Int] /\ worklist \in [Points -> Int]
    /\ pushed \in [Points -> Int] /\ told \in [Points -> Int]
    /\ pointstamps \in [Locations -> Chain!Antichain]
    /\ implications \in [Locations -> Chain!Antichain]
    /\ output_changes \in [ScopeOutputs -> [Times -> Int]]
    /\ output_capabilities \in [ScopeOutputs -> Outer!Antichain]
    /\ total_counts \in Int /\ given \in 0 .. MaxUpdates

AtOwnFrontier(p) == p[2] \in pointstamps[p[1]].frontier
AtFrontier(p) == p[2] \in implications[p[1]].frontier

\* Something with a positive count could result in p.
Implied(p) == \E q \in Below[p] : pointstamps[q[1]].updates[q[2]] > 0
Earlier(p) == {q \in Points : q[1] = p[1] /\ Chain!less_than(q[2], p[2])}

Propagated == changes = Zero /\ Returned

(* What propagate_pointstamps tells the children is exact, although every   *)
(* step works on changes only, counts may be negative for a while, and a    *)
(* rebuild is skipped when it seems unnecessary: the sum of the changes     *)
(* told for a port is the antichain of the least times that some pointstamp *)
(* with a positive count could result in there.                             *)
FrontierExact ==
    Propagated => \A p \in Points :
        told[p] = Indicator(Implied(p) /\ ~ \E q \in Earlier(p) : Implied(q))

(* total_counts "should always be exactly equal to the sum across all       *)
(* operators of the frontier sizes", and positive exactly when something    *)
(* has a positive count (tracking_anything).                                *)
TotalCounts ==
    /\ total_counts = Cardinality({p \in Points : AtOwnFrontier(p)})
    /\ total_counts > 0 <=> \E p \in Points : pointstamps[p[1]].updates[p[2]] > 0

(* The invariant of the worklist loop: an implication's count and what is   *)
(* still queued for it are together one for the location's own frontier and *)
(* one for every hop from the frontier of the location before.              *)
Balanced ==
    \A p \in Points :
        implications[p[1]].updates[p[2]] + worklist[p] =
            Indicator(AtOwnFrontier(p)) + Cardinality({q \in Into[p] : AtFrontier(q)})

\* Skipping rebuilds never leaves a frontier stale.
AntichainsExact ==
    /\ \A l \in Locations : Chain!Exact(pointstamps[l]) /\ Chain!Exact(implications[l])
    /\ \A o \in ScopeOutputs : Outer!Exact(output_capabilities[o])

\* What was pushed adds up to the frontiers.
PushedExact == \A p \in Points : told[p] + pushed[p] = Indicator(AtFrontier(p))

SumOver(f, S) == MapThenSumSet(LAMBDA t : f[t], S)
TimesAt(s) == {t \in Times : to_outer[t] = s}

\* Per time, the least pointstamps inside the scope that could leave by o there.
Leaving(o) ==
    [t \in Times |-> Cardinality({p \in Points :
                         AtOwnFrontier(p) /\ <<o, t>> \in output_summaries[p]})]

(* What output_capabilities counts for an outer time and what is still to   *)
(* be projected to it are together the frontier elements that could leave   *)
(* by that output at a time that refines it.                                *)
OutputsBalanced ==
    \A o \in ScopeOutputs, s \in OuterTimes :
        output_capabilities[o].updates[s] + SumOver(output_changes[o], TimesAt(s)) =
            SumOver(Leaving(o), TimesAt(s))

(* At every turn of the loop, not only at its end: the counts, the worklist, *)
(* the frontiers and what the parent is told balance.                       *)
TrackerInv ==
    /\ TypeOK /\ Balanced /\ AntichainsExact /\ PushedExact /\ TotalCounts
    /\ OutputsBalanced

(* What a scope reports to its parent as capabilities of an output is       *)
(* exactly the antichain of the parent's times at which a pointstamp inside *)
(* the scope could leave by that output, scope inputs left aside.           *)
CanLeave(o, s) ==
    \E q \in Points, t \in Times :
        /\ q[1] \notin ScopeInputs \cup ScopeOutputs
        /\ pointstamps[q[1]].updates[q[2]] > 0
        /\ q \in Below[<<o, t>>] /\ Outer!less_equal(to_outer[t], s)
OutputsExact ==
    Propagated => \A o \in ScopeOutputs, s \in OuterTimes :
        s \in output_capabilities[o].frontier <=>
            CanLeave(o, s) /\ ~ \E r \in OuterTimes : Outer!less_than(r, s) /\ CanLeave(o, r)

(* "The argument that this always terminates is subtle" (reachability.rs).  *)
Terminates == []<>Propagated
=============================================================================
