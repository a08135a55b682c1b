-------------------------- MODULE ProgressProtocol --------------------------
(***************************************************************************)
(* The distributed progress protocol of one dataflow scope.                *)
(*                                                                         *)
(* Every worker runs an instance of every operator.  Operators hold        *)
(* capabilities and messages; each one made or dropped is a +1 or -1 at    *)
(* its pointstamp, recorded in the operator's SharedProgress, moved to the *)
(* scope's local_pointstamp when the operator has been scheduled, sent as  *)
(* one batch to all workers by the Progcaster when Subgraph::send_progress *)
(* decides so, and added by every receiver to its reachability Tracker.    *)
(* The channels of messages and the channels of progress batches are not   *)
(* ordered with respect to each other.                                     *)
(*                                                                         *)
(* The code sums the updates of a batch by pointstamp (ChangeBatch).  Here *)
(* an update keeps the object it is about, <<x, 1>> or <<x, -1>>, and the  *)
(* sums are taken where the code reads them: Count for a tracker, Net for  *)
(* local_pointstamp.                                                       *)
(***************************************************************************)
EXTENDS Integers, Sequences, FiniteSets

CONSTANTS
    Workers,      \* the workers of all processes
    Operators,    \* the operators of the scope
    Locations,    \* their ports
    Sources,      \* the output ports; the other locations are input ports
    Times,        \* timestamps
    TimeLeq,      \* the order of timestamps, as a set of pairs
    OpOf,         \* OpOf[l]: the operator the port belongs to
    Step,         \* one hop of the graph, as a set of pairs of pointstamps:
                  \* an edge, or an internal summary applied to the time
    Leq,          \* could-result-in, the closure of Step and TimeLeq
    InitialCaps,  \* sequence of <<worker, pointstamp>>: the capabilities the
                  \* operators are given when the dataflow is built
    Eager,        \* TRUE for ProgressMode::Eager, FALSE for ProgressMode::Demand
    MaxObjects    \* bound: objects ever made

Points == Locations \X Times
Agents == Workers \X Operators

(* The graph around a pointstamp: what could result in it, the hops into    *)
(* and out of it, the earlier times at its location, and its operator.      *)
Below == [p \in Points |-> {q \in Points : <<q, p>> \in Leq}]
Into == [p \in Points |-> {q \in Points : <<q, p>> \in Step}]
OutOf == [p \in Points |-> {q \in Points : <<p, q>> \in Step}]
Earlier == [p \in Points |-> {q \in Points : /\ q[1] = p[1] /\ q # p
                                             /\ <<q[2], p[2]>> \in TimeLeq}]
Owner == [p \in Points |-> OpOf[p[1]]]
CapPoints == {p \in Points : p[1] \in Sources}

(* The graph is well formed: the times of a location are ordered by         *)
(* could-result-in, hops alternate between output and input ports, an       *)
(* internal summary stays inside an operator, and no cycle leaves the time  *)
(* unchanged, so could-result-in is a well-founded partial order            *)
(* (reachability::Builder::is_acyclic is the check of the last).            *)
ASSUME GraphAssumption ==
    /\ OpOf \in [Locations -> Operators]
    /\ Step \subseteq Leq /\ Leq \subseteq Points \X Points
    /\ \A p \in Points : <<p, p>> \in Leq /\ \A q \in Earlier[p] : <<q, p>> \in Leq
    /\ \A p, q, r \in Points : <<p, q>> \in Leq /\ <<q, r>> \in Leq => <<p, r>> \in Leq
    /\ \A S \in SUBSET Points : S # {} =>
          \E p \in S : \A q \in S : <<q, p>> \in Leq => q = p
    /\ \A e \in Step : e[1] \in CapPoints <=> e[2] \notin CapPoints
    /\ \A e \in Step : e[1] \notin CapPoints => Owner[e[1]] = Owner[e[2]]
    /\ \A p \in Points : IsFiniteSet(OutOf[p])

ASSUME ConfigAssumption ==
    /\ InitialCaps \in Seq(Workers \X CapPoints)
    /\ MaxObjects \in Nat /\ Len(InitialCaps) <= MaxObjects

VARIABLES
    obj,          \* obj[x]: the x-th capability or message ever made
    live,         \* the objects not dropped: capabilities and messages that
                  \* operators hold, and messages in their channels
    shared,       \* shared[<<w, o>>]: updates in the operator's SharedProgress
    local,        \* local[w]: updates in local_pointstamp
    log,          \* log[w]: the batches w has sent, in order
    pos,          \* pos[w][v]: how many batches of v worker w has received
    tracker,      \* tracker[w][p]: the count of p in w's reachability tracker
    running       \* w is between the two ends of Subgraph::schedule

vars == <<obj, live, shared, local, log, pos, tracker, running>>

Made == DOMAIN obj
Update == (1 .. MaxObjects) \X {-1, 1}

(* An object's pointstamp, the worker it is on or on its way to, and the    *)
(* object it was derived from (0 for an initial capability).  Only the      *)
(* operator instance that holds it derives from it and drops it.            *)
Object == [pt : Points, home : Workers, from : Nat]
Holder(x) == <<obj[x].home, Owner[obj[x].pt]>>
IsCap(x) == obj[x].pt \in CapPoints

-----------------------------------------------------------------------------
(* A batch summed by pointstamp, as ChangeBatch does.                       *)

At(U, d, p) == {x \in Made : obj[x].pt = p /\ <<x, d>> \in U}
Net(U, p) == Cardinality(At(U, 1, p)) - Cardinality(At(U, -1, p))

(* The reachability tracker.                                                *)

Count(w, p) == tracker[w][p]

\* p is at or beyond the frontier: the tracker counts something that reaches it.
Implied(w, p) == \E q \in Below[p] : Count(w, q) > 0
Passed(w) == {p \in Points : ~ Implied(w, p)}

InFrontier(w, p) == Implied(w, p) /\ ~ \E q \in Earlier[p] : Implied(w, q)

(* PortInformation::count_for on implications: one for the location's own   *)
(* pointstamps if p is in their frontier, one for every hop into p from a   *)
(* time in the frontier of the location before it.                          *)
Contributions(w, p) ==
    (IF Count(w, p) > 0 /\ ~ \E q \in Earlier[p] : Count(w, q) > 0 THEN 1 ELSE 0)
    + Cardinality({q \in Into[p] : InFrontier(w, q)})

\* Faulty: a single contribution is already taken for redundant.
is_never_global(w, p) ==
    ~ (\E q \in Earlier[p] : InFrontier(w, q)) /\ ~ (Contributions(w, p) >= 1)

is_global(w, p) ==
    LET dominated == \E q \in Earlier[p] : InFrontier(w, q)
        redundant == Contributions(w, p) > 1
    IN  ~ dominated /\ ~ redundant

\* Faulty: messages are forgotten.
tracking_capabilities(w) == \E p \in CapPoints : Count(w, p) > 0

tracking_anything(w) == \E p \in Points : Count(w, p) > 0

-----------------------------------------------------------------------------
Init ==
    /\ obj = [x \in 1 .. Len(InitialCaps) |->
                 LET w == InitialCaps[x][1]
                     p == InitialCaps[x][2]
                 IN  [pt |-> p, home |-> w, from |-> 0]]
    /\ live = 1 .. Len(InitialCaps)
    /\ shared = [a \in Agents |-> {}]
    /\ local = [w \in Workers |-> {}]
    /\ log = [w \in Workers |-> <<>>]
    /\ pos = [w \in Workers |-> [v \in Workers |-> 0]]
    /\ tracker = [w \in Workers |->
                     [p \in Points |-> Cardinality({x \in 1 .. Len(InitialCaps) :
                                                       InitialCaps[x][2] = p})]]
    /\ running = [w \in Workers |-> FALSE]

\* The holder of x makes a sequence of objects and records them as produced.
Derive(x, news) ==
    LET n == Len(obj)
    IN  /\ n + Len(news) <= MaxObjects
        /\ obj' = obj \o news
        /\ live' = live \cup (n + 1 .. n + Len(news))
        /\ shared' = [shared EXCEPT ![Holder(x)] =
                          @ \cup {<<y, 1>> : y \in n + 1 .. n + Len(news)}]

NewCap(x, p) == [pt |-> p, home |-> obj[x].home, from |-> x]

\* Faulty: the new time is not compared with the capability's.
DelayedUnchecked(x, p) ==
    /\ IsCap(x)
    /\ p[1] = obj[x].pt[1]
    /\ Derive(x, <<NewCap(x, p)>>)
    /\ UNCHANGED <<local, log, pos, tracker, running>>

\* Capability::clone and Capability::delayed.
Delayed(x, p) ==
    /\ IsCap(x)
    /\ p = obj[x].pt \/ obj[x].pt \in Earlier[p]
    /\ Derive(x, <<NewCap(x, p)>>)
    /\ UNCHANGED <<local, log, pos, tracker, running>>

\* InputCapability::retain_for_output and delayed_for_output.
Retain(x, p) ==
    /\ ~ IsCap(x)
    /\ \E q \in OutOf[obj[x].pt] : p = q \/ q \in Earlier[p]
    /\ Derive(x, <<NewCap(x, p)>>)
    /\ UNCHANGED <<local, log, pos, tracker, running>>

\* Where x lets its holder open sessions: a message's InputCapability is valid
\* for the outputs whose summary leaves the time as it is.
Sessions(x) ==
    IF IsCap(x) THEN {obj[x].pt}
                ELSE {q \in OutOf[obj[x].pt] : q[2] = obj[x].pt[2]}

(* A message given to a session opened with x: the Tee passes a copy to     *)
(* every target of the output, and the channel of each target chooses the   *)
(* worker that gets it.                                                     *)
Give(x) ==
    /\ \E q \in Sessions(x) :
          LET targets == OutOf[q]
              copies == Cardinality(targets)
          IN  \E order \in [1 .. copies -> targets], to \in [1 .. copies -> Workers] :
                 /\ \A p \in targets : \E i \in 1 .. copies : order[i] = p
                 /\ Derive(x, [i \in 1 .. copies |->
                                  [pt |-> order[i], home |-> to[i], from |-> x]])
    /\ UNCHANGED <<local, log, pos, tracker, running>>

\* Drop of a Capability, or of the ConsumedGuard of a message.
Release(x) ==
    /\ live' = live \ {x}
    /\ shared' = [shared EXCEPT ![Holder(x)] = @ \cup {<<x, -1>>}]
    /\ UNCHANGED <<obj, local, log, pos, tracker, running>>

\* The number of batches of the worker that has sent most.
Longest == CHOOSE n \in {Len(log[v]) : v \in Workers} : \A v \in Workers : n >= Len(log[v])

\* The updates in the batches that w has not received yet, up to given positions.
Arrived(w, upto) ==
    UNION {UNION {log[v][i] : i \in pos[w][v] + 1 .. upto[v]} : v \in Workers}

(* The first half of Subgraph::schedule: Progcaster::recv takes whatever    *)
(* batches have arrived and propagate_pointstamps applies them.             *)
BeginSchedule(w) ==
    /\ ~ running[w]
    /\ \E upto \in [Workers -> 0 .. Longest] :
          /\ \A v \in Workers : upto[v] \in pos[w][v] .. Len(log[v])
          /\ pos' = [pos EXCEPT ![w] = upto]
          /\ tracker' = [tracker EXCEPT ![w] =
                 [p \in Points |-> @[p] + Net(Arrived(w, upto), p)]]
    /\ running' = [running EXCEPT ![w] = TRUE]
    /\ UNCHANGED <<obj, live, shared, local, log>>

\* Faulty: consumed messages and dropped capabilities first, the rest next time.
ExtractEndsFirst(w, o) ==
    LET all == shared[<<w, o>>]
        ends == {u \in all : u[2] = -1}
        taken == IF ends = {} THEN all ELSE ends
    IN  /\ running[w]
        /\ local' = [local EXCEPT ![w] = @ \cup taken]
        /\ shared' = [shared EXCEPT ![<<w, o>>] = @ \ taken]
        /\ UNCHANGED <<obj, live, log, pos, tracker, running>>

\* The end of activate_child: the operator's recorded progress is extracted.
Extract(w, o) ==
    /\ running[w]
    /\ local' = [local EXCEPT ![w] = @ \cup shared[<<w, o>>]]
    /\ shared' = [shared EXCEPT ![<<w, o>>] = {}]
    /\ UNCHANGED <<obj, live, log, pos, tracker, running>>

must_send(w) ==
    \/ Eager
    \/ \E p \in Points : Net(local[w], p) < 0 /\ is_global(w, p)

\* Faulty: what was sent is kept, and sent again.
EndScheduleKeeps(w) ==
    /\ running[w]
    /\ running' = [running EXCEPT ![w] = FALSE]
    /\ IF must_send(w) /\ \E p \in Points : Net(local[w], p) # 0
       THEN log' = [log EXCEPT ![w] = Append(@, local[w])]
       ELSE UNCHANGED log
    /\ UNCHANGED <<obj, live, shared, local, pos, tracker>>

(* Subgraph::send_progress and Progcaster::send: all of local_pointstamp,   *)
(* unless its counts cancel.                                                *)
EndSchedule(w) ==
    /\ running[w]
    /\ running' = [running EXCEPT ![w] = FALSE]
    /\ IF must_send(w) /\ \E p \in Points : Net(local[w], p) # 0
       THEN /\ log' = [log EXCEPT ![w] = Append(@, local[w])]
            /\ local' = [local EXCEPT ![w] = {}]
       ELSE UNCHANGED <<log, local>>
    /\ UNCHANGED <<obj, live, shared, pos, tracker>>

Next ==
    \/ \E x \in live : \/ \E p \in Points : Delayed(x, p) \/ Retain(x, p)
                       \/ Give(x)
                       \/ Release(x)
    \/ \E w \in Workers : \/ BeginSchedule(w)
                          \/ \E o \in Operators : Extract(w, o)
                          \/ EndSchedule(w)

Spec == Init /\ [][Next]_vars

(* A worker keeps stepping, the channels deliver what was sent, and         *)
(* operators whose progress changed are activated: with them, every         *)
(* schedule ends, batches are eventually all received, and progress is      *)
(* extracted, of some operator that has any.                                *)
ReceiveAll(w) == BeginSchedule(w) /\ \A v \in Workers : pos'[w][v] = Len(log[v])

Fairness ==
    \A w \in Workers : /\ WF_vars(EndSchedule(w))
                        /\ SF_vars(ReceiveAll(w))
                        /\ SF_vars(\E o \in Operators : Extract(w, o))

FairSpec == Spec /\ Fairness
-----------------------------------------------------------------------------
(* The state is well formed: every update is about an object that was made, *)
(* no worker has applied more batches than were sent to it.                 *)
TypeOK ==
    /\ obj \in Seq(Object) /\ Len(obj) <= MaxObjects
    /\ live \in SUBSET Made
    /\ shared \in [Agents -> SUBSET (Made \X {-1, 1})]
    /\ local \in [Workers -> SUBSET (Made \X {-1, 1})]
    /\ log \in [Workers -> Seq(SUBSET (Made \X {-1, 1}))]
    /\ pos \in [Workers -> [Workers -> Nat]]
    /\ \A w, v \in Workers : pos[w][v] <= Len(log[v])
    /\ tracker \in [Workers -> [Points -> Int]]
    /\ running \in [Workers -> BOOLEAN]

(* No frontier of any worker has passed a pointstamp that a live capability *)
(* or message, on any worker or in any channel, could still result in       *)
(* (subgraph.rs: notifications and shutdown rely on it).                    *)
FrontierSafe ==
    \A x \in live, w \in Workers : Implied(w, obj[x].pt)

(* When a tracker counts nothing, Subgraph::schedule reports the scope as   *)
(* complete and the worker drops it: no object is alive anywhere, and no    *)
(* worker will send another batch.                                          *)
CompletionIsFinal ==
    \A w \in Workers : ~ tracking_anything(w) =>
        /\ live = {}
        /\ \A v \in Workers : pos[w][v] = Len(log[v]) /\ local[v] = {}
        /\ \A a \in Agents : shared[a] = {}

\* A worker's frontiers only advance.
FrontierMonotonic == [][\A w \in Workers : Passed(w) \subseteq Passed(w)']_vars

(* The protocol implements the promise of ProgressTracking.                 *)
Promise == INSTANCE ProgressTracking
               WITH outstanding <- {obj[x].pt : x \in live},
                    passed <- [w \in Workers |-> Passed(w)]
Implements == Promise!Spec

(* Once nothing alive can result in a pointstamp, every worker's frontier   *)
(* eventually passes it, although ProgressMode::Demand holds updates back.  *)
Reachable(p) == \E x \in live : obj[x].pt \in Below[p]
FrontierAdvances ==
    \A p \in Points, w \in Workers : [](~ Reachable(p) => <>(p \in Passed(w)))
-----------------------------------------------------------------------------
(* Why it works.  The updates of an operator instance reach a tracker in    *)
(* batches; every batch boundary is a consistent cut of that instance's     *)
(* history, although the instances of a worker are cut independently.       *)

Seeds == {<<x, 1>> : x \in 1 .. Len(InitialCaps)}
Sent(v, k) == UNION {log[v][i] : i \in 1 .. k}
AllSent(v) == Sent(v, Len(log[v]))
Known(w) == Seeds \cup UNION {Sent(v, pos[w][v]) : v \in Workers}

\* The operator instance in whose SharedProgress an update was recorded.
Recorder(u) == IF u[2] = 1 THEN Holder(obj[u[1]].from) ELSE Holder(u[1])
Genuine(u) == /\ u \in Made \X {-1, 1}
              /\ IF u[2] = 1 THEN u[1] > Len(InitialCaps) ELSE u[1] \notin live

\* Every object comes from an earlier one that could result in it.
Lineage ==
    /\ Len(InitialCaps) <= Len(obj)
    /\ \A x \in 1 .. Len(InitialCaps) : IsCap(x)
    /\ \A x \in Made : x > Len(InitialCaps) =>
          LET y == obj[x].from
          IN  /\ y \in 1 .. x - 1
              /\ <<obj[y].pt, obj[x].pt>> \in Leq
              /\ IsCap(x) => Holder(x) = Holder(y)
              /\ IsCap(x) \/ obj[y].pt # obj[x].pt

\* Updates are where their recorder put them, and are about what happened.
NothingInvented ==
    /\ \A a \in Agents : \A u \in shared[a] : Genuine(u) /\ Recorder(u) = a
    /\ \A w \in Workers : \A u \in local[w] \cup AllSent(w) :
          Genuine(u) /\ Recorder(u)[1] = w
    /\ \A w \in Workers : \A i \in DOMAIN log[w] : log[w][i] # {}

\* What happened is recorded, and its update is kept until it is sent.
NothingLost ==
    \A u \in Made \X {-1, 1} : Genuine(u) =>
        LET a == Recorder(u)
        IN  u \in shared[a] \cup local[a[1]] \cup AllSent(a[1])

\* An update is in one place only.
NothingTwice ==
    \A w \in Workers :
        /\ \A o \in Operators : shared[<<w, o>>] \cap (local[w] \cup AllSent(w)) = {}
        /\ local[w] \cap AllSent(w) = {}
        /\ \A i, j \in DOMAIN log[w] : i # j => log[w][i] \cap log[w][j] = {}

(* A set of updates of one worker is closed if the end of an object is not  *)
(* in it without what was derived from the object before.                   *)
Closed(S) ==
    \A x, y \in Made : /\ <<x, -1>> \in S
                       /\ y > Len(InitialCaps)
                       /\ x = obj[y].from \/ (x = y /\ IsCap(x))
                       => <<y, 1>> \in S

Consistent ==
    \A w \in Workers : /\ \A k \in 0 .. Len(log[w]) : Closed(Sent(w, k))
                       /\ Closed(local[w] \cup AllSent(w))

TrackerIsSum ==
    \A w \in Workers, p \in Points : tracker[w][p] = Net(Known(w), p)

IndInv ==
    /\ TypeOK
    /\ Lineage
    /\ NothingInvented
    /\ NothingLost
    /\ NothingTwice
    /\ Consistent
    /\ TrackerIsSum

=============================================================================
