----------------------------- MODULE Sequencer -----------------------------
(***************************************************************************)
(* synchronization::Sequencer: a log that all workers append to and read.  *)
(*                                                                         *)
(* On every worker a source operator sends what was pushed to all workers, *)
(* at the time its timer shows, and a sink sorts what it received and      *)
(* releases what the frontier has passed.  Operators run only when they    *)
(* are activated; a source that holds back a time the sink waits for must  *)
(* therefore be kept active (CatchupActivator).                            *)
(*                                                                         *)
(* The frontier is what progress tracking promises (ProgressTracking),     *)
(* with one location: a capability or a message at time s may result in    *)
(* any time from s on at the sinks.                                        *)
(***************************************************************************)
EXTENDS Integers, Sequences, FiniteSets, SequencesExt

CONSTANTS
    Peers,
    Index,      \* Index[w]: the index of worker w
    MaxPushes,  \* bound: MaxPushes[w] elements are pushed by worker w
    Droppers,   \* bound: the workers whose program may drop the Sequencer
    MaxClock,   \* bound: the last time a timer shows
    Elapsed,    \* Elapsed[w]: the times that the timer of w shows when it is read
    Coarse      \* TRUE: the timer may show the same time at several runs

ASSUME SequencerAssumption ==
    /\ IsFiniteSet(Peers) /\ Index \in [Peers -> Nat]
    /\ \A v, w \in Peers : Index[v] = Index[w] => v = w
    /\ MaxPushes \in [Peers -> Nat] /\ MaxClock \in Nat
    /\ Droppers \subseteq Peers
    /\ Coarse \in BOOLEAN
    /\ Elapsed \in [Peers -> SUBSET (1 .. MaxClock)]

VARIABLES
    pushes,         \* how many elements each worker has pushed
    alive,          \* the worker's Sequencer has not been dropped
    proposals,      \* of the program (the field send)
    counter,        \* of the source
    capability,     \* of the source: a time, or Gone
    stream,         \* stream[s][w]: sent by s, not consumed by the sink of w
    recvd,          \* received by the sink, sorted, not released
    recv,           \* sequenced items, from which the program reads
    frontier,       \* of the sink, as w knows it
    catchup_until,  \* a time, or None
    source_active, sink_active  \* the operator is to be scheduled

sequencer_vars == <<pushes, alive, proposals, counter, capability, stream, recvd,
                    recv, frontier, catchup_until, source_active, sink_active>>

None == -1
Gone == MaxClock + 1  \* beyond every time: a dropped capability, an empty frontier
Elements == UNION {{w} \X (1 .. MaxPushes[w]) : w \in Peers}
MaxEntries == Cardinality(Elements)
TimeOf(e) == e.key[1]

SequencerInit ==
    /\ pushes = [w \in Peers |-> 0]
    /\ alive = [w \in Peers |-> TRUE]
    /\ proposals = [w \in Peers |-> <<>>] /\ counter = [w \in Peers |-> 0]
    /\ capability = [w \in Peers |-> 0]
    /\ stream = [s \in Peers |-> [w \in Peers |-> <<>>]]
    /\ recvd = [w \in Peers |-> <<>>]
    /\ recv = [w \in Peers |-> <<>>]
    /\ frontier = [w \in Peers |-> 0]
    /\ catchup_until = [w \in Peers |-> None]
    /\ source_active = [w \in Peers |-> TRUE]
    /\ sink_active = [w \in Peers |-> TRUE]

(* timer.elapsed(), which never decreases.  Its last time is kept for       *)
(* catching up, so elements are sent before it.                             *)
LaterTimes(w) == {t \in Elapsed[w] : t > capability[w] \/ (Coarse /\ t = capability[w])}
Sendable(w) == {t \in LaterTimes(w) : \E u \in Elapsed[w] : t < u}

\* Faulty: the newest element is put in front.
push_front(w) ==
    /\ alive[w] /\ pushes[w] < MaxPushes[w] /\ Sendable(w) # {}
    /\ pushes' = [pushes EXCEPT ![w] = @ + 1]
    /\ proposals' = [proposals EXCEPT ![w] = <<<<w, pushes[w] + 1>>>> \o @]
    /\ source_active' = [source_active EXCEPT ![w] = TRUE]
    /\ UNCHANGED <<alive, counter, capability, stream, recvd, recv,
                   frontier, catchup_until, sink_active>>

push(w) ==
    /\ alive[w] /\ pushes[w] < MaxPushes[w] /\ Sendable(w) # {}
    /\ pushes' = [pushes EXCEPT ![w] = @ + 1]
    /\ proposals' = [proposals EXCEPT ![w] = Append(@, <<w, pushes[w] + 1>>)]
    /\ source_active' = [source_active EXCEPT ![w] = TRUE]
    /\ UNCHANGED <<alive, counter, capability, stream, recvd, recv,
                   frontier, catchup_until, sink_active>>

\* Drop: the queue of proposed items goes with the Sequencer.
drop(w) ==
    /\ w \in Droppers /\ alive[w]
    /\ alive' = [alive EXCEPT ![w] = FALSE]
    /\ proposals' = [proposals EXCEPT ![w] = <<>>]
    /\ source_active' = [source_active EXCEPT ![w] = TRUE]
    /\ UNCHANGED <<pushes, counter, capability, stream, recvd, recv,
                   frontier, catchup_until, sink_active>>

\* The source finds the queue of proposed items.
SequenceInput(w) ==
    /\ source_active[w] /\ alive[w]
    /\ \E time \in IF proposals[w] = <<>> THEN LaterTimes(w) ELSE Sendable(w) :
          LET behind == catchup_until[w] # None /\ time < catchup_until[w]
          IN  /\ capability' = [capability EXCEPT ![w] = time]
              /\ stream' = [stream EXCEPT ![w] = [d \in Peers |->
                     @[d] \o [i \in 1 .. Len(proposals[w]) |->
                                 [key |-> <<time, Index[d], counter[w] + i - 1>>,
                                  elem |-> proposals[w][i]]]]]
              /\ source_active' = [source_active EXCEPT ![w] = behind]
              /\ catchup_until' = [catchup_until EXCEPT ![w] = IF behind THEN @ ELSE None]
    /\ counter' = [counter EXCEPT ![w] = @ + Len(proposals[w])]
    /\ proposals' = [proposals EXCEPT ![w] = <<>>]
    /\ UNCHANGED <<pushes, alive, recvd, recv, frontier, sink_active>>

\* The source finds that the Sequencer was dropped.
SequenceInputEnds(w) ==
    /\ source_active[w] /\ ~ alive[w]
    /\ capability' = [capability EXCEPT ![w] = Gone]
    /\ source_active' = [source_active EXCEPT ![w] = FALSE]
    /\ UNCHANGED <<pushes, alive, proposals, counter, stream, recvd, recv,
                   frontier, catchup_until, sink_active>>

\* The times of live capabilities and of messages that no sink has consumed.
Outstanding ==
    {capability[w] : w \in Peers} \cup
    {TimeOf(e) : e \in UNION {ToSet(stream[s][w]) : s, w \in Peers}}

NoneBefore(f) == \A t \in Outstanding : f <= t

\* Worker w learns of progress, and its sink is activated.
Advance(w) ==
    /\ \E f \in frontier[w] + 1 .. Gone :
          /\ NoneBefore(f)
          /\ frontier' = [frontier EXCEPT ![w] = f]
    /\ sink_active' = [sink_active EXCEPT ![w] = TRUE]
    /\ UNCHANGED <<pushes, alive, proposals, counter, capability, stream,
                   recvd, recv, catchup_until, source_active>>

\* The order of keys <<time, worker index, counter>>.
KeyLeq(a, b) ==
    \/ a[1] < b[1]
    \/ a[1] = b[1] /\ (a[2] < b[2] \/ (a[2] = b[2] /\ a[3] <= b[3]))

\* sort_by is stable: of entries with equal keys the earlier one stays in front.
Before(row, i, j) ==
    KeyLeq(row[i].key, row[j].key) /\ (KeyLeq(row[j].key, row[i].key) => i < j)

Sortings(row) ==
    {q \in Bijection(DOMAIN row, DOMAIN row) :
        \A i, j \in DOMAIN row : i < j => Before(row, q[i], q[j])}

(* The orders in which a sink may read what has arrived, each item given as *)
(* a sender and a place in what it sent: senders are interleaved in any     *)
(* order, but each one's items come in the order sent.                      *)
Readings(items) ==
    {p \in Bijection(1 .. Cardinality(items), items) :
        \A i, j \in DOMAIN p : i < j /\ p[i][1] = p[j][1] => p[i][2] < p[j][2]}

\* Faulty: elements at the frontier itself are released.
ready_at_frontier(w, e) == TimeOf(e) <= frontier[w]

ready(w, e) == TimeOf(e) < frontier[w]

\* Faulty: the source is told until when, but not activated.
CatchupQuietly(w, sorted) ==
    /\ catchup_until' = [catchup_until EXCEPT ![w] =
                            IF sorted = <<>> THEN @ ELSE TimeOf(Last(sorted))]
    /\ UNCHANGED source_active

\* While elements wait, the sink keeps the source of its worker active.
Catchup(w, sorted) ==
    IF sorted = <<>>
    THEN UNCHANGED <<catchup_until, source_active>>
    ELSE /\ catchup_until' = [catchup_until EXCEPT ![w] = TimeOf(Last(sorted))]
         /\ source_active' = [source_active EXCEPT ![w] = TRUE]

\* What is ready is drained, into the queue of the program if that is there.
Release(w, sorted) ==
    LET count == Cardinality({k \in DOMAIN sorted : ready(w, sorted[k])})
    IN  /\ recvd' = [recvd EXCEPT ![w] = SubSeq(sorted, count + 1, Len(sorted))]
        /\ recv' = [recv EXCEPT ![w] = IF alive[w] THEN @ \o SubSeq(sorted, 1, count) ELSE @]
        /\ Catchup(w, sorted)

(* The sink is activated by messages or by a change of its frontier.  It    *)
(* takes what has arrived, sorts it with what it has kept, and releases     *)
(* what its frontier has passed.                                            *)
SequenceOutput(w) ==
    /\ \E upto \in [Peers -> 0 .. MaxEntries] :
          LET items == {x \in Peers \X (1 .. MaxEntries) : x[2] <= upto[x[1]]}
          IN  /\ \A s \in Peers : upto[s] <= Len(stream[s][w])
              /\ sink_active[w] \/ items # {}
              /\ stream' = [s \in Peers |-> [stream[s] EXCEPT ![w] =
                                SubSeq(@, upto[s] + 1, Len(@))]]
              /\ \E p \in Readings(items) :
                    LET row == recvd[w] \o [k \in DOMAIN p |-> stream[p[k][1]][w][p[k][2]]]
                    IN  \E q \in Sortings(row) : Release(w, [k \in DOMAIN row |-> row[q[k]]])
    /\ sink_active' = [sink_active EXCEPT ![w] = FALSE]
    /\ UNCHANGED <<pushes, alive, proposals, counter, capability, frontier>>

SequencerNext ==
    \E w \in Peers :
        \/ push(w) \/ drop(w)
        \/ SequenceInput(w) \/ SequenceInputEnds(w) \/ SequenceOutput(w)
        \/ Advance(w)

SequencerSpec == SequencerInit /\ [][SequencerNext]_sequencer_vars

(* Workers run the operators that are active, take what has arrived and     *)
(* learn of progress; a timer that is read again and again moves on.        *)
Fairness ==
    \A w \in Peers :
        /\ WF_sequencer_vars(SequenceInput(w) \/ SequenceInputEnds(w))
        /\ SF_sequencer_vars(SequenceInput(w) /\ capability'[w] > capability[w])
        /\ WF_sequencer_vars(SequenceOutput(w))
        /\ WF_sequencer_vars(Advance(w))

FairSequencerSpec == SequencerSpec /\ Fairness
-----------------------------------------------------------------------------
Released(w) == {e.elem : e \in ToSet(recv[w])}
Everywhere ==
    UNION {ToSet(recv[w]) \cup ToSet(recvd[w])
           \cup UNION {ToSet(stream[s][w]) : s \in Peers} : w \in Peers}

(* Elements "cannot be made visible until all workers have reached the      *)
(* time": a worker that has released an element of some time has released   *)
(* all elements of earlier times that any worker ever sent, in the order of *)
(* their times, and none of such a time can still appear.                   *)
ReleasedByTime ==
    \A w \in Peers : alive[w] => \A i \in DOMAIN recv[w] :
        /\ \A j \in 1 .. i : TimeOf(recv[w][j]) <= TimeOf(recv[w][i])
        /\ \A e \in Everywhere : TimeOf(e) < TimeOf(recv[w][i]) =>
              \E j \in 1 .. i : recv[w][j].elem = e.elem
        /\ \A v \in Peers : capability[v] > TimeOf(recv[w][i])

(* The log has every element once, and elements of one worker in the order  *)
(* in which they were pushed.                                               *)
SenderOrder ==
    \A w \in Peers : \A i, j \in DOMAIN recv[w] :
        /\ recv[w][i].elem[1] = recv[w][j].elem[1] /\ i < j
        => recv[w][i].elem[2] < recv[w][j].elem[2]

(* "seen by all workers in the same order": of the logs of two workers one  *)
(* is a prefix of the other.                                                *)
SameOrder ==
    \A v, w \in Peers : alive[v] /\ alive[w] =>
        \A i \in DOMAIN recv[v] \cap DOMAIN recv[w] : recv[v][i].elem = recv[w][i].elem

WasSent(x) == \E e \in Everywhere : e.elem = x
Settled(x, w) == x \in Released(w) \/ ~ alive[w]

(* A sent element is eventually released by every worker that keeps its     *)
(* Sequencer: its source is scheduled "until its capability timestamp       *)
(* exceeds the greatest timestamp that the sink has received".              *)
EventuallyReleased ==
    \A x \in Elements, w \in Peers : []<>(~ WasSent(x) \/ Settled(x, w))
=============================================================================
