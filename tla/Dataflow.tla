------------------------------ MODULE Dataflow ------------------------------
(***************************************************************************)
(* Sources, an operator and a probe: user code that drives input handles   *)
(* between the steps of the workers, the operators that are scheduled, and *)
(* what the probe sees.                                                    *)
(*                                                                         *)
(* Sources send to one operator, each from a worker of its own or several  *)
(* from the same one; the operator's output goes to a probe on the same    *)
(* worker.  The bench chooses the sources, the pact and the operator.      *)
(* Progress tracking is taken by its promise: counts are what operators    *)
(* have reported, and a frontier moves to any time that no count reaches   *)
(* back to.                                                                *)
(***************************************************************************)
EXTENDS Operators, FiniteSetsExt

CONSTANTS
    Benches    \* the arrangements to be checked

\* A Barrier has an input of its own, of which its program does not see the handle, and a probe.
OnlyBarrier(b) == b.source = "input" /\ b.op = "exchange" /\ b.program \subseteq {"barrier", "close"}

ASSUME DataflowAssumption ==
    /\ Never \in Nat /\ Never > 1 /\ Rounds \in Nat
    /\ \A b \in Benches :
          /\ b.capacity \in Nat \ {0} /\ b.records \in Nat /\ b.last \in Nat /\ b.last + 1 < Never
          /\ "barrier" \in b.program => OnlyBarrier(b)

(* A bench is [worker, pact, op, source, program, capacity, records, last]: *)
(* the worker of each source, the pact of the operator's inputs, the        *)
(* operator, the kind of the sources, the calls of user code, the records   *)
(* of a full container, and the bounds of the records and the times sent.   *)

Zero == [t \in Times |-> 0]

VARIABLES
    bench,
    caps,      \* caps[i]: the times of the capabilities that source i holds
    reported,  \* reported[i]: those that progress tracking knows of
    builder,   \* builder[i]: records in the handle's container
    produced,  \* produced[i]: the records pushed since the last report, by time
    active,    \* active[i]: the source's operator will be scheduled
    exchanges, \* exchanges[i]: the Exchange pusher of source i, [current, parts]
    channel,   \* channel[w][p]: messages at input p of the operator of worker w
    arriving,  \* arriving[p]: reported records at input p, by time
    op,        \* op[w]: the state of the operator
    front,     \* front[w][p]: the frontier it was told last
    queue,     \* queue[w]: messages at the probe
    leaving,   \* leaving: records at the probes, by time
    shown,     \* shown[w]: the frontier of the probe handle
    observed,  \* how often each element has passed the probes
    sent,      \* the records sent: [record, time, source]
    waiting,   \* waiting[i]: in Barrier::wait
    target,    \* iterator_source: the time that the probe has to reach
    tape,      \* tape[w]: events that capture has pushed
    read,      \* read[w]: how many of them the replay operator has read
    replayed,  \* the capabilities of the replay operators, by time
    started    \* started[w]: the replay operator has run, of every worker w that replays

source_vars == <<caps, reported, builder, produced, active, exchanges, sent, waiting, target>>
op_vars == <<channel, arriving, op, front>>
probe_vars == <<queue, leaving, shown, observed>>
replay_vars == <<tape, read, replayed, started>>
vars == <<bench, source_vars, op_vars, probe_vars, replay_vars>>

Sources == DOMAIN bench.worker
Workers == {bench.worker[i] : i \in Sources}
Ports == IF bench.op \in {"concat", "reclock"} THEN 1 .. 2 ELSE {1}
Port(i) == IF bench.op \in {"concat", "reclock"} THEN i ELSE 1

-----------------------------------------------------------------------------
\* Frontiers.

Earliest(S) == Min(S \cup {Never})
Counted(count) == {t \in Times : count[t] > 0}

\* The frontier of input p, by what has been reported.
Input(p) == Earliest((UNION {reported[i] : i \in {j \in Sources : Port(j) = p}}) \cup Counted(arriving[p]))

\* The frontier of the probes.
Output ==
    IF bench.op = "capture"
    THEN Earliest(Counted(leaving) \cup Counted(replayed))
    ELSE Earliest({Input(p) : p \in Ports} \cup Counted(leaving) \cup UNION {Retained(op[w]) : w \in Workers})

-----------------------------------------------------------------------------
\* Pushers.

Adds(count, ms) == [t \in Times |-> count[t] + FoldLeft(LAMBDA n, m : n + Len(m.data), 0,
                                                        SelectSeq(ms, LAMBDA m : m.time = t))]

(* CapacityContainerBuilder: the container that a record completes is       *)
(* pending, and the next one is empty.                                      *)
push_into(b, r) ==
    LET new == Append(b, r)
    IN  IF Len(new) = bench.capacity THEN [current |-> <<>>, pending |-> <<new>>]
                                     ELSE [current |-> new, pending |-> <<>>]

\* The pusher of a source while it is used: [current, parts, out] with what was pushed to workers.
Pusher(i) == [current |-> exchanges[i].current, parts |-> exchanges[i].parts,
              out |-> [w \in Workers |-> <<>>]]

PushAt(x, w, t, data) == [x EXCEPT !.out[w] = Append(@, [time |-> t, data |-> data])]

\* DrainContainerDistributor::flush
FlushParts(x) ==
    FoldSet(LAMBDA w, y : IF y.parts[w] = <<>> THEN y
                          ELSE [PushAt(y, w, y.current, y.parts[w]) EXCEPT !.parts[w] = <<>>],
            x, Workers)

\* DrainContainerDistributor::partition: a record goes to the worker that its hash says.
Hash(r) == IF Cardinality(Workers) = 1 THEN Min(Workers) ELSE 1 + Key(r)

PartitionParts(x, t, data) ==
    FoldLeft(LAMBDA y, r : LET w == Hash(r)
                               b == push_into(y.parts[w], r)
                               z == [y EXCEPT !.parts[w] = b.current]
                           IN  IF b.pending = <<>> THEN z ELSE PushAt(z, w, t, b.pending[1]),
             x, data)

(* Exchange::push of a message: what waits for another time goes first.     *)
(* With one pusher, or a Pipeline pact, the message goes as it is.          *)
exchange_push(i, x, t, data) ==
    IF bench.pact = "pipeline" \/ Cardinality(Workers) = 1
    THEN PushAt(x, bench.worker[i], t, data)
    ELSE LET y == IF x.current \notin {Never, t} THEN FlushParts(x) ELSE x
         IN  PartitionParts([y EXCEPT !.current = t], t, data)

(* Counter::push of None, then Exchange's: a flush, passed on only if       *)
(* something was pushed that has not been reported.                         *)
done(x, count) ==
    IF count = Zero THEN x
    ELSE IF x.current = Never THEN x
    ELSE [FlushParts(x) EXCEPT !.current = Never]

\* What was pushed arrives.
Deliver(i, x) ==
    /\ exchanges' = [exchanges EXCEPT ![i] = [current |-> x.current, parts |-> x.parts]]
    /\ channel' = [w \in Workers |-> [p \in Ports |->
                      IF p = Port(i) THEN channel[w][p] \o x.out[w] ELSE channel[w][p]]]

Count(i, t, n) == [produced[i] EXCEPT ![t] = @ + n]

-----------------------------------------------------------------------------
\* Input handles, driven by user code.

Now(i) == Min(caps[i])
Open(i) == caps[i] # {}
Next1 == Cardinality(sent) + 1
Sent(i, t) == sent' = sent \cup {[record |-> Next1, time |-> t, source |-> i]}
Program(i, what) == bench.source = "input" /\ what \in bench.program /\ Open(i) /\ ~ waiting[i]

\* Handle::send: the container is pushed when it is full.
send(i) ==
    LET b == push_into(builder[i], Next1)
        full == b.pending # <<>>
    IN  /\ Program(i, "send") /\ Next1 <= bench.records
        /\ builder' = [builder EXCEPT ![i] = b.current]
        /\ produced' = IF full THEN [produced EXCEPT ![i] = Count(i, Now(i), bench.capacity)] ELSE produced
        /\ IF full THEN Deliver(i, exchange_push(i, Pusher(i), Now(i), b.pending[1])) ELSE UNCHANGED <<exchanges, channel>>
        /\ Sent(i, Now(i))
        /\ UNCHANGED <<bench, caps, reported, active, waiting, target, arriving, op, front,
                       probe_vars, replay_vars>>

\* Handle::flush: what the builder holds is pushed.
Flushed(i, x) == IF builder[i] = <<>> THEN x ELSE exchange_push(i, x, Now(i), builder[i])

\* Handle::send_batch
send_batch(i) ==
    /\ Program(i, "send_batch") /\ Next1 <= bench.records
    /\ Deliver(i, exchange_push(i, Flushed(i, Pusher(i)), Now(i), <<Next1>>))
    /\ builder' = [builder EXCEPT ![i] = <<>>]
    /\ produced' = [produced EXCEPT ![i] = Count(i, Now(i), Len(builder[i]) + 1)]
    /\ Sent(i, Now(i))
    /\ UNCHANGED <<bench, caps, reported, active, waiting, target, arriving, op, front,
                   probe_vars, replay_vars>>

\* A mutant of close_epoch: what the builder holds stays there.
close_epoch_unflushed(i) ==
    /\ Deliver(i, done(Pusher(i), produced[i]))
    /\ active' = [active EXCEPT ![i] = TRUE]
    /\ UNCHANGED <<builder, produced>>

\* Handle::close_epoch: flush, done, and the operator is activated.
close_epoch(i) ==
    LET count == Count(i, Now(i), Len(builder[i]))
    IN  /\ Deliver(i, done(Flushed(i, Pusher(i)), count))
        /\ builder' = [builder EXCEPT ![i] = <<>>]
        /\ produced' = [produced EXCEPT ![i] = count]
        /\ active' = [active EXCEPT ![i] = TRUE]

\* Handle::advance_to, for a time that is really later
advance_to(i, t) ==
    /\ Program(i, "advance_to") /\ t \in Now(i) + 1 .. bench.last
    /\ close_epoch(i)
    /\ caps' = [caps EXCEPT ![i] = {t}]
    /\ UNCHANGED <<bench, reported, sent, waiting, target, arriving, op, front,
                   probe_vars, replay_vars>>

\* Handle::close: the handle is dropped.
close(i) ==
    /\ Program(i, "close")
    /\ close_epoch(i)
    /\ caps' = [caps EXCEPT ![i] = {}]
    /\ UNCHANGED <<bench, reported, sent, waiting, target, arriving, op, front,
                   probe_vars, replay_vars>>

(* The Input operator is scheduled: closed times and messages sent are      *)
(* reported, together.                                                      *)
input_schedule(i) ==
    /\ bench.source \in {"input", "unordered"} /\ active[i]
    /\ active' = [active EXCEPT ![i] = FALSE]
    /\ reported' = [reported EXCEPT ![i] = caps[i]]
    /\ arriving' = [arriving EXCEPT ![Port(i)] = [t \in Times |-> @[t] + produced[i][t]]]
    /\ produced' = [produced EXCEPT ![i] = Zero]
    /\ UNCHANGED <<bench, caps, builder, exchanges, sent, waiting, target, channel, op, front,
                   probe_vars, replay_vars>>

-----------------------------------------------------------------------------
\* Barrier: an input without records, and its probe.

\* Barrier::advance, at the start of wait
barrier_wait(i) ==
    /\ Program(i, "barrier") /\ Now(i) < bench.last
    /\ close_epoch(i)
    /\ caps' = [caps EXCEPT ![i] = {Now(i) + 1}]
    /\ waiting' = [waiting EXCEPT ![i] = TRUE]
    /\ UNCHANGED <<bench, reported, sent, target, arriving, op, front, probe_vars, replay_vars>>

\* A mutant of reached: the time before counts.
reached_before(i) == ~ shown[bench.worker[i]] < Now(i) - 1

\* Barrier::reached
reached(i) == ~ shown[bench.worker[i]] < Now(i)

\* wait returns.
barrier_passed(i) ==
    /\ waiting[i] /\ reached(i)
    /\ waiting' = [waiting EXCEPT ![i] = FALSE]
    /\ UNCHANGED <<bench, caps, reported, builder, produced, active, exchanges, sent, target, op_vars,
                   probe_vars, replay_vars>>

-----------------------------------------------------------------------------
\* Unordered input: a capability for every time that the user works on.

\* A session: records at the time of a capability, flushed and reported by an activation.
session(i, t) ==
    LET count == Count(i, t, 1)
    IN  /\ bench.source = "unordered" /\ t \in caps[i] /\ Next1 <= bench.records
        /\ Deliver(i, done(exchange_push(i, Pusher(i), t, <<Next1>>), count))
        /\ produced' = [produced EXCEPT ![i] = count]
        /\ active' = [active EXCEPT ![i] = TRUE]
        /\ Sent(i, t)
        /\ UNCHANGED <<bench, caps, reported, builder, waiting, target, arriving, op, front,
                       probe_vars, replay_vars>>

\* ActivateCapability::delayed
delayed(i, t, u) ==
    /\ bench.source = "unordered" /\ t \in caps[i] /\ u \in t + 1 .. bench.last /\ u \notin caps[i]
    /\ caps' = [caps EXCEPT ![i] = @ \cup {u}]
    /\ UNCHANGED <<bench, reported, builder, produced, active, exchanges, sent, waiting, target, op_vars,
                   probe_vars, replay_vars>>

\* ActivateCapability is dropped.
drop_capability(i, t) ==
    /\ bench.source = "unordered" /\ t \in caps[i]
    /\ caps' = [caps EXCEPT ![i] = @ \ {t}]
    /\ active' = [active EXCEPT ![i] = TRUE]
    /\ UNCHANGED <<bench, reported, builder, produced, exchanges, sent, waiting, target, op_vars,
                   probe_vars, replay_vars>>

-----------------------------------------------------------------------------
\* Sources that are operators: they report when they have run.

\* Records of the times ts are given one after the other; the output is flushed at the end.
Emit(i, ts) ==
    LET new == [k \in DOMAIN ts |-> [time |-> ts[k], data |-> <<Cardinality(sent) + k>>]]
    IN  /\ Deliver(i, done(FoldLeft(LAMBDA x, m : exchange_push(i, x, m.time, m.data), Pusher(i), new), Adds(Zero, new)))
        /\ arriving' = [arriving EXCEPT ![Port(i)] = Adds(@, new)]
        /\ sent' = sent \cup {[record |-> Cardinality(sent) + k, time |-> ts[k], source |-> i] : k \in DOMAIN ts}

Left == bench.records - Cardinality(sent)

\* to_stream: the iterator's elements, some at every schedule, all at the minimum.
to_stream(i) ==
    /\ bench.source = "to_stream" /\ Open(i)
    /\ IF Left > 0
       THEN (\E n \in 1 .. Left : Emit(i, [k \in 1 .. n |-> 0])) /\ UNCHANGED <<caps, reported>>
       ELSE /\ caps' = [caps EXCEPT ![i] = {}] /\ reported' = [reported EXCEPT ![i] = {}]
            /\ UNCHANGED <<exchanges, channel, arriving, sent>>
    /\ UNCHANGED <<bench, builder, produced, active, waiting, target, op, front, probe_vars, replay_vars>>

(* iterator_source: while the probe has reached the target, the closure is  *)
(* called.  It gives a record or nothing, a bound for the capability and    *)
(* the next target (the time that the capability had), or, when all is      *)
(* sent, the end; after a call that gave nothing the run is over.  The      *)
(* first run is part of the construction: the probe has no frontier yet,    *)
(* which counts as reached.  (A source that has given nothing may be in it.)*)
iterator_source(i) ==
    /\ bench.source = "iterator" /\ Open(i)
    /\ \E n \in 0 .. Left :
       \E ts \in [1 .. n -> Now(i) .. bench.last], bounds \in [1 .. n + 1 -> Now(i) .. bench.last] :
          LET held(k) == (<<Now(i)>> \o bounds)[k]
              goal(k) == (<<target[i], Now(i)>> \o bounds)[k]
              first == \A x \in sent : x.source # i
              called(k) == first \/ ~ shown[bench.worker[i]] < goal(k)
              again == called(n + 1)
              kept == IF again /\ n = Left THEN {} ELSE {bounds[n + 1]}
          IN  /\ \A k \in 1 .. n : called(k) /\ held(k) <= ts[k] /\ ts[k] <= bounds[k]
              /\ held(n + 1) <= bounds[n + 1] /\ (~ again => held(n + 1) = bounds[n + 1])
              /\ Emit(i, ts)
              /\ caps' = [caps EXCEPT ![i] = kept] /\ reported' = [reported EXCEPT ![i] = kept]
              /\ target' = [target EXCEPT ![i] = goal(IF again THEN n + 2 ELSE n + 1)]
    /\ UNCHANGED <<bench, builder, produced, active, waiting, op, front, probe_vars, replay_vars>>

-----------------------------------------------------------------------------
\* The operator and the probe.

Takes(count, ms) == [t \in Times |-> count[t] - Adds(Zero, ms)[t]]
Waiting(w) == \E p \in Ports : channel[w][p] # <<>>

\* The frontiers that progress tracking may tell the operator when it is scheduled.
Frontiers(w) ==
    IF bench.op \in Notifying
    THEN {fs \in [Ports -> 0 .. bench.last \cup {Never}] : \A p \in Ports : fs[p] \in front[w][p] .. Input(p)}
    ELSE {front[w]}

Consumed(w) ==
    /\ channel' = [channel EXCEPT ![w] = [p \in Ports |-> <<>>]]
    /\ arriving' = [p \in Ports |-> Takes(arriving[p], channel[w][p])]

(* The operator is scheduled: all its messages are pulled, and what it      *)
(* consumed, produced and retains is reported together.                     *)
schedule(w) ==
    /\ bench.op # "capture"
    /\ \E fs \in Frontiers(w) :
          LET a == logic(bench.op, op[w], fs, channel[w])
          IN  /\ Waiting(w) \/ fs # front[w]
              /\ front' = [front EXCEPT ![w] = fs]
              /\ op' = [op EXCEPT ![w] = a.st]
              /\ queue' = [queue EXCEPT ![w] = @ \o a.out]
              /\ leaving' = Adds(leaving, a.out)
    /\ Consumed(w)
    /\ UNCHANGED <<bench, source_vars, shown, observed, replay_vars>>

\* The feedback operator of the loop is scheduled.
feedback(w) ==
    /\ op[w].back # <<>>
    /\ op' = [op EXCEPT ![w] = connect_loop(@)]
    /\ UNCHANGED <<bench, source_vars, channel, arriving, front, probe_vars, replay_vars>>

(* The loop's body is scheduled for what came back.                         *)
body(w) ==
    /\ op[w].entry # <<>> /\ ~ Waiting(w)
    /\ LET a == iterate(op[w], <<>>)
       IN  /\ op' = [op EXCEPT ![w] = a.st]
           /\ queue' = [queue EXCEPT ![w] = @ \o a.out]
           /\ leaving' = Adds(leaving, a.out)
    /\ UNCHANGED <<bench, source_vars, channel, arriving, front, shown, observed, replay_vars>>

\* The probe is scheduled: its handle follows the frontier, its messages pass.
probe(w) ==
    /\ \E f \in (0 .. bench.last + 1 \cup {Never}) \cap (shown[w] .. Output) :
          /\ queue[w] # <<>> \/ f # shown[w]
          /\ shown' = [shown EXCEPT ![w] = f]
    /\ queue' = [queue EXCEPT ![w] = <<>>]
    /\ leaving' = Takes(leaving, queue[w])
    /\ observed' = LET passed(m) == [i \in DOMAIN m.data |-> [time |-> m.time, port |-> m.port, made |-> m.data[i]]]
                       new == FlattenSeq([k \in DOMAIN queue[w] |-> passed(queue[w][k])])
                   IN  [e \in DOMAIN observed \cup ToSet(new) |->
                           (IF e \in DOMAIN observed THEN observed[e] ELSE 0)
                              + Cardinality({k \in DOMAIN new : new[k] = e})]
    /\ UNCHANGED <<bench, source_vars, op_vars, replay_vars>>

-----------------------------------------------------------------------------
\* capture and replay, in a second dataflow.

\* EventWriter::push: events go to the end of the stream, each with its length.
EventWriter(w, events) == [tape EXCEPT ![w] = @ \o events]

\* EventReader::next, for as many events as are complete in the bytes that have come.
EventReader(s, upto) == SubSeq(tape[s], read[s] + 1, upto)

(* Capture is scheduled: what changed in the frontier is written first, the *)
(* initial capability left out, then the messages.                          *)
capture(w) ==
    /\ bench.op = "capture"
    /\ \E f \in (0 .. bench.last \cup {Never}) \cap (front[w][1] .. Input(1)) :
          /\ Waiting(w) \/ f # front[w][1]
          /\ front' = [front EXCEPT ![w][1] = f]
          /\ tape' = EventWriter(w,
                 (IF f = front[w][1] THEN <<>> ELSE <<[kind |-> "Progress", from |-> front[w][1], to |-> f]>>)
                 \o [k \in DOMAIN channel[w][1] |->
                        [kind |-> "Messages", time |-> channel[w][1][k].time, data |-> channel[w][1][k].data]])
    /\ Consumed(w)
    /\ UNCHANGED <<bench, source_vars, op, probe_vars, read, replayed, started>>

\* The streams that the replay operator of worker w reads: the first worker has them all.
Streams(w) == IF w = Min(DOMAIN started) THEN Workers ELSE {}

\* A mutant of OwnCapabilities: the operator keeps the one capability it started with.
OwnCapabilities_one(w) == 0

\* The first run makes the capabilities as many as the streams.
OwnCapabilities(w) == IF started[w] THEN 0 ELSE Cardinality(Streams(w)) - 1

\* An event that is replayed: changes of the capabilities, or a message that is pushed.
Replayed(a, e) ==
    IF e.kind = "Progress"
    THEN [a EXCEPT !.caps = [t \in Times |-> @[t] + (IF t = e.to THEN 1 ELSE 0) - (IF t = e.from THEN 1 ELSE 0)]]
    ELSE [a EXCEPT !.out = @ \o give(e.time, 1, Each(e.data))]

(* Replay is scheduled: it reads every stream as far as the writer's bytes  *)
(* have come, and reports once.                                             *)
replay(w) ==
    /\ bench.op = "capture"
    /\ \E upto \in [Streams(w) -> 0 .. Max({Len(tape[s]) : s \in Workers})] :
          LET a == FoldLeft(Replayed,
                            [caps |-> [replayed EXCEPT ![0] = @ + OwnCapabilities(w)], out |-> <<>>],
                            FlattenSeq([s \in 1 .. Cardinality(Streams(w)) |-> EventReader(s, upto[s])]))
          IN  /\ \A s \in Streams(w) : upto[s] \in read[s] .. Len(tape[s])
              /\ ~ started[w] \/ \E s \in Streams(w) : upto[s] # read[s]
              /\ read' = [s \in Workers |-> IF s \in Streams(w) THEN upto[s] ELSE read[s]]
              /\ replayed' = a.caps
              /\ queue' = [queue EXCEPT ![w] = @ \o a.out]
              /\ leaving' = Adds(leaving, a.out)
    /\ started' = [started EXCEPT ![w] = TRUE]
    /\ UNCHANGED <<bench, source_vars, op_vars, shown, observed, tape>>

-----------------------------------------------------------------------------
Init ==
    /\ bench \in Benches
    /\ caps \in IF bench.source = "input" /\ "late" \in bench.program   \* a handle advanced before it is registered
                THEN {[i \in Sources |-> {0}], [i \in Sources |-> IF i = 1 THEN {1} ELSE {0}]}
                ELSE {[i \in Sources |-> {0}]}
    /\ reported = [i \in Sources |-> {0}]
    /\ builder = [i \in Sources |-> <<>>]
    /\ produced = [i \in Sources |-> Zero]
    /\ active = [i \in Sources |-> FALSE]
    /\ exchanges = [i \in Sources |-> [current |-> Never, parts |-> [w \in Workers |-> <<>>]]]
    /\ channel = [w \in Workers |-> [p \in Ports |-> <<>>]]
    /\ arriving = [p \in Ports |-> Zero]
    /\ op = [w \in Workers |-> Fresh]
    /\ front = [w \in Workers |-> [p \in Ports |-> 0]]
    /\ queue = [w \in Workers |-> <<>>]
    /\ leaving = Zero
    /\ shown = [w \in Workers |-> 0]
    /\ observed = [e \in {} |-> 0]
    /\ sent = {}
    /\ waiting = [i \in Sources |-> FALSE]
    /\ target = [i \in Sources |-> 0]
    /\ tape = [w \in Workers |-> <<>>]
    /\ read = [w \in Workers |-> 0]
    /\ started \in {[w \in 1 .. n |-> FALSE] : n \in IF bench.op = "capture" THEN 1 .. 2 ELSE {1}}
    /\ replayed = [Zero EXCEPT ![0] = Cardinality(DOMAIN started)]

\* What user code does between the steps of its worker.
User ==
    \E i \in Sources :
        \/ send(i)
        \/ send_batch(i)
        \/ close(i)
        \/ barrier_wait(i)
        \/ \E t \in Times : advance_to(i, t)
        \/ \E t \in Times : session(i, t)
        \/ \E t \in Times : drop_capability(i, t)
        \/ \E t, u \in Times : delayed(i, t, u)

\* What the steps of the workers do.
Steps ==
    \/ \E i \in Sources :
        \/ input_schedule(i)
        \/ barrier_passed(i)
        \/ to_stream(i)
        \/ iterator_source(i)
    \/ \E w \in Workers :
        \/ schedule(w)
        \/ feedback(w)
        \/ body(w)
        \/ probe(w)
        \/ capture(w)
    \/ \E w \in DOMAIN started : replay(w)

Next == User \/ Steps

Spec == Init /\ [][Next]_vars

(* Workers step on while their dataflows are not complete; no step of an    *)
(* operator can be repeated for ever, so none needs fairness of its own.    *)
FairSpec == Spec /\ WF_vars(Steps)

-----------------------------------------------------------------------------
\* The reference: what the operators promise, for all that has been sent.

At(t) == {s.record : s \in {x \in sent : x.time = t}}

Element(t, port, made) == [time |-> t, port |-> port, made |-> made]

\* The least time of the clock that is not before t.
Tick(t) == Earliest({s.time : s \in {x \in sent : x.source = 2 /\ x.time >= t}})

Expected ==
    CASE bench.op = "filter"      -> {Element(s.time, 1, {s.record}) : s \in {x \in sent : Holds(x.record)}}
      [] bench.op = "flat_map"    -> {Element(s.time, 1, {s.record}) : s \in {x \in sent : Holds(x.record)}} \cup
                                     {Element(s.time, 1, {s.record, 0}) : s \in {x \in sent : Holds(x.record)}}
      [] bench.op = "branch"      -> {Element(s.time, IF Holds(s.record) THEN 2 ELSE 1, {s.record}) : s \in sent}
      [] bench.op = "partition"   -> {Element(s.time, 1 + Key(s.record), {s.record}) : s \in sent}
      [] bench.op = "ok_err"      -> {Element(s.time, IF Holds(s.record) THEN 1 ELSE 2, {s.record}) : s \in sent}
      [] bench.op = "branch_when" -> {Element(s.time, IF s.time = 0 THEN 1 ELSE 2, {s.record}) : s \in sent}
      [] bench.op = "delay"       -> {Element(Later(s.record, s.time), 1, {s.record}) : s \in sent}
      [] bench.op = "delay_batch" -> {Element(s.time + 1, 1, {s.record}) : s \in sent}
      [] bench.op = "aggregate"   -> {Element(s.time, 1, {r \in At(s.time) : Key(r) = Key(s.record)}) : s \in sent}
      [] bench.op = "accumulate"  -> {Element(s.time, 1, At(s.time)) : s \in sent}
      [] bench.op = "reclock"     -> {Element(Tick(s.time), 1, {s.record}) :
                                         s \in {x \in sent : x.source = 1 /\ Tick(x.time) # Never}}
      [] OTHER                    -> {Element(s.time, 1, {s.record}) : s \in sent}

-----------------------------------------------------------------------------
\* Properties.

TimesOf(ms) == {ms[k].time : k \in DOMAIN ms}

\* The times at which input p of worker w may still get a record.
ToCome(w, p) ==
    (UNION {caps[i] \cup (IF builder[i] = <<>> THEN {} ELSE {Now(i)})
                   \cup (IF exchanges[i].parts[w] = <<>> THEN {} ELSE {exchanges[i].current}) :
              i \in {j \in Sources : Port(j) = p}})
        \cup TimesOf(channel[w][p])

\* The times at which the probe may still get one.
ToPass(w) ==
    (UNION {TimesOf(queue[v]) \cup Retained(op[v]) : v \in Workers})
    \cup (UNION {IF bench.op = "capture"
                 THEN {tape[v][k].time : k \in {j \in read[v] + 1 .. Len(tape[v]) : tape[v][j].kind = "Messages"}}
                 ELSE {t \in Times : bench.op # "reclock" /\ op[v].stash[t] # <<>>} : v \in Workers})
    \cup (IF bench.op = "reclock" THEN UNION {ToCome(v, 2) : v \in Workers}
          ELSE UNION {ToCome(v, p) : v \in Workers, p \in Ports})

(* A frontier that an operator or a probe handle has been told is not       *)
(* passed by anything that is still to come: no record waits in a handle's  *)
(* container, an exchange's builder, a channel, an operator or a tape for a *)
(* time before it, and no capability is held for one.                       *)
FrontierHonest ==
    \A w \in Workers :
        /\ \A p \in Ports : \A t \in ToCome(w, p) : front[w][p] <= t
        /\ \A t \in ToPass(w) : shown[w] <= t

(* What has passed the probe is what the operator's documentation promises  *)
(* of the records sent: each result once, at its time and output, an        *)
(* aggregate over all records of its time and key, data at the next time of *)
(* its clock.                                                               *)
OutputsRight == \A e \in DOMAIN observed : observed[e] = 1 /\ e \in Expected

\* A state machine sees the records of its key in the order of their times.
InTimeOrder == \A w \in Workers : \A k \in 2 .. Len(op[w].folded) : op[w].folded[k - 1] <= op[w].folded[k]

(* Barrier::wait returns only when every worker has come as far: a worker   *)
(* that waits no more is not ahead of the others.                           *)
BarrierHolds ==
    \A i, j \in Sources :
        "barrier" \in bench.program /\ ~ waiting[i] /\ Open(i) => Earliest(caps[i]) <= Earliest(caps[j])

Finished == \A w \in Workers : shown[w] = Never
AllClosed == \A i \in Sources : ~ Open(i)

\* No operator of any worker has anything left to do.
Quiet ==
    /\ \A i \in Sources : ~ active[i] /\ ~ (waiting[i] /\ reached(i))
    /\ \A i \in Sources : bench.source \in {"to_stream", "iterator"} => ~ Open(i)
    /\ \A w \in Workers :
          /\ ~ Waiting(w) /\ queue[w] = <<>> /\ op[w].back = <<>> /\ op[w].entry = <<>>
          /\ bench.op \in Notifying \cup {"capture"} => \A p \in Ports : front[w][p] = Input(p)
          /\ read[w] = Len(tape[w])
          /\ shown[w] = Output
    /\ bench.op = "capture" => \A w \in DOMAIN started : started[w]

(* When all inputs are closed and nothing is left to do, every result has   *)
(* passed and the probes know that no more can come: no record, capability  *)
(* or flush is forgotten on the way.                                        *)
NothingStuck == AllClosed /\ Quiet => Finished /\ DOMAIN observed = Expected

(* Once all inputs are closed, the dataflow comes to its end: "This method  *)
(* allows timely dataflow to issue all progress notifications blocked by    *)
(* this input and to begin to shut down operators" (Handle::close).         *)
Completes == AllClosed ~> Finished

=============================================================================
