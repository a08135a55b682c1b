------------------------------ MODULE Operators ------------------------------
(***************************************************************************)
(* What the operators of the crate do when they are scheduled, as          *)
(* functions of the operator's state, the frontiers of its inputs and the  *)
(* messages it pulls.                                                      *)
(*                                                                         *)
(* A message is [time, data] with a sequence of records; a record is a     *)
(* number.  What is given to an output is [time, port, data] with a        *)
(* sequence of sets of records: the records that the element was made      *)
(* from.  User closures are fixed functions of a record or a time.         *)
(***************************************************************************)
EXTENDS Notificator, FiniteSets, Functions, Folds

CONSTANTS
    Never,    \* later than every time: the empty frontier
    Rounds    \* the rounds of the loop

Times == 0 .. Never - 1
NoRecords == [t \in Times |-> <<>>]

\* The state of an operator; each kind uses a part of it.
Fresh == [notificator |-> Idle,
          stash |-> NoRecords,   \* records kept by time
          folded |-> <<>>,       \* state_machine: the times of the records folded
          told |-> 0,            \* inspect: the frontier reported last
          entry |-> <<>>,        \* iterate: messages at the loop's body
          back |-> <<>>]         \* iterate: messages at the feedback operator

\* The closures that operators are given.
Key(r) == (r \div 2) % 2
Holds(r) == r % 2 = 1
Later(r, t) == t + (r % 2)

-----------------------------------------------------------------------------
\* Handles.

\* InputHandleCore::for_each
Pulled(ms) == ms

\* InputHandleCore::for_each_time: sorted and grouped by time
for_each_time(ms) ==
    LET ts == InOrder(SetToSeq({ms[i].time : i \in DOMAIN ms}))
        at(t) == SelectSeq(ms, LAMBDA m : m.time = t)
    IN  [k \in DOMAIN ts |->
            [time |-> ts[k], data |-> FlattenSeq([i \in DOMAIN at(ts[k]) |-> at(ts[k])[i].data])]]

\* Session::give_iterator, and the flush when it is dropped; empty containers are not sent.
give(t, port, elements) ==
    IF elements = <<>> THEN <<>> ELSE <<[time |-> t, port |-> port, data |-> elements]>>

Each(data) == [i \in DOMAIN data |-> {data[i]}]

\* The effect of one message after the other; Step(a, m) takes and returns [st, out].
Over(Step(_, _), st, ms) ==
    FoldLeft(Step, [st |-> st, out |-> <<>>], ms)

-----------------------------------------------------------------------------
\* Operators without state: what becomes of the records of one time.

\* Two results for some records (the second is marked with 0), none for the others.
flat_map(t, data) ==
    give(t, 1, FlattenSeq([i \in DOMAIN data |-> IF Holds(data[i]) THEN <<{data[i]}, {data[i], 0}>> ELSE <<>>]))

filter(t, data) == give(t, 1, Each(SelectSeq(data, Holds)))

branch(t, data) ==
    give(t, 1, Each(SelectSeq(data, LAMBDA r : ~ Holds(r)))) \o give(t, 2, Each(SelectSeq(data, Holds)))

ok_err(t, data) ==
    give(t, 1, Each(SelectSeq(data, Holds))) \o give(t, 2, Each(SelectSeq(data, LAMBDA r : ~ Holds(r))))

branch_when(t, data) == give(t, IF t > 0 THEN 2 ELSE 1, Each(data))

\* targets sorts the records by output; one output after the other.
partition(t, data) ==
    give(t, 1, Each(SelectSeq(data, LAMBDA r : Key(r) = 0))) \o give(t, 2, Each(SelectSeq(data, LAMBDA r : Key(r) = 1)))

exchange(t, data) == give(t, 1, Each(data))

shared(t, data) == give(t, 1, Each(data))

Stateless == {"flat_map", "filter", "branch", "ok_err", "branch_when", "partition", "exchange", "shared"}

Route(kind, t, data) ==
    CASE kind = "flat_map"    -> flat_map(t, data)
      [] kind = "filter"      -> filter(t, data)
      [] kind = "branch"      -> branch(t, data)
      [] kind = "ok_err"      -> ok_err(t, data)
      [] kind = "branch_when" -> branch_when(t, data)
      [] kind = "partition"   -> partition(t, data)
      [] kind = "shared"      -> shared(t, data)
      [] OTHER                -> exchange(t, data)

unary(kind, st, ms) ==
    Over(LAMBDA a, m : [a EXCEPT !.out = @ \o Route(kind, m.time, m.data)], st, for_each_time(ms))

\* The frontier is reported when it has changed, and all containers are passed on.
inspect_container(st, fs, ms) ==
    LET a == unary("exchange", st, ms)
    IN  [a EXCEPT !.st.told = fs[1]]

\* One input after the other, messages as they come.
concatenate(st, ins) ==
    Over(LAMBDA a, m : [a EXCEPT !.out = @ \o give(m.time, 1, Each(m.data))], st,
         Pulled(ins[1]) \o Pulled(ins[2]))

-----------------------------------------------------------------------------
\* Operators that wait for a time to be complete.

\* unary_notify: the session makes available what has passed since the last one.
Session(st, fs) == [st EXCEPT !.notificator = make_available(@, fs)]

\* A mutant of Request: the notification comes one time too early.
RequestEarly(st, fs, t) == [st EXCEPT !.notificator = notify_at(@, [p \in DOMAIN fs |-> fs[p] + 1], t)]

Request(st, fs, t) == [st EXCEPT !.notificator = notify_at(@, fs, t)]

\* What is kept for the notified times is given, as Made groups it.
Notified(a, fs, Made(_)) ==
    LET n == for_each(a.st.notificator, fs)
    IN  FoldLeft(LAMBDA b, t : [st |-> [b.st EXCEPT !.stash[t] = <<>>],
                                out |-> b.out \o give(t, 1, Made(b.st.stash[t]))],
                 [st |-> [a.st EXCEPT !.notificator = n.notificator], out |-> a.out], n.times)

\* Records are kept for a later time; the first one of a time asks for the notification.
delay(st, fs, ms) ==
    LET keep(a, r, t) ==
            LET s == IF a.stash[t] = <<>> THEN Request(a, fs, t) ELSE a
            IN  [s EXCEPT !.stash[t] = Append(@, r)]
        read(a, m) == [a EXCEPT !.st = FoldLeft(LAMBDA s, r : keep(s, r, Later(r, m.time)), @, m.data)]
    IN  Notified(Over(read, Session(st, fs), for_each_time(ms)), fs, Each)

delay_batch(st, fs, ms) ==
    LET keep(a, m, t) ==
            LET s == IF a.stash[t] = <<>> THEN Request(a, fs, t) ELSE a
            IN  [s EXCEPT !.stash[t] = @ \o m.data]
        read(a, m) == [a EXCEPT !.st = keep(@, m, m.time + 1)]
    IN  Notified(Over(read, Session(st, fs), for_each_time(ms)), fs, Each)

Stashed(st, fs, ms) ==
    LET read(a, m) == [a EXCEPT !.st = Request([@ EXCEPT !.stash[m.time] = @ \o m.data], fs, m.time)]
    IN  Over(read, Session(st, fs), for_each_time(ms))

\* One value for every key.
aggregate(st, fs, ms) ==
    LET of(data, k) == {r \in ToSet(data) : Key(r) = k}
        aggs(data) == SelectSeq(<<of(data, 0), of(data, 1)>>, LAMBDA e : e # {})
    IN  Notified(Stashed(st, fs, ms), fs, aggs)

\* One value for all records.
accumulate(st, fs, ms) ==
    Notified(Stashed(st, fs, ms), fs, LAMBDA data : IF data = <<>> THEN <<>> ELSE <<ToSet(data)>>)

\* A mutant of state_machine: the input comes before the notifications.
state_machine_input_first(st, fs, ms) ==
    LET fold(a, t, data) == [st |-> [a.st EXCEPT !.folded = @ \o [k \in DOMAIN data |-> t]],
                             out |-> a.out \o give(t, 1, Each(data))]
        pend(a, t) == LET b == fold(a, t, a.st.stash[t]) IN [b EXCEPT !.st.stash[t] = <<>>]
        read(a, m) == IF fs[1] < m.time
                      THEN [a EXCEPT !.st = Request([@ EXCEPT !.stash[m.time] = @ \o m.data], fs, m.time)]
                      ELSE fold(a, m.time, m.data)
        a == FoldLeft(read, [st |-> Session(st, fs), out |-> <<>>], for_each_time(ms))
        told == for_each(a.st.notificator, fs)
    IN  FoldLeft(pend, [a EXCEPT !.st.notificator = told.notificator], told.times)

(* Notifications come first, then the input: records of a time that the     *)
(* frontier has reached are folded at once, others are kept.                *)
state_machine(st, fs, ms) ==
    LET told == for_each(Session(st, fs).notificator, fs)
        fold(a, t, data) == [st |-> [a.st EXCEPT !.folded = @ \o [k \in DOMAIN data |-> t]],
                             out |-> a.out \o give(t, 1, Each(data))]
        pend(a, t) == LET b == fold(a, t, a.st.stash[t]) IN [b EXCEPT !.st.stash[t] = <<>>]
        read(a, m) == IF fs[1] < m.time
                      THEN [a EXCEPT !.st = Request([@ EXCEPT !.stash[m.time] = @ \o m.data], fs, m.time)]
                      ELSE fold(a, m.time, m.data)
    IN  FoldLeft(read, FoldLeft(pend, [st |-> [st EXCEPT !.notificator = told.notificator], out |-> <<>>],
                                told.times),
                 for_each_time(ms))

\* Data waits for the next time of the clock, without a capability of its own.
reclock(st, fs, ins) ==
    LET put(s, m) == [s EXCEPT !.stash[m.time] = @ \o m.data]
        tick(s, m) == Request(s, fs, m.time)
        read == FoldLeft(tick, FoldLeft(put, Session(st, fs), for_each_time(ins[1])), for_each_time(ins[2]))
        n == for_each(read.notificator, fs)
        flush(a, c) == [st |-> [a.st EXCEPT !.stash = [t \in Times |-> IF t <= c THEN <<>> ELSE @[t]]],
                        out |-> a.out \o give(c, 1, Each(FlattenSeq([k \in 1 .. c + 1 |-> a.st.stash[k - 1]])))]
    IN  FoldLeft(flush, [st |-> [read EXCEPT !.notificator = n.notificator], out |-> <<>>], n.times)

-----------------------------------------------------------------------------
\* A loop in a scope of its own: enter, concat, branch_when, feedback, leave.

to_inner(t) == [outer |-> t, inner |-> 0]
to_outer(t) == t.outer

\* IngressNub::push
enter(ms) == [i \in DOMAIN ms |-> [time |-> to_inner(ms[i].time), data |-> ms[i].data]]

\* EgressNub::push
leave(ms) == FlattenSeq([i \in DOMAIN ms |-> give(to_outer(ms[i].time), 1, Each(ms[i].data))])

\* The body: what has gone round often enough leaves, the rest goes to the feedback.
iterate(st, ms) ==
    LET all == enter(ms) \o st.entry
        done(m) == m.time.inner >= Rounds
    IN  [st |-> [st EXCEPT !.entry = <<>>, !.back = @ \o SelectSeq(all, LAMBDA m : ~ done(m))],
         out |-> leave(SelectSeq(all, done))]

\* Product's summary: the loop counter is increased.
results_in(t) == [t EXCEPT !.inner = @ + 1]

connect_loop(st) ==
    [st EXCEPT !.back = <<>>,
               !.entry = @ \o [i \in DOMAIN st.back |-> [st.back[i] EXCEPT !.time = results_in(@)]]]

-----------------------------------------------------------------------------
Notifying == {"delay", "delay_batch", "aggregate", "accumulate", "state_machine", "reclock", "inspect"}

\* builder_rc's raw_logic: one call of the operator.
logic(kind, st, fs, ins) ==
    CASE kind = "inspect"       -> inspect_container(st, fs, ins[1])
      [] kind = "concat"        -> concatenate(st, ins)
      [] kind = "delay"         -> delay(st, fs, ins[1])
      [] kind = "delay_batch"   -> delay_batch(st, fs, ins[1])
      [] kind = "aggregate"     -> aggregate(st, fs, ins[1])
      [] kind = "accumulate"    -> accumulate(st, fs, ins[1])
      [] kind = "state_machine" -> state_machine(st, fs, ins[1])
      [] kind = "reclock"       -> reclock(st, fs, ins)
      [] kind = "iterate"       -> iterate(st, ins[1])
      [] OTHER                  -> unary(kind, st, ins[1])

\* The times at which an operator may still give something.
Retained(st) == Held(st.notificator) \cup {to_outer(st.entry[i].time) : i \in DOMAIN st.entry}
                    \cup {to_outer(st.back[i].time) : i \in DOMAIN st.back}

=============================================================================
