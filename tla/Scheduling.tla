----------------------------- MODULE Scheduling -----------------------------
(***************************************************************************)
(* How the workers of one process find out what to run, and go to sleep    *)
(* when there is nothing: Worker::step_or_park, Activations, and the       *)
(* channels between threads of an IntraProcessAllocator.                   *)
(*                                                                         *)
(* A worker is one thread: it runs its program ("user"), in which it calls *)
(* step_or_park: channel events become activations ("received"), then it   *)
(* schedules what is active ("run") or parks ("parked").  A push to        *)
(* another worker takes three steps of the pushing thread, a SyncActivator *)
(* two; anything may happen in between.                                    *)
(*                                                                         *)
(* There is one dataflow.  An operator is named by its input channel, and  *)
(* takes all that is there when it is scheduled.  Events and activations   *)
(* are sorted and deduplicated before they are used, so their queues are   *)
(* sets here.                                                              *)
(***************************************************************************)
EXTENDS Integers

CONSTANTS
    Peers,
    Channels,
    Pipelines,    \* the channels that stay on a worker
    Threads,      \* other threads, which hold SyncActivators
    Droppers,     \* bound: the workers that drop the dataflow
    MaxMessages,  \* bound: messages pushed
    MaxRequests   \* bound: activations requested

ASSUME SchedulingAssumption ==
    /\ Pipelines \subseteq Channels /\ Droppers \subseteq Peers
    /\ MaxMessages \in Nat /\ MaxRequests \in Nat

VARIABLES
    pc,        \* where the worker is
    dataflow,  \* the dataflow at the worker: "absent", "installed" or "removed"
    data,      \* data[w][c]: messages in the channel to w, not pulled
    push,      \* the push that w has begun, [to, channel, stage], as a set
    counters,  \* counters[w]: channels in the mpsc queue to counters_recv
    events,    \* channels in the allocator's own list of events
    fresh,     \* operators activated since the last advance
    todo,      \* operators presented by the last advance, not scheduled yet
    rx,        \* operators in the mpsc queue of inter-thread activations
    queue,     \* operators with a delayed activation
    due,       \* the delayed activations whose moment has come
    unpark,    \* the worker to which t has sent activations, as a set
    token,     \* the thread's park token: an unpark not used yet
    owed,      \* operators whose activation was requested and that have not run since
    pushed, requested  \* how often

worker_vars == <<pc, dataflow, data, push, counters, events, fresh, todo, rx, queue,
                 due, unpark, token, owed, pushed, requested>>

Stages == {"event", "buzz"}
Push == [to : Peers, channel : Channels, stage : Stages]

WorkerInit ==
    /\ pc = [w \in Peers |-> "user"]
    /\ dataflow = [w \in Peers |-> "absent"]
    /\ data = [w \in Peers |-> [c \in Channels |-> 0]]
    /\ push = [w \in Peers |-> {}]
    /\ counters = [w \in Peers |-> {}] /\ events = [w \in Peers |-> {}]
    /\ fresh = [w \in Peers |-> {}] /\ todo = [w \in Peers |-> {}]
    /\ rx = [w \in Peers |-> {}]
    /\ queue = [w \in Peers |-> {}] /\ due = [w \in Peers |-> {}]
    /\ unpark = [t \in Threads |-> {}]
    /\ token = [w \in Peers |-> FALSE]
    /\ owed = [w \in Peers |-> {}]
    /\ pushed = 0 /\ requested = 0

-----------------------------------------------------------------------------
(* The program, and the operators it made.                                  *)

\* w is in code of the program or of an operator, and not within a push.
InCode(w) == pc[w] \in {"user", "run"} /\ push[w] = {}

\* Faulty: the operators are not activated when they are built.
dataflow_core_passive(w) ==
    /\ pc[w] = "user" /\ push[w] = {}
    /\ dataflow[w] = "absent"
    /\ dataflow' = [dataflow EXCEPT ![w] = "installed"]
    /\ UNCHANGED <<pc, data, push, counters, events, fresh, todo, rx, queue, due,
                   unpark, token, owed, pushed, requested>>

(* The channels get their paths, and every operator asks to be scheduled    *)
(* once.  Messages may have come before: the first worker to allocate a     *)
(* channel makes it for all.                                                *)
dataflow_core(w) ==
    /\ pc[w] = "user" /\ push[w] = {}
    /\ dataflow[w] = "absent"
    /\ dataflow' = [dataflow EXCEPT ![w] = "installed"]
    /\ fresh' = [fresh EXCEPT ![w] = Channels]
    /\ UNCHANGED <<pc, data, push, counters, events, todo, rx, queue, due,
                   unpark, token, owed, pushed, requested>>

(* drop_dataflow, or the end of a step that finds the dataflow complete:    *)
(* paths, operators and receivers go.                                       *)
drop_dataflow(w) ==
    /\ w \in Droppers /\ InCode(w)
    /\ dataflow[w] = "installed"
    /\ dataflow' = [dataflow EXCEPT ![w] = "removed"]
    /\ data' = [data EXCEPT ![w] = [c \in Channels |-> 0]]
    /\ todo' = [todo EXCEPT ![w] = {}]
    /\ owed' = [owed EXCEPT ![w] = {}]
    /\ UNCHANGED <<pc, push, counters, events, fresh, rx, queue, due, unpark,
                   token, pushed, requested>>

\* A message reaches the queue of a channel, unless the receiver has gone.
Enqueue(v, c) ==
    /\ pushed < MaxMessages
    /\ pushed' = pushed + 1
    /\ data' = IF dataflow[v] = "removed" THEN data
               ELSE [data EXCEPT ![v][c] = @ + 1]

\* counters::Pusher, for a channel within the thread.
PushLocal(w, c) ==
    /\ InCode(w) /\ dataflow[w] = "installed" /\ c \in Pipelines
    /\ Enqueue(w, c)
    /\ events' = [events EXCEPT ![w] = @ \cup {c}]
    /\ UNCHANGED <<pc, dataflow, push, counters, fresh, todo, rx, queue, due,
                   unpark, token, owed, requested>>

(* counters::ArcPusher: "first enqueue data, second enqueue interest in the *)
(* channel, and finally awaken the thread".                                 *)
PushData(w, v, c) ==
    /\ InCode(w) /\ dataflow[w] = "installed" /\ c \notin Pipelines
    /\ Enqueue(v, c)
    /\ push' = [push EXCEPT ![w] = {[to |-> v, channel |-> c, stage |-> "event"]}]
    /\ UNCHANGED <<pc, dataflow, counters, events, fresh, todo, rx, queue, due,
                   unpark, token, owed, requested>>

\* Faulty: the thread is woken up before the event is there.
SignalEarly(w) ==
    /\ \E p \in push[w] :
          \/ /\ p.stage = "event"
             /\ token' = [token EXCEPT ![p.to] = TRUE]
             /\ push' = [push EXCEPT ![w] = {[p EXCEPT !.stage = "buzz"]}]
             /\ UNCHANGED counters
          \/ /\ p.stage = "buzz"
             /\ counters' = [counters EXCEPT ![p.to] = @ \cup {p.channel}]
             /\ push' = [push EXCEPT ![w] = {}]
             /\ UNCHANGED token
    /\ UNCHANGED <<pc, dataflow, data, events, fresh, todo, rx, queue, due, unpark,
                   owed, pushed, requested>>

\* The second and the third step of a push.
Signal(w) ==
    /\ \E p \in push[w] :
          \/ /\ p.stage = "event"
             /\ counters' = [counters EXCEPT ![p.to] = @ \cup {p.channel}]
             /\ push' = [push EXCEPT ![w] = {[p EXCEPT !.stage = "buzz"]}]
             /\ UNCHANGED token
          \/ /\ p.stage = "buzz"
             /\ token' = [token EXCEPT ![p.to] = TRUE]
             /\ push' = [push EXCEPT ![w] = {}]
             /\ UNCHANGED counters
    /\ UNCHANGED <<pc, dataflow, data, events, fresh, todo, rx, queue, due, unpark,
                   owed, pushed, requested>>

Request(w, o) ==
    /\ requested < MaxRequests /\ dataflow[w] = "installed"
    /\ requested' = requested + 1
    /\ owed' = [owed EXCEPT ![w] = @ \cup {o}]

\* Activator::activate
activate(w, o) ==
    /\ InCode(w) /\ Request(w, o)
    /\ fresh' = [fresh EXCEPT ![w] = @ \cup {o}]
    /\ UNCHANGED <<pc, dataflow, data, push, counters, events, todo, rx, queue,
                   due, unpark, token, pushed>>

\* Activator::activate_after, with a delay that is not zero
activate_after(w, o) ==
    /\ InCode(w) /\ Request(w, o)
    /\ queue' = [queue EXCEPT ![w] = @ \cup {o}]
    /\ UNCHANGED <<pc, dataflow, data, push, counters, events, fresh, todo, rx,
                   due, unpark, token, pushed>>

\* SyncActivations::activate_batch: all paths are sent, then the thread is unparked.
activate_sync(t, w, o) ==
    /\ unpark[t] \subseteq {w} /\ Request(w, o)
    /\ rx' = [rx EXCEPT ![w] = @ \cup {o}]
    /\ unpark' = [unpark EXCEPT ![t] = {w}]
    /\ UNCHANGED <<pc, dataflow, data, push, counters, events, fresh, todo,
                   queue, due, token, pushed>>

unpark_thread(t) ==
    /\ \E w \in unpark[t] : token' = [token EXCEPT ![w] = TRUE]
    /\ unpark' = [unpark EXCEPT ![t] = {}]
    /\ UNCHANGED <<pc, dataflow, data, push, counters, events, fresh, todo, rx,
                   queue, due, owed, pushed, requested>>

\* Time passes, until the moment of a delayed activation.
Tick(w, o) ==
    /\ o \in queue[w] \ due[w]
    /\ due' = [due EXCEPT ![w] = @ \cup {o}]
    /\ UNCHANGED <<pc, dataflow, data, push, counters, events, fresh, todo, rx,
                   queue, unpark, token, owed, pushed, requested>>

-----------------------------------------------------------------------------
(* Worker::step_or_park.                                                    *)

(* Events become activations; an event of a channel that has no path (yet,  *)
(* or any more) is dropped.                                                 *)
receive(w) ==
    /\ pc[w] = "user" /\ push[w] = {}
    /\ pc' = [pc EXCEPT ![w] = "received"]
    /\ fresh' = [fresh EXCEPT ![w] =
           @ \cup IF dataflow[w] = "installed" THEN events[w] \cup counters[w] ELSE {}]
    /\ events' = [events EXCEPT ![w] = {}]
    /\ counters' = [counters EXCEPT ![w] = {}]
    /\ UNCHANGED <<dataflow, data, push, todo, rx, queue, due, unpark, token,
                   owed, pushed, requested>>

\* Faulty: what was activated since the last advance is discarded as well.
PresentedElsewhere(w) == rx[w] \cup due[w]

\* What advance presents: all that was activated, here, by other threads or by time.
Presented(w) == fresh[w] \cup rx[w] \cup due[w]

\* Faulty: delayed activations alone do not keep the worker from parking for good.
empty_for_ever(active, delayed) == active = {}

\* There is no activation, and none delayed whose moment may come meanwhile.
empty_for(active, delayed) == active = {} /\ delayed = {}

(* Activations::advance discards what was presented before and presents     *)
(* what was activated since.  Then the worker runs or parks: with a zero    *)
(* duration or something active it runs; otherwise it parks, and wakes up   *)
(* by itself if an activation is delayed.                                   *)
advance(w) ==
    LET active == Presented(w)
    IN  /\ pc[w] = "received"
        /\ rx' = [rx EXCEPT ![w] = {}]
        /\ queue' = [queue EXCEPT ![w] = @ \ due[w]]
        /\ due' = [due EXCEPT ![w] = {}]
        /\ fresh' = [fresh EXCEPT ![w] = {}]
        /\ todo' = [todo EXCEPT ![w] = IF dataflow[w] = "installed" THEN active ELSE {}]
        /\ \/ pc' = [pc EXCEPT ![w] = "run"]
           \/ active = {} /\ events[w] = {} /\
              pc' = [pc EXCEPT ![w] = IF empty_for(active, queue'[w]) THEN "parked" ELSE "dozing"]
        /\ UNCHANGED <<dataflow, data, push, counters, events, unpark, token,
                       owed, pushed, requested>>

\* park or park_timeout returns, because of an unpark or of the timeout.
await_events(w) ==
    /\ \/ pc[w] \in {"parked", "dozing"} /\ token[w]
       \/ pc[w] = "dozing" /\ due[w] # {}
    /\ pc' = [pc EXCEPT ![w] = "user"]
    /\ token' = [token EXCEPT ![w] = FALSE]
    /\ UNCHANGED <<dataflow, data, push, counters, events, fresh, todo, rx,
                   queue, due, unpark, owed, pushed, requested>>

\* counters::Puller: a pull that finds no more, after some messages, reports an event.
pull(w, o) == IF data[w][o] > 0 THEN events[w] \cup {o} ELSE events[w]

(* The active children of the dataflow are scheduled in turn, and those     *)
(* whose frontier changed meanwhile.  An operator takes all its messages.   *)
schedule(w, o) ==
    /\ pc[w] = "run" /\ push[w] = {}
    /\ dataflow[w] = "installed"
    /\ data' = [data EXCEPT ![w][o] = 0]
    /\ events' = [events EXCEPT ![w] = pull(w, o)]
    /\ todo' = [todo EXCEPT ![w] = @ \ {o}]
    /\ owed' = [owed EXCEPT ![w] = @ \ {o}]
    /\ UNCHANGED <<pc, dataflow, push, counters, fresh, rx, queue, due, unpark,
                   token, pushed, requested>>

StepEnds(w) ==
    /\ pc[w] = "run" /\ push[w] = {}
    /\ todo[w] = {}
    /\ pc' = [pc EXCEPT ![w] = "user"]
    /\ UNCHANGED <<dataflow, data, push, counters, events, fresh, todo, rx,
                   queue, due, unpark, token, owed, pushed, requested>>

step_or_park(w) ==
    \/ receive(w) \/ advance(w) \/ await_events(w) \/ StepEnds(w)
    \/ \E o \in todo[w] : schedule(w, o)

WorkerNext ==
    \/ \E w \in Peers :
          \/ dataflow_core(w) \/ drop_dataflow(w)
          \/ \E c \in Channels : \/ PushLocal(w, c)
                                 \/ \E v \in Peers : PushData(w, v, c)
                                 \/ activate(w, c) \/ activate_after(w, c)
                                 \/ Tick(w, c)
                                 \/ schedule(w, c)
          \/ Signal(w)
          \/ receive(w) \/ advance(w) \/ await_events(w) \/ StepEnds(w)
    \/ \E t \in Threads : \/ unpark_thread(t)
                          \/ \E w \in Peers, o \in Channels : activate_sync(t, w, o)

WorkerSpec == WorkerInit /\ [][WorkerNext]_worker_vars

(* The program keeps calling step_or_park, a thread finishes what it has    *)
(* begun, and time passes.                                                  *)
Fairness ==
    /\ \A w \in Peers : /\ WF_worker_vars(step_or_park(w))
                        /\ WF_worker_vars(Signal(w))
                        /\ \A o \in Channels : WF_worker_vars(Tick(w, o))
    /\ \A t \in Threads : WF_worker_vars(unpark_thread(t))

FairWorkerSpec == WorkerSpec /\ Fairness
-----------------------------------------------------------------------------
WorkerTypes ==
    /\ pc \in [Peers -> {"user", "received", "run", "parked", "dozing"}]
    /\ dataflow \in [Peers -> {"absent", "installed", "removed"}]
    /\ data \in [Peers -> [Channels -> Nat]]
    /\ push \in [Peers -> SUBSET Push]
    /\ counters \in [Peers -> SUBSET Channels] /\ events \in [Peers -> SUBSET Channels]
    /\ fresh \in [Peers -> SUBSET Channels] /\ todo \in [Peers -> SUBSET Channels]
    /\ rx \in [Peers -> SUBSET Channels]
    /\ queue \in [Peers -> SUBSET Channels] /\ due \in [Peers -> SUBSET Channels]
    /\ unpark \in [Threads -> SUBSET Peers]
    /\ token \in [Peers -> BOOLEAN]
    /\ owed \in [Peers -> SUBSET Channels]
    /\ pushed \in Nat /\ requested \in Nat

Installed(w) == dataflow[w] = "installed"
Asleep(w) == pc[w] \in {"parked", "dozing"}

\* A thread is about to report a message of channel c, or to wake up w.
EventComing(w, c) ==
    \E v \in Peers : [to |-> w, channel |-> c, stage |-> "event"] \in push[v]
WakeupComing(w) ==
    \/ token[w]
    \/ \E v \in Peers, c \in Channels : [to |-> w, channel |-> c, stage |-> "buzz"] \in push[v]
    \/ \E t \in Threads : w \in unpark[t]

(* A worker parks for good only when there is nothing to do for it: no      *)
(* message to pull and no activation to honour, unless another thread is    *)
(* just about to wake it up.                                                *)
AsleepMeansIdle ==
    \A w \in Peers :
        /\ pc[w] = "parked" /\ Installed(w)
        /\ ~ WakeupComing(w) /\ ~ \E c \in Channels : EventComing(w, c)
        => owed[w] = {} /\ \A c \in Channels : data[w][c] = 0

(* Why: a message is known by an event or an activation on its way to its   *)
(* operator, a request is in one of the queues that advance empties, and    *)
(* what other threads put into a queue after it was emptied is followed by  *)
(* an unpark that park has not consumed.                                    *)
MessagesKnown ==
    \A w \in Peers, c \in Channels :
        Installed(w) /\ data[w][c] > 0
        => c \in counters[w] \cup events[w] \cup fresh[w] \cup todo[w] \/ EventComing(w, c)
RequestsKept ==
    \A w \in Peers :
        Installed(w) => owed[w] \subseteq rx[w] \cup fresh[w] \cup todo[w] \cup queue[w]
WakeupsKept ==
    \A w \in Peers :
        /\ pc[w] # "user" /\ counters[w] # {} => WakeupComing(w)
        /\ pc[w] \in {"run", "parked", "dozing"} /\ rx[w] # {} => WakeupComing(w)
StepInOrder ==
    \A w \in Peers :
        /\ push[w] # {} => pc[w] \in {"user", "run"}
        /\ \A p, q \in push[w] : p = q
        /\ todo[w] # {} => pc[w] = "run"
        /\ due[w] \subseteq queue[w]
        /\ pc[w] = "received" \/ Asleep(w) => events[w] = {}
        /\ Asleep(w) => fresh[w] = {}
        /\ pc[w] = "parked" => queue[w] = {}
OneTarget == \A t \in Threads : \A v, w \in unpark[t] : v = w

SchedulingInv ==
    WorkerTypes /\ MessagesKnown /\ RequestsKept /\ WakeupsKept /\ StepInOrder /\ OneTarget

(* Every message is pulled, although it may come before the receiver has    *)
(* built the dataflow, and although the receiver may park without a limit.  *)
MessagesPulled ==
    \A w \in Peers, c \in Channels :
        [](Installed(w) /\ data[w][c] > 0 => <>(data[w][c] = 0))

\* An operator whose activation was requested, now, later or by another
\* thread, is scheduled.
ActivationsHonoured ==
    \A w \in Peers, o \in Channels : [](o \in owed[w] => <>(o \notin owed[w]))
=============================================================================
