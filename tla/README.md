# TLA+ models of timely dataflow

Models of timely dataflow from the bytes up: how processes connect and hand each other
messages, how a worker finds out what to run and when it may sleep, how workers agree
on progress, how a worker computes frontiers from what it was told, and what operators
make of messages and frontiers. All modules are checked by TLC on small instances. Most of
the safety is also proved with TLAPS, for all instances: the progress protocol, the tracker's
frontiers, scopes within scopes, the scheduling of workers, the byte transport, the slab, the set-up
of connections and the order of the Sequencer.

## The system

A program builds the same dataflow graph on every worker (a thread; several per
process, several processes). Operators exchange messages that carry a timestamp,
and are told *frontiers*: which timestamps can still arrive. Nobody coordinates
this; every worker computes the frontiers from counts that all workers broadcast.

| component | state | operations | how it interacts | what is hard |
|---|---|---|---|---|
| progress protocol (`progress/subgraph.rs`, `progress/broadcast.rs`) | `local_pointstamp`, `final_pointstamp`, per-operator `SharedProgress` | `schedule`, `activate_child`, `extract_progress`, `send_progress`, `Progcaster::{send, recv}` | reads what operators recorded, broadcasts to all workers, feeds the tracker | progress and data travel in different channels; ends may be heard of before beginnings; Demand mode holds updates back |
| capabilities and counting (`capability.rs`, `channels/{pushers,pullers}/counter.rs`) | one `ChangeBatch` per port, shared with the operator | `clone`, `delayed`, `downgrade`, `retain_for_output`, `drop`, `push`, `next_guarded` | user code holds capabilities, and may do so outside of a schedule | an object must not be derived from one that could not result in it; drops at any time |
| reachability (`progress/reachability.rs`) | `pointstamps`, `implications` per port, `worklist`, `total_counts` | `update`, `propagate_all`, `is_global`, `tracking_anything` | called by the subgraph; pushes frontier changes to operators and to the parent scope | incremental; cycles; negative counts; termination |
| antichains (`progress/frontier.rs`, `order.rs`) | counts of times and a cached frontier | `update_iter`, `rebuild` | used by reachability and by every operator input | the rebuild is skipped when judged unnecessary; two orders on one type |
| `ChangeBatch` (`progress/change_batch.rs`) | updates, how many are compacted | `update`, `drain`, `compact`, `is_empty` | everywhere | lazy compaction |
| worker loop (`worker.rs`, `scheduling/activate.rs`) | dataflows, paths of channels, `Activations` | `dataflow`, `drop_dataflow`, `step_or_park`, `activate`, `activate_after`, `SyncActivations` | turns channel events into activations of operators, parks | lost wake-ups; delayed activations; events of channels not yet built |
| channels in a process (`allocator/{process,thread,counters}.rs`) | queues of data, queues of events, park tokens | push, pull, `receive`, `await_events` | three steps per push, seen by another thread in any moment | order of the three steps; race to create a channel |
| byte transport (`allocator/serializing_allocators/*`) | `MergeQueue`, staged bytes per channel, canaries | `extend`, `drain_into`, `is_complete`, `receive`, `release` | workers and network threads share queues | a ping only from empty to non-empty; completion; poisoning; framing |
| slab and shared bytes (`bytes_slab.rs`, `bytes/src/lib.rs`) | a buffer with a valid part, retired and empty buffers, slices held by readers | `ensure_capacity`, `extract`, `extract_to`, `try_merge`, `try_regenerate` | one thread writes, others read without a lock | reuse of memory that someone may still read; growth; adjacency |
| network threads (`networking/{tcp,tls,quic_quinn,stream}.rs`) | a stream, a slab, the queues of local workers | `send_loop`, `recv_loop` | one pair per remote process | shutdown; messages split over reads; parking; failures |
| connection set-up and IPC (`networking/mod.rs`, `initialize.rs`) | list of peers, publishers, subscriber, seats, promises | `connect`, `ipc_send_loop`, `ipc_receive_loop`, guards | once at start; guards at the end | who connects to whom; samples before a subscriber; several publishers into one inbox |
| `Sequencer` (`synchronization/sequence.rs`) | queues, a source with a capability, a sink with unsorted elements | `push`, `next`, `drop`, catch-up | a dataflow of two operators per worker | one order for all; release needs everybody's clock |
| `Barrier` (`synchronization/barrier.rs`) | an input and a probe | `wait`, `advance`, `reached` | a dataflow without records | return only when all have come |
| inputs and sources (`input.rs`, `unordered_input.rs`, `to_stream.rs`, `flow_controlled.rs`) | a handle's container, a capability, what was pushed since the last report | `send`, `send_batch`, `advance_to`, `close`, sessions | driven by user code between steps | user code and operator share counts; what is flushed when |
| exchange and pacts (`pushers/exchange.rs`, `pact.rs`, `container/src/lib.rs`) | containers per worker, the time they are for | `push`, `flush` | between a counter and the channels | records that wait in a container are counted already |
| operators (`dataflow/operators/*`) | capabilities, notifications, records kept by time, captured events | notificator, stateless operators, aggregation, `enter`/`leave`/`feedback`, `probe`, capture and replay, `reclock` | clients of capabilities and frontiers | order of notifications; none too early; replay from several streams |
| logging, `execute.rs` | | | | |

## The modules

| module | models | checked by |
|---|---|---|
| `ProgressTracking` | what progress tracking promises to operators (abstract) | as a property of `ProgressProtocol` |
| `ProgressProtocol` | the protocol of one scope on all workers | `Progress` |
| `ProgressProtocolProofs` | theorems about it | TLAPS |
| `NestedScope` | a scope within a scope, with a progress channel for each | `NestedScope` |
| `NestedInvariant` | its inductive invariant, and the words its proofs are in | TLAPS |
| `NestedScopeProofs` | that invariant, and what frontiers never pass | TLAPS |
| `NestedFrontierProofs` | that frontiers advance, and are exact at rest | TLAPS |
| `ScopeTracker` | batches, counts and frontiers of a scope with its ports in a row, as operators | through `NestedScope` |
| `Orders` | sets of indices in order, and what of a vector is kept (`flatten`, `retain`), as operators | through `Connect`, `BytesSlab` |
| `MutableAntichain` | the operators of `progress::frontier::MutableAntichain` | through `Reachability` |
| `OrderProofs` | theorem about `MutableAntichain`, lemmas about `Orders` and about sums | TLAPS |
| `Reachability` | one worker's `Tracker`, and the rest of `propagate_pointstamps` | `Reachability` |
| `ReachabilityProofs` | theorems about it | TLAPS |
| `Structures` | `ChangeBatch`, `Antichain`, `CapabilitySet`, `Product` and its summaries, `is_acyclic`, as operators | `Reachability` |
| `Sequencer` | the Sequencer on all workers | `Sequencer`, `SequencerOrder` |
| `SynchronizationProofs` | theorems about it, and about the barrier of `Dataflow` | TLAPS |
| `Scheduling` | `step_or_park`, `Activations`, channels between threads | `Scheduling` |
| `Mailboxes` | what the communication layer promises to workers (abstract) | as a property of `Transport` |
| `Transport` | merge queues, network threads, connections, IPC, the allocators that receive | `Transport` |
| `TransportProofs` | theorems about it | TLAPS |
| `BytesSlab` | `BytesSlab`, `BytesMut`, `Bytes` | `BytesSlab` |
| `Connect` | processes that start, connect, wire up their threads and end | `Connect`, `ConnectMixed` |
| `ProcessProofs` | theorems about `Connect`, `Scheduling` and `BytesSlab`: what is within a process | TLAPS |
| `Notificator` | `FrontierNotificator` and `Notificator`, as operators | through `Operators` |
| `Operators` | what each operator of the crate does when it is scheduled, as operators | through `Dataflow` |
| `Dataflow` | sources, pushers, an operator, a probe, capture and replay, a barrier, on one to three workers | `Dataflow`, `InputFlush` |
| `MC...` | graphs, layouts, scenarios and values for TLC | |

How they fit together: `ProgressProtocol` takes a tracker's frontier by its meaning
(`Implied`: a pointstamp is at or beyond the frontier if something with a positive
count could result in it), and `Reachability` shows that the code's incremental
algorithm computes exactly that (`FrontierExact`), and that the count of
`implications` which `is_global` reads is the one `Contributions` defines
(`Balanced`). `ProgressProtocol` is shown to implement `ProgressTracking`; `Sequencer`
and `Dataflow` are given frontiers that may do what `ProgressTracking` allows: lag
behind by any amount, and never pass what is alive. `Scheduling` is about when an
operator runs at all, which the fairness of the other modules takes for granted.
`Transport` is shown to implement `Mailboxes`: that the channels of `ProgressProtocol`
are FIFO is its promise. `Connect` ends where `Transport` starts (queues that lead to
the right processes), and `BytesSlab` justifies that `Transport` treats bytes as values.

### ProgressProtocol

`obj` is the history of all capabilities and messages ever made, `live` those not
dropped. A live message may be in its channel or in the hands of its receiver; the
channel needs no more state, as nothing is assumed about when it arrives. `shared` is
what the counters of an operator instance recorded, `local` is `local_pointstamp`,
`log` with `pos` are the progress channels (each FIFO, as `Progcaster`'s channels
are, but not ordered among each other nor with the data), `tracker` the counts in each
worker's tracker, `running` whether the worker is inside `Subgraph::schedule`.

* `Delayed`, `Retain`, `Give`, `Release`: what user code does with a capability or a
  message, at any time (an `InputHandle` or a capability held outside of the operator
  may be used between schedules). The `Tee` makes one message per target. A message is
  counted when it is pushed; before, in the buffer of a session, it is covered by the
  capability of the session.
* `BeginSchedule`: `recv` and `propagate_pointstamps`, with any prefix of what was sent.
* `Extract`: the end of `activate_child`.
* `EndSchedule`: `send_progress`, in both progress modes.

A code batch is summed by pointstamp; the model keeps *which* object an update is
about, and sums where the code looks (`Net`, `tracker`). The code drops updates that
cancel out; the model keeps them in `local`, where they sum up to nothing.

### NestedScope and ScopeTracker

A `Subgraph` as an operator of another one. In the outer scope `A` sends into the nested
scope and that to `B`; inside there is one operator `P` between the two sides of child
zero. Each worker has all of them. A message of `A` is counted twice on its way in: as
produced in the outer scope, and by the counter in the `IngressNub`
(`entering` is `input_messages`). `harvest_inputs` turns the latter into a batch of the
*nested* scope: the message is consumed by the scope and expected at `P`. What the nested scope
hears is reported upward by each worker for itself (`Subgraph::local` is false, so the
report goes to `final_pointstamp`): so the beginning of a message comes by `mail` (the outer
progress channel) and its end by `post` (the nested one), and neither is ordered with the
other.

* `send`, `downgrade`, `handle` (`Keeps`, `Leaves`, `Drops`), `consume`: the operators, with the two nubs.
* `schedule`: the outer scope, with `recv`, `propagate_pointstamps`, `extract_progress` and
  `send_progress`; with it the nested one runs (`Runs`: `accept_frontier`,
  `harvest_inputs`, `recv`, the report upward, `send_progress`, perhaps its
  shutdown) or does not (`Rests`), as `Active` says; a batch that has arrived
  activates it too, and may as well not have arrived yet.

The counts here are sums by pointstamp, as in the code, not objects as in
`ProgressProtocol`; what is alive is kept beside them (`alive`, `within`) for the properties.
`NestedSafe` relates the two scopes: what is inside, or may still come in, is expected by `B` of
every worker, and what `A` may still send by every `P`; and a scope is dropped only when nothing can come to it. `RestIsExact` says, where liveness would need
fairness for each channel, that no rest is a wrong one: once nobody has anything to do, all
frontiers are exact and, if nothing is alive, all nested scopes have been shut down. A
scope is dropped if it tracks nothing *and* its parent sees neither a frontier
before it nor a capability in it; in this model either of the two would do.

### Reachability and MutableAntichain

The variables are the fields of `Tracker`; `told` is the sum of what
`propagate_pointstamps` gave to the operators and `output_capabilities` is the
subgraph's. `propagate_all` is one call; here its first part and every turn of
its loop are actions of their own, in the order of the heap, so that the loop's claims
(termination, above all) can be stated. Several updates may be given before one
`Absorb`, as a batch of progress brings several.

`Structures` has the algorithms underneath (sums that are compacted lazily, antichains
in a vector, `try_downgrade`, summaries that overflow, the cycle check) with a reference
for each; `StructuresExact` compares them for all small inputs, and for the implications
that the tracker really reaches. The documentation of `ChangeBatch::is_empty`
(`change_batch.rs:209`: "true iff all keys have value zero") does not hold of a batch
of a single update of zero, which `compact` leaves alone; the reference says so.

### Sequencer

Source and sink operator of every worker, with the queues between program and
operators. Operators run only when they are activated, which is what the liveness of
the Sequencer depends on. The sink reads its channels in any order that keeps each sender's
(`Readings`), and `sort` is a stable sort: the permutation of what it has that is in order of the
keys and moves no element past another one of the same key (`Sortings`, `Before`). `Release` takes the
elements that the frontier has passed off the front. `Elapsed` is what a worker's timer shows. The constant `Coarse`
lets it show the same value at two runs of the source, as clocks of limited resolution do;
the runs have it off. With it `EventuallyReleased` fails: the comment of
`CatchupActivator` (`sequence.rs:24-27`) has the source scheduled until its time *exceeds*
the greatest time the sink has received, while the code (`sequence.rs:162`) stops at
equality, and an element then waits until somebody pushes again.

### Scheduling

Per worker a program counter (`user` program, `received` the events, `run`ning
operators, `parked` without a limit or `dozing` with one), the queues of data and of events,
the activations (`fresh` since the last advance, `todo` presented, `rx` from other
threads, `queue` delayed), and the token of `park`/`unpark`. A push to another thread
is three actions, a `SyncActivator` two. One dataflow; an operator is named after its
input channel and takes all its input when it runs, as `for_each` does (one that does
not must activate itself, by the contract of the interface). A worker has a timer
(without one `empty_for` never lets it park).

### Transport and Mailboxes

Senders are workers of other processes, receivers the workers of one process. A queue is
a pair of threads, writer and reader; a thread has a program counter, the handles it still
holds, and the threads it is about to unpark, so that the lock of `extend` and the `buzz`
after it are separate steps, and so are the three reads of `is_complete` (panic flag,
strong count, emptiness). On a connection a message is a header unit and payload units, and
a read returns any number of them; the slab of the receive thread has a size and grows
(`ensure_capacity`). Dropping queues, unwinding, the poison flag and the panics it causes in
others are steps of every thread.

The four `send_loop`s share their steps and differ as the code does: with or without a
`BufWriter`, a final header, a half-close, a closed connection. `ipc_receive_loop` reads
from an inbox with several publishers, and counts those that said goodbye. The receiving
allocator keeps messages for channels it has not allocated, and drops those of channels
whose `Canary` died (`deposit`, for all that `receive` got at once). What passes a filter is written with
`Selected` of `Orders`, by the indices of what passes. Sockets, rustls, quinn and iceoryx2 are external: ordered and reliable
while they live, and a broken connection may swallow what was not read. A QUIC stream that is dropped
while its send task unwinds is finished by quinn (`stream_finished`), unless the process exits first
(`sender_process_exits`). The receive task takes the first for an end (`Ok(None)`, after which `recv_loop`
waits in `accept_uni`, here at `"accept"`), and panics at the second.

### BytesSlab

Units are numbered as they are written, so that overwriting is visible. Slices are taken
by `extract`, split by `extract_to`, merged by `try_merge` and released in any order, between
any two writes. A buffer is reclaimed when `Arc::get_mut` finds no other reference,
which here is that no slice of it is held.

### Connect

The state of each process is where its main thread is, its inbox thread, who called whom,
the results of connector and acceptor, and where its send threads, receive threads and
workers are. Retries of a call or of opening the assembly are waits. The index arithmetic
of `await_connections` is kept as it is, and so is the order in which results, addresses
and promises are zipped (`Among` is `flatten`: the processes that are in a slot, `InOrder` of the
slots). A worker's closure allocates one typed channel (the race to create
it) and ends; then the guards join.

### Dataflow, Operators and Notificator

A *bench* has sources on workers (two, or three for the barrier), one operator between them and a probe, and
the calls user code may make. The same state machine runs every kind of source (input
handles, unordered input, `to_stream`, `iterator_source`) and operator. Records are numbers;
each carries along which records it was made from, so that the reference `Expected` can
say what an operator owes for what was sent. What an operator consumed, produced and holds is
reported in one step when it has run, but user code and the containers of an exchange are
not in step with it. `iterate` is a loop in a nested scope (`enter`, body, `feedback`,
`leave`); `capture` writes a tape per worker, which `replay` reads in pieces, on as many or
fewer workers.

## What the runs check

| run | shows | states |
|---|---|---|
| `Progress` | `FrontierSafe`, `CompletionIsFinal`, the inductive invariant `IndInv` (types included), `FrontierMonotonic`, `Implements` (refinement of `ProgressTracking`), `FrontierAdvances` | 26 thousand |
| `NestedScope` | `NestedSafe`, `NeverRetreats`, `RestIsExact` | 84 thousand |
| `Reachability` | `FrontierExact`, `TrackerInv`, `OutputsExact`, `StructuresExact`, `Terminates` | 48 thousand |
| `Sequencer` | `ReleasedByTime`, `SenderOrder`, `EventuallyReleased` | 52 thousand |
| `Scheduling` | `AsleepMeansIdle`, `SchedulingInv`, `MessagesPulled`, `ActivationsHonoured` | 123 thousand |
| `Transport` | `Conserved` (nothing lost, doubled or overtaken on the way), `NoLostWakeup`, `CleanEnd` and `Delivered` (not for QUIC), `Implements` (refinement of `Mailboxes`), `ThreadsEnd`, `FailureCascades` (the workers at the other end: not for QUIC) | 259 thousand |
| `Connect` | `Wired`, `NoEarlySample`, `OneChannel`, `AllJoined`, and no deadlock | 326 thousand |
| `BytesSlab` | `HeldStable`, `ValidInOrder`, `OnePlace` | 169 thousand |
| `Dataflow` | `FrontierHonest`, `OutputsRight`, `InTimeOrder`, `BarrierHolds`, `NothingStuck` | 244 thousand |
| `SequencerOrder` | violation of `SameOrder` | |
| `ConnectMixed` | violation of `NoPanic` | |
| `InputFlush` | violation of `Completes` | |

Deadlock is checked for `Connect`, where only processes that are over may rest. It is not
for the others, which may finish or reach a bound; there the liveness properties,
`NoLostWakeup` and `NothingStuck` say that nothing is left undone.

### Disagreements with the documentation

* `SequencerOrder`. The sink sorts by `(time, worker index, counter)`, but the source
  puts the index of the *receiving* worker into the key (`sequence.rs:148-156`), so the
  index separates nothing. Two workers that push at the same timer reading may see
  the two elements in opposite orders, each in the order of arrival; the type's
  documentation (`sequence.rs:47-48`) promises one order for all workers. `SenderOrder` and
  `ReleasedByTime` are what holds.
* `ConnectMixed`. `await_connections` puts a connection at
  `results[identifier - my_index - 1]` (`tls.rs:163`, `quic_quinn.rs:210`; `tcp.rs:114` does so, too, but
  TCP together with shared memory between processes is called unsupported at `initialize.rs:85`), while
  `results` has an entry per *remote* process above. If a process of the same host has an
  index in between, the place is out of range and the process panics, though the driver
  should not need "to be aware of" shared memory (`networking/mod.rs:168-170`). With
  processes of a host at the end of the list, or all on one host, `Connect` shows that
  everything is wired up correctly.
* `InputFlush`. `Counter::push` passes a flush on only if it has counts that were not
  reported (`pushers/counter.rs:26`). When the Input operator runs between
  `Handle::send_batch` and `advance_to` or `close`, the counts are empty, and the flush of
  `close_epoch` does not reach the exchange, which keeps records that were reported: the
  dataflow never completes (`input.rs:397` and `468-469` say otherwise). The benches of
  `Dataflow` keep out of this case: with an exchange their containers have room for all
  records, so that `send` pushes nothing before the epoch is closed.

Besides these, two properties leave QUIC out, because the code does not do what the comment above its
`recv_loop` says (`quic_quinn.rs:227-232`: a final header, and a panic "If the stream ends without being
shut down", "to take down the computation and cause the failures to cascade"):

* `CleanEnd` (and with it `CleanEndHolds`, and `Delivered`). `send_loop` closes the connection right
  after the last write (`quic_quinn.rs:536`), without finishing the stream or waiting for the peer: what
  was not read by then is dropped, and the receive loop takes the close for a regular end
  (`quic_quinn.rs:290-294`). Without `medium # "quic"`, and with a QUIC receiver that
  stays, TLC finds that `CleanEnd` is violated, by a receive thread that ends before it has read a message.
* `FailureCascades`, for the workers at the other end. When a worker panics, its `send_loop` finds the
  queue poisoned and panics, too; the stream that is dropped while it unwinds is finished by quinn, and
  the peer's task ends with `Ok(None) => break` (`quic_quinn.rs:284-287`), without a panic. `recv_loop` returns
  when the connection is lost, its queues are not poisoned, and workers that only
  wait for messages wait for good. Without `medium # "quic"`, and with `r1` not in `leaving`, TLC finds this
  behaviour: `stream_finished`, the quiet end of the stream, `sender_process_exits`, and a worker that stays
  parked. Only if the process exits before the end of the stream has arrived does the read fail, and the
  panic go on. What is checked for QUIC is that the threads of the failing process and the receive
  thread of the other one end.

TCP, TLS and IPC do as the comment says. What QUIC does deliver is a prefix, in order (`Implements`).

### Bounds

* Two workers are enough for every race here: a worker and another one that has
  heard of less. In `ProgressProtocol` `MaxObjects` is 3 (a capability, what is derived
  from it, and what is derived from that or beside it): enough for an end to be
  known before a beginning through two different senders, which is the case that
  the code's comments worry about. The graph is a loop of two operators with two times, so
  that the feedback does advance, in Demand mode, the mode that holds updates back.
  `StartLoop` is a state after all instances but one have dropped their capabilities and
  everyone has heard so; TLC spends no states on that history. The theorems are free of all
  these bounds, and hold for Eager mode too.
* `NestedScope` starts in states where most capabilities are dropped already and everyone has
  heard so: one worker's `A` sends a message into the nested scope and advances; sends one
  that goes through; one `P` that delays what it keeps to a later round; the `P`s of two workers; and an `A` at one
  worker with a `P` at the other. Each is the least start in which the two ends of a message
  are told by different workers or by different channels. It is checked in Demand mode.
* `Reachability` has three product times, of which two are incomparable and sorted,
  and a cycle; three updates of +1 or -1 at any port give counts from -3 to 3 and
  every order of making and retiring. Location names follow the order of the code (child zero
  first). `Structures` takes times up to 2, sequences up to 3, and a change batch compacts
  beyond 2 updates, so that every structure is used on both sides of its threshold.
* `Sequencer` needs two elements of one worker and one of the other for `SenderOrder`
  and the races at equal times; three clock values; worker `w2` may drop. The last clock
  value is kept for catching up: elements are sent before it.
* `Scheduling` has an exchange and a pipeline channel, one message, one request and one other
  thread; what is proved about it has no bound.
* `Transport` has eight scenarios: two messages over TCP for a channel that is allocated
  late; TCP with a worker that panics; TCP broadcast to two workers; TLS with two senders, one
  of which panics; QUIC with a receiver that leaves, and with a sender that
  panics as well; IPC from two processes; and queues within
  a process, with a panic and a receiver that leaves. Payloads are one unit, and the slab
  starts with one unit, less than a message: it has to grow, and to move a message that was
  read in part.
* `Connect` has three processes on three hosts (TCP, QUIC), on two hosts (TLS), on one host,
  and two processes of two workers each, on two hosts and on one. Three processes are the
  least number in which one both calls and is called and calls may come in out of order.
* `BytesSlab` starts with buffers of two units, reserves up to three, writes seven, and
  readers hold up to three slices: buffers are reused, become too small and are forgotten.
* `Dataflow` sends two or three records at two times (three for the state machine), enough for
  two records of a time from two workers, with one of another time between. The barrier has three
  workers, and is used twice. A source by `iterator_source` gives up to two or three records in one run
  or in several, with any lower bound after each of them; its first run finds no frontier at the
  probe, and may go ahead.

### Fairness, and what justifies it

* `ProgressProtocol`: `EndSchedule` weakly, since `Subgraph::schedule` has no loop
  that waits. Receiving all and extracting from every operator strongly: the worker
  keeps stepping, channels deliver what was sent, and an operator whose
  `SharedProgress` changed is activated (`capability.rs` activates on drop,
  messages activate by their channel's events). User code is not assumed to do anything:
  `FrontierAdvances` speaks about pointstamps which nothing alive can result in.
* `Reachability`: the worker runs the function it called.
* `Sequencer`: active operators are run, messages that have arrived activate the
  sink, progress is eventually heard of (`FrontierAdvances`), and a clock that is read
  again and again moves on.
* `Scheduling`: the program keeps calling `step_or_park`, threads finish a push, time
  passes. `schedule` of an operator that was not activated is allowed (its frontier
  may have changed) but never relied upon.
* `Transport`: while some thread can run, one does. This follows from the operating
  system's fairness to each thread, and no more is needed, as threads that wait for each
  other park instead of spinning. Senders that "must end" end; panics, broken connections
  and receivers that leave are never required.
* `Connect`: some process goes on while one can. No step can be repeated for ever, so that
  this is enough.
* `Dataflow` (for `InputFlush`): the workers keep stepping; user code is not forced to
  anything.

## What is proved

`ProgressProtocolProofs` proves, for every graph that satisfies `GraphAssumption`, any
set of workers and any history:

* `Invariance`: `Spec => []IndInv`. `FrontierSafe` alone is not inductive: that a
  tracker counts something below a live object depends on what is in flight. `IndInv`
  says that updates are genuine (`NothingInvented`), kept until sent
  (`NothingLost`), in one place (`NothingTwice`), that a tracker is the sum of what was
  received (`TrackerIsSum`), that objects descend from objects (`Lineage`), and, the
  heart of it, that every batch boundary is a consistent cut (`Consistent`): who has
  heard of the end of an object has heard of everything the same instance derived from
  it before.
* `Safety`: `FrontierSafe`. For a live object take, by well-foundedness of
  could-result-in, a least pointstamp among its ancestors that the worker has
  heard to begin and not to end; nothing below it can have been counted negative, so
  its count is positive.
* `Completion`, `Monotonic` (`FrontierMonotonic`), `TypeCorrect`.
* `Refinement`: `Spec => Implements`, step by step from the above.

`NestedScopeProofs` and `NestedFrontierProofs` prove, for any number of workers, messages, times and
rounds, and in both progress modes:

* `NestedInvHolds`: `Spec => []NestedInv`. The counts are sums, so that there are no objects to follow as in
  `ProgressProtocol`. What a worker counts and what it has yet to hear of are together what is alive
  (`InnerBalance`, `OuterBalance`); the outer balance counts what is to come inside as well, as each worker
  reports it for itself. Balance alone does not keep a frontier back: what is to come could cancel
  what is counted. Inside a scope it cannot, as each batch is `Upright`: with whatever appears in it
  something earlier disappears, so that of what is still to come, a least point cannot be positive. Outside, batches are not
  so (capabilities of `A` are dropped in one batch and nothing takes their place); there `Caps` says that
  after any part of anybody's news a worker knows of some capability of `A` early enough for what is
  to come. `Accepts` and `Inside` say the same of the seam between the two scopes: the frontier that the nested scope has accepted
  is not past a message whose entry is unheard of, and what it counts inside is reported outside.
  `Gone` says that nothing can come to a scope that has been shut down, which makes the steps of the others
  harmless to it, and `News` that the report of a nested scope, which goes to `final`, does not put anything before the
  frontier at `B`.
* `NestedSafeHolds` (`NestedSafe`) follows. Steps of operators are alike (`MovedInv`): whatever they do is
  recorded in the scope in which it happened, and fits in both (`Level`). A step of a worker is what it
  hears, what its nested scope does with it, and what it sends or keeps.
* `NeverRetreatsHolds` (`NeverRetreats`): what news makes a worker count is preceded by what it counted before, for the outer
  frontier by `Caps`, for the inner one by uprightness, and where the one drives the other by `Accepts`.
* `KeptHolds`: `KeptInv` is invariant. What a worker holds back in Demand mode need not be sent by what it
  knows (`must_send`), what its nested scope counts is what the outer scope was told (`internals`), and a scope that may be shut down is.
* `RestIsExactHolds` (`RestIsExact`). At rest only what is held back is yet to come, and it is the same for
  all workers, so that all of them count the same. By `KeptInv` something that is held back as negative is not visible in the
  frontier: something earlier is counted. If a worker counted a point that is not alive and has nothing alive
  before it, it would be so at a least point; what is held back there is negative, so there is an earlier one.
  This goes from `A` to the nested operator, through the inside, and on to `B`.
  The hypothesis `SomethingAlive` is that no behaviour starts with nothing alive at all: there, nothing would ever
  make a worker look at its nested scope and shut it down. In the code the capability that every operator is born with
  sees to that.

`ProcessProofs` proves `SchedulingInvariance` (`SchedulingInv`: each message has an
event or an activation on its way, each request is in a queue, each entry that
another thread made after a queue was emptied is followed by a token) and from it
`NoLostWakeup` (`AsleepMeansIdle`), for any number of workers, channels and threads.

`OrderProofs` proves `UpdateExact`: after any update of a `MutableAntichain` its cached frontier is
the set of least times with a positive count, whether `update_iter` rebuilt it or judged that it
need not. It is stated for any two orders of which the total one extends the partial one, so that
`ReachabilityProofs` uses it twice (times of the scope, times of its parent). It also has the
lemmas about `Orders` that `ProcessProofs` takes from it, and those about sums over finite sets that
`NestedScopeProofs` does; they say nothing of times.

`ReachabilityProofs` proves, for any finite graph, order of times and bound:

* `TrackerBalances`: `TrackerInv` is inductive. `Balanced` says that the count of an implication and
  what is still queued for it are together one for the location's own frontier and one for every
  hop from the frontier of the location before; `OutputsBalanced` the like of `output_capabilities`.
* `FrontiersAreExact`: once the worklist is empty, the frontier of each port is the one that
  could-result-in defines, although it was computed hop by hop. Balance alone would allow
  counts around a cycle that support each other. As no cycle leaves the time unchanged, there is a
  least one among the counts that nothing implies, and a least one among the pointstamps that are
  implied and not reached; neither can be.
* `OutputsAreExact`: and so are the capabilities that `propagate_pointstamps` reports to the parent
  scope, whose times are coarser.

`TransportProofs` proves `NoLostWakeupHolds`: no thread of the byte transport is parked, nor about
to park, with something to read that nobody will wake it for; for any number of threads and
messages, and with panics and drops of queues at any time. `WakeInv` says where each thread is and which
queues it has handles of, and that a reader which has looked at a queue and seen nothing
has a wake-up coming if there is something now. That every step keeps it is proved by one
relation, `Careful`, which all actions satisfy: who leaves something for a reader has woken it or is
about to, and who uses up a wake-up looks at its queues again.

It also proves what the byte transport is for, for any programs and sizes of messages, on all five
media:

* `DataInvHolds`: `Spec => []DataInv`. For a sender, a receiver and a channel the places on the way
  make a line: what was pulled, the queue of the channel, the inlet, what is staged, the flow
  (the messages that whole headers and payloads on the connection and in the slab make up), the
  `BufWriter`, what was drained, the outlet. `Kept` says that the messages for them along this line
  are those that were sent, or, once a connection is dead, that those beyond the connection are a
  prefix of them. This is inductive only with `Shape` (the bytes on their way are whole messages, up to
  where a read cut them, and each queue has only messages of its senders and for its reader),
  `Owned` (a send thread drains its own queues), `CutFailed` (a connection breaks
  after a panic) and `Absent`. For each action one lemma shows that it moves messages from
  the front of one place to the end of the next, or appends what it pushes (`Flows`). That a read may cut
  the bytes anywhere does not matter is the lemma about `Carve`: what is left of a prefix and what
  comes behind it make up the remaining messages.
* `ConservedHolds` (`Conserved`): while nothing has failed, nothing is lost, doubled or overtaken.
* `ImplementsHolds`: `Spec => Implements`, the refinement of `Mailboxes`, also with panics
  and broken connections: each `push` is a push, each `pull` is one of the next message of its
  sender, and all else stutters.
* `EndInvHolds` and from it `CleanEndHolds` (`CleanEnd`). That nothing is left behind when a receive thread
  returns depends on all threads before it. A worker that sends lets go of its queue only
  when it is over (`Outlasts`); a send thread takes a queue for complete only if it found it without
  its writer first and empty after that, and it has sent what it drained before (`SendDone`); so the
  final header it then writes is the last message of the flow, and the only one (`StreamEnds`), or,
  through shared memory, there are as many on their way as peers have ended and have not been heard
  (`PeersEnd`); a read that takes the final header takes all of the flow before it, and leaves no
  unit in the slab (`Unread`, `TakeCuts`); and the receive thread passes on what it staged before it returns
  (`InboxKeeps`). `Calm` says that no thread panics where no worker does. QUIC is excepted (as in `CleanEnd` itself), as its
  `send_loop` closes the connection with units still on it.

`ProcessProofs` also proves `HeldStableHolds`, `ValidInOrderHolds` and `OnePlaceHolds`. The invariant is `Inv`:
everything fits in its buffer (`Fits`), slices and the valid part show the units written there
(`Data`), and a buffer is in one place, and in the stash only if nobody holds a slice of it
(`Places`). The last is what makes the others inductive: a buffer that is written to again
has no readers. `ensure_capacity` is followed through its reclaiming, its growth and its move.

It also proves `TypeCorrect`, `WiredHolds`, `NoSampleIsEarly` and `OneChannelHolds` for any number of
processes, hosts and workers. `CallInv` relates the calls to the slots: a process that has not
panicked has every call that it took in the slot which its index gives. That `flatten` then puts the
connections in the order of the addresses rests on there being one way to put a finite set of
indices in order (`OrderProofs`). `ConnectMixed` is not a contradiction: there the process panics.

`SynchronizationProofs` proves of the Sequencer, for any number of workers and elements, and timers that may show the same
value at two runs:

* `ReleasedByTimeHolds`: elements are released in the order of their times, and completely. Its
  invariant says that no frontier passes a capability or an element in a channel (`Honest`), that
  what a sink released is before its frontier and before all it still keeps (`Past`), and that what any
  worker has, everyone has who keeps the Sequencer, with the same time (`Copies`).
* `SenderOrderHolds`: the elements of one sender are released in the order of their pushes.
  `Lined` says that they are never out of order on their way. Sorting does not change that, as
  the source gives them keys in order of the pushes (`Keyed`), and what `Release`
  takes is a prefix of the sorted vector.

and of the barrier, for any number of workers, handles (a worker may have several) and rounds:

* `BarrierHoldsTrue` (`BarrierHolds`): nobody has left `wait` before everybody has come. It is a chain (`BarrierInv`):
  who does not wait is not ahead of his own probe (`reached`), no probe is ahead of what any `Input`
  operator has reported, and no report is ahead of what the handle holds. `wait` is one step of several
  (`advance`, the step that reports, the steps that bring the frontier, the look at the probe), and the others may be anywhere in
  theirs. That the dataflow has no records is part of the invariant, as records would hold the probe back; so is what
  the handles hold, since one that is closed must not hold anybody up.

Assumptions, all in the modules that declare the constants, and evaluated by TLC for the values
of the runs. For `ProgressProtocol` the graph is well formed and has no cycle that leaves
the time unchanged (the code checks the latter in `Builder::is_acyclic`), outputs have
finitely many targets. For `Reachability`, the same of the graph, with finitely many locations and times
(a dataflow has finitely many ports; of the times, those that occur in a run of it), orders that are orders, and
`to_outer` monotone (it is, for `Product`). For `Transport`, within a process a broadcast
is a push to each worker (`Broadcaster`), and otherwise who sends is in another process
than who receives. For `Dataflow`, the
dataflow of a barrier is the one that `Barrier::new` makes, whose handle the program does not see (`OnlyBarrier`).
For the others, numbers are numbers and processes, workers and threads are
finitely many.

The library's induction theorems take an operator as a parameter, which the provers cannot
instantiate. Where a lemma is about all finite sets or sequences, its proof takes a smallest
counterexample instead (`SmallestSet` and its like), and what a fold or a
recursive function computes is derived from the existence of a function that satisfies its
equation.

Only model-checked:

* liveness: fairness is outside of what the prover handles;
* `StructuresExact`: a comparison of algorithms on all small inputs; what a fold computes for all inputs
  would need induction over them;
* `FrontierHonest`, `OutputsRight`, `InTimeOrder` and `NothingStuck` of `Dataflow`: its operators go through their records
  by folds, and what is right depends on the operator.

## What is not modelled, and the plan

Not modelled, and why:

* nested scopes with loops inside, or several inputs and outputs, at the level of the protocol:
  `NestedScope` has one way through; loops are in `ProgressProtocol`, `Reachability` and
  (by the promise of progress tracking) `Dataflow`;
* several dataflows of a worker, and operators nested by paths, in `Scheduling`;
* the limits of iceoryx2 (100 buffered samples) and the death of a process that is connected
  by shared memory: the first is decided by the library, the second the code does not handle;
* `networking/long` (not compiled); logging, which nothing reads; option parsing and
  `execute.rs`; TLS and QUIC themselves (libraries beneath the loops).

Next, in this order:

1. `Dataflow`: `FrontierHonest`, for benches without a loop first.
2. `NestedScope` with a loop inside.
