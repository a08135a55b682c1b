------------------------------ MODULE Transport ------------------------------
(***************************************************************************)
(* How bytes get from workers of other processes (Senders) to the workers  *)
(* of one process (Receivers): MergeQueues between threads, a send thread  *)
(* per connection, the connection, a receive thread, and the allocator of  *)
(* the receiving worker, which sorts messages by channel.                  *)
(*                                                                         *)
(* The medium is "tcp", "tls" or "quic" (one send thread serves all        *)
(* Senders, which are workers of one process), "ipc" (each sender is in a  *)
(* process of its own, and all publish into one inbox) or "process" (the   *)
(* serializing allocator within a process: queues go from worker to        *)
(* worker, without threads in between).                                    *)
(*                                                                         *)
(* A message is [from, channel, to, seqno].  On a connection it is a row   *)
(* of units, one for the header and Size[channel] for the payload: reads   *)
(* return any number of them.  A queue is a pair <<writer, reader>> of     *)
(* threads; its reader is the thread that its buzzer unparks.              *)
(***************************************************************************)
EXTENDS Integers, Sequences, SequencesExt, FiniteSets, Orders

CONSTANTS
    Senders, Receivers,
    Lead,          \* the sender that names the send thread shared by all
    LastChannel,   \* channels are numbered 1 .. LastChannel
    Size,          \* Size[c]: payload units of a message of channel c
    InitialShift,  \* a slab begins with 2^InitialShift units
    Scenarios      \* what may happen, see Scenario

Channels == 1 .. LastChannel

(* A scenario bounds a behaviour: the medium, the pushes of each sender in  *)
(* order (to one worker, or for a broadcast to all of them), the senders    *)
(* that must end some day, those whose code may panic, the receivers that   *)
(* may drop a channel or end, and how many channels are allocated at the    *)
(* start.  Within a process a broadcast is a push to each of the workers    *)
(* (Broadcaster), and otherwise who sends is in another process than who    *)
(* receives.                                                                *)
Scenario ==
    [medium : {"tcp", "tls", "quic", "ipc", "process"},
     program : UNION {[S -> Seq(Channels \X SUBSET Receivers)] : S \in SUBSET Senders},
     receivers : SUBSET Receivers,
     ending : SUBSET Senders,
     failing : SUBSET Senders,
     leaving : SUBSET Receivers,
     allocated : 0 .. LastChannel]

ASSUME TransportAssumption ==
    /\ Lead \in Senders /\ IsFiniteSet(Senders) /\ IsFiniteSet(Receivers)
    /\ LastChannel \in Nat
    /\ Size \in [Channels -> Nat \ {0}]
    /\ InitialShift \in Nat
    /\ \A net \in Scenarios :
          /\ Lead \in DOMAIN net.program /\ DOMAIN net.program \subseteq Senders
          /\ net.receivers \subseteq Receivers
          /\ net.ending \cup net.failing \subseteq DOMAIN net.program
          /\ net.leaving \subseteq net.receivers
          /\ net.allocated \in 0 .. LastChannel
          /\ \A s \in DOMAIN net.program :
                net.program[s] \in Seq(Channels \X SUBSET Receivers)
          /\ IF net.medium = "process"
             THEN \A s \in DOMAIN net.program : \A i \in DOMAIN net.program[s] :
                      Cardinality(net.program[s][i][2]) = 1
             ELSE DOMAIN net.program \cap net.receivers = {}

Worker(w) == <<"worker", w>>
Thread(s) == <<"send", s>>
Inbox == <<"recv", Lead>>
Threads == {Worker(w) : w \in Senders \cup Receivers}
           \cup {Thread(s) : s \in Senders} \cup {Inbox}

VARIABLES
    net,       \* the scenario
    pc,        \* pc[th]: where the thread is
    queue,     \* queue[q]: the messages in a MergeQueue
    holds,     \* holds[th]: the queues that th has a handle of
    panic,     \* the queues whose panic flag is set
    pending,   \* pending[th]: the threads that th is about to unpark
    token,     \* token[th]: an unpark (for an inbox a notification) not used yet
    todo,      \* todo[th]: the queues still to visit in a loop over all of them
    seen,      \* seen[t]: how far is_complete has come with a queue, as a set
    stash,     \* stash[t]: messages drained by the send thread
    writer,    \* writer[t]: messages in its BufWriter
    stream,    \* units on the connection
    closed,    \* the connection: "open", "shut" by the sender, "closed", or "cut"
    alive,     \* ipc: peers that have not ended
    valid, room, shift,  \* the receive thread's slab: its valid units, the
                         \* space after them, and the size of new buffers
    staged,    \* staged[v]: messages cut out for v, not handed over
    bound,     \* bound[v]: the channels up to this one are allocated
    to_local,  \* to_local[v]: a queue for each channel that has one
    canaries,  \* channels of v whose Puller was dropped
    received,  \* received[v][c]: what v pulled
    sent       \* sent[s]: what s pushed

vars == <<net, pc, queue, holds, panic, pending, token, todo, seen, stash,
          writer, stream, closed, alive, valid, room, shift, staged,
          bound, to_local, canaries, received, sent>>

worker_vars == <<bound, to_local, canaries, received>>
recv_vars == <<alive, valid, room, shift, staged>>
send_vars == <<seen, stash, writer>>
link_vars == <<stream, closed>>
-----------------------------------------------------------------------------
(* Who is connected to whom.                                                *)

medium == net.medium
Sending == DOMAIN net.program
Networks == {"tcp", "tls", "quic"}
ThreadOf(s) == Thread(IF medium = "ipc" THEN s ELSE Lead)

Outlets(s) == IF medium = "process" THEN {<<Worker(s), Worker(v)>> : v \in net.receivers}
              ELSE {<<Worker(s), ThreadOf(s)>>}
Sources(t) == {<<Worker(s), t>> : s \in {r \in Sending : ThreadOf(r) = t /\ medium # "process"}}
Targets == IF medium = "process" THEN {} ELSE {<<Inbox, Worker(v)>> : v \in net.receivers}
Inlets(v) == IF medium = "process" THEN {<<Worker(s), Worker(v)>> : s \in Sending}
             ELSE {<<Inbox, Worker(v)>>}
Queues == (UNION {Outlets(s) : s \in Sending}) \cup UNION {Inlets(v) : v \in net.receivers}

Handles(th) == {q \in Queues : th \in {q[1], q[2]}}
SendThreads == {ThreadOf(s) : s \in IF medium = "process" THEN {} ELSE Sending}

\* The header for a zero length message that ends a stream.
End == [from |-> Lead, channel |-> 0, to |-> {}, seqno |-> 0]

\* header_bytes and length, in units
required_bytes(m) == 1 + IF m.channel = 0 THEN 0 ELSE Size[m.channel]
Bytes(m) == [i \in 1 .. required_bytes(m) |-> [message |-> m, unit |-> i]]
AllBytes(ms) == FlattenSeq([i \in 1 .. Len(ms) |-> Bytes(ms[i])])

(* MessageHeader::try_read: a header, once all the bytes it announces are   *)
(* there.                                                                   *)
try_read(bytes) ==
    bytes # <<>> /\ Len(bytes) >= required_bytes(bytes[1].message)

\* What is cut out at the front of bytes; Garbage if the bytes were mixed up.
Garbage == [from |-> Lead, channel |-> 0, to |-> {}, seqno |-> 1]
Peel(bytes) ==
    LET m == bytes[1].message
    IN  IF SubSeq(bytes, 1, required_bytes(m)) = Bytes(m) THEN m ELSE Garbage

\* All the messages that can be cut out of bytes, and what is left.
Carve(bytes) ==
    LET rest(i) == SubSeq(bytes, i, Len(bytes))
        cut[i \in 1 .. Len(bytes) + 1] ==
            IF try_read(rest(i))
            THEN LET r == cut[i + required_bytes(bytes[i].message)]
                 IN  [messages |-> <<Peel(rest(i))>> \o r.messages, left |-> r.left]
            ELSE [messages |-> <<>>, left |-> rest(i)]
    IN  cut[1]

Init ==
    /\ net \in Scenarios
    /\ pc = [th \in Threads |-> IF Handles(th) = {} THEN "none"
                                ELSE IF th = Inbox THEN "read"
                                ELSE IF th[1] = "send" THEN "drain" ELSE "run"]
    /\ queue = [q \in Queues |-> <<>>]
    /\ holds = [th \in Threads |-> Handles(th)]
    /\ panic = {}
    /\ pending = [th \in Threads |-> {}]
    /\ token = [th \in Threads |-> FALSE]
    /\ todo = [th \in Threads |-> IF th[1] = "send" THEN Sources(th) ELSE {}]
    /\ seen = [s \in Senders |-> {}]
    /\ stash = [s \in Senders |-> <<>>] /\ writer = [s \in Senders |-> <<>>]
    /\ stream = <<>> /\ closed = "open"
    /\ alive = Cardinality(Sending)
    /\ valid = <<>> /\ shift = InitialShift /\ room = 2^InitialShift
    /\ staged = [v \in Receivers |-> <<>>]
    /\ bound = [v \in Receivers |-> net.allocated]
    /\ to_local = [v \in Receivers |-> [c \in 1 .. net.allocated |-> <<>>]]
    /\ canaries = [v \in Receivers |-> {}]
    /\ received = [v \in Receivers |-> [c \in Channels |-> <<>>]]
    /\ sent = [s \in Senders |-> <<>>]

-----------------------------------------------------------------------------
(* Threads and MergeQueues.                                                 *)

Goto(th, where) == pc' = [pc EXCEPT ![th] = where]

\* th is there, and has no unpark to do first.
At(th, where) == pc[th] = where /\ pending[th] = {}

\* Mutants of extend: the newest first, and no buzz.
extend_front(th, q, ms) ==
    /\ q \notin panic
    /\ queue' = [queue EXCEPT ![q] = ms \o @]
    /\ pending' = [pending EXCEPT ![th] = IF ms # <<>> /\ queue[q] = <<>> THEN {q[2]} ELSE {}]

extend_silent(th, q, ms) ==
    /\ q \notin panic
    /\ queue' = [queue EXCEPT ![q] = @ \o ms]
    /\ UNCHANGED pending

(* MergeQueue::extend, by th (which panics if the queue is poisoned): th    *)
(* goes on to buzz the reader if the queue was empty.                       *)
extend(th, q, ms) ==
    /\ q \notin panic
    /\ queue' = [queue EXCEPT ![q] = @ \o ms]
    /\ pending' = [pending EXCEPT ![th] = IF ms # <<>> /\ queue[q] = <<>> THEN {q[2]} ELSE {}]

\* Buzzer::buzz, or the notification of an inbox
buzz(th) ==
    /\ \E u \in pending[th] : token' = [token EXCEPT ![u] = TRUE]
    /\ pending' = [pending EXCEPT ![th] = {}]
    /\ UNCHANGED <<net, pc, queue, holds, panic, todo, sent>>
    /\ UNCHANGED <<worker_vars, recv_vars, send_vars, link_vars>>

\* A mutant of drop: the reader is not buzzed.
drop_silent(th) ==
    /\ \E q \in holds[th] :
          /\ holds' = [holds EXCEPT ![th] = @ \ {q}]
          /\ \/ At(th, "unwind") /\ panic' = panic \cup {q} /\ Goto(th, "panicked")
             \/ At(th, "closing") /\ Goto(th, "done") /\ UNCHANGED panic
    /\ UNCHANGED <<net, queue, pending, token, todo, sent>>
    /\ UNCHANGED <<worker_vars, recv_vars, send_vars, link_vars>>

(* Drop of a MergeQueue: a thread that is unwinding sets the panic flag,    *)
(* one that is not panics if the flag is set.  Then the reference to the    *)
(* queue goes, and last the reader is buzzed (not after a panic here).  A   *)
(* thread is over when it has dropped all its queues.                       *)
drop(th) ==
    /\ \E q \in holds[th] :
          LET past(how) == IF holds[th] = {q} THEN how ELSE pc[th]
          IN  /\ holds' = [holds EXCEPT ![th] = @ \ {q}]
              /\ \/ /\ At(th, "unwind")
                    /\ panic' = panic \cup {q}
                    /\ pending' = [pending EXCEPT ![th] = {q[2]}]
                    /\ Goto(th, past("panicked"))
                 \/ /\ At(th, "closing") /\ q \in panic
                    /\ Goto(th, IF holds[th] = {q} THEN "panicked" ELSE "unwind")
                    /\ UNCHANGED <<panic, pending>>
                 \/ /\ At(th, "closing") /\ q \notin panic
                    /\ pending' = [pending EXCEPT ![th] = {q[2]}]
                    /\ Goto(th, past("done"))
                    /\ UNCHANGED panic
    /\ UNCHANGED <<net, queue, token, todo, sent>>
    /\ UNCHANGED <<worker_vars, recv_vars, send_vars, link_vars>>

\* th leaves its loop: it ends, or it panics.
leave(th, how) ==
    /\ Goto(th, IF holds[th] # {} THEN how ELSE IF how = "unwind" THEN "panicked" ELSE "done")
    /\ UNCHANGED <<net, queue, holds, panic, pending, token, todo, sent>>
    /\ UNCHANGED <<worker_vars, recv_vars, send_vars, link_vars>>

-----------------------------------------------------------------------------
(* The workers that send.                                                   *)

\* Pusher::push: the message is numbered, written into the slab, and handed over.
push(s) ==
    LET th == Worker(s)
        next == net.program[s][Len(sent[s]) + 1]
        m == [from |-> s, channel |-> next[1], to |-> next[2],
              seqno |-> Cardinality({i \in DOMAIN sent[s] :
                      sent[s][i].channel = next[1] /\ sent[s][i].to = next[2]})]
    IN  /\ At(th, "run") /\ s \in Sending
        /\ Len(sent[s]) < Len(net.program[s])
        /\ \E q \in Outlets(s) :
              /\ medium = "process" => q[2] \in {Worker(v) : v \in m.to}
              /\ extend(th, q, <<m>>)
        /\ sent' = [sent EXCEPT ![s] = Append(@, m)]
        /\ UNCHANGED <<net, pc, holds, panic, token, todo>>
        /\ UNCHANGED <<worker_vars, recv_vars, send_vars, link_vars>>

\* The worker ends, its code panics, or it finds a queue poisoned when it pushes.
sender_ends(s) ==
    /\ At(Worker(s), "run") /\ s \in Sending
    /\ \/ leave(Worker(s), "closing")
       \/ (s \in net.failing \/ Outlets(s) \cap panic # {}) /\ leave(Worker(s), "unwind")

-----------------------------------------------------------------------------
(* The steps of a send_loop.                                                *)

\* drain_into, for one of the sources
drain(s) ==
    LET t == Thread(s)
    IN  /\ At(t, "drain")
        /\ \E q \in todo[t] :
              \/ q \in panic /\ leave(t, "unwind")
              \/ /\ q \notin panic
                 /\ stash' = [stash EXCEPT ![s] = @ \o queue[q]]
                 /\ queue' = [queue EXCEPT ![q] = <<>>]
                 /\ todo' = [todo EXCEPT ![t] = @ \ {q}]
                 /\ UNCHANGED <<net, pc, holds, panic, pending, token, seen, writer, sent>>
                 /\ UNCHANGED <<worker_vars, recv_vars, link_vars>>

\* Bytes reach the connection: an inbox is notified of them.
emit(t, ms) ==
    /\ stream' = IF closed \in {"cut", "closed"} THEN stream ELSE stream \o AllBytes(ms)
    /\ pending' = [pending EXCEPT ![t] = IF medium = "ipc" /\ ms # <<>> THEN {Inbox} ELSE {}]

(* write_all, for all that was drained: without a BufWriter it goes out,    *)
(* with one it is kept, or goes out because the writer is full.             *)
write(s, buffered) ==
    LET t == Thread(s)
    IN  /\ At(t, "drain") /\ todo[t] = {} /\ stash[s] # <<>>
        /\ \/ /\ buffered
              /\ writer' = [writer EXCEPT ![s] = @ \o stash[s]]
              /\ UNCHANGED <<pending, stream>>
           \/ /\ writer' = [writer EXCEPT ![s] = <<>>]
              /\ emit(t, writer[s] \o stash[s])
        /\ stash' = [stash EXCEPT ![s] = <<>>]
        /\ todo' = [todo EXCEPT ![t] = holds[t]]
        /\ UNCHANGED <<net, pc, queue, holds, panic, token, seen, closed, sent>>
        /\ UNCHANGED <<worker_vars, recv_vars>>

\* Nothing was drained: flush, and double check on the sources.
flush(s) ==
    LET t == Thread(s)
    IN  /\ At(t, "drain") /\ todo[t] = {} /\ stash[s] = <<>> /\ holds[t] # {}
        /\ Goto(t, "check")
        /\ writer' = [writer EXCEPT ![s] = <<>>]
        /\ emit(t, writer[s])
        /\ todo' = [todo EXCEPT ![t] = holds[t]]
        /\ UNCHANGED <<net, queue, holds, panic, token, seen, stash, closed, sent>>
        /\ UNCHANGED <<worker_vars, recv_vars>>

\* Writing fails when the other process has gone.
write_fails(s) ==
    /\ At(Thread(s), "drain") /\ todo[Thread(s)] = {}
    /\ stash[s] # <<>> \/ writer[s] # <<>>
    /\ closed \in {"cut", "closed"}
    /\ leave(Thread(s), "unwind")

\* A mutant of is_complete: the queue is inspected before the references are counted.
is_complete_empty_first(s) ==
    LET t == Thread(s)
        next(q) == todo' = [todo EXCEPT ![t] = @ \ {q}] /\ seen' = [seen EXCEPT ![s] = {}]
    IN  /\ At(t, "check")
        /\ \E q \in todo[t] :
              /\ q \notin panic
              /\ \/ /\ seen[s] = {}
                    /\ IF queue[q] # <<>> THEN next(q)
                       ELSE seen' = [seen EXCEPT ![s] = {<<q, "empty">>}] /\ UNCHANGED todo
                    /\ UNCHANGED <<holds, token>>
                 \/ /\ <<q, "empty">> \in seen[s]
                    /\ next(q)
                    /\ IF q \in holds[q[1]] THEN UNCHANGED <<holds, token>>
                       ELSE /\ holds' = [holds EXCEPT ![t] = @ \ {q}]
                            /\ token' = [token EXCEPT ![t] = TRUE]
        /\ UNCHANGED <<net, pc, queue, panic, pending, stash, writer, sent>>
        /\ UNCHANGED <<worker_vars, recv_vars, link_vars>>

(* is_complete, for one source after the other: the panic flag is loaded,   *)
(* then the references to the queue are counted, and only if the writer has *)
(* gone is the queue inspected.  retain drops the handle of a complete one, *)
(* which checks the flag again and buzzes its own thread.                   *)
is_complete(s) ==
    LET t == Thread(s)
        next(q) == todo' = [todo EXCEPT ![t] = @ \ {q}] /\ seen' = [seen EXCEPT ![s] = {}]
    IN  /\ At(t, "check")
        /\ \/ /\ seen[s] = {}
              /\ \E q \in todo[t] :
                    IF q \in panic THEN Goto(t, "unwind") /\ UNCHANGED seen
                    ELSE seen' = [seen EXCEPT ![s] = {<<q, "count">>}] /\ UNCHANGED pc
              /\ UNCHANGED <<holds, token, todo>>
           \/ /\ \E q \in todo[t] :
                    /\ <<q, "count">> \in seen[s]
                    /\ IF q \in holds[q[1]] THEN next(q)
                       ELSE seen' = [seen EXCEPT ![s] = {<<q, "empty">>}] /\ UNCHANGED todo
              /\ UNCHANGED <<pc, holds, token>>
           \/ \E q \in todo[t] :
                /\ <<q, "empty">> \in seen[s]
                /\ next(q)
                /\ IF queue[q] # <<>> THEN UNCHANGED <<pc, holds, token>>
                   ELSE /\ holds' = [holds EXCEPT ![t] = @ \ {q}]
                        /\ IF q \in panic
                           THEN Goto(t, IF holds[t] = {q} THEN "panicked" ELSE "unwind") /\ UNCHANGED token
                           ELSE token' = [token EXCEPT ![t] = TRUE] /\ UNCHANGED pc
        /\ UNCHANGED <<net, queue, panic, pending, stash, writer, sent>>
        /\ UNCHANGED <<worker_vars, recv_vars, link_vars>>

\* thread::park, unless all sources are complete
park(s) ==
    LET t == Thread(s)
    IN  /\ At(t, "check") /\ todo[t] = {} /\ holds[t] # {}
        /\ token[t]
        /\ token' = [token EXCEPT ![t] = FALSE]
        /\ Goto(t, "drain")
        /\ todo' = [todo EXCEPT ![t] = holds[t]]
        /\ UNCHANGED <<net, queue, holds, panic, pending, seen, stash, writer, sent>>
        /\ UNCHANGED <<worker_vars, recv_vars, link_vars>>

\* All sources are complete: what is left to do when the loop ends.
finish(s, last_words) ==
    LET t == Thread(s)
    IN  /\ At(t, "check") /\ todo[t] = {} /\ holds[t] = {}
        /\ Goto(t, "done")
        /\ last_words
        /\ writer' = [writer EXCEPT ![s] = <<>>]
        /\ UNCHANGED <<net, queue, holds, panic, token, todo, seen, stash, sent>>
        /\ UNCHANGED <<worker_vars, recv_vars>>

\* A final header, flushed, after which the writing half is shut down.
final_header(s, how) ==
    /\ emit(Thread(s), Append(writer[s], End))
    /\ closed' = IF closed = "open" THEN how ELSE closed

(* A QUIC connection is closed at once, with all its streams; what was      *)
(* written and not yet read is abandoned, at the discretion of the library. *)
close_connection ==
    /\ closed' = IF closed = "open" THEN "closed" ELSE closed
    /\ UNCHANGED <<stream, pending>>

tcp_send_loop(s) ==
    /\ medium = "tcp"
    /\ \/ drain(s) \/ write(s, TRUE) \/ flush(s) \/ write_fails(s)
       \/ is_complete(s) \/ park(s)
       \/ finish(s, final_header(s, "shut"))

\* As for TCP, but there is no BufWriter.
tls_send_loop(s) ==
    /\ medium = "tls"
    /\ \/ drain(s) \/ write(s, FALSE) \/ flush(s) \/ write_fails(s)
       \/ is_complete(s) \/ park(s)
       \/ finish(s, final_header(s, "shut"))

\* There is no final header: the connection is closed.
quic_send_loop(s) ==
    /\ medium = "quic"
    /\ \/ drain(s) \/ write(s, TRUE) \/ flush(s) \/ write_fails(s)
       \/ is_complete(s) \/ park(s)
       \/ finish(s, close_connection)

\* The inbox is shared with others: there is nothing to shut down.
ipc_send_loop(s) ==
    /\ medium = "ipc"
    /\ \/ drain(s) \/ write(s, TRUE) \/ flush(s)
       \/ is_complete(s) \/ park(s)
       \/ finish(s, final_header(s, "open"))

send_loop(s) == tcp_send_loop(s) \/ tls_send_loop(s) \/ quic_send_loop(s) \/ ipc_send_loop(s)

-----------------------------------------------------------------------------
(* The connection breaks when a process exits.                              *)

Over(th) == pc[th] \in {"none", "done", "panicked"}

(* The library finishes a QUIC stream that is dropped, also when its send   *)
(* task unwinds: the peer reads what was written, and then an ordinary end  *)
(* (the BufWriter is dropped with what it holds).  That takes its time.     *)
stream_finished ==
    /\ medium = "quic" /\ closed = "open"
    /\ pc[Thread(Lead)] \in {"unwind", "panicked"}
    /\ closed' = "shut"
    /\ UNCHANGED <<net, pc, queue, holds, panic, pending, token, todo, stream, sent>>
    /\ UNCHANGED <<worker_vars, recv_vars, send_vars>>

(* The guards of the threads are dropped when workers and network threads   *)
(* are over; after a panic the process exits, with or without what was in a *)
(* BufWriter (that of QUIC is never flushed), and whether or not a QUIC     *)
(* stream was finished in time.                                             *)
sender_process_exits ==
    /\ medium \in Networks
    /\ closed = "open" \/ (medium = "quic" /\ closed = "shut")
    /\ \A s \in Senders : Over(Worker(s))
    /\ pc[Thread(Lead)] = "panicked"
    /\ closed' = "cut"
    /\ \E rest \in {<<>>, AllBytes(writer[Lead])} :
          /\ medium = "quic" => rest = <<>>
          /\ stream' = stream \o rest
    /\ UNCHANGED <<net, pc, queue, holds, panic, pending, token, todo, sent>>
    /\ UNCHANGED <<worker_vars, recv_vars, send_vars>>

(* In the process that receives, a worker has gone without a panic once all *)
(* of them have: then its own send_loop is through, which closes a QUIC     *)
(* connection for both directions.                                          *)
receiver_process_closes ==
    /\ medium = "quic" /\ closed \in {"open", "shut"}
    /\ \A v \in Receivers : pc[Worker(v)] \in {"none", "done"}
    /\ closed' = "closed"
    /\ UNCHANGED <<net, pc, queue, holds, panic, pending, token, todo, stream, sent>>
    /\ UNCHANGED <<worker_vars, recv_vars, send_vars>>

-----------------------------------------------------------------------------
(* The steps of a recv_loop.                                                *)

(* BytesSlab::ensure_capacity: with too little space after the valid bytes  *)
(* they move to another buffer, a larger one if they would not leave room.  *)
ShiftFor(n) == CHOOSE k \in shift .. shift + n :
                   2^k >= n /\ \A j \in shift .. k - 1 : 2^j < n

ensure_capacity(n) ==
    IF room >= n THEN [shift |-> shift, room |-> room]
    ELSE LET k == ShiftFor(Len(valid) + n) IN [shift |-> k, room |-> 2^k - Len(valid)]

\* Messages are put where their targets are.
stage(ms) ==
    staged' = [v \in Receivers |->
                  staged[v] \o Selected(ms, {i \in DOMAIN ms : v \in ms[i].to})]

Ends(ms) == Cardinality({i \in DOMAIN ms : ms[i] = End})

(* One read, of a part of what is there, and all complete messages are      *)
(* taken out.  Nothing may follow a final header.                           *)
read(n) ==
    LET slab == ensure_capacity(1)
        r == Carve(valid \o SubSeq(stream, 1, n))
    IN  /\ At(Inbox, "read")
        /\ n \in 1 .. Len(stream) /\ n <= slab.room
        /\ stream' = SubSeq(stream, n + 1, Len(stream))
        /\ shift' = slab.shift /\ room' = slab.room - n
        /\ stage(r.messages)
        /\ valid' = r.left
        /\ todo' = [todo EXCEPT ![Inbox] = Targets]
        /\ Goto(Inbox, IF Ends(r.messages) = 0 THEN "extend"
                       ELSE IF r.left = <<>> THEN "eof" ELSE "unwind")
        /\ UNCHANGED <<net, queue, holds, panic, pending, token, closed, alive, sent>>
        /\ UNCHANGED <<worker_vars, send_vars>>

\* A mutant of read_fails: the thread ends without a panic.
read_fails_quietly ==
    /\ At(Inbox, "read")
    /\ closed = "cut" \/ (closed = "shut" /\ stream = <<>>)
    /\ leave(Inbox, "closing")

\* A stream that ends without a final header, or breaks, makes the thread panic.
read_fails ==
    /\ At(Inbox, "read")
    /\ closed = "cut" \/ (closed = "shut" /\ stream = <<>>)
    /\ leave(Inbox, "unwind")

\* The read after the final header.
read_eof ==
    /\ At(Inbox, "eof")
    /\ \/ stream = <<>> /\ closed \in {"shut", "cut"} /\ leave(Inbox, "last")
       \/ (stream # <<>> \/ closed = "cut") /\ leave(Inbox, "unwind")

\* What is staged goes to the targets, one after the other; then the loop goes on.
pass_along ==
    \E v \in net.receivers :
        LET q == <<Inbox, Worker(v)>>
        IN  /\ At(Inbox, "extend") \/ At(Inbox, "last")
            /\ q \in todo[Inbox]
            /\ \/ q \in panic /\ leave(Inbox, "unwind")
               \/ /\ extend(Inbox, q, staged[v])
                  /\ staged' = [staged EXCEPT ![v] = <<>>]
                  /\ todo' = [todo EXCEPT ![Inbox] = @ \ {q}]
                  /\ Goto(Inbox, IF todo[Inbox] # {q} THEN pc[Inbox]
                                 ELSE IF pc[Inbox] = "extend" THEN "read" ELSE "closing")
                  /\ UNCHANGED <<net, holds, panic, token, sent, alive, valid, room, shift>>
                  /\ UNCHANGED <<worker_vars, send_vars, link_vars>>

tcp_recv_loop ==
    /\ medium = "tcp"
    /\ (\E n \in 1 .. Len(stream) : read(n)) \/ read_fails \/ read_eof \/ pass_along

tls_recv_loop ==
    /\ medium = "tls"
    /\ (\E n \in 1 .. Len(stream) : read(n)) \/ read_fails \/ read_eof \/ pass_along

(* A QUIC stream ends quietly when the peer has finished it, and when the   *)
(* connection is closed in order, whatever is left in it; only a connection *)
(* that is lost makes the task panic that reads the stream.  After the end  *)
(* of the stream recv_loop still accepts others, until the connection ends. *)
(* (The model begins with the one stream there is, accepted.)               *)
quic_recv_loop ==
    /\ medium = "quic"
    /\ \/ \E n \in 1 .. Len(stream) : read(n)
       \/ closed = "cut" /\ read_fails
       \/ At(Inbox, "read") /\ closed = "shut" /\ stream = <<>> /\ leave(Inbox, "accept")
       \/ At(Inbox, "read") /\ closed = "closed" /\ leave(Inbox, "closing")
       \/ At(Inbox, "accept") /\ closed \in {"cut", "closed"} /\ leave(Inbox, "closing")
       \/ pass_along

\* A mutant of on_event: final headers are not counted.
on_event_endless ==
    LET slab == ensure_capacity(Len(valid) + Len(stream))
        r == Carve(valid \o stream)
    IN  /\ stream' = <<>>
        /\ shift' = slab.shift /\ room' = slab.room - Len(stream)
        /\ valid' = r.left
        /\ stage(r.messages)
        /\ Goto(Inbox, "extend")
        /\ UNCHANGED alive

(* on_event: notifications are consumed, then all samples are taken, and    *)
(* the messages in them.  The final header of the last peer ends the loop.  *)
on_event ==
    LET slab == ensure_capacity(Len(valid) + Len(stream))
        r == Carve(valid \o stream)
    IN  /\ stream' = <<>>
        /\ shift' = slab.shift /\ room' = slab.room - Len(stream)
        /\ valid' = r.left
        /\ stage(r.messages)
        /\ alive' = alive - Ends(r.messages)
        /\ Goto(Inbox, IF alive' > 0 THEN "extend" ELSE IF r.left = <<>> THEN "last" ELSE "unwind")

ipc_receive_loop ==
    /\ medium = "ipc"
    /\ \/ /\ At(Inbox, "read") /\ token[Inbox]
          /\ token' = [token EXCEPT ![Inbox] = FALSE]
          /\ Goto(Inbox, "event")
          /\ UNCHANGED <<net, queue, holds, panic, pending, todo, sent>>
          /\ UNCHANGED <<worker_vars, recv_vars, send_vars, link_vars>>
       \/ /\ At(Inbox, "event")
          /\ on_event
          /\ todo' = [todo EXCEPT ![Inbox] = Targets]
          /\ UNCHANGED <<net, queue, holds, panic, pending, token, closed, sent>>
          /\ UNCHANGED <<worker_vars, send_vars>>
       \/ pass_along

recv_loop == tcp_recv_loop \/ tls_recv_loop \/ quic_recv_loop \/ ipc_receive_loop

-----------------------------------------------------------------------------
(* The worker that receives.                                                *)

\* Channels are allocated in order; one may have messages already.
allocate(v) ==
    /\ At(Worker(v), "run") /\ v \in net.receivers /\ bound[v] < LastChannel
    /\ bound' = [bound EXCEPT ![v] = @ + 1]
    /\ to_local' = [to_local EXCEPT ![v] =
           IF bound[v] + 1 \in DOMAIN @ THEN @
           ELSE [c \in DOMAIN @ \cup {bound[v] + 1} |-> IF c \in DOMAIN @ THEN @[c] ELSE <<>>]]
    /\ UNCHANGED <<net, pc, queue, holds, panic, pending, token, todo, sent, canaries, received>>
    /\ UNCHANGED <<recv_vars, send_vars, link_vars>>

\* A mutant of deposit: early messages are dropped.
deposit_known(local, limit, ms) ==
    [c \in DOMAIN local |-> local[c] \o Selected(ms, {i \in DOMAIN ms : ms[i].channel = c})]

(* Each message goes to the queue of its channel, which is made for it if   *)
(* the channel is not allocated yet; the channel is gone if it is not above *)
(* the limit and has no queue.                                              *)
deposit(local, limit, ms) ==
    [c \in DOMAIN local \cup {ms[i].channel : i \in {j \in DOMAIN ms : limit < ms[j].channel}} |->
        (IF c \in DOMAIN local THEN local[c] ELSE <<>>)
        \o Selected(ms, {i \in DOMAIN ms : ms[i].channel = c})]

\* v has allocated c, and its Puller is there.
Open(v, c) == c <= bound[v] /\ c \in DOMAIN to_local[v] \ canaries[v]

(* receive, after which a worker may park if it got nothing and no operator *)
(* has been activated for messages that are there.                          *)
receive(v) ==
    LET th == Worker(v)
        live == [c \in DOMAIN to_local[v] \ canaries[v] |-> to_local[v][c]]
        got == FlattenSeq([i \in 1 .. Cardinality(Inlets(v)) |-> queue[SetToSeq(Inlets(v))[i]]])
    IN  /\ At(th, "run") /\ v \in net.receivers
        /\ IF Inlets(v) \cap panic # {}
           THEN Goto(th, "unwind") /\ UNCHANGED <<queue, to_local, canaries>>
           ELSE /\ to_local' = [to_local EXCEPT ![v] = deposit(live, bound[v], got)]
                /\ canaries' = [canaries EXCEPT ![v] = {}]
                /\ queue' = [q \in Queues |-> IF q \in Inlets(v) THEN <<>> ELSE queue[q]]
                /\ \/ UNCHANGED pc
                   \/ /\ got = <<>> /\ \A c \in 1 .. bound[v] : Open(v, c) => to_local[v][c] = <<>>
                      /\ Goto(th, "park")
        /\ UNCHANGED <<net, holds, panic, pending, token, todo, sent, bound, received>>
        /\ UNCHANGED <<recv_vars, send_vars, link_vars>>

\* await_events returns, because the thread was unparked.
await_events(v) ==
    /\ At(Worker(v), "park") /\ token[Worker(v)]
    /\ token' = [token EXCEPT ![Worker(v)] = FALSE]
    /\ Goto(Worker(v), "run")
    /\ UNCHANGED <<net, queue, holds, panic, pending, todo, sent>>
    /\ UNCHANGED <<worker_vars, recv_vars, send_vars, link_vars>>

\* Puller::pull
pull(v, c) ==
    /\ At(Worker(v), "run") /\ Open(v, c)
    /\ to_local[v][c] # <<>>
    /\ received' = [received EXCEPT ![v][c] = Append(@, Head(to_local[v][c]))]
    /\ to_local' = [to_local EXCEPT ![v][c] = Tail(@)]
    /\ UNCHANGED <<net, pc, queue, holds, panic, pending, token, todo, sent, bound, canaries>>
    /\ UNCHANGED <<recv_vars, send_vars, link_vars>>

\* A dataflow is dropped, and with it a Puller and its Canary.
drop_puller(v, c) ==
    /\ v \in net.leaving /\ At(Worker(v), "run") /\ Open(v, c)
    /\ canaries' = [canaries EXCEPT ![v] = @ \cup {c}]
    /\ UNCHANGED <<net, pc, queue, holds, panic, pending, token, todo, sent, bound, to_local, received>>
    /\ UNCHANGED <<recv_vars, send_vars, link_vars>>

\* The worker's part is done, and it ends.
receiver_ends(v) ==
    /\ v \in net.leaving /\ At(Worker(v), "run")
    /\ leave(Worker(v), "closing")

-----------------------------------------------------------------------------
Next ==
    \/ \E th \in Threads : buzz(th) \/ drop(th)
    \/ \E s \in Senders :
          \/ push(s) \/ sender_ends(s)
          \/ tcp_send_loop(s) \/ tls_send_loop(s) \/ quic_send_loop(s) \/ ipc_send_loop(s)
    \/ stream_finished \/ sender_process_exits \/ receiver_process_closes
    \/ tcp_recv_loop \/ tls_recv_loop \/ quic_recv_loop \/ ipc_receive_loop
    \/ \E v \in Receivers :
          \/ allocate(v) \/ receive(v) \/ await_events(v) \/ receiver_ends(v)
          \/ \E c \in Channels : pull(v, c) \/ drop_puller(v, c)

Spec == Init /\ [][Next]_vars

(* The steps that threads, and the code of workers, do not put off for      *)
(* ever.                                                                    *)
Steps ==
    \/ \E th \in Threads : buzz(th) \/ drop(th)
    \/ \E s \in Senders : push(s) \/ send_loop(s)
    \/ \E s \in net.ending : sender_ends(s)
    \/ recv_loop
    \/ sender_process_exits
    \/ \E v \in Receivers :
          \/ allocate(v) \/ receive(v) \/ await_events(v)
          \/ \E c \in Channels : pull(v, c)

(* While some thread can run, one does: this follows from the fairness of   *)
(* the operating system to each thread, and is enough here, as a thread     *)
(* that waits for another one parks instead of spinning.                    *)
FairSpec == Spec /\ WF_vars(Steps)

-----------------------------------------------------------------------------
(* Correctness.                                                             *)

Mail == INSTANCE Mailboxes

Panicking(th) == pc[th] \in {"unwind", "panicked"}
Failed == \E th \in Threads : Panicking(th)

\* The messages of s to v in channel c, of a row of messages.
Of(ms, s, v, c) ==
    Selected(ms, {i \in DOMAIN ms : ms[i].from = s /\ ms[i].channel = c /\ v \in ms[i].to})

\* Every place on the way, the last one first.
OnTheWay(s, v, c) ==
    LET t == IF medium = "ipc" THEN s ELSE Lead
        at(ms) == Of(ms, s, v, c)
        local == IF c \in DOMAIN to_local[v] THEN to_local[v][c] ELSE <<>>
    IN  at(received[v][c]) \o at(local) \o
        IF medium = "process" THEN at(queue[<<Worker(s), Worker(v)>>])
        ELSE at(queue[<<Inbox, Worker(v)>>]) \o at(staged[v])
             \o at(Carve(valid \o stream).messages)
             \o at(writer[t]) \o at(stash[t]) \o at(queue[<<Worker(s), ThreadOf(s)>>])

(* While nothing has failed, no message is lost, doubled or overtaken on    *)
(* its way, wherever reads split it and however early it arrives: what is   *)
(* in MergeQueues, stashes, BufWriters, the connection, slabs and channel   *)
(* queues is what was pushed.  (A worker may drop a channel; a QUIC         *)
(* connection may be closed with data on it.)  The slab of the receive      *)
(* thread holds what it is given.                                           *)
Conserved ==
    /\ room >= 0
    /\ ~ Failed /\ closed # "closed" =>
          \A s \in Sending, v \in net.receivers, c \in Channels :
             (c <= bound[v] => Open(v, c)) => OnTheWay(s, v, c) = Mail!Posted(s, v, c)

(* The communication layer keeps its promise to the workers, also when      *)
(* threads panic and connections break: what a worker pulls from a sender   *)
(* is a prefix of what was pushed for it, in order.                         *)
Implements == Mail!MailSpec

\* A thread that waits until somebody wakes it.
Waiting(th) ==
    /\ ~ token[th]
    /\ \A u \in Threads : th \notin pending[u]
    /\ \/ At(th, "park")
       \/ At(th, "check") /\ todo[th] = {} /\ holds[th] # {}
       \/ At(th, "read") /\ medium = "ipc"

(* No wakeup is lost: a thread that waits with no wakeup under way has      *)
(* nothing to read, and none of its queues is poisoned; a waiting send      *)
(* thread has flushed its BufWriter, and all who push are there to wake it. *)
(* extend buzzes only for a queue that was empty, after it has released the *)
(* lock; is_complete, park, and the last drop of a writer interleave with   *)
(* it freely.                                                               *)
NoLostWakeup ==
    \A th \in Threads : Waiting(th) =>
        /\ \A q \in holds[th] : q[2] = th =>
              /\ queue[q] = <<>>
              /\ q \notin panic
              /\ th[1] = "send" => q \in holds[q[1]] /\ writer[th[2]] = <<>>
        /\ th = Inbox => stream = <<>>

(* A receive thread that ends without a panic has handed over every message *)
(* of every sender, which all have ended: the end of stream is not written  *)
(* before the last message, and not taken for the end before all peers have *)
(* ended.  And no thread panics unless the code of some worker did: ends of *)
(* streams, of peers and of workers are never mistaken for failures.  (A    *)
(* QUIC connection is closed under the peer's send thread.)                 *)
AllHandedOver ==
    /\ \A s \in Sending : Over(Worker(s))
    /\ \A s \in Sending, v \in net.receivers, c \in Channels :
          (c <= bound[v] => Open(v, c)) =>
              Of(received[v][c] \o (IF c \in DOMAIN to_local[v] THEN to_local[v][c] ELSE <<>>)
                     \o queue[<<Inbox, Worker(v)>>], s, v, c)
              = Mail!Posted(s, v, c)

CleanEnd ==
    medium # "quic" =>
        /\ pc[Inbox] = "done" => AllHandedOver
        /\ net.failing = {} => ~ Failed

(* Every message for a channel that the worker allocates is pulled in the   *)
(* end, unless something fails or the receiver goes; this does not wait for *)
(* the end of the sender.                                                   *)
Delivered ==
    net.failing = {} /\ net.leaving = {} /\ medium # "quic" =>
        <>[](\A s \in Sending, v \in net.receivers : \A c \in 1 .. bound[v] :
                Mail!Pulled(s, v, c) = Mail!Posted(s, v, c))

\* The send and receive threads end after the workers that send have ended.
ThreadsEnd ==
    net.failing = {} /\ net.ending = Sending => <>(Over(Inbox) /\ \A s \in Senders : Over(Thread(s)))

(* A panic takes down the computation: over a network connection it ends    *)
(* all threads of the process it is in, and the receive thread of the other *)
(* one.  Over TCP and TLS the workers at the other end (those that have not *)
(* ended) panic, too.  (Not so over QUIC: a stream that is dropped while    *)
(* its send task unwinds is finished, which recv_loop takes for an end in   *)
(* order, and the workers wait for good.)                                   *)
FailureCascades ==
    medium \in Networks /\ net.ending = Sending =>
        (\E s \in Senders : pc[Worker(s)] = "panicked") ~>
            (/\ \A th \in Threads \ {Worker(v) : v \in net.receivers} : Over(th)
             /\ medium # "quic" =>
                   \A v \in net.receivers :
                      /\ Over(Worker(v))
                      /\ v \in net.leaving \/ pc[Worker(v)] = "panicked")

=============================================================================
