--------------------------- MODULE TransportProofs ---------------------------
(***************************************************************************)
(* Proofs about Transport, for any number of workers, any programs and     *)
(* sizes of messages, any way that reads cut a stream, and any             *)
(* interleaving of pushes, drains, drops of queues and panics.             *)
(*                                                                         *)
(* First, that no wakeup is lost between its threads.  What every step     *)
(* keeps to is stated once, as Careful: a thread that leaves something for *)
(* a reader has woken it or is about to, and a reader that uses up a       *)
(* wakeup looks at all its queues again.                                   *)
(*                                                                         *)
(* Then, that messages are conserved, and that Mailboxes is implemented.   *)
(* For a sender, a receiver and a channel, the places on the way make a    *)
(* line, from what was pulled back to what was just pushed (Down, behind   *)
(* it Up).  DataInv says that the line is what was sent, or a prefix of it *)
(* if a connection is dead; each action is shown to move messages along    *)
(* the line only from the front of one place to the end of the next        *)
(* (Flows).                                                                *)
(*                                                                         *)
(* Then, that threads end in order.  EndInv says what has to be true when  *)
(* a send thread finds a queue complete, when it writes the final header,  *)
(* and when the receive thread has read it: that nothing can follow, and   *)
(* that nothing is left behind.  A read that takes the final header takes  *)
(* all of the flow before it (TakeCuts), so that what was pushed is in the *)
(* queues of the receiving workers when their thread returns.              *)
(***************************************************************************)
EXTENDS Transport, OrderProofs, SequenceTheorems

-----------------------------------------------------------------------------
(* The invariant.                                                           *)

\* th has a token, or some thread is about to unpark it.
Coming(th) == token[th] \/ \E u \in Threads : th \in pending[u]

Typed ==
    /\ net \in Scenarios
    /\ DOMAIN pc = Threads /\ DOMAIN queue = Queues
    /\ holds \in [Threads -> SUBSET Queues] /\ todo \in [Threads -> SUBSET Queues]
    /\ pending \in [Threads -> SUBSET Threads] /\ token \in [Threads -> BOOLEAN]
    /\ DOMAIN writer = Senders

\* Who is where, and who has handles of which queues.
Placed ==
    /\ \A th \in Threads :
          /\ pc[th] \in {"run", "park"} => \E w \in Senders \cup Receivers : th = Worker(w)
          /\ pc[th] = "park" => \E v \in net.receivers : th = Worker(v)
          /\ pc[th] \in {"drain", "check"} => \E s \in Senders : th = Thread(s)
          /\ pc[th] \in {"read", "event", "extend", "eof", "accept", "last"} => th = Inbox
          /\ holds[th] \subseteq Handles(th)
          /\ \A u, v \in pending[th] : u = v

\* Who sets a panic flag lets go of the queue.
Poisoned == \A q \in panic \cap Queues : q \notin holds[q[1]] \/ q \notin holds[q[2]]

(* A parked worker has nothing to read, or a wakeup is coming.              *)
Parked ==
    \A v \in net.receivers : pc[Worker(v)] = "park" =>
        \A q \in Queues : q[2] = Worker(v) /\ (queue[q] # <<>> \/ q \in panic) =>
            Coming(Worker(v))

(* What a send thread has drained is empty, or a wakeup is coming; likewise *)
(* what it found to be neither poisoned nor abandoned.                      *)
Drained ==
    \A s \in Senders : pc[Thread(s)] = "drain" =>
        \A q \in holds[Thread(s)] \ todo[Thread(s)] :
            queue[q] # <<>> => Coming(Thread(s))

Checked ==
    \A s \in Senders : pc[Thread(s)] = "check" =>
        /\ writer[s] = <<>>
        /\ \A q \in holds[Thread(s)] : queue[q] # <<>> => Coming(Thread(s))
        /\ \A q \in holds[Thread(s)] \ todo[Thread(s)] :
              q \in panic \/ q \notin holds[q[1]] => Coming(Thread(s))

\* An inbox has nothing to read, or was notified.
Notified ==
    medium = "ipc" =>
        /\ closed = "open"
        /\ stream # <<>> => Coming(Inbox) \/ pc[Inbox] = "event"

WakeInv == Typed /\ Placed /\ Poisoned /\ Parked /\ Drained /\ Checked /\ Notified

-----------------------------------------------------------------------------
(* Threads and queues.                                                      *)

\* Threads of different kinds are different.
LEMMA Names ==
    /\ \A s, w : Thread(s) # Worker(w) /\ Thread(s) # Inbox /\ Worker(w) # Inbox
    /\ \A s, w : (Thread(s) = Thread(w) => s = w) /\ (Worker(s) = Worker(w) => s = w)
    /\ \A s : Thread(s)[2] = s /\ Thread(s)[1] = "send" /\ Worker(s)[1] = "worker"
    /\ \A s \in Senders : Thread(s) \in Threads
    /\ \A w \in Senders \cup Receivers : Worker(w) \in Threads
    /\ Inbox \in Threads
  BY DEF Thread, Worker, Inbox, Threads

\* In every scenario the workers are among those there are.
LEMMA Cast ==
    ASSUME net \in Scenarios
    PROVE  /\ Sending \subseteq Senders /\ net.receivers \subseteq Receivers /\ Lead \in Sending
           /\ \A s \in Sending : ThreadOf(s) \in {Thread(r) : r \in Senders}
<1>1. Sending \subseteq Senders /\ net.receivers \subseteq Receivers /\ Lead \in Sending
  BY TransportAssumption DEF Sending
<1>. QED  BY <1>1 DEF ThreadOf

(* Queues go from workers to send threads and from the inbox to workers, or *)
(* from worker to worker: a reader knows all the queues that it has.        *)
LEMMA QueueShape ==
    ASSUME net \in Scenarios, NEW q \in Queues
    PROVE  /\ q[1] \in Threads /\ q[2] \in Threads /\ q[2] # Inbox
           /\ \A v \in net.receivers : q[2] = Worker(v) => q \in Inlets(v)
           /\ \A s : q[1] # Thread(s)
           /\ \A s : q[2] = Thread(s) => q \in Sources(Thread(s)) /\ q[1] # Inbox
<1>1. CASE \E s \in Sending : q \in Outlets(s)
  <2>1. PICK s \in Sending : q \in Outlets(s)
    BY <1>1
  <2>2. CASE medium = "process"
    <3>1. PICK v \in net.receivers : q = <<Worker(s), Worker(v)>>
      BY <2>1, <2>2 DEF Outlets
    <3>2. q[1] = Worker(s) /\ q[2] = Worker(v)
      BY <3>1
    <3>3. \A u \in net.receivers : q[2] = Worker(u) => q \in Inlets(u)
      BY <2>2, <3>1, <3>2, Names DEF Inlets
    <3>4. s \in Senders /\ v \in Receivers
      BY Cast
    <3>. QED  BY <3>2, <3>3, <3>4, Names
  <2>3. CASE medium # "process"
    <3>1. q = <<Worker(s), ThreadOf(s)>>
      BY <2>1, <2>3 DEF Outlets
    <3>2. q[1] = Worker(s) /\ q[2] = ThreadOf(s)
      BY <3>1
    <3>3. s \in Senders /\ ThreadOf(s) \in {Thread(r) : r \in Senders}
      BY Cast
    <3>4. \A r : q[2] = Thread(r) => q \in Sources(Thread(r))
      BY <2>3, <3>1, <3>2 DEF Sources
    <3>. QED  BY <3>2, <3>3, <3>4, Names
  <2>. QED  BY <2>2, <2>3
<1>2. CASE \E v \in net.receivers : q \in Inlets(v)
  <2>1. PICK v \in net.receivers : q \in Inlets(v)
    BY <1>2
  <2>2. CASE medium = "process"
    <3>1. PICK s \in Sending : q = <<Worker(s), Worker(v)>>
      BY <2>1, <2>2 DEF Inlets
    <3>2. q[1] = Worker(s) /\ q[2] = Worker(v)
      BY <3>1
    <3>3. \A u \in net.receivers : q[2] = Worker(u) => q \in Inlets(u)
      BY <2>1, <3>2, Names
    <3>4. s \in Senders /\ v \in Receivers
      BY Cast
    <3>. QED  BY <3>2, <3>3, <3>4, Names
  <2>3. CASE medium # "process"
    <3>1. q = <<Inbox, Worker(v)>>
      BY <2>1, <2>3 DEF Inlets
    <3>2. q[1] = Inbox /\ q[2] = Worker(v)
      BY <3>1
    <3>3. \A u \in net.receivers : q[2] = Worker(u) => q \in Inlets(u)
      BY <2>1, <3>2, Names
    <3>4. v \in Receivers
      BY Cast
    <3>. QED  BY <3>2, <3>3, <3>4, Names
  <2>. QED  BY <2>2, <2>3
<1>3. (\E s \in Sending : q \in Outlets(s)) \/ (\E v \in net.receivers : q \in Inlets(v))
  BY Zenon DEF Queues
<1>. QED  BY <1>1, <1>2, <1>3, Zenon

\* What has been said to a thread is not forgotten when another one speaks.
LEMMA Told ==
    ASSUME Typed, NEW th \in Threads, pending[th] = {}, NEW X \in SUBSET Threads,
           pending' = [pending EXCEPT ![th] = X], token' = token
    PROVE  \A u : (Coming(u) \/ u \in X) => Coming(u)'
  BY DEF Typed, Coming

-----------------------------------------------------------------------------
(* What every step keeps to.                                                *)

\* A step that uses up a wakeup of th lets th look at everything again.
Woken(th) ==
    \/ pc'[th] \in {"run", "event"}
    \/ pc'[th] = "drain" /\ holds'[th] \subseteq todo'[th]

\* th finds nothing in any of its queues, and goes to sleep.
Sleeps(th) ==
    /\ pc'[th] = "park" /\ \E v \in net.receivers : th = Worker(v)
    /\ \A q \in Queues : q[2] = th => queue'[q] = <<>> /\ q \notin panic'

Moves(th) ==
    \/ pc'[th] \in {"none", "closing", "unwind", "panicked", "done"}
    \/ th = Inbox /\ pc'[th] \in {"read", "event", "extend", "eof", "accept", "last"}
    \/ pc[th] = "park" /\ pc'[th] = "run"
    \/ pc[th] = "check" /\ pc'[th] = "drain"
    \/ pc[th] = "drain" /\ pc'[th] = "check"
    \/ Sleeps(th)

\* A send thread goes on with a queue once it has drained or checked it.
Looks(s, t) ==
    /\ pc'[t] = "drain" => \A q \in holds'[t] \ todo'[t] :
          queue'[q] = <<>> \/ (pc[t] = "drain" /\ q \notin todo[t])
    /\ pc'[t] = "check" =>
          /\ writer'[s] = <<>>
          /\ pc[t] = "check" \/ (pc[t] = "drain" /\ todo[t] = {})
          /\ \A q \in holds'[t] \ todo'[t] :
                /\ pc[t] = "check"
                /\ q \notin todo[t] \/ queue[q] # <<>> \/ (q \notin panic /\ q \in holds[q[1]])

\* Whoever leaves something for a reader sees to it that the reader is woken.
Speaks(q) ==
    /\ queue'[q] # <<>> => queue[q] # <<>> \/ Coming(q[2])'
    /\ q \in panic' => q \in panic \/ Coming(q[2])'
    /\ q \in panic' => q \notin holds'[q[1]] \/ q \notin holds'[q[2]]
    /\ q \in holds[q[1]] /\ q \notin holds'[q[1]] => Coming(q[2])' \/ q \notin holds'[q[2]]

Careful ==
    /\ net' = net /\ Typed' /\ Notified'
    /\ \A th \in Threads :
          /\ \A u, v \in pending'[th] : u = v
          /\ holds'[th] \subseteq holds[th]
          /\ Coming(th) => Coming(th)' \/ Woken(th)
          /\ pc'[th] = pc[th] \/ Moves(th)
    /\ \A s \in Senders : Looks(s, Thread(s))
    /\ \A q \in Queues : Speaks(q)

\* Nobody comes or goes, and no queue either.
LEMMA SameNet ==
    ASSUME net' = net
    PROVE  /\ Queues' = Queues /\ Sending' = Sending /\ medium' = medium
           /\ \A th : Handles(th)' = Handles(th)
<1>1. medium' = medium /\ Sending' = Sending
  BY DEF medium, Sending
<1>2. \A s : Outlets(s)' = Outlets(s) /\ Inlets(s)' = Inlets(s)
  BY <1>1 DEF Outlets, Inlets, ThreadOf
<1>3. Queues' = Queues
  BY <1>1, <1>2 DEF Queues
<1>. QED  BY <1>1, <1>3 DEF Handles

\* A send thread reads from all the queues that it has handles of.
LEMMA SenderEnd ==
    ASSUME net \in Scenarios
    PROVE  \A s, q : q \in Handles(Thread(s)) => q \in Queues /\ q[2] = Thread(s)
<1> SUFFICES ASSUME NEW s, NEW q \in Handles(Thread(s)) PROVE q \in Queues /\ q[2] = Thread(s)
  OBVIOUS
<1>1. q \in Queues /\ Thread(s) \in {q[1], q[2]}
  BY DEF Handles
<1>2. q[1] # Thread(s)
  BY <1>1, QueueShape
<1>. QED  BY <1>1, <1>2

\* Where threads are, and whose handles they have, stays in order.
LEMMA CarefulPlaced == WakeInv /\ Careful => Placed'
<1> SUFFICES ASSUME WakeInv, Careful PROVE Placed'
  OBVIOUS
<1>1. net' = net /\ \A th : Handles(th)' = Handles(th)
  BY SameNet DEF Careful
<1> SUFFICES ASSUME NEW th \in Threads
             PROVE  /\ pc'[th] \in {"run", "park"} => \E w \in Senders \cup Receivers : th = Worker(w)
                    /\ pc'[th] = "park" => \E v \in net.receivers : th = Worker(v)
                    /\ pc'[th] \in {"drain", "check"} => \E s \in Senders : th = Thread(s)
                    /\ pc'[th] \in {"read", "event", "extend", "eof", "accept", "last"} => th = Inbox
                    /\ holds'[th] \subseteq Handles(th)
                    /\ \A u, v \in pending'[th] : u = v
  BY <1>1 DEF Placed
<1>2. holds'[th] \subseteq Handles(th) /\ \A u, v \in pending'[th] : u = v
  BY DEF WakeInv, Placed, Careful
<1>3. pc'[th] = pc[th] \/ Moves(th)
  BY DEF Careful
<1>4. net.receivers \subseteq Receivers
  BY Cast DEF WakeInv, Typed
<1>5. CASE pc'[th] = pc[th]
  BY <1>2, <1>5 DEF WakeInv, Placed
<1>6. CASE Moves(th)
  BY <1>2, <1>4, <1>6 DEF WakeInv, Placed, Moves, Sleeps
<1>. QED  BY <1>3, <1>5, <1>6

\* A step that keeps to this keeps the invariant.
LEMMA CarefulStep == WakeInv /\ Careful => WakeInv'
<1> SUFFICES ASSUME WakeInv, Careful PROVE WakeInv'
  OBVIOUS
<1>1. net' = net /\ Queues' = Queues /\ Typed' /\ Notified' /\ net \in Scenarios
  BY SameNet DEF Careful, WakeInv, Typed
<1>2. \A q \in Queues : Speaks(q)
  BY DEF Careful
<1>3. \A th \in Threads : /\ holds'[th] \subseteq holds[th]
                          /\ Coming(th) => Coming(th)' \/ Woken(th)
                          /\ pc'[th] = pc[th] \/ Moves(th)
  BY DEF Careful
<1>4. \A q \in Queues : q[1] \in Threads /\ q[2] \in Threads
  BY <1>1, QueueShape
<1>5. Placed'
  BY CarefulPlaced
<1>6. Poisoned'
  BY <1>1, <1>2 DEF Poisoned, Speaks
<1>7. Parked'
  <2> SUFFICES ASSUME NEW v \in net.receivers, pc'[Worker(v)] = "park", NEW q \in Queues,
                      q[2] = Worker(v), queue'[q] # <<>> \/ q \in panic'
               PROVE  Coming(Worker(v))'
    BY <1>1 DEF Parked
  <2>1. Worker(v) \in Threads
    BY <1>4
  <2>2. ~ Woken(Worker(v))
    BY DEF Woken
  <2>3. pc[Worker(v)] = "park"
    BY <1>3, <2>1 DEF Moves, Sleeps
  <2>4. queue[q] # <<>> \/ q \in panic => Coming(Worker(v))
    BY <2>3 DEF WakeInv, Parked
  <2>. QED  BY <1>2, <1>3, <2>1, <2>2, <2>4 DEF Speaks
<1>8. Drained'
  <2> SUFFICES ASSUME NEW s \in Senders, pc'[Thread(s)] = "drain",
                      NEW q \in holds'[Thread(s)] \ todo'[Thread(s)], queue'[q] # <<>>
               PROVE  Coming(Thread(s))'
    BY DEF Drained
  <2>1. Thread(s) \in Threads
    BY Names
  <2>2. q \in holds[Thread(s)] /\ ~ Woken(Thread(s))
    BY <1>3, <2>1 DEF Woken
  <2>3. q \in Handles(Thread(s))
    BY <2>1, <2>2 DEF WakeInv, Placed
  <2>4. q \in Queues /\ q[2] = Thread(s)
    BY <2>3, <1>1, SenderEnd
  <2>5. pc[Thread(s)] = "drain" /\ q \notin todo[Thread(s)]
    BY DEF Careful, Looks
  <2>6. queue[q] # <<>> => Coming(Thread(s))
    BY <2>2, <2>5 DEF WakeInv, Drained
  <2>. QED  BY <1>2, <1>3, <2>1, <2>2, <2>4, <2>6 DEF Speaks
<1>9. Checked'
  <2> SUFFICES ASSUME NEW s \in Senders, pc'[Thread(s)] = "check"
               PROVE  /\ writer'[s] = <<>>
                      /\ \A q \in holds'[Thread(s)] : queue'[q] # <<>> => Coming(Thread(s))'
                      /\ \A q \in holds'[Thread(s)] \ todo'[Thread(s)] :
                            q \in panic' \/ q \notin holds'[q[1]] => Coming(Thread(s))'
    BY DEF Checked
  <2>1. Thread(s) \in Threads /\ ~ Woken(Thread(s))
    BY Names DEF Woken
  <2>2. Looks(s, Thread(s))
    BY DEF Careful
  <2>3. \A q \in holds'[Thread(s)] : q \in Queues /\ q[2] = Thread(s) /\ q \in holds[Thread(s)]
    BY <1>1, <1>3, <2>1, SenderEnd DEF WakeInv, Placed
  <2>4. ASSUME NEW q \in holds'[Thread(s)], queue[q] # <<>> PROVE Coming(Thread(s))
    BY <2>2, <2>3, <2>4 DEF Looks, WakeInv, Drained, Checked
  <2>5. ASSUME NEW q \in holds'[Thread(s)], queue'[q] # <<>> PROVE Coming(Thread(s))'
    BY <1>2, <1>3, <2>1, <2>3, <2>4, <2>5 DEF Speaks
  <2>6. ASSUME NEW q \in holds'[Thread(s)] \ todo'[Thread(s)],
               q \in panic' \/ q \notin holds'[q[1]]
        PROVE  Coming(Thread(s))'
    <3>1. q \in Queues /\ q[2] = Thread(s) /\ q \in holds[Thread(s)] /\ Speaks(q)
      BY <1>2, <2>3, <2>6
    <3>2. pc[Thread(s)] = "check"
      BY <2>2, <2>6 DEF Looks
    <3>3. Coming(Thread(s)) => Coming(Thread(s))'
      BY <1>3, <2>1
    <3>4. q \notin todo[Thread(s)] \/ queue[q] # <<>> \/ (q \notin panic /\ q \in holds[q[1]])
      BY <2>2, <2>6 DEF Looks
    <3>5. q \in panic \/ q \notin holds[q[1]] => Coming(Thread(s))
      BY <2>4, <3>1, <3>2, <3>4 DEF WakeInv, Checked
    <3>. QED  BY <2>6, <3>1, <3>3, <3>5 DEF Speaks
  <2>. QED  BY <2>2, <2>5, <2>6 DEF Looks
<1>. QED  BY <1>1, <1>5, <1>6, <1>7, <1>8, <1>9 DEF WakeInv

-----------------------------------------------------------------------------
(* Steps that do not touch queues.                                          *)

\* The types, after a step that leaves queues and handles alone.
LEMMA TypedKept ==
    ASSUME Typed, UNCHANGED <<net, queue, holds>>, DOMAIN pc' = Threads,
           todo' \in [Threads -> SUBSET Queues],
           pending' \in [Threads -> SUBSET Threads], token' \in [Threads -> BOOLEAN],
           DOMAIN writer' = Senders
    PROVE  Typed'
<1>1. Queues' = Queues
  BY SameNet
<1>. QED  BY <1>1 DEF Typed

\* Nothing new is said, and there is nothing new to say.
LEMMA Untouched ==
    ASSUME WakeInv, UNCHANGED <<queue, holds, panic>>
    PROVE  \A q \in Queues : Speaks(q)
  BY DEF WakeInv, Poisoned, Speaks

\* A step of the connection, of a worker by itself, or out of a loop.
Idle ==
    /\ UNCHANGED <<net, queue, holds, panic, pending, token, writer>>
    /\ DOMAIN pc' = Threads
    /\ todo' \in [Threads -> SUBSET Queues]
    /\ \A s \in Senders : pc'[Thread(s)] \in {"drain", "check"} => todo'[Thread(s)] = todo[Thread(s)]
    /\ \A th \in Threads :
          \/ pc'[th] = pc[th]
          \/ /\ pc[th] # "event"
             /\ \/ pc'[th] \in {"none", "closing", "unwind", "panicked", "done"}
                \/ th = Inbox /\ pc'[th] \in {"read", "event", "extend", "eof", "accept", "last"}
    /\ medium = "ipc" => UNCHANGED <<stream, closed>>

\* A step that moves no queue, handle or token (Idle) keeps to the relation.
LEMMA IdleStep == WakeInv /\ Idle => Careful
<1> SUFFICES ASSUME WakeInv, Idle PROVE Careful
  OBVIOUS
<1>1. Typed'
  BY TypedKept DEF Idle, WakeInv, Typed
<1>2. \A th : Coming(th)' <=> Coming(th)
  BY DEF Idle, Coming
<1>3. Notified'
  BY <1>2, Names DEF Idle, WakeInv, Notified, medium
<1>4. \A q \in Queues : Speaks(q)
  BY Untouched DEF Idle
<1>5. \A th \in Threads : pc'[th] = pc[th] \/ Moves(th)
  BY DEF Idle, Moves
<1>6. \A s \in Senders : Looks(s, Thread(s))
  BY Names DEF Idle, Looks, WakeInv, Checked
<1>7. \A th \in Threads : (\A u, v \in pending'[th] : u = v) /\ holds'[th] \subseteq holds[th]
  BY DEF Idle, WakeInv, Placed
<1>8. net' = net
  BY DEF Idle
<1>. QED  BY <1>1, <1>2, <1>3, <1>4, <1>5, <1>6, <1>7, <1>8 DEF Careful

\* A thread that leaves its loop.
LEMMA LeaveStep ==
    ASSUME WakeInv, NEW th \in Threads, NEW how, leave(th, how), pc[th] # "event",
           how \in {"closing", "unwind"} \/ (how \in {"accept", "last"} /\ th = Inbox)
    PROVE  Careful
<1>1. UNCHANGED <<net, queue, holds, panic, pending, token, todo, writer, stream, closed>>
  BY DEF leave, send_vars, link_vars
<1>2. /\ DOMAIN pc' = Threads
      /\ pc'[th] \in {"closing", "unwind", "panicked", "done"} \/ (th = Inbox /\ pc'[th] \in {"accept", "last"})
      /\ \A u \in Threads : u # th => pc'[u] = pc[u]
  BY DEF leave, Goto, WakeInv, Typed
<1>3. Idle
  BY <1>1, <1>2 DEF Idle, WakeInv, Typed
<1>. QED  BY <1>3, IdleStep

\* Buzzer::buzz delivers what is under way.
LEMMA BuzzStep == \A th \in Threads : WakeInv /\ buzz(th) => Careful
<1> SUFFICES ASSUME WakeInv, NEW th \in Threads, buzz(th) PROVE Careful
  OBVIOUS
<1>1. UNCHANGED <<net, pc, queue, holds, panic, todo, writer, stream, closed>>
  BY DEF buzz, send_vars, link_vars
<1>2. PICK u \in pending[th] : token' = [token EXCEPT ![u] = TRUE]
  BY DEF buzz
<1>3. pending' = [pending EXCEPT ![th] = {}]
  BY DEF buzz
<1>4. u \in Threads /\ \A v \in pending[th] : v = u
  BY <1>2 DEF WakeInv, Typed, Placed
<1>5. Typed'
  BY <1>1, <1>2, <1>3, <1>4, TypedKept DEF WakeInv, Typed
<1>6. \A v \in Threads : Coming(v) => Coming(v)'
  BY <1>2, <1>3, <1>4 DEF WakeInv, Typed, Coming
<1>7. Notified'
  BY <1>1, <1>6, Names DEF WakeInv, Notified, medium
<1>8. \A q \in Queues : Speaks(q)
  BY <1>1, Untouched
<1>9. \A s \in Senders : Looks(s, Thread(s))
  BY <1>1 DEF Looks, WakeInv, Checked
<1>10. \A v \in Threads : /\ \A x, y \in pending'[v] : x = y
                          /\ holds'[v] \subseteq holds[v]
                          /\ pc'[v] = pc[v]
  BY <1>1, <1>3 DEF WakeInv, Typed, Placed
<1>. QED  BY <1>1, <1>5, <1>6, <1>7, <1>8, <1>9, <1>10 DEF Careful

\* What a worker does by itself.
LEMMA WorkerSteps ==
    \A v \in Receivers : \A c :
        WakeInv /\ (allocate(v) \/ pull(v, c) \/ drop_puller(v, c)) => Careful
<1> SUFFICES ASSUME WakeInv, NEW v \in Receivers, NEW c,
                    allocate(v) \/ pull(v, c) \/ drop_puller(v, c)
             PROVE  Careful
  OBVIOUS
<1>1. UNCHANGED <<net, pc, queue, holds, panic, pending, token, todo, writer, stream, closed>>
  BY DEF allocate, pull, drop_puller, send_vars, link_vars
<1>2. Idle
  BY <1>1 DEF Idle, WakeInv, Typed
<1>. QED  BY <1>2, IdleStep

\* Workers that end, or whose code panics.
LEMMA EndSteps ==
    /\ \A s \in Senders : WakeInv /\ sender_ends(s) => Careful
    /\ \A v \in Receivers : WakeInv /\ receiver_ends(v) => Careful
<1>1. ASSUME WakeInv, NEW s \in Senders, sender_ends(s) PROVE Careful
  <2>1. pc[Worker(s)] # "event" /\ Worker(s) \in Threads
    BY <1>1, Names DEF sender_ends, At
  <2>2. leave(Worker(s), "closing") \/ leave(Worker(s), "unwind")
    BY <1>1 DEF sender_ends
  <2>. QED  BY <1>1, <2>1, <2>2, LeaveStep
<1>2. ASSUME WakeInv, NEW v \in Receivers, receiver_ends(v) PROVE Careful
  <2>1. pc[Worker(v)] # "event" /\ Worker(v) \in Threads
    BY <1>2, Names DEF receiver_ends, At
  <2>2. leave(Worker(v), "closing")
    BY <1>2 DEF receiver_ends
  <2>. QED  BY <1>2, <2>1, <2>2, LeaveStep
<1>. QED  BY <1>1, <1>2

\* The connection breaks, or is closed.
LEMMA CutSteps ==
    WakeInv /\ (stream_finished \/ sender_process_exits \/ receiver_process_closes) => Careful
<1> SUFFICES ASSUME WakeInv, stream_finished \/ sender_process_exits \/ receiver_process_closes PROVE Careful
  OBVIOUS
<1>1. UNCHANGED <<net, pc, queue, holds, panic, pending, token, todo, writer>> /\ medium # "ipc"
  BY DEF stream_finished, sender_process_exits, receiver_process_closes, send_vars, Networks
<1>2. Idle
  BY <1>1 DEF Idle, WakeInv, Typed
<1>. QED  BY <1>2, IdleStep

\* The receive thread reads from a network connection, or finds that it is over.
LEMMA ReadSteps ==
    /\ \A n : WakeInv /\ medium # "ipc" /\ read(n) => Careful
    /\ WakeInv /\ read_fails => Careful
    /\ WakeInv /\ read_eof => Careful
    /\ WakeInv /\ (At(Inbox, "read") \/ At(Inbox, "accept"))
          /\ (leave(Inbox, "accept") \/ leave(Inbox, "closing")) => Careful
<1>1. ASSUME WakeInv, medium # "ipc", NEW n, read(n) PROVE Careful
  <2>1. UNCHANGED <<net, queue, holds, panic, pending, token, writer>> /\ pc[Inbox] = "read"
    BY <1>1 DEF read, send_vars, At
  <2>2. PICK x \in {"extend", "eof", "unwind"} : pc' = [pc EXCEPT ![Inbox] = x]
    BY <1>1 DEF read, Goto
  <2>3. Targets \in SUBSET Queues
    BY DEF Targets, Queues, Inlets
  <2>4. todo' = [todo EXCEPT ![Inbox] = Targets]
    BY <1>1 DEF read
  <2>5. /\ todo' \in [Threads -> SUBSET Queues]
        /\ \A s \in Senders : todo'[Thread(s)] = todo[Thread(s)]
    BY <1>1, <2>3, <2>4, Names DEF WakeInv, Typed
  <2>6. /\ DOMAIN pc' = Threads
        /\ \A th \in Threads : pc'[th] = pc[th] \/ (th = Inbox /\ pc'[th] \in {"extend", "eof", "unwind"})
    BY <1>1, <2>2 DEF WakeInv, Typed
  <2>7. Idle
    BY <1>1, <2>1, <2>5, <2>6 DEF Idle
  <2>. QED  BY <1>1, <2>7, IdleStep
<1>2. ASSUME WakeInv, read_fails PROVE Careful
  BY <1>2, LeaveStep, Names DEF read_fails, At
<1>3. ASSUME WakeInv, read_eof PROVE Careful
  <2>1. pc[Inbox] = "eof" /\ (leave(Inbox, "last") \/ leave(Inbox, "unwind"))
    BY <1>3 DEF read_eof, At
  <2>. QED  BY <1>3, <2>1, LeaveStep, Names
<1>4. ASSUME WakeInv, At(Inbox, "read") \/ At(Inbox, "accept"),
             leave(Inbox, "accept") \/ leave(Inbox, "closing")
      PROVE  Careful
  BY <1>4, LeaveStep, Names DEF At
<1>. QED  BY <1>1, <1>2, <1>3, <1>4

\* A send thread gives up: a source is poisoned, or the connection is gone.
LEMMA WriteFailsStep == \A s \in Senders : WakeInv /\ write_fails(s) => Careful
<1> SUFFICES ASSUME WakeInv, NEW s \in Senders, write_fails(s) PROVE Careful
  OBVIOUS
<1>1. pc[Thread(s)] # "event" /\ Thread(s) \in Threads /\ leave(Thread(s), "unwind")
  BY Names DEF write_fails, At
<1>. QED  BY <1>1, LeaveStep

\* The counting of references, and what is_complete finds in a queue.
LEMMA CompleteStep == \A s \in Senders : WakeInv /\ is_complete(s) => Careful
<1> SUFFICES ASSUME WakeInv, NEW s \in Senders, is_complete(s) PROVE Careful
  OBVIOUS
<1> DEFINE t == Thread(s)
           next(q) == todo' = [todo EXCEPT ![t] = @ \ {q}] /\ seen' = [seen EXCEPT ![s] = {}]
<1>1. /\ UNCHANGED <<net, queue, panic, pending, writer, stream, closed>>
      /\ pc[t] = "check" /\ t \in Threads
  BY Names DEF is_complete, link_vars, At
<1>2. \/ /\ UNCHANGED <<holds, token, todo>> /\ (UNCHANGED pc \/ Goto(t, "unwind"))
      \/ /\ UNCHANGED <<pc, holds, token>>
         /\ \E q \in todo[t] : UNCHANGED todo \/ (q \in holds[q[1]] /\ next(q))
      \/ \E q \in todo[t] :
            /\ next(q)
            /\ IF queue[q] # <<>> THEN UNCHANGED <<pc, holds, token>>
               ELSE /\ holds' = [holds EXCEPT ![t] = @ \ {q}]
                    /\ IF q \in panic
                       THEN Goto(t, IF holds[t] = {q} THEN "panicked" ELSE "unwind") /\ UNCHANGED token
                       ELSE token' = [token EXCEPT ![t] = TRUE] /\ UNCHANGED pc
  BY DEF is_complete
<1>3. CASE UNCHANGED <<holds, token, todo>> /\ (UNCHANGED pc \/ Goto(t, "unwind"))
  <2>1. /\ DOMAIN pc' = Threads
        /\ \A u \in Threads : pc'[u] = pc[u] \/ (u = t /\ pc'[u] = "unwind")
    BY <1>3 DEF Goto, WakeInv, Typed
  <2>2. Idle
    BY <1>1, <1>3, <2>1 DEF Idle, WakeInv, Typed
  <2>. QED  BY <2>2, IdleStep
<1> DEFINE Visits(q) ==
           /\ UNCHANGED <<pc, holds, token>> /\ next(q)
           /\ queue[q] # <<>> \/ q \in holds[q[1]]
<1>4. CASE UNCHANGED <<pc, holds, token, todo>>
  <2>1. Idle
    BY <1>1, <1>4 DEF Idle, WakeInv, Typed
  <2>. QED  BY <2>1, IdleStep
<1>5. ASSUME NEW q \in todo[t], Visits(q) PROVE Careful
  <2>1. Typed'
    BY <1>1, <1>5, TypedKept DEF WakeInv, Typed
  <2>2. \A u : Coming(u)' <=> Coming(u)
    BY <1>1, <1>5 DEF Coming
  <2>3. Notified'
    BY <1>1, <1>5, <2>2 DEF WakeInv, Notified, medium
  <2>4. \A r \in Queues : Speaks(r)
    BY <1>1, <1>5, Untouched
  <2>5. \A u \in Threads : /\ \A x, y \in pending'[u] : x = y
                           /\ holds'[u] \subseteq holds[u]
                           /\ pc'[u] = pc[u]
    BY <1>1, <1>5 DEF WakeInv, Placed
  <2>6. \A r \in Senders : r # s => Thread(r) # t
    BY Names
  <2>7. q \in holds[t] => q \in Queues /\ q[2] = t
    BY <1>1, SenderEnd DEF WakeInv, Typed, Placed
  <2>8. q \in holds[t] => queue[q] # <<>> \/ (q \notin panic /\ q \in holds[q[1]])
    BY <1>5, <2>7 DEF WakeInv, Poisoned
  <2>9. todo'[t] = todo[t] \ {q} /\ \A u \in Threads : u # t => todo'[u] = todo[u]
    BY <1>1, <1>5 DEF WakeInv, Typed
  <2>10. Looks(s, t)
    BY <1>1, <1>5, <2>8, <2>9 DEF Looks, WakeInv, Checked
  <2>11. \A r \in Senders : Looks(r, Thread(r))
    BY <1>1, <1>5, <2>6, <2>9, <2>10, Names DEF Looks, WakeInv, Checked
  <2>. QED  BY <1>1, <2>1, <2>2, <2>3, <2>4, <2>5, <2>11 DEF Careful
<1>6. ASSUME NEW q \in todo[t], next(q), holds' = [holds EXCEPT ![t] = @ \ {q}],
             \/ q \in panic /\ token' = token /\ \E x \in {"panicked", "unwind"} : Goto(t, x)
             \/ token' = [token EXCEPT ![t] = TRUE] /\ pc' = pc
      PROVE  Careful
  <2>1. q \in Queues /\ q[1] # t
    BY <1>1, <1>6, QueueShape DEF WakeInv, Typed
  <2>2. todo'[t] = todo[t] \ {q} /\ \A u \in Threads : u # t => todo'[u] = todo[u]
    BY <1>1, <1>6 DEF WakeInv, Typed
  <2>3. holds'[t] = holds[t] \ {q} /\ \A u \in Threads : u # t => holds'[u] = holds[u]
    BY <1>1, <1>6 DEF WakeInv, Typed
  <2>4. Typed'
    <3>1. Queues' = Queues
      BY <1>1, SameNet
    <3>2. DOMAIN pc' = Threads
      BY <1>6 DEF Goto, WakeInv, Typed
    <3>3. token' \in [Threads -> BOOLEAN]
      BY <1>1, <1>6 DEF WakeInv, Typed
    <3>4. todo' \in [Threads -> SUBSET Queues] /\ holds' \in [Threads -> SUBSET Queues]
      BY <1>1, <1>6 DEF WakeInv, Typed
    <3>. QED  BY <1>1, <3>1, <3>2, <3>3, <3>4 DEF WakeInv, Typed
  <2>5. \A u \in Threads : Coming(u) => Coming(u)'
    BY <1>1, <1>6 DEF Coming, WakeInv, Typed
  <2>6. \A u \in Threads : pc'[u] = pc[u] \/ (u = t /\ pc'[u] \in {"panicked", "unwind"})
    BY <1>1, <1>6 DEF Goto, WakeInv, Typed
  <2>7. Notified'
    BY <1>1, <2>5, <2>6, Names DEF WakeInv, Notified, medium
  <2>8. \A r \in Queues : Speaks(r)
    <3> SUFFICES ASSUME NEW r \in Queues PROVE Speaks(r)
      OBVIOUS
    <3>1. r[1] \in Threads /\ r[2] \in Threads /\ r[1] # t
      BY QueueShape DEF WakeInv, Typed
    <3>. QED  BY <1>1, <2>3, <3>1 DEF Speaks, WakeInv, Poisoned
  <2>9. Looks(s, t)
    BY <1>1, <2>2, <2>3, <2>6 DEF Looks, WakeInv, Checked
  <2>10. \A r \in Senders : Looks(r, Thread(r))
    BY <1>1, <2>2, <2>3, <2>6, <2>9, Names DEF Looks, WakeInv, Checked
  <2>11. \A u \in Threads : (\A x, y \in pending'[u] : x = y) /\ holds'[u] \subseteq holds[u]
    BY <1>1, <2>3 DEF WakeInv, Placed
  <2>. QED  BY <1>1, <2>4, <2>5, <2>6, <2>7, <2>8, <2>10, <2>11 DEF Careful, Moves
<1>. QED  BY <1>2, <1>3, <1>4, <1>5, <1>6

-----------------------------------------------------------------------------
(* Steps that use up a wakeup.                                              *)

\* A step of th that takes its token and changes nothing else but todo[th].
LEMMA TokenStep ==
    ASSUME WakeInv, NEW th \in Threads, NEW where, NEW T \in SUBSET Queues,
           token' = [token EXCEPT ![th] = FALSE], Goto(th, where),
           todo' = [todo EXCEPT ![th] = T],
           UNCHANGED <<net, queue, holds, panic, pending, writer, stream, closed>>,
           \/ where \in {"run", "event"} /\ \A s \in Senders : th # Thread(s)
           \/ where = "drain" /\ holds[th] = T /\ pc[th] = "check",
           where = "run" => pc[th] = "park",
           where = "event" <=> th = Inbox
    PROVE  Careful
<1>1. Typed'
  <2>1. DOMAIN pc' = Threads /\ token' \in [Threads -> BOOLEAN] /\ todo' \in [Threads -> SUBSET Queues]
    BY DEF Goto, WakeInv, Typed
  <2>. QED  BY <2>1, TypedKept DEF WakeInv, Typed
<1>2. \A u \in Threads : u # th => (Coming(u) => Coming(u)') /\ pc'[u] = pc[u] /\ todo'[u] = todo[u]
  BY DEF Coming, Goto, WakeInv, Typed
<1>3. pc'[th] = where /\ todo'[th] = T
  BY DEF Goto, WakeInv, Typed
<1>4. Notified'
  BY <1>2, <1>3, Names DEF WakeInv, Notified, medium
<1>5. \A q \in Queues : Speaks(q)
  BY Untouched
<1>6. \A s \in Senders : Looks(s, Thread(s))
  <2> SUFFICES ASSUME NEW s \in Senders PROVE Looks(s, Thread(s))
    OBVIOUS
  <2>1. CASE th = Thread(s)
    BY <1>3, <2>1 DEF Looks
  <2>2. CASE th # Thread(s)
    BY <1>2, <2>2, Names DEF Looks, WakeInv, Checked
  <2>. QED  BY <2>1, <2>2
<1>7. \A u \in Threads : (\A x, y \in pending'[u] : x = y) /\ holds'[u] \subseteq holds[u]
  BY DEF WakeInv, Placed
<1>8. Woken(th) /\ Moves(th)
  BY <1>3 DEF Woken, Moves
<1>. QED  BY <1>1, <1>2, <1>4, <1>5, <1>6, <1>7, <1>8 DEF Careful

\* The park of a send thread, and that of a worker, returns.
LEMMA ParkSteps ==
    /\ \A s \in Senders : WakeInv /\ park(s) => Careful
    /\ \A v \in Receivers : WakeInv /\ await_events(v) => Careful
<1>1. ASSUME WakeInv, NEW s \in Senders, park(s) PROVE Careful
  <2> DEFINE t == Thread(s)
  <2>1. t \in Threads /\ t # Inbox
    BY Names
  <2>2. pc[t] = "check" /\ holds[t] \in SUBSET Queues
    BY <1>1, <2>1 DEF park, At, WakeInv, Typed
  <2>3. /\ token' = [token EXCEPT ![t] = FALSE] /\ Goto(t, "drain")
        /\ todo' = [todo EXCEPT ![t] = holds[t]]
        /\ UNCHANGED <<net, queue, holds, panic, pending, writer, stream, closed>>
    BY <1>1 DEF park, link_vars
  <2> HIDE DEF t
  <2>. QED  BY <1>1, <2>1, <2>2, <2>3, TokenStep
<1>2. ASSUME WakeInv, NEW v \in Receivers, await_events(v) PROVE Careful
  <2> DEFINE t == Worker(v)
  <2>1. t \in Threads /\ t # Inbox /\ \A s \in Senders : t # Thread(s)
    BY Names
  <2>2. pc[t] = "park" /\ todo[t] \in SUBSET Queues
    BY <1>2, <2>1 DEF await_events, At, WakeInv, Typed
  <2>3. /\ token' = [token EXCEPT ![t] = FALSE] /\ Goto(t, "run")
        /\ UNCHANGED <<net, queue, holds, panic, pending, todo, writer, stream, closed>>
    BY <1>2 DEF await_events, link_vars, send_vars
  <2>4. todo' = [todo EXCEPT ![t] = todo[t]]
    BY <1>2, <2>3 DEF WakeInv, Typed
  <2> HIDE DEF t
  <2>. QED  BY <1>2, <2>1, <2>2, <2>3, <2>4, TokenStep
<1>. QED  BY <1>1, <1>2

\* The notifications of an inbox, and the event that they make it look for.
LEMMA EventSteps ==
    /\ WakeInv /\ At(Inbox, "read") /\ token' = [token EXCEPT ![Inbox] = FALSE]
          /\ Goto(Inbox, "event")
          /\ UNCHANGED <<net, queue, holds, panic, pending, todo, sent>>
          /\ UNCHANGED <<worker_vars, recv_vars, send_vars, link_vars>>
       => Careful
    /\ WakeInv /\ on_event /\ todo' = [todo EXCEPT ![Inbox] = Targets]
          /\ UNCHANGED <<net, queue, holds, panic, pending, token, closed, writer>>
       => Careful
<1>1. ASSUME WakeInv, At(Inbox, "read"), token' = [token EXCEPT ![Inbox] = FALSE],
             Goto(Inbox, "event"), UNCHANGED <<net, queue, holds, panic, pending, todo, sent>>,
             UNCHANGED <<worker_vars, recv_vars, send_vars, link_vars>>
      PROVE  Careful
  <2>1. Inbox \in Threads /\ \A s \in Senders : Inbox # Thread(s)
    BY Names
  <2>2. UNCHANGED <<writer, stream, closed>> /\ todo[Inbox] \in SUBSET Queues
    BY <1>1, <2>1 DEF send_vars, link_vars, WakeInv, Typed
  <2>3. todo' = [todo EXCEPT ![Inbox] = todo[Inbox]]
    BY <1>1 DEF WakeInv, Typed
  <2>. QED  BY <1>1, <2>1, <2>2, <2>3, TokenStep
<1>2. ASSUME WakeInv, on_event, todo' = [todo EXCEPT ![Inbox] = Targets],
             UNCHANGED <<net, queue, holds, panic, pending, token, closed, writer>>
      PROVE  Careful
  <2>1. Inbox \in Threads /\ \A s \in Senders : Inbox # Thread(s)
    BY Names
  <2>2. stream' = <<>> /\ \E x \in {"extend", "last", "unwind"} : pc' = [pc EXCEPT ![Inbox] = x]
    BY <1>2 DEF on_event, Goto
  <2>3. Targets \in SUBSET Queues
    BY DEF Targets, Queues, Inlets
  <2>4. /\ todo' \in [Threads -> SUBSET Queues]
        /\ \A s \in Senders : todo'[Thread(s)] = todo[Thread(s)]
    BY <1>2, <2>1, <2>3 DEF WakeInv, Typed
  <2>5. DOMAIN pc' = Threads /\ \A th \in Threads :
            pc'[th] = pc[th] \/ (th = Inbox /\ pc'[th] \in {"extend", "last", "unwind"})
    BY <1>2, <2>2 DEF WakeInv, Typed
  <2>6. Typed'
    BY <1>2, <2>4, <2>5, TypedKept DEF WakeInv, Typed
  <2>7. \A u : Coming(u)' <=> Coming(u)
    BY <1>2 DEF Coming
  <2>8. Notified'
    BY <1>2, <2>2 DEF WakeInv, Notified, medium
  <2>9. \A q \in Queues : Speaks(q)
    BY <1>2, Untouched
  <2>10. \A s \in Senders : Looks(s, Thread(s))
    BY <1>2, <2>1, <2>4, <2>5, Names DEF Looks, WakeInv, Checked
  <2>11. \A u \in Threads : (\A x, y \in pending'[u] : x = y) /\ holds'[u] \subseteq holds[u]
    BY <1>2 DEF WakeInv, Placed
  <2>. QED  BY <1>2, <2>5, <2>6, <2>7, <2>8, <2>9, <2>10, <2>11 DEF Careful, Moves
<1>. QED  BY <1>1, <1>2

-----------------------------------------------------------------------------
(* The rest of a send_loop.                                                 *)

\* drain_into leaves a source empty.
LEMMA DrainStep == \A s \in Senders : WakeInv /\ drain(s) => Careful
<1> SUFFICES ASSUME WakeInv, NEW s \in Senders, drain(s) PROVE Careful
  OBVIOUS
<1> DEFINE t == Thread(s)
<1>1. t \in Threads /\ pc[t] = "drain"
  BY Names DEF drain, At
<1>2. CASE leave(t, "unwind")
  BY <1>1, <1>2, LeaveStep
<1>3. CASE \E q \in todo[t] :
              /\ queue' = [queue EXCEPT ![q] = <<>>]
              /\ todo' = [todo EXCEPT ![t] = @ \ {q}]
              /\ UNCHANGED <<net, pc, holds, panic, pending, token, writer, stream, closed>>
  <2>1. PICK q \in todo[t] :
              /\ queue' = [queue EXCEPT ![q] = <<>>]
              /\ todo' = [todo EXCEPT ![t] = @ \ {q}]
              /\ UNCHANGED <<net, pc, holds, panic, pending, token, writer, stream, closed>>
    BY <1>3
  <2>2. q \in Queues /\ Queues' = Queues
    BY <1>1, <2>1, SameNet DEF WakeInv, Typed
  <2>3. todo'[t] = todo[t] \ {q} /\ \A u \in Threads : u # t => todo'[u] = todo[u]
    BY <1>1, <2>1 DEF WakeInv, Typed
  <2>4. queue'[q] = <<>> /\ \A r \in Queues : r # q => queue'[r] = queue[r]
    BY <2>1, <2>2 DEF WakeInv, Typed
  <2>5. Typed'
    BY <1>1, <2>1, <2>2 DEF WakeInv, Typed
  <2>6. \A u : Coming(u)' <=> Coming(u)
    BY <2>1 DEF Coming
  <2>7. Notified'
    BY <2>1, <2>6 DEF WakeInv, Notified, medium
  <2>8. \A r \in Queues : Speaks(r)
    BY <2>1, <2>4 DEF WakeInv, Poisoned, Speaks
  <2>9. \A r \in Senders : Looks(r, Thread(r))
    BY <1>1, <2>1, <2>3, <2>4, Names DEF Looks, WakeInv, Checked
  <2>10. \A u \in Threads : (\A x, y \in pending'[u] : x = y) /\ holds'[u] \subseteq holds[u]
    BY <2>1 DEF WakeInv, Placed
  <2>. QED  BY <2>1, <2>5, <2>6, <2>7, <2>8, <2>9, <2>10 DEF Careful
<1>. QED  BY <1>2, <1>3 DEF drain, send_vars, link_vars

-----------------------------------------------------------------------------
(* What is written is announced.                                            *)

\* No messages make no bytes.
LEMMA NoBytes == AllBytes(<<>>) = <<>>
<1> DEFINE f == [i \in 1 .. 0 |-> Bytes((<<>>)[i])]
<1>1. f = <<>> /\ Len(f) = 0
  OBVIOUS
<1>2. AllBytes(<<>>) = FlattenSeq(f)
  BY DEF AllBytes
<1> HIDE DEF f
<1>3. FlattenSeq(f) = f
  BY <1>1 DEF FlattenSeq
<1>. QED  BY <1>1, <1>2, <1>3

\* An inbox is notified of whatever is put into it.
LEMMA EmitTells ==
    ASSUME WakeInv, NEW t \in Threads, pending[t] = {}, NEW ms, emit(t, ms), token' = token
    PROVE  /\ pending' \in [Threads -> SUBSET Threads]
           /\ \A u \in Threads : \A x, y \in pending'[u] : x = y
           /\ \A u \in Threads : Coming(u) => Coming(u)'
           /\ medium = "ipc" /\ stream' # <<>> => stream # <<>> \/ Coming(Inbox)'
<1> DEFINE X == IF medium = "ipc" /\ ms # <<>> THEN {Inbox} ELSE {}
<1>1. pending' = [pending EXCEPT ![t] = X] /\ X \in SUBSET Threads /\ \A x, y \in X : x = y
  BY Names DEF emit
<1>2. medium = "ipc" /\ ms # <<>> => Inbox \in X
  OBVIOUS
<1>3. ms = <<>> /\ stream = <<>> => stream' = <<>>
  <2>1. <<>> \o <<>> = <<>>
    OBVIOUS
  <2>. QED  BY <2>1, NoBytes DEF emit
<1> HIDE DEF X
<1>4. \A u : (Coming(u) \/ u \in X) => Coming(u)'
  BY <1>1, Told DEF WakeInv
<1>5. pending' \in [Threads -> SUBSET Threads]
  BY <1>1 DEF WakeInv, Typed
<1>6. \A u \in Threads : \A x, y \in pending'[u] : x = y
  BY <1>1 DEF WakeInv, Typed, Placed
<1>. QED  BY <1>2, <1>3, <1>4, <1>5, <1>6

(* A send thread that writes, flushes or ends, with what it says on the     *)
(* connection taken care of.                                                *)
LEMMA WriteStep ==
    ASSUME WakeInv, NEW s \in Senders, NEW x \in {"drain", "check", "done"}, NEW W,
           UNCHANGED <<net, queue, holds, panic, token>>,
           pc' = [pc EXCEPT ![Thread(s)] = x] \/ (pc' = pc /\ pc[Thread(s)] = x),
           writer' = [writer EXCEPT ![s] = W],
           pending' \in [Threads -> SUBSET Threads],
           \A u \in Threads : \A a, b \in pending'[u] : a = b,
           \A u \in Threads : Coming(u) => Coming(u)',
           medium = "ipc" => closed' = closed
                             /\ (stream' # <<>> => stream # <<>> \/ Coming(Inbox)'),
           x # "done" => /\ todo' = [todo EXCEPT ![Thread(s)] = holds[Thread(s)]]
                         /\ pc[Thread(s)] = "drain" /\ todo[Thread(s)] = {},
           x = "done" => todo' = todo,
           x = "check" => W = <<>>
    PROVE  Careful
<1> DEFINE t == Thread(s)
<1>1. t \in Threads /\ \A r \in Senders : r # s => Thread(r) # t /\ Thread(r) \in Threads
  BY Names
<1>2. pc'[t] = x /\ DOMAIN pc' = Threads /\ \A u \in Threads : u # t => pc'[u] = pc[u]
  BY <1>1 DEF WakeInv, Typed
<1>3. /\ todo' \in [Threads -> SUBSET Queues]
      /\ x # "done" => todo'[t] = holds'[t]
      /\ \A u \in Threads : u # t => todo'[u] = todo[u]
  BY <1>1 DEF WakeInv, Typed
<1>4. Typed'
  BY <1>2, <1>3, TypedKept DEF WakeInv, Typed
<1>5. Notified'
  BY <1>1, <1>2, Names DEF WakeInv, Notified, medium
<1>6. \A q \in Queues : Speaks(q)
  BY Untouched
<1>7. writer'[s] = W /\ \A r \in Senders : r # s => writer'[r] = writer[r]
  BY DEF WakeInv, Typed
<1>8. Looks(s, t)
  BY <1>2, <1>3, <1>7 DEF Looks
<1>9. \A r \in Senders : r # s => Looks(r, Thread(r))
  BY <1>1, <1>2, <1>3, <1>7 DEF Looks, WakeInv, Checked
<1>10. \A u \in Threads : pc'[u] = pc[u] \/ Moves(u)
  BY <1>2 DEF Moves
<1>. QED  BY <1>4, <1>5, <1>6, <1>8, <1>9, <1>10 DEF Careful

\* write_all, and the flush before a send thread checks its sources.
LEMMA WriteSteps ==
    \A s \in Senders, buffered \in BOOLEAN : WakeInv /\ (write(s, buffered) \/ flush(s)) => Careful
<1>1. ASSUME WakeInv, NEW s \in Senders, NEW buffered \in BOOLEAN, write(s, buffered)
      PROVE  Careful
  <2> DEFINE t == Thread(s)
  <2>1. t \in Threads /\ pc[t] = "drain" /\ pending[t] = {} /\ todo[t] = {}
    BY <1>1, Names DEF write, At
  <2>2. /\ UNCHANGED <<net, pc, queue, holds, panic, token, closed>>
        /\ todo' = [todo EXCEPT ![t] = holds[t]]
    BY <1>1 DEF write
  <2>4. \E W : /\ writer' = [writer EXCEPT ![s] = W]
               /\ UNCHANGED <<pending, stream>> \/ \E ms : emit(t, ms)
    BY <1>1 DEF write
  <2>5. PICK W : /\ writer' = [writer EXCEPT ![s] = W]
                 /\ UNCHANGED <<pending, stream>> \/ \E ms : emit(t, ms)
    BY <2>4
  <2>6. /\ pending' \in [Threads -> SUBSET Threads]
        /\ \A u \in Threads : \A a, b \in pending'[u] : a = b
        /\ \A u \in Threads : Coming(u) => Coming(u)'
        /\ medium = "ipc" /\ stream' # <<>> => stream # <<>> \/ Coming(Inbox)'
    <3>1. CASE UNCHANGED <<pending, stream>>
      BY <1>1, <2>2, <3>1 DEF WakeInv, Typed, Placed, Coming
    <3>2. CASE \E ms : emit(t, ms)
      <4>1. PICK ms : emit(t, ms)
        BY <3>2
      <4> HIDE DEF t
      <4>. QED  BY <1>1, <2>1, <2>2, <4>1, EmitTells
    <3>. QED  BY <2>5, <3>1, <3>2
  <2>. QED  BY <1>1, <2>1, <2>2, <2>5, <2>6, WriteStep
<1>2. ASSUME WakeInv, NEW s \in Senders, flush(s)
      PROVE  Careful
  <2> DEFINE t == Thread(s)
  <2>1. t \in Threads /\ pc[t] = "drain" /\ pending[t] = {} /\ todo[t] = {}
    BY <1>2, Names DEF flush, At
  <2>2. /\ UNCHANGED <<net, queue, holds, panic, token, closed>>
        /\ todo' = [todo EXCEPT ![t] = holds[t]]
        /\ pc' = [pc EXCEPT ![t] = "check"] /\ writer' = [writer EXCEPT ![s] = <<>>]
        /\ emit(t, writer[s])
    BY <1>2 DEF flush, Goto
  <2>3. /\ pending' \in [Threads -> SUBSET Threads]
        /\ \A u \in Threads : \A a, b \in pending'[u] : a = b
        /\ \A u \in Threads : Coming(u) => Coming(u)'
        /\ medium = "ipc" /\ stream' # <<>> => stream # <<>> \/ Coming(Inbox)'
    BY <1>2, <2>1, <2>2, EmitTells
  <2>. QED  BY <1>2, <2>1, <2>2, <2>3, WriteStep
<1>. QED  BY <1>1, <1>2

\* The last words of a send thread: a final header, or the close of a connection.
LEMMA FinishSteps ==
    /\ \A s \in Senders : \A how :
          WakeInv /\ (medium = "ipc" => how = "open") /\ finish(s, final_header(s, how)) => Careful
    /\ \A s \in Senders : WakeInv /\ medium # "ipc" /\ finish(s, close_connection) => Careful
<1>1. ASSUME WakeInv, NEW s \in Senders, NEW how, medium = "ipc" => how = "open",
             finish(s, final_header(s, how))
      PROVE  Careful
  <2> DEFINE t == Thread(s)
  <2>1. t \in Threads /\ pc[t] = "check" /\ pending[t] = {}
    BY <1>1, Names DEF finish, At
  <2>2. /\ UNCHANGED <<net, queue, holds, panic, token, todo>>
        /\ pc' = [pc EXCEPT ![t] = "done"] /\ writer' = [writer EXCEPT ![s] = <<>>]
        /\ emit(t, Append(writer[s], End))
        /\ closed' = IF closed = "open" THEN how ELSE closed
    BY <1>1 DEF finish, final_header, Goto
  <2>3. /\ pending' \in [Threads -> SUBSET Threads]
        /\ \A u \in Threads : \A a, b \in pending'[u] : a = b
        /\ \A u \in Threads : Coming(u) => Coming(u)'
        /\ medium = "ipc" /\ stream' # <<>> => stream # <<>> \/ Coming(Inbox)'
    <3> HIDE DEF t
    <3>. QED  BY <1>1, <2>1, <2>2, EmitTells
  <2>4. medium = "ipc" => closed' = closed
    BY <1>1, <2>2
  <2>. QED  BY <1>1, <2>1, <2>2, <2>3, <2>4, WriteStep
<1>2. ASSUME WakeInv, NEW s \in Senders, medium # "ipc", finish(s, close_connection)
      PROVE  Careful
  <2>1. /\ UNCHANGED <<net, queue, holds, panic, token, todo, pending>>
        /\ pc' = [pc EXCEPT ![Thread(s)] = "done"] /\ writer' = [writer EXCEPT ![s] = <<>>]
    BY <1>2 DEF finish, close_connection, Goto
  <2>2. /\ pending' \in [Threads -> SUBSET Threads]
        /\ \A u \in Threads : \A a, b \in pending'[u] : a = b
        /\ \A u \in Threads : Coming(u) => Coming(u)'
    BY <1>2, <2>1 DEF WakeInv, Typed, Placed, Coming
  <2>. QED  BY <1>2, <2>1, <2>2, WriteStep
<1>. QED  BY <1>1, <1>2

\* Every step of a send_loop.
LEMMA SendSteps ==
    \A s \in Senders :
        WakeInv /\ (tcp_send_loop(s) \/ tls_send_loop(s) \/ quic_send_loop(s) \/ ipc_send_loop(s))
            => Careful
<1> SUFFICES ASSUME WakeInv, NEW s \in Senders,
                    tcp_send_loop(s) \/ tls_send_loop(s) \/ quic_send_loop(s) \/ ipc_send_loop(s)
             PROVE  Careful
  OBVIOUS
<1>1. \/ drain(s) \/ write(s, TRUE) \/ write(s, FALSE) \/ flush(s) \/ write_fails(s)
      \/ is_complete(s) \/ park(s)
      \/ medium # "ipc" /\ finish(s, final_header(s, "shut"))
      \/ finish(s, final_header(s, "open"))
      \/ medium # "ipc" /\ finish(s, close_connection)
  BY DEF tcp_send_loop, tls_send_loop, quic_send_loop, ipc_send_loop
<1>2. CASE drain(s)
  BY <1>2, DrainStep
<1>3. CASE write(s, TRUE) \/ write(s, FALSE) \/ flush(s)
  BY <1>3, WriteSteps
<1>4. CASE write_fails(s)
  BY <1>4, WriteFailsStep
<1>5. CASE is_complete(s)
  BY <1>5, CompleteStep
<1>6. CASE park(s)
  BY <1>6, ParkSteps
<1>7. CASE medium # "ipc" /\ finish(s, final_header(s, "shut"))
  BY <1>7, FinishSteps
<1>8. CASE finish(s, final_header(s, "open"))
  BY <1>8, FinishSteps
<1>9. CASE medium # "ipc" /\ finish(s, close_connection)
  BY <1>9, FinishSteps
<1>. QED  BY <1>1, <1>2, <1>3, <1>4, <1>5, <1>6, <1>7, <1>8, <1>9

-----------------------------------------------------------------------------
(* Steps of queues: receive, extend, and the drops of handles.              *)

\* receive empties every queue of its worker.
LEMMA ReceiveStep == \A v \in Receivers : WakeInv /\ receive(v) => Careful
<1> SUFFICES ASSUME WakeInv, NEW v \in Receivers, receive(v) PROVE Careful
  OBVIOUS
<1> DEFINE t == Worker(v)
<1>1. t \in Threads /\ pc[t] = "run" /\ v \in net.receivers
  BY Names DEF receive, At
<1>2. UNCHANGED <<net, holds, panic, pending, token, todo, writer, stream, closed>>
  BY DEF receive, send_vars, link_vars
<1>3. CASE Goto(t, "unwind") /\ UNCHANGED queue
  <2>1. Idle
    BY <1>1, <1>2, <1>3 DEF Idle, Goto, WakeInv, Typed
  <2>. QED  BY <2>1, IdleStep
<1>4. CASE /\ Inlets(v) \cap panic = {}
           /\ queue' = [q \in Queues |-> IF q \in Inlets(v) THEN <<>> ELSE queue[q]]
           /\ UNCHANGED pc \/ Goto(t, "park")
  <2>1. DOMAIN pc' = Threads /\ \A u \in Threads : pc'[u] = pc[u] \/ (u = t /\ pc'[u] = "park")
    BY <1>4 DEF Goto, WakeInv, Typed
  <2>2. \A q \in Queues : queue'[q] = <<>> \/ queue'[q] = queue[q]
    BY <1>4
  <2>3. \A q \in Queues : q[2] = t => queue'[q] = <<>> /\ q \notin panic
    <3>1. \A q \in Queues : q[2] = t => q \in Inlets(v)
      BY <1>1, QueueShape DEF WakeInv, Typed
    <3>. QED  BY <1>4, <3>1
  <2>4. Queues' = Queues
    BY <1>2, SameNet
  <2>5. Typed'
    BY <1>2, <1>4, <2>1, <2>4 DEF WakeInv, Typed
  <2>6. \A u : Coming(u)' <=> Coming(u)
    BY <1>2 DEF Coming
  <2>7. Notified'
    BY <1>2, <2>1, <2>6, Names DEF WakeInv, Notified, medium
  <2>8. \A q \in Queues : Speaks(q)
    BY <1>2, <2>2 DEF WakeInv, Poisoned, Speaks
  <2>9. \A s \in Senders : Looks(s, Thread(s))
    BY <1>2, <2>1, Names DEF Looks, WakeInv, Checked
  <2>10. \A u \in Threads : (\A x, y \in pending'[u] : x = y) /\ holds'[u] \subseteq holds[u]
    BY <1>2 DEF WakeInv, Placed
  <2>11. \A u \in Threads : pc'[u] = pc[u] \/ Moves(u)
    BY <1>1, <1>2, <2>1, <2>3 DEF Moves, Sleeps
  <2>. QED  BY <1>2, <2>5, <2>6, <2>7, <2>8, <2>9, <2>10, <2>11 DEF Careful
<1>. QED  BY <1>3, <1>4 DEF receive

(* MergeQueue::extend: the reader is buzzed, unless it has been and has     *)
(* not come to look.                                                        *)
LEMMA ExtendStep ==
    ASSUME WakeInv, NEW t \in Threads, NEW q \in Queues, NEW ms, extend(t, q, ms),
           pending[t] = {}, UNCHANGED <<net, holds, panic, token, writer, stream, closed>>,
           \/ UNCHANGED <<pc, todo>>
           \/ /\ t = Inbox /\ pc[Inbox] # "event"
              /\ \E x \in {"extend", "last", "read", "closing"} : Goto(Inbox, x)
              /\ todo' = [todo EXCEPT ![Inbox] = @ \ {q}]
    PROVE  Careful
<1> DEFINE X == IF ms # <<>> /\ queue[q] = <<>> THEN {q[2]} ELSE {}
<1>1. q[2] \in Threads /\ Queues' = Queues
  BY QueueShape, SameNet DEF WakeInv, Typed
<1>2. pending' = [pending EXCEPT ![t] = X] /\ X \in SUBSET Threads /\ \A x, y \in X : x = y
  BY <1>1 DEF extend
<1>3. \A r \in Queues : queue'[r] # <<>> => queue[r] # <<>> \/ r[2] \in X
  <2> SUFFICES ASSUME NEW r \in Queues, queue'[r] # <<>>, queue[r] = <<>> PROVE r[2] \in X
    OBVIOUS
  <2>1. r = q /\ queue'[q] = queue[q] \o ms
    BY DEF extend, WakeInv, Typed
  <2>2. ms # <<>>
    BY <2>1
  <2>. QED  BY <2>1, <2>2
<1> HIDE DEF X
<1>4. \A u : (Coming(u) \/ u \in X) => Coming(u)'
  BY <1>2, Told DEF WakeInv
<1>5. pending' \in [Threads -> SUBSET Threads] /\ \A u \in Threads : \A x, y \in pending'[u] : x = y
  BY <1>2 DEF WakeInv, Typed, Placed
<1>6. /\ DOMAIN pc' = Threads /\ \A s \in Senders : pc'[Thread(s)] = pc[Thread(s)]
      /\ pc'[Inbox] = "event" <=> pc[Inbox] = "event"
  BY Names DEF Goto, WakeInv, Typed
<1>7. /\ todo' \in [Threads -> SUBSET Queues]
      /\ \A s \in Senders : todo'[Thread(s)] = todo[Thread(s)]
  BY Names DEF WakeInv, Typed
<1>8. DOMAIN queue' = Queues
  BY DEF extend, WakeInv, Typed
<1>9. Typed'
  BY <1>1, <1>5, <1>6, <1>7, <1>8 DEF WakeInv, Typed
<1>10. Notified'
  BY <1>4, <1>6 DEF WakeInv, Notified, medium
<1>11. \A r \in Queues : Speaks(r)
  BY <1>3, <1>4 DEF WakeInv, Poisoned, Speaks
<1>12. \A s \in Senders : Looks(s, Thread(s))
  BY <1>6, <1>7, Names DEF Looks, WakeInv, Checked
<1>13. \A u \in Threads : pc'[u] = pc[u] \/ Moves(u)
  BY DEF Goto, WakeInv, Typed, Moves
<1>. QED  BY <1>4, <1>5, <1>9, <1>10, <1>11, <1>12, <1>13 DEF Careful

\* Pusher::push: a send thread, or the worker itself, is told.
LEMMA PushStep == \A s \in Senders : WakeInv /\ push(s) => Careful
<1> SUFFICES ASSUME WakeInv, NEW s \in Senders, push(s) PROVE Careful
  OBVIOUS
<1>1. Worker(s) \in Threads /\ pending[Worker(s)] = {} /\ s \in Sending
  BY Names DEF push, At
<1>2. \E q \in Outlets(s) : \E ms : extend(Worker(s), q, ms)
  BY Zenon DEF push
<1>3. PICK q \in Outlets(s) : \E ms : extend(Worker(s), q, ms)
  BY <1>2
<1>4. PICK ms : extend(Worker(s), q, ms)
  BY <1>3
<1>5. q \in Queues
  BY <1>1, <1>3 DEF Queues
<1>6. UNCHANGED <<net, pc, holds, panic, token, todo, writer, stream, closed>>
  BY DEF push, send_vars, link_vars
<1>. QED  BY <1>1, <1>4, <1>5, <1>6, ExtendStep

\* The receive thread hands over what is staged.
LEMMA PassStep == WakeInv /\ pass_along => Careful
<1> SUFFICES ASSUME WakeInv, pass_along PROVE Careful
  OBVIOUS
<1>1. Inbox \in Threads
  BY Names
<1>2. PICK v \in net.receivers :
        LET q == <<Inbox, Worker(v)>>
        IN  /\ At(Inbox, "extend") \/ At(Inbox, "last")
            /\ q \in todo[Inbox]
            /\ \/ q \in panic /\ leave(Inbox, "unwind")
               \/ /\ extend(Inbox, q, staged[v])
                  /\ staged' = [staged EXCEPT ![v] = <<>>]
                  /\ todo' = [todo EXCEPT ![Inbox] = @ \ {q}]
                  /\ Goto(Inbox, IF todo[Inbox] # {q} THEN pc[Inbox]
                                 ELSE IF pc[Inbox] = "extend" THEN "read" ELSE "closing")
                  /\ UNCHANGED <<net, holds, panic, token, sent, alive, valid, room, shift>>
                  /\ UNCHANGED <<worker_vars, send_vars, link_vars>>
  BY Zenon DEF pass_along
<1> DEFINE q == <<Inbox, Worker(v)>>
<1>3. pc[Inbox] \in {"extend", "last"} /\ pending[Inbox] = {} /\ q \in todo[Inbox]
  BY <1>2 DEF At
<1>4. q \in Queues
  BY <1>1, <1>3 DEF WakeInv, Typed
<1>5. CASE leave(Inbox, "unwind")
  BY <1>1, <1>3, <1>5, LeaveStep
<1>6. CASE ~ leave(Inbox, "unwind")
  <2>1. /\ extend(Inbox, q, staged[v])
        /\ todo' = [todo EXCEPT ![Inbox] = @ \ {q}]
        /\ Goto(Inbox, IF todo[Inbox] # {q} THEN pc[Inbox]
                       ELSE IF pc[Inbox] = "extend" THEN "read" ELSE "closing")
    BY <1>2, <1>6
  <2>2. UNCHANGED <<net, holds, panic, token, writer, stream, closed>>
    BY <1>2, <1>6 DEF send_vars, link_vars
  <2>3. \E x \in {"extend", "last", "read", "closing"} : Goto(Inbox, x)
    BY <1>3, <2>1
  <2> HIDE DEF q
  <2>. QED  BY <1>1, <1>3, <1>4, <2>1, <2>2, <2>3, ExtendStep
<1>. QED  BY <1>5, <1>6

\* Drop of a MergeQueue: the reader learns that the writer has gone.
LEMMA DropStep == \A th \in Threads : WakeInv /\ drop(th) => Careful
<1> SUFFICES ASSUME WakeInv, NEW th \in Threads, drop(th) PROVE Careful
  OBVIOUS
<1>1. PICK q \in holds[th] :
        /\ holds' = [holds EXCEPT ![th] = @ \ {q}]
        /\ pending[th] = {} /\ pc[th] \in {"unwind", "closing"}
        /\ \E x \in {"unwind", "closing", "panicked", "done"} : Goto(th, x)
        /\ \/ panic' = panic \cup {q} /\ pending' = [pending EXCEPT ![th] = {q[2]}]
           \/ q \in panic /\ UNCHANGED <<panic, pending>>
           \/ q \notin panic /\ pending' = [pending EXCEPT ![th] = {q[2]}] /\ UNCHANGED panic
  BY DEF drop, At
<1>2. UNCHANGED <<net, queue, token, todo, writer, stream, closed>>
  BY DEF drop, send_vars, link_vars
<1>3. q \in Queues /\ th \in {q[1], q[2]} /\ q[2] \in Threads
  BY QueueShape DEF WakeInv, Typed, Placed, Handles
<1>4. PICK X \in SUBSET Threads :
        /\ pending' = [pending EXCEPT ![th] = X] /\ X \in {{}, {q[2]}}
        /\ \/ panic' = panic \cup {q} /\ q[2] \in X
           \/ q \in panic /\ UNCHANGED panic
           \/ q \notin panic /\ q[2] \in X /\ UNCHANGED panic
  <2>1. CASE pending' = [pending EXCEPT ![th] = {q[2]}]
    BY <1>1, <1>3, <2>1, ZenonT(30)
  <2>2. CASE q \in panic /\ UNCHANGED <<panic, pending>>
    <3>1. pending' = [pending EXCEPT ![th] = {}]
      BY <1>1, <2>2 DEF WakeInv, Typed
    <3>. QED  BY <2>2, <3>1
  <2>. QED  BY <1>1, <2>1, <2>2
<1>5. \A u : (Coming(u) \/ u \in X) => Coming(u)'
  BY <1>1, <1>2, <1>4, Told DEF WakeInv
<1>6. holds'[th] = holds[th] \ {q} /\ \A u \in Threads : u # th => holds'[u] = holds[u]
  BY <1>1 DEF WakeInv, Typed
<1>7. /\ DOMAIN pc' = Threads /\ pc'[th] \in {"unwind", "closing", "panicked", "done"}
      /\ \A u \in Threads : u # th => pc'[u] = pc[u]
  BY <1>1 DEF Goto, WakeInv, Typed
<1>8. Typed'
  <2>1. Queues' = Queues
    BY <1>2, SameNet
  <2>2. pending' \in [Threads -> SUBSET Threads]
    BY <1>4 DEF WakeInv, Typed
  <2>3. holds' \in [Threads -> SUBSET Queues]
    BY <1>1 DEF WakeInv, Typed
  <2>. QED  BY <1>2, <1>7, <2>1, <2>2, <2>3 DEF WakeInv, Typed
<1>9. Notified'
  BY <1>1, <1>2, <1>5, <1>7, Names DEF WakeInv, Notified, medium
<1>10. ASSUME NEW r \in Queues PROVE Speaks(r)
  <2>1. r[1] \in Threads /\ r[2] \in Threads
    BY QueueShape DEF WakeInv, Typed
  <2>2. CASE r # q
    <3>1. (r \in panic' => r \in panic) /\ \A u \in Threads : r \in holds'[u] <=> r \in holds[u]
      BY <1>4, <1>6, <2>2
    <3>. QED  BY <1>2, <2>1, <3>1 DEF Speaks, WakeInv, Poisoned
  <2>3. CASE r = q
    <3>1. q \in panic' => q \in panic \/ Coming(q[2])'
      BY <1>4, <1>5
    <3>2. q \notin holds'[q[1]] \/ q \notin holds'[q[2]]
      BY <1>3, <1>6
    <3>3. q \in holds[q[1]] /\ q \notin holds'[q[1]] => Coming(q[2])' \/ q \notin holds'[q[2]]
      <4>1. q \in panic => q \notin holds[q[1]] \/ q \notin holds[q[2]]
        BY <1>3 DEF WakeInv, Poisoned
      <4>2. q[2] \in X => Coming(q[2])'
        BY <1>5
      <4>. QED  BY <1>3, <1>4, <1>6, <4>1, <4>2
    <3>. QED  BY <1>2, <2>3, <3>1, <3>2, <3>3 DEF Speaks
  <2>. QED  BY <2>2, <2>3
<1>11. \A s \in Senders : Looks(s, Thread(s))
  <2> SUFFICES ASSUME NEW s \in Senders PROVE Looks(s, Thread(s))
    OBVIOUS
  <2>1. CASE th = Thread(s)
    BY <1>7, <2>1 DEF Looks
  <2>2. CASE th # Thread(s)
    BY <1>2, <1>6, <1>7, <2>2, Names DEF Looks, WakeInv, Checked
  <2>. QED  BY <2>1, <2>2
<1>12. \A u \in Threads : /\ \A x, y \in pending'[u] : x = y
                          /\ holds'[u] \subseteq holds[u]
                          /\ pc'[u] = pc[u] \/ Moves(u)
  BY <1>4, <1>6, <1>7 DEF WakeInv, Typed, Placed, Moves
<1>. QED  BY <1>2, <1>5, <1>8, <1>9, <1>10, <1>11, <1>12 DEF Careful

-----------------------------------------------------------------------------
(* No wakeup is lost.                                                       *)

\* The invariant holds of empty queues.
LEMMA WakeInit == Init => WakeInv
<1> SUFFICES ASSUME Init PROVE WakeInv
  OBVIOUS
<1>1. \A t : Sources(t) \subseteq Queues
  BY DEF Sources, Queues, Outlets
<1>2. Typed
  BY <1>1 DEF Init, Typed, Handles
<1>3. Placed
  <2> SUFFICES ASSUME NEW th \in Threads
               PROVE  /\ pc[th] \in {"run", "park"} => \E w \in Senders \cup Receivers : th = Worker(w)
                      /\ pc[th] = "park" => \E v \in net.receivers : th = Worker(v)
                      /\ pc[th] \in {"drain", "check"} => \E s \in Senders : th = Thread(s)
                      /\ pc[th] \in {"read", "event", "extend", "eof", "accept", "last"} => th = Inbox
                      /\ holds[th] \subseteq Handles(th)
                      /\ \A u, v \in pending[th] : u = v
    BY DEF Placed
  <2>1. holds[th] = Handles(th) /\ pending[th] = {}
    BY DEF Init
  <2>2. pc[th] = IF Handles(th) = {} THEN "none"
                 ELSE IF th = Inbox THEN "read"
                 ELSE IF th[1] = "send" THEN "drain" ELSE "run"
    BY DEF Init
  <2>3. \/ \E w \in Senders \cup Receivers : th = Worker(w) /\ th[1] = "worker" /\ th # Inbox
        \/ \E s \in Senders : th = Thread(s) /\ th[1] = "send" /\ th # Inbox
        \/ th = Inbox
    BY Names DEF Threads
  <2>. QED  BY <2>1, <2>2, <2>3
<1>4. Poisoned
  BY DEF Init, Poisoned
<1>5. \A th \in Threads : pc[th] # "park" /\ pc[th] # "check"
  BY DEF Init
<1>6. Parked /\ Checked
  <2>1. net.receivers \subseteq Receivers
    BY <1>2, Cast DEF Typed
  <2>. QED  BY <1>5, <2>1, Names DEF Parked, Checked
<1>7. Drained
  <2> SUFFICES ASSUME NEW s \in Senders, NEW q \in holds[Thread(s)] PROVE queue[q] = <<>>
    BY DEF Drained
  <2>. QED  BY <1>2, Names DEF Init, Typed
<1>8. Notified
  BY DEF Init, Notified
<1>. QED  BY <1>2, <1>3, <1>4, <1>6, <1>7, <1>8 DEF WakeInv

\* Every step of the system keeps to what wakeups depend on.
LEMMA WakeNext == WakeInv /\ [Next]_vars => WakeInv'
<1> SUFFICES ASSUME WakeInv, [Next]_vars PROVE Careful
  BY CarefulStep
<1>1. ASSUME NEW th \in Threads, buzz(th) \/ drop(th) PROVE Careful
  BY <1>1, BuzzStep, DropStep
<1>2. ASSUME NEW s \in Senders,
             \/ push(s) \/ sender_ends(s)
             \/ tcp_send_loop(s) \/ tls_send_loop(s) \/ quic_send_loop(s) \/ ipc_send_loop(s)
      PROVE  Careful
  BY <1>2, PushStep, EndSteps, SendSteps
<1>3. CASE stream_finished \/ sender_process_exits \/ receiver_process_closes
  BY <1>3, CutSteps
<1>4. CASE tcp_recv_loop \/ tls_recv_loop \/ quic_recv_loop
  <2>1. \/ medium # "ipc" /\ \E n : read(n)
        \/ read_fails \/ read_eof \/ pass_along
        \/ /\ At(Inbox, "read") \/ At(Inbox, "accept")
           /\ leave(Inbox, "accept") \/ leave(Inbox, "closing")
    BY <1>4 DEF tcp_recv_loop, tls_recv_loop, quic_recv_loop
  <2>. QED  BY <2>1, ReadSteps, PassStep
<1>5. CASE ipc_receive_loop
  <2>1. CASE pass_along
    BY <2>1, PassStep
  <2>2. CASE /\ At(Inbox, "read") /\ token' = [token EXCEPT ![Inbox] = FALSE]
             /\ Goto(Inbox, "event")
             /\ UNCHANGED <<net, queue, holds, panic, pending, todo, sent>>
             /\ UNCHANGED <<worker_vars, recv_vars, send_vars, link_vars>>
    BY <2>2, EventSteps
  <2>3. CASE /\ on_event /\ todo' = [todo EXCEPT ![Inbox] = Targets]
             /\ UNCHANGED <<net, queue, holds, panic, pending, token, closed, writer>>
    BY <2>3, EventSteps
  <2>. QED  BY <1>5, <2>1, <2>2, <2>3 DEF ipc_receive_loop, send_vars
<1>6. ASSUME NEW v \in Receivers,
             \/ allocate(v) \/ receive(v) \/ await_events(v) \/ receiver_ends(v)
             \/ \E c \in Channels : pull(v, c) \/ drop_puller(v, c)
      PROVE  Careful
  <2>1. CASE allocate(v)
    BY <2>1, WorkerSteps
  <2>2. CASE \E c \in Channels : pull(v, c) \/ drop_puller(v, c)
    BY <2>2, WorkerSteps
  <2>. QED  BY <1>6, <2>1, <2>2, ReceiveStep, ParkSteps, EndSteps
<1>7. CASE UNCHANGED vars
  <2>1. UNCHANGED <<net, pc, queue, holds, panic, pending, token, todo, writer, stream, closed>>
    BY <1>7 DEF vars
  <2>2. Idle
    BY <2>1 DEF Idle, WakeInv, Typed
  <2>. QED  BY <2>2, IdleStep
<1>. QED  BY <1>1, <1>2, <1>3, <1>4, <1>5, <1>6, <1>7 DEF Next

(* Wakeups, and what makes them needed, stay together: for any number of    *)
(* workers and channels, any programs, sizes and media, and wherever        *)
(* extend, drain, is_complete, park and the drops of queues interleave.     *)
THEOREM WakeInvHolds == Spec => []WakeInv
<1>. QED  BY WakeInit, WakeNext, PTL DEF Spec

(* MergeQueue, its Buzzer and the loops around them lose no wakeup: a       *)
(* thread that waits has nothing to read, no queue of it is poisoned, and a *)
(* send thread has flushed and has a living writer for every queue.         *)
THEOREM NoLostWakeupHolds == Spec => []NoLostWakeup
<1>1. WakeInv => NoLostWakeup
  <2> SUFFICES ASSUME WakeInv, NEW th \in Threads, Waiting(th)
               PROVE  /\ \A q \in holds[th] : q[2] = th =>
                            /\ queue[q] = <<>>
                            /\ q \notin panic
                            /\ th[1] = "send" => q \in holds[q[1]] /\ writer[th[2]] = <<>>
                      /\ th = Inbox => stream = <<>>
    BY DEF NoLostWakeup
  <2>1. ~ Coming(th)
    BY DEF Waiting, Coming
  <2>2. \A q \in holds[th] : q \in Queues
    BY DEF WakeInv, Typed
  <2>3. CASE pc[th] = "park"
    <3>1. PICK v \in net.receivers : th = Worker(v)
      BY <2>3 DEF WakeInv, Placed
    <3>2. \A q \in holds[th] : q[2] = th => queue[q] = <<>> /\ q \notin panic
      BY <2>1, <2>2, <2>3, <3>1 DEF WakeInv, Parked
    <3>. QED  BY <3>1, <3>2, Names
  <2>4. CASE pc[th] = "check" /\ todo[th] = {}
    <3>1. PICK s \in Senders : th = Thread(s)
      BY <2>4 DEF WakeInv, Placed
    <3>2. writer[s] = <<>> /\ \A q \in holds[th] :
              queue[q] = <<>> /\ q \notin panic /\ q \in holds[q[1]]
      BY <2>1, <2>2, <2>4, <3>1 DEF WakeInv, Checked
    <3>. QED  BY <3>1, <3>2, Names
  <2>5. CASE pc[th] = "read" /\ medium = "ipc"
    <3>1. th = Inbox /\ stream = <<>>
      BY <2>1, <2>5, Names DEF WakeInv, Placed, Notified
    <3>2. \A q \in Queues : q[2] # Inbox
      BY QueueShape DEF WakeInv, Typed
    <3>. QED  BY <2>2, <3>1, <3>2
  <2>. QED  BY <2>3, <2>4, <2>5 DEF Waiting, At
<1>. QED  BY <1>1, WakeInvHolds, PTL

-----------------------------------------------------------------------------
(* Rows put one behind the other.                                           *)

FlatTo(f, ss, n) == f = [i \in 1 .. n |-> IF i = 1 THEN ss[i] ELSE f[i - 1] \o ss[i]]
Flat(ss) == CHOOSE f : FlatTo(f, ss, Len(ss))

\* There is such a function, and it has rows as values.
LEMMA FlatExists ==
    \A T : \A ss \in Seq(Seq(T)) :
        /\ FlatTo(Flat(ss), ss, Len(ss))
        /\ \A i \in 1 .. Len(ss) : Flat(ss)[i] \in Seq(T)
<1> SUFFICES ASSUME NEW T, NEW ss \in Seq(Seq(T))
             PROVE  /\ FlatTo(Flat(ss), ss, Len(ss))
                    /\ \A i \in 1 .. Len(ss) : Flat(ss)[i] \in Seq(T)
  OBVIOUS
<1> DEFINE n == Len(ss)
           Next1(f, k) == [i \in 1 .. k + 1 |-> IF i = k + 1 THEN IF k = 0 THEN ss[1] ELSE f[k] \o ss[k + 1]
                                               ELSE f[i]]
           G == {k \in 0 .. n : \E f : FlatTo(f, ss, k)}
<1>1. n \in Nat /\ \A i \in 1 .. n : ss[i] \in Seq(T)
  OBVIOUS
<1>2. 0 \in G
  <2>1. FlatTo([i \in 1 .. 0 |-> 0], ss, 0)
    BY DEF FlatTo
  <2>. QED  BY <1>1, <2>1
<1>3. ASSUME NEW k \in 0 .. n - 1, k \in G PROVE k + 1 \in G
  <2>1. PICK f : FlatTo(f, ss, k)
    BY <1>3
  <2> DEFINE g == Next1(f, k)
  <2>2. \A i \in 1 .. k : f[i] = IF i = 1 THEN ss[i] ELSE f[i - 1] \o ss[i]
    BY <2>1 DEF FlatTo
  <2>3. ASSUME NEW i \in 1 .. k + 1 PROVE g[i] = IF i = 1 THEN ss[i] ELSE g[i - 1] \o ss[i]
    <3>1. CASE i = k + 1
      BY <3>1, <1>1
    <3>2. CASE i # k + 1 /\ i = 1
      BY <3>2, <2>2
    <3>3. CASE i # k + 1 /\ i # 1
      <4>1. i \in 1 .. k /\ i - 1 \in 1 .. k + 1 /\ i - 1 # k + 1
        BY <3>3
      <4>2. g[i] = f[i] /\ g[i - 1] = f[i - 1]
        BY <3>3, <4>1
      <4>. QED  BY <2>2, <3>3, <4>1, <4>2
    <3>. QED  BY <3>1, <3>2, <3>3
  <2>4. g = [i \in 1 .. k + 1 |-> g[i]]
    OBVIOUS
  <2> HIDE DEF g
  <2>5. FlatTo(g, ss, k + 1)
    BY <2>3, <2>4 DEF FlatTo
  <2>6. k + 1 \in 0 .. n
    BY <1>1
  <2>. QED  BY <2>5, <2>6
<1>4. n \in G
  <2>1. \A i \in 0 .. n : i \in G
    <3> HIDE DEF G, n
    <3>. QED  BY <1>1, <1>2, <1>3, Upward
  <2>2. n \in 0 .. n
    BY <1>1
  <2>. QED  BY <2>1, <2>2, Zenon
<1>5. FlatTo(Flat(ss), ss, n)
  BY <1>4, Zenon DEF Flat
<1> DEFINE f == Flat(ss)
           H == {0} \cup {i \in 1 .. n : f[i] \in Seq(T)}
<1>6. \A i \in 1 .. n : f[i] = IF i = 1 THEN ss[i] ELSE f[i - 1] \o ss[i]
  <2> HIDE DEF f
  <2>. QED  BY <1>5 DEF FlatTo, f
<1>7. ASSUME NEW i \in 0 .. n - 1, i \in H PROVE i + 1 \in H
  <2>1. i + 1 \in 1 .. n /\ i + 1 - 1 = i /\ ss[i + 1] \in Seq(T)
    BY <1>1
  <2>2. f[i + 1] = IF i = 0 THEN ss[i + 1] ELSE f[i] \o ss[i + 1]
    <3>1. f[i + 1] = IF i + 1 = 1 THEN ss[i + 1] ELSE f[i + 1 - 1] \o ss[i + 1]
      BY <1>6, <2>1
    <3>. QED  BY <3>1, <2>1
  <2>3. CASE i = 0
    BY <2>1, <2>2, <2>3
  <2>4. CASE i # 0
    <3>1. f[i] \in Seq(T)
      BY <1>7, <2>4
    <3>2. f[i] \o ss[i + 1] \in Seq(T)
      BY <2>1, <3>1, ConcatProperties
    <3>. QED  BY <2>1, <2>2, <2>4, <3>2
  <2>. QED  BY <2>3, <2>4
<1>8. \A i \in 0 .. n : i \in H
  <2>1. 0 \in H
    OBVIOUS
  <2> HIDE DEF H, n
  <2>. QED  BY <1>1, <1>7, <2>1, Upward
<1>9. \A i \in 1 .. n : f[i] \in Seq(T)
  BY <1>8
<1>. QED  BY <1>5, <1>9

(* The flattening of rows: one more row is put behind what there is.        *)
LEMMA FlattenFacts ==
    \A T : \A ss \in Seq(Seq(T)) : \A x \in Seq(T) :
        /\ FlattenSeq(ss) \in Seq(T)
        /\ FlattenSeq(<<>>) = <<>>
        /\ FlattenSeq(Append(ss, x)) = FlattenSeq(ss) \o x
<1> SUFFICES ASSUME NEW T, NEW ss \in Seq(Seq(T)), NEW x \in Seq(T)
             PROVE  /\ FlattenSeq(ss) \in Seq(T)
                    /\ FlattenSeq(<<>>) = <<>>
                    /\ FlattenSeq(Append(ss, x)) = FlattenSeq(ss) \o x
  OBVIOUS
<1>1. \A r : FlattenSeq(r) = IF Len(r) = 0 THEN r ELSE Flat(r)[Len(r)]
  BY Zenon DEF FlattenSeq, Flat, FlatTo
<1> DEFINE n == Len(ss)
           tt == Append(ss, x)
           f == Flat(ss)
           g == Flat(tt)
<1>2. n \in Nat /\ Len(tt) = n + 1 /\ tt \in Seq(Seq(T)) /\ tt[n + 1] = x
      /\ \A i \in 1 .. n : tt[i] = ss[i]
  OBVIOUS
<1>3. FlatTo(f, ss, n) /\ \A i \in 1 .. n : f[i] \in Seq(T)
  BY FlatExists
<1>4. FlatTo(g, tt, n + 1)
  <2>1. FlatTo(g, tt, Len(tt))
    <3> HIDE DEF tt
    <3>. QED  BY <1>2, FlatExists
  <2>. QED  BY <1>2, <2>1
<1> HIDE DEF f, g, tt
<1>5. /\ \A i \in 1 .. n : f[i] = IF i = 1 THEN ss[i] ELSE f[i - 1] \o ss[i]
      /\ \A i \in 1 .. n + 1 : g[i] = IF i = 1 THEN tt[i] ELSE g[i - 1] \o tt[i]
  BY <1>3, <1>4 DEF FlatTo
<1>10. \A i \in 1 .. n + 1 : g[i] = IF i = 1 THEN tt[i] ELSE g[i - 1] \o tt[i]
  BY <1>5
<1> DEFINE H == {0} \cup {i \in 1 .. n : f[i] = g[i]}
<1>6. ASSUME NEW i \in 0 .. n - 1, i \in H PROVE i + 1 \in H
  <2>1. i + 1 \in 1 .. n /\ i + 1 \in 1 .. n + 1 /\ i + 1 - 1 = i /\ tt[i + 1] = ss[i + 1]
    BY <1>2
  <2>2. /\ f[i + 1] = IF i = 0 THEN ss[i + 1] ELSE f[i] \o ss[i + 1]
        /\ g[i + 1] = IF i = 0 THEN tt[i + 1] ELSE g[i] \o tt[i + 1]
    <3>1. /\ f[i + 1] = IF i + 1 = 1 THEN ss[i + 1] ELSE f[i + 1 - 1] \o ss[i + 1]
          /\ g[i + 1] = IF i + 1 = 1 THEN tt[i + 1] ELSE g[i + 1 - 1] \o tt[i + 1]
      BY <1>5, <2>1
    <3>. QED  BY <3>1, <2>1
  <2>. QED  BY <1>6, <2>1, <2>2
<1>7. \A i \in 0 .. n : i \in H
  <2>1. 0 \in H
    OBVIOUS
  <2> HIDE DEF H, n
  <2>. QED  BY <1>2, <1>6, <2>1, Upward
<1>8. CASE n = 0
  <2>1. ss = <<>> /\ FlattenSeq(ss) = <<>> /\ FlattenSeq(<<>>) = <<>>
    BY <1>1, <1>8
  <2>2. FlattenSeq(tt) = x
    <3>1. g[1] = x
      BY <1>2, <1>5, <1>8
    <3>2. Len(tt) = 1 /\ Len(tt) # 0
      BY <1>2, <1>8
    <3>. QED  BY <1>1, <3>1, <3>2, Zenon DEF g
  <2>3. <<>> \in Seq(T) /\ <<>> \o x = x
    OBVIOUS
  <2>. QED  BY <2>1, <2>2, <2>3, Zenon DEF tt
<1>9. CASE n # 0
  <2>1. n \in 1 .. n /\ n + 1 \in 1 .. n + 1 /\ n + 1 # 1 /\ n + 1 - 1 = n
    BY <1>2, <1>9
  <2>2. FlattenSeq(ss) = f[n] /\ f[n] = g[n] /\ f[n] \in Seq(T)
    BY <1>1, <1>3, <1>7, <1>9, <2>1 DEF f
  <2>3. FlattenSeq(tt) = g[n + 1]
    BY <1>1, <1>2, <2>1 DEF g
  <2>4. g[n + 1] = g[n] \o x
    <3>1. ASSUME NEW k \in 0 .. n, k # 0 PROVE g[k + 1] = g[k] \o tt[k + 1]
      <4>1. k + 1 \in 1 .. n + 1 /\ k + 1 - 1 = k
        BY <1>2
      <4>2. g[k + 1] = IF k + 1 = 1 THEN tt[k + 1] ELSE g[k + 1 - 1] \o tt[k + 1]
        BY <1>5, <4>1
      <4>3. k + 1 # 1
        BY <3>1
      <4>. QED  BY <4>1, <4>2, <4>3
    <3>2. g[n + 1] = g[n] \o tt[n + 1]
      <4>1. n \in 0 .. n
        BY <1>2
      <4> HIDE DEF n
      <4>. QED  BY <1>9, <3>1, <4>1, Zenon
    <3>3. tt[n + 1] = x
      BY <1>2
    <3>. QED  BY <3>2, <3>3
  <2>5. FlattenSeq(<<>>) = <<>>
    BY <1>1
  <2>. QED  BY <2>2, <2>3, <2>4, <2>5 DEF tt
<1>. QED  BY <1>8, <1>9

\* Induction over rows, from the front: a set with the empty row in it that
\* is closed under one more element has all rows in it.
LEMMA RowInduction ==
    \A T : \A G :
        <<>> \in G /\ (\A s \in Seq(T) : \A x \in T : s \in G => Append(s, x) \in G)
        => \A s \in Seq(T) : s \in G
<1> SUFFICES ASSUME NEW T, NEW G, <<>> \in G, \A s \in Seq(T) : \A x \in T : s \in G => Append(s, x) \in G,
                    NEW a \in Seq(T)
             PROVE  a \in G
  OBVIOUS
<1> DEFINE Fore(k) == SubSeq(a, 1, k)
           n == Len(a)
           H == {k \in 0 .. n : Fore(k) \in G}
<1>1. n \in Nat
  OBVIOUS
<1>2. 0 \in H
  <2>1. Fore(0) = <<>>
    OBVIOUS
  <2> HIDE DEF Fore
  <2>. QED  BY <1>1, <2>1
<1>3. \A i \in 0 .. n - 1 : i \in H => i + 1 \in H
  <2> SUFFICES ASSUME NEW i \in 0 .. n - 1, Fore(i) \in G PROVE Fore(i + 1) \in G
    BY <1>1
  <2>1. Fore(i) \in Seq(T) /\ a[i + 1] \in T /\ Fore(i + 1) = Append(Fore(i), a[i + 1])
    OBVIOUS
  <2> HIDE DEF Fore
  <2>. QED  BY <2>1
<1>4. n \in H
  <2>1. \A i \in 0 .. n : i \in H
    <3> HIDE DEF H, n
    <3>. QED  BY <1>1, <1>2, <1>3, Upward
  <2>. QED  BY <1>1, <2>1
<1>5. Fore(n) = a
  OBVIOUS
<1>. QED  BY <1>4, <1>5

-----------------------------------------------------------------------------
(* Messages and their bytes.                                                *)

\* The messages there can be, and the final header.
Mails == [from : Sending, channel : 0 .. LastChannel, to : SUBSET Receivers, seqno : Nat]
Units == [message : Mails, unit : Nat]

\* A message has a header, and its units say whose they are.
LEMMA BytesFacts ==
    \A m \in Mails :
        /\ required_bytes(m) \in Nat /\ required_bytes(m) > 0
        /\ Bytes(m) \in Seq(Units) /\ Len(Bytes(m)) = required_bytes(m)
        /\ Bytes(m)[1].message = m
<1> SUFFICES ASSUME NEW m \in Mails
             PROVE  /\ required_bytes(m) \in Nat /\ required_bytes(m) > 0
                    /\ Bytes(m) \in Seq(Units) /\ Len(Bytes(m)) = required_bytes(m)
                    /\ Bytes(m)[1].message = m
  OBVIOUS
<1> DEFINE n == required_bytes(m)
<1>1. n \in Nat /\ n > 0
  <2>1. m.channel \in 0 .. LastChannel
    BY DEF Mails
  <2>2. m.channel # 0 => m.channel \in Channels
    BY <2>1, TransportAssumption DEF Channels
  <2>3. m.channel # 0 => Size[m.channel] \in Nat \ {0}
    BY <2>2, TransportAssumption
  <2>. QED  BY <2>3 DEF required_bytes
<1> HIDE DEF n
<1>2. \A i \in 1 .. n : [message |-> m, unit |-> i] \in Units
  BY <1>1 DEF Units
<1>3. Bytes(m) = [i \in 1 .. n |-> [message |-> m, unit |-> i]]
  BY DEF Bytes, n
<1>4. Bytes(m) \in [1 .. n -> Units]
  BY <1>2, <1>3
<1>5. Bytes(m) \in Seq(Units) /\ Len(Bytes(m)) = n
  BY <1>1, <1>4
<1>6. Bytes(m)[1].message = m
  <2>1. 1 \in 1 .. n
    BY <1>1
  <2>. QED  BY <1>3, <2>1
<1>. QED  BY <1>1, <1>5, <1>6 DEF n

\* The bytes of a row of messages: one message after the other.
LEMMA AllBytesFacts ==
    /\ AllBytes(<<>>) = <<>>
    /\ \A ms \in Seq(Mails) :
          /\ AllBytes(ms) \in Seq(Units)
          /\ \A m \in Mails : AllBytes(Append(ms, m)) = AllBytes(ms) \o Bytes(m)
    /\ \A m \in Mails : AllBytes(<<m>>) = Bytes(m)
<1> DEFINE R(ms) == [i \in 1 .. Len(ms) |-> Bytes(ms[i])]
<1>1. ASSUME NEW ms \in Seq(Mails) PROVE R(ms) \in Seq(Seq(Units)) /\ Len(R(ms)) = Len(ms)
  <2>1. \A i \in 1 .. Len(ms) : Bytes(ms[i]) \in Seq(Units)
    BY BytesFacts
  <2>2. R(ms) \in [1 .. Len(ms) -> Seq(Units)]
    BY <2>1
  <2>. QED  BY <2>2
<1>2. ASSUME NEW ms \in Seq(Mails), NEW m \in Mails
      PROVE  R(Append(ms, m)) = Append(R(ms), Bytes(m))
  <2> DEFINE a == Append(ms, m)
             n == Len(ms)
  <2>1. n \in Nat /\ Len(a) = n + 1 /\ a[n + 1] = m /\ \A i \in 1 .. n : a[i] = ms[i]
    OBVIOUS
  <2>2. a \in Seq(Mails)
    OBVIOUS
  <2>3. R(a) \in Seq(Seq(Units)) /\ Len(R(a)) = n + 1
    <3> HIDE DEF a, R
    <3>. QED  BY <1>1, <2>1, <2>2
  <2>4. R(ms) \in Seq(Seq(Units)) /\ Len(R(ms)) = n
    BY <1>1
  <2>5. /\ \A i \in 1 .. n : R(a)[i] = R(ms)[i]
        /\ R(a)[n + 1] = Bytes(m)
    <3> HIDE DEF a
    <3>. QED  BY <2>1
  <2>6. Bytes(m) \in Seq(Units)
    BY <1>2, BytesFacts
  <2> HIDE DEF R, a
  <2>7. R(a) = Append(R(ms), Bytes(m))
    <3> DEFINE x == R(a)
               y == R(ms)
               z == Bytes(m)
               S == Seq(Units)
    <3>1. x \in Seq(S) /\ y \in Seq(S) /\ Len(x) = n + 1 /\ Len(y) = n /\ z \in S
          /\ x[n + 1] = z /\ \A i \in 1 .. n : x[i] = y[i]
      BY <2>3, <2>4, <2>5, <2>6
    <3> HIDE DEF x, y, z, S
    <3>2. x = Append(y, z)
      BY <3>1
    <3>. QED  BY <3>2 DEF x, y, z
  <2>. QED  BY <2>7 DEF a
<1>3. \A ms : AllBytes(ms) = FlattenSeq(R(ms))
  BY DEF AllBytes
<1>4. AllBytes(<<>>) = <<>>
  <2>1. R(<<>>) = <<>>
    OBVIOUS
  <2>2. FlattenSeq(<<>>) = <<>>
    <3>1. <<>> \in Seq(Seq({})) /\ <<>> \in Seq({})
      OBVIOUS
    <3>. QED  BY <3>1, FlattenFacts
  <2>. QED  BY <1>3, <2>1, <2>2
<1> HIDE DEF R
<1>5. ASSUME NEW ms \in Seq(Mails)
      PROVE  /\ AllBytes(ms) \in Seq(Units)
             /\ \A m \in Mails : AllBytes(Append(ms, m)) = AllBytes(ms) \o Bytes(m)
  <2>1. <<>> \in Seq(Units)
    OBVIOUS
  <2>. QED  BY <1>1, <1>2, <1>3, <2>1, BytesFacts, FlattenFacts
<1>6. ASSUME NEW m \in Mails PROVE AllBytes(<<m>>) = Bytes(m)
  <2>1. <<>> \in Seq(Mails) /\ Append(<<>>, m) = <<m>>
    OBVIOUS
  <2>2. AllBytes(<<m>>) = <<>> \o Bytes(m)
    BY <1>4, <1>5, <2>1
  <2>. QED  BY <2>2, BytesFacts
<1>. QED  BY <1>4, <1>5, <1>6

\* The bytes of two rows of messages, one behind the other.
LEMMA AllBytesConcatenated ==
    \A a, b \in Seq(Mails) : AllBytes(a \o b) = AllBytes(a) \o AllBytes(b)
<1> SUFFICES ASSUME NEW a \in Seq(Mails) PROVE \A b \in Seq(Mails) : AllBytes(a \o b) = AllBytes(a) \o AllBytes(b)
  OBVIOUS
<1> DEFINE G == {b \in Seq(Mails) : AllBytes(a \o b) = AllBytes(a) \o AllBytes(b)}
<1>1. <<>> \in G
  <2>1. a \o <<>> = a /\ <<>> \in Seq(Mails)
    OBVIOUS
  <2>2. AllBytes(a) \in Seq(Units) /\ AllBytes(<<>>) = <<>>
    BY AllBytesFacts
  <2>. QED  BY <2>1, <2>2
<1>2. ASSUME NEW b \in Seq(Mails), NEW x \in Mails, b \in G PROVE Append(b, x) \in G
  <2>1. Append(b, x) \in Seq(Mails) /\ a \o b \in Seq(Mails) /\ a \o Append(b, x) = Append(a \o b, x)
    BY AppendIsConcat, ConcatAssociative
  <2>2. AllBytes(a \o Append(b, x)) = AllBytes(a \o b) \o Bytes(x)
    BY <2>1, AllBytesFacts
  <2>3. AllBytes(Append(b, x)) = AllBytes(b) \o Bytes(x)
    BY AllBytesFacts
  <2>4. AllBytes(a) \in Seq(Units) /\ AllBytes(b) \in Seq(Units) /\ Bytes(x) \in Seq(Units)
    BY AllBytesFacts, BytesFacts
  <2>5. (AllBytes(a) \o AllBytes(b)) \o Bytes(x) = AllBytes(a) \o (AllBytes(b) \o Bytes(x))
    BY <2>4, ConcatAssociative, SMTT(30)
  <2>. QED  BY <1>2, <2>1, <2>2, <2>3, <2>5
<1>. QED
  <2>1. \A b \in Seq(Mails) : b \in G
    <3> HIDE DEF G
    <3>. QED  BY <1>1, <1>2, RowInduction
  <2>. QED  BY <2>1

\* Rows one behind the other, in whatever groups.
LEMMA Regroup ==
    \A T : \A a, b, c \in Seq(T) :
        /\ (a \o b) \o c = a \o (b \o c)
        /\ a \o b \in Seq(T)
        /\ a \o <<>> = a /\ <<>> \o a = a
<1> SUFFICES ASSUME NEW T, NEW a \in Seq(T), NEW b \in Seq(T), NEW c \in Seq(T)
             PROVE  /\ (a \o b) \o c = a \o (b \o c)
                    /\ a \o b \in Seq(T)
                    /\ a \o <<>> = a /\ <<>> \o a = a
  BY Zenon
<1>1. (a \o b) \o c = a \o (b \o c)
  BY ConcatAssociative
<1>2. a \o b \in Seq(T) /\ a \o <<>> = a /\ <<>> \o a = a
  OBVIOUS
<1>. QED  BY <1>1, <1>2

\* How long they are.
LEMMA Lengths ==
    \A T : \A a, b \in Seq(T) :
        Len(a \o b) = Len(a) + Len(b) /\ Len(a) \in Nat /\ Len(b) \in Nat
BY ConcatProperties

CutFront(x, y, r, z) ==
    x \o r = y \o z /\ Len(y) <= Len(x)
    => /\ SubSeq(x, 1, Len(y)) = y
       /\ SubSeq(x, Len(y) + 1, Len(x)) \o r = z

\* A row that begins with another one: what the other one has, and the rest.
LEMMA Prefixed == \A T : \A x, y, r, z \in Seq(T) : CutFront(x, y, r, z)
<1> SUFFICES ASSUME NEW T, NEW x \in Seq(T), NEW y \in Seq(T), NEW r \in Seq(T), NEW z \in Seq(T)
             PROVE  x \o r = y \o z /\ Len(y) <= Len(x)
                    => /\ SubSeq(x, 1, Len(y)) = y
                       /\ SubSeq(x, Len(y) + 1, Len(x)) \o r = z
  BY Zenon DEF CutFront
<1>0. SUFFICES ASSUME x \o r = y \o z, Len(y) <= Len(x)
             PROVE  /\ SubSeq(x, 1, Len(y)) = y
                    /\ SubSeq(x, Len(y) + 1, Len(x)) \o r = z
  BY Zenon
<1> DEFINE u == SubSeq(x, 1, Len(y))
           v == SubSeq(x, Len(y) + 1, Len(x))
<1>1. Len(x) \in Nat /\ Len(y) \in Nat /\ Len(y) <= Len(x)
  BY <1>0
<1>2. u \in Seq(T) /\ v \in Seq(T) /\ Len(u) = Len(y)
  BY <1>1
<1>3. u \o v = x
  <2>1. Len(y) \in 0 .. Len(x) /\ Len(x) \in Len(y) .. Len(x) /\ 1 \in 1 .. Len(x) + 1 /\ 1 - 1 = 0
    BY <1>1
  <2>2. u \o v = SubSeq(x, 1, Len(x))
    BY <2>1, ConcatAdjacentSubSeq
  <2>. QED  BY <2>2, SubSeqFull
<1>4. \A i \in 1 .. Len(y) : u[i] = (x \o r)[i] /\ y[i] = (y \o z)[i]
  BY <1>1
<1>5. u = y
  <2> HIDE DEF u
  <2>. QED  BY <1>0, <1>2, <1>4, SeqEqual
<1> HIDE DEF u, v
<1>6. y \o (v \o r) = y \o z
  <2>0. u \in Seq(T) /\ v \in Seq(T) /\ r \in Seq(T)
    BY <1>2
  <2>1. (u \o v) \o r = u \o (v \o r)
    BY <2>0, ConcatAssociative, SMTT(30)
  <2>2. (u \o v) \o r = x \o r
    BY <1>3, Zenon
  <2>3. u \o (v \o r) = y \o z
    BY <1>0, <2>1, <2>2, Zenon
  <2>. QED  BY <1>5, <2>3, Zenon
<1>7. v \o r = z
  <2>1. v \o r \in Seq(T)
    BY <1>2
  <2>. QED  BY <1>6, <2>1, ConcatSimplifications
<1>. QED  BY <1>2, <1>5, <1>7 DEF u, v

-----------------------------------------------------------------------------
(* What is cut out of bytes.                                                *)

Rest(bytes, i) == SubSeq(bytes, i, Len(bytes))
\* What is cut out from i on, if c says it for the places behind.
CutAt(c, bytes, i) ==
    IF try_read(Rest(bytes, i))
    THEN LET r == c[i + required_bytes(bytes[i].message)]
         IN  [messages |-> <<Peel(Rest(bytes, i))>> \o r.messages, left |-> r.left]
    ELSE [messages |-> <<>>, left |-> Rest(bytes, i)]
CutFrom(c, bytes, k) == c = [i \in k .. Len(bytes) + 1 |-> CutAt(c, bytes, i)]
Cut(bytes) == CHOOSE c : CutFrom(c, bytes, 1)

\* The rest of the rest.
LEMMA RestOfRest ==
    ASSUME NEW T, NEW p \in Seq(T), NEW i \in 1 .. Len(p), NEW n \in 1 .. Len(p) + 1 - i
    PROVE  /\ Rest(p, i) \in Seq(T) /\ Len(Rest(p, i)) = Len(p) + 1 - i
           /\ SubSeq(Rest(p, i), n + 1, Len(Rest(p, i))) = Rest(p, i + n)
<1> DEFINE q == Rest(p, i)
           u == SubSeq(q, n + 1, Len(q))
           v == Rest(p, i + n)
<1>1. q \in Seq(T) /\ Len(q) = Len(p) + 1 - i
  BY DEF Rest
<1>2. \A k \in 1 .. Len(p) + 1 - i : q[k] = p[i + k - 1]
  BY DEF Rest
<1>3. v \in Seq(T) /\ Len(v) = Len(p) + 1 - (i + n)
  BY DEF Rest
<1>4. \A k \in 1 .. Len(p) + 1 - (i + n) : v[k] = p[i + n + k - 1]
  BY DEF Rest
<1> HIDE DEF q, v
<1>5. u \in Seq(T) /\ Len(u) = Len(q) - n
  BY <1>1
<1>6. \A k \in 1 .. Len(q) - n : u[k] = q[n + k]
  BY <1>1
<1> HIDE DEF u
<1>7. ASSUME NEW k \in 1 .. Len(u) PROVE u[k] = v[k]
  <2>1. k \in 1 .. Len(q) - n /\ n + k \in 1 .. Len(p) + 1 - i /\ k \in 1 .. Len(p) + 1 - (i + n)
        /\ i + (n + k) - 1 = i + n + k - 1
    BY <1>1, <1>5
  <2>. QED  BY <1>2, <1>4, <1>6, <2>1
<1>8. Len(u) = Len(v)
  BY <1>1, <1>3, <1>5
<1>9. u = v
  BY <1>3, <1>5, <1>7, <1>8, SeqEqual
<1>. QED  BY <1>1, <1>9 DEF q, u, v

\* Behind a message that can be read there is the rest.
LEMMA ReadAhead ==
    \A p \in Seq(Units) : \A i \in 1 .. Len(p) + 1 : try_read(Rest(p, i)) =>
        /\ i + required_bytes(p[i].message) \in i + 1 .. Len(p) + 1
        /\ i <= Len(p) /\ Rest(p, i)[1] = p[i]
<1> SUFFICES ASSUME NEW p \in Seq(Units), NEW i \in 1 .. Len(p) + 1, try_read(Rest(p, i))
             PROVE  /\ i + required_bytes(p[i].message) \in i + 1 .. Len(p) + 1
                    /\ i <= Len(p) /\ Rest(p, i)[1] = p[i]
  OBVIOUS
<1> DEFINE q == Rest(p, i)
<1>1. q # <<>> /\ Len(q) >= required_bytes(q[1].message)
  BY DEF try_read
<1>2. i <= Len(p)
  <2>1. i = Len(p) + 1 => q = <<>>
    BY DEF Rest
  <2>. QED  BY <1>1, <2>1
<1>3. Len(q) = Len(p) + 1 - i /\ q[1] = p[i]
  BY <1>2 DEF Rest
<1> HIDE DEF q
<1>4. p[i] \in Units
  BY <1>2
<1>5. p[i].message \in Mails
  BY <1>4 DEF Units
<1>6. required_bytes(p[i].message) \in Nat /\ required_bytes(p[i].message) > 0
  BY <1>5, BytesFacts
<1> DEFINE n == required_bytes(p[i].message)
<1>7. n \in Nat /\ n > 0 /\ n <= Len(p) + 1 - i
  BY <1>1, <1>3, <1>6
<1> HIDE DEF n
<1>8. i + n \in i + 1 .. Len(p) + 1
  BY <1>2, <1>7
<1>. QED  BY <1>2, <1>3, <1>8 DEF n, q

\* The recursion of Carve is defined.
LEMMA CutExists ==
    \A p \in Seq(Units) :
        /\ \A i \in 1 .. Len(p) + 1 : Cut(p)[i] = CutAt(Cut(p), p, i)
        /\ Carve(p) = Cut(p)[1]
<1> SUFFICES ASSUME NEW p \in Seq(Units)
             PROVE  /\ \A i \in 1 .. Len(p) + 1 : Cut(p)[i] = CutAt(Cut(p), p, i)
                    /\ Carve(p) = Cut(p)[1]
  OBVIOUS
<1> DEFINE n == Len(p)
           G == {k \in 0 .. n : \E c : CutFrom(c, p, n + 1 - k)}
<1>1. n \in Nat
  OBVIOUS
<1>2. ASSUME NEW i \in 1 .. n + 1, NEW c, NEW d,
             \A j \in i + 1 .. n + 1 : c[j] = d[j]
      PROVE  CutAt(c, p, i) = CutAt(d, p, i)
  <2>1. CASE try_read(Rest(p, i))
    <3>1. i + required_bytes(p[i].message) \in i + 1 .. n + 1
      BY <2>1, ReadAhead
    <3>2. c[i + required_bytes(p[i].message)] = d[i + required_bytes(p[i].message)]
      BY <1>2, <3>1
    <3>. QED  BY <3>2 DEF CutAt
  <2>2. CASE ~ try_read(Rest(p, i))
    BY <2>2 DEF CutAt
  <2>. QED  BY <2>1, <2>2
<1>3. ASSUME NEW a \in 1 .. n + 1, NEW c, \A i \in a + 1 .. n + 1 : c[i] = CutAt(c, p, i)
      PROVE  \E d : CutFrom(d, p, a)
  <2> DEFINE d == [i \in a .. n + 1 |-> IF i = a THEN CutAt(c, p, a) ELSE c[i]]
  <2>1. \A j \in a + 1 .. n + 1 : d[j] = c[j]
    BY <1>1
  <2>2. ASSUME NEW i \in a .. n + 1 PROVE d[i] = CutAt(d, p, i)
    <3>0. i \in 1 .. n + 1 /\ \A j \in i + 1 .. n + 1 : j \in a + 1 .. n + 1
      BY <1>1
    <3>1. \A j \in i + 1 .. n + 1 : c[j] = d[j]
      BY <2>1, <3>0
    <3>2. CutAt(c, p, i) = CutAt(d, p, i)
      <4> HIDE DEF d, n
      <4>. QED  BY <1>2, <3>0, <3>1
    <3>3. CASE i = a
      BY <3>2, <3>3
    <3>4. CASE i # a
      <4>1. i \in a + 1 .. n + 1
        BY <3>4
      <4>. QED  BY <1>3, <2>1, <3>2, <4>1
    <3>. QED  BY <3>3, <3>4
  <2>3. d = [i \in a .. n + 1 |-> d[i]]
    OBVIOUS
  <2> HIDE DEF d
  <2>4. CutFrom(d, p, a)
    BY <2>2, <2>3 DEF CutFrom
  <2>. QED  BY <2>4
<1>4. 0 \in G
  <2>1. \A i \in n + 1 + 1 .. n + 1 : FALSE
    BY <1>1
  <2>2. \E d : CutFrom(d, p, n + 1)
    BY <1>1, <1>3, <2>1
  <2>. QED  BY <1>1, <2>2
<1>5. ASSUME NEW k \in 0 .. n - 1, k \in G PROVE k + 1 \in G
  <2> DEFINE a == n + 1 - (k + 1)
  <2>1. a \in 1 .. n + 1 /\ n + 1 - k = a + 1 /\ k + 1 \in 0 .. n
    BY <1>1
  <2>2. PICK c : CutFrom(c, p, n + 1 - k)
    BY <1>5
  <2> HIDE DEF a
  <2>3. \A i \in a + 1 .. n + 1 : c[i] = CutAt(c, p, i)
    BY <2>1, <2>2 DEF CutFrom
  <2>4. \E d : CutFrom(d, p, a)
    <3> HIDE DEF n
    <3>. QED  BY <1>3, <2>1, <2>3
  <2>. QED  BY <2>1, <2>4 DEF a
<1>6. \E c : CutFrom(c, p, 1)
  <2>1. \A i \in 0 .. n : i \in G
    <3> HIDE DEF G, n
    <3>. QED  BY <1>1, <1>4, <1>5, Upward
  <2>2. n \in G /\ n + 1 - n = 1
    BY <1>1, <2>1
  <2>. QED  BY <2>2
<1>7. CutFrom(Cut(p), p, 1)
  BY <1>6, Zenon DEF Cut
<1>8. Carve(p) = Cut(p)[1]
  BY Zenon DEF Carve, Cut, CutFrom, CutAt, Rest
<1>. QED  BY <1>7, <1>8 DEF CutFrom

\* x is what is cut out of bytes that are those of ms, but for the last ones, r.
CutsInto(x, r, ms) ==
    \E a, b \in Seq(Mails) :
        /\ ms = a \o b /\ x.messages = a
        /\ x.left \in Seq(Units) /\ x.left \o r = AllBytes(b)
        /\ r = <<>> => b = <<>>

\* Whatever is cut out of the bytes of t is what belongs there.
CutAhead(p, r, t) ==
    \A j \in 1 .. Len(p) + 1 : Rest(p, j) \o r = AllBytes(t) => CutsInto(Cut(p)[j], r, t)

\* One message, and what is behind it.
LEMMA CutStep ==
    ASSUME NEW p \in Seq(Units), NEW r \in Seq(Units), NEW i \in 1 .. Len(p) + 1,
           NEW m \in Mails, NEW t \in Seq(Mails), CutAhead(p, r, t)
    PROVE  Rest(p, i) \o r = Bytes(m) \o AllBytes(t) => CutsInto(Cut(p)[i], r, <<m>> \o t)
<1>0. SUFFICES ASSUME Rest(p, i) \o r = Bytes(m) \o AllBytes(t)
               PROVE  CutsInto(Cut(p)[i], r, <<m>> \o t)
  OBVIOUS
<1> DEFINE q == Rest(p, i)
           n == required_bytes(m)
           j == i + n
<1>1. q \in Seq(Units) /\ AllBytes(t) \in Seq(Units) /\ Bytes(m) \in Seq(Units) /\ Len(Bytes(m)) = n
      /\ n \in Nat /\ n > 0 /\ Bytes(m)[1].message = m
  <2>1. Rest(p, i) \in Seq(Units)
    BY DEF Rest
  <2>. QED  BY <2>1, AllBytesFacts, BytesFacts
<1>2. Cut(p)[i] = CutAt(Cut(p), p, i)
  BY CutExists
<1>3. ASSUME q # <<>> PROVE q[1].message = m
  <2>1. Len(q) > 0 /\ Len(Bytes(m)) > 0
    BY <1>1, <1>3
  <2> HIDE DEF q, n
  <2>2. (q \o r)[1] = q[1] /\ (Bytes(m) \o AllBytes(t))[1] = Bytes(m)[1]
    <3>1. 1 \in 1 .. Len(q) /\ 1 \in 1 .. Len(Bytes(m))
      BY <1>1, <2>1
    <3>2. \A T : \A a, b \in Seq(T) : 1 \in 1 .. Len(a) => (a \o b)[1] = a[1]
      OBVIOUS
    <3>. QED  BY <1>1, <3>1, <3>2
  <2>3. q[1] = Bytes(m)[1]
    BY <1>0, <2>2 DEF q
  <2>. QED  BY <1>1, <2>3
<1>4. CASE try_read(q)
  <2>1. q # <<>> /\ Len(q) >= n /\ q[1].message = m
    BY <1>3, <1>4 DEF try_read
  <2>2. j \in i + 1 .. Len(p) + 1 /\ i <= Len(p) /\ p[i].message = m
    BY <1>4, <2>1, ReadAhead
  <2>3. /\ SubSeq(q, 1, n) = Bytes(m)
        /\ SubSeq(q, n + 1, Len(q)) \o r = AllBytes(t)
    <3> DEFINE y == Bytes(m)
               z == AllBytes(t)
    <3>1. q \in Seq(Units) /\ y \in Seq(Units) /\ z \in Seq(Units) /\ Len(y) = n /\ Len(y) <= Len(q)
      BY <1>1, <2>1
    <3>2. q \o r = y \o z
      BY <1>0
    <3> HIDE DEF q, n, y, z
    <3>3. /\ SubSeq(q, 1, Len(y)) = y
          /\ SubSeq(q, Len(y) + 1, Len(q)) \o r = z
      <4>1. Len(y) <= Len(q)
        BY <3>1
      <4>2. q \in Seq(Units) /\ y \in Seq(Units) /\ z \in Seq(Units)
        BY <3>1
      <4>3. q \o r = y \o z /\ Len(y) <= Len(q)
           => /\ SubSeq(q, 1, Len(y)) = y
              /\ SubSeq(q, Len(y) + 1, Len(q)) \o r = z
        <5>1. CutFront(q, y, r, z)
          BY <4>2, Prefixed
        <5>. QED  BY <5>1, Zenon DEF CutFront
      <4>. QED  BY <3>2, <4>1, <4>3, Zenon
    <3>. QED  BY <3>1, <3>3 DEF y, z
  <2>4. SubSeq(q, n + 1, Len(q)) = Rest(p, j)
    <3>1. i \in 1 .. Len(p) /\ n \in 1 .. Len(p) + 1 - i
      BY <1>1, <2>2
    <3> HIDE DEF n
    <3>. QED  BY <3>1, RestOfRest
  <2>5. CutsInto(Cut(p)[j], r, t)
    <3>1. j \in 1 .. Len(p) + 1
      BY <2>2
    <3>. QED  BY <2>3, <2>4, <3>1 DEF CutAhead
  <2>6. PICK a \in Seq(Mails), b \in Seq(Mails) :
            /\ t = a \o b /\ Cut(p)[j].messages = a
            /\ Cut(p)[j].left \in Seq(Units) /\ Cut(p)[j].left \o r = AllBytes(b)
            /\ r = <<>> => b = <<>>
    BY <2>5 DEF CutsInto
  <2>7. Peel(q) = m
    BY <2>1, <2>3 DEF Peel
  <2>8. Cut(p)[i].messages = <<m>> \o a /\ Cut(p)[i].left = Cut(p)[j].left
    BY <1>2, <1>4, <2>2, <2>6, <2>7 DEF CutAt
  <2>9. <<m>> \o a \in Seq(Mails) /\ <<m>> \o t = (<<m>> \o a) \o b
    <3>1. <<m>> \in Seq(Mails)
      OBVIOUS
    <3>2. <<m>> \o a \in Seq(Mails) /\ (<<m>> \o a) \o b = <<m>> \o (a \o b)
      BY <3>1, Regroup, SMTT(30)
    <3>3. t = a \o b
      BY <2>6
    <3>. QED  BY <3>2, <3>3, Zenon
  <2>. QED  BY <2>6, <2>8, <2>9 DEF CutsInto
<1>5. CASE ~ try_read(q)
  <2>1. Cut(p)[i].messages = <<>> /\ Cut(p)[i].left = q
    BY <1>2, <1>5 DEF CutAt
  <2>2. <<m>> \o t \in Seq(Mails) /\ <<>> \in Seq(Mails) /\ <<m>> \o t = <<>> \o (<<m>> \o t)
    OBVIOUS
  <2>3. AllBytes(<<m>> \o t) = Bytes(m) \o AllBytes(t)
    <3>1. <<m>> \in Seq(Mails)
      OBVIOUS
    <3>2. AllBytes(<<m>> \o t) = AllBytes(<<m>>) \o AllBytes(t)
      BY <3>1, AllBytesConcatenated
    <3>. QED  BY <3>2, AllBytesFacts
  <2>4. r # <<>>
    <3> SUFFICES ASSUME r = <<>> PROVE FALSE
      OBVIOUS
    <3>1. q = Bytes(m) \o AllBytes(t)
      BY <1>0, <1>1, Regroup
    <3>2. Len(q) >= n /\ q # <<>>
      <4>1. Len(Bytes(m) \o AllBytes(t)) = Len(Bytes(m)) + Len(AllBytes(t)) /\ Len(AllBytes(t)) \in Nat
        BY <1>1, Lengths
      <4> HIDE DEF q, n
      <4>2. Len(q) >= n
        BY <1>1, <3>1, <4>1
      <4>3. Len(q) # 0
        BY <1>1, <4>2
      <4>. QED  BY <4>2, <4>3
    <3>. QED  BY <1>3, <1>5, <3>2 DEF try_read
  <2> DEFINE b == <<m>> \o t
  <2>5. q \o r = AllBytes(b)
    BY <1>0, <2>3
  <2>6. b \in Seq(Mails) /\ <<>> \in Seq(Mails) /\ b = <<>> \o b /\ q \in Seq(Units)
    BY <1>1, <2>2
  <2> HIDE DEF b, q
  <2>7. CutsInto(Cut(p)[i], r, b)
    BY <2>1, <2>4, <2>5, <2>6, Zenon DEF CutsInto
  <2>. QED  BY <2>7 DEF b
<1>. QED  BY <1>4, <1>5

(* What is cut out of the bytes of some messages: those that are there as a *)
(* whole, in order, and the bytes left over belong to the others.           *)
LEMMA CarveFacts ==
    \A p, r \in Seq(Units) : \A ms \in Seq(Mails) :
        p \o r = AllBytes(ms) => CutsInto(Carve(p), r, ms)
<1> SUFFICES ASSUME NEW p \in Seq(Units), NEW r \in Seq(Units)
             PROVE  \A ms \in Seq(Mails) : p \o r = AllBytes(ms) => CutsInto(Carve(p), r, ms)
  BY Zenon
<1> DEFINE Holds(ms) == \A i \in 1 .. Len(p) + 1 : Rest(p, i) \o r = AllBytes(ms) => CutsInto(Cut(p)[i], r, ms)
<1>1. Holds(<<>>)
  <2> SUFFICES ASSUME NEW i \in 1 .. Len(p) + 1, Rest(p, i) \o r = <<>> PROVE CutsInto(Cut(p)[i], r, <<>>)
    BY AllBytesFacts
  <2> DEFINE q == Rest(p, i)
  <2>1. q \in Seq(Units)
    BY DEF Rest
  <2>2. q = <<>> /\ r = <<>>
    <3> HIDE DEF q
    <3>1. q \o r = <<>>
      BY DEF q
    <3>. QED  BY <2>1, <3>1, ConcatSimplifications
  <2>3. Cut(p)[i].messages = <<>> /\ Cut(p)[i].left = <<>>
    <3>1. Cut(p)[i] = CutAt(Cut(p), p, i)
      BY CutExists
    <3>2. ~ try_read(q)
      BY <2>2 DEF try_read
    <3>. QED  BY <2>2, <3>1, <3>2 DEF CutAt
  <2>4. <<>> \in Seq(Mails) /\ <<>> \in Seq(Units) /\ <<>> \o <<>> = <<>> /\ AllBytes(<<>>) = <<>>
    BY AllBytesFacts
  <2>. QED  BY <2>2, <2>3, <2>4 DEF CutsInto
<1>2. ASSUME NEW m \in Mails, NEW t \in Seq(Mails), Holds(t) PROVE Holds(<<m>> \o t)
  <2> SUFFICES ASSUME NEW i \in 1 .. Len(p) + 1, Rest(p, i) \o r = AllBytes(<<m>> \o t)
               PROVE  CutsInto(Cut(p)[i], r, <<m>> \o t)
    OBVIOUS
  <2>1. AllBytes(<<m>> \o t) = Bytes(m) \o AllBytes(t)
    <3>1. <<m>> \in Seq(Mails)
      OBVIOUS
    <3>2. AllBytes(<<m>> \o t) = AllBytes(<<m>>) \o AllBytes(t)
      BY <3>1, AllBytesConcatenated
    <3>. QED  BY <3>2, AllBytesFacts
  <2>2. Rest(p, i) \o r = Bytes(m) \o AllBytes(t)
    BY <2>1
  <2>3. CutAhead(p, r, t)
    BY <1>2 DEF CutAhead
  <2>. QED  BY <2>2, <2>3, CutStep
<1> HIDE DEF Holds
<1>3. ASSUME NEW ms \in Seq(Mails) PROVE Holds(ms)
  <2> DEFINE n == Len(ms)
             Back(k) == SubSeq(ms, n + 1 - k, n)
             G == {k \in 0 .. n : Holds(Back(k))}
  <2>1. n \in Nat /\ Back(0) = <<>> /\ Back(n) = ms
    OBVIOUS
  <2>2. 0 \in G
    <3> HIDE DEF Back
    <3>. QED  BY <1>1, <2>1
  <2>3. \A k \in 0 .. n - 1 : k \in G => k + 1 \in G
    <3> SUFFICES ASSUME NEW k \in 0 .. n - 1, Holds(Back(k)) PROVE Holds(Back(k + 1))
      BY <2>1
    <3>1. Back(k) \in Seq(Mails) /\ ms[n - k] \in Mails
      OBVIOUS
    <3>2. Back(k + 1) = <<ms[n - k]>> \o Back(k)
      <4>1. n - k \in 1 .. n /\ n \in n - k .. n /\ n + 1 - (k + 1) = n - k /\ n - k + 1 = n + 1 - k
        <5> HIDE DEF n
        <5>. QED  BY <2>1
      <4>2. SubSeq(ms, n - k, n) = <<ms[n - k]>> \o SubSeq(ms, n - k + 1, n)
        BY <4>1, SubSeqRecursiveFirst
      <4>. QED  BY <4>1, <4>2
    <3> HIDE DEF Back, n
    <3>. QED  BY <1>2, <3>1, <3>2
  <2>4. n \in G
    <3>1. \A k \in 0 .. n : k \in G
      <4> HIDE DEF G, n
      <4>. QED  BY <2>1, <2>2, <2>3, Upward
    <3>. QED  BY <2>1, <3>1
  <2>. QED  BY <2>1, <2>4
<1>4. 1 \in 1 .. Len(p) + 1 /\ Rest(p, 1) = p /\ Carve(p) = Cut(p)[1]
  BY CutExists, SubSeqFull DEF Rest
<1>. QED  BY <1>3, <1>4 DEF Holds

-----------------------------------------------------------------------------
(* The messages of one sender to one worker in one channel.                 *)

Mine(s, v, c) == {m \in Mails : m.from = s /\ m.channel = c /\ v \in m.to}
AllIn(ms, S) == \A i \in DOMAIN ms : ms[i] \in S

From(s) == {m \in Mails : m.from = s}
For(v) == {m \in Mails : v \in m.to}
In(c) == {m \in Mails : m.channel = c}

\* Picking by what a message says is picking from a set.
LEMMA OfAmong ==
    \A ms \in Seq(Mails) :
        /\ \A s, v, c : Of(ms, s, v, c) = Among(ms, Mine(s, v, c))
        /\ \A v : Selected(ms, {i \in DOMAIN ms : v \in ms[i].to}) = Among(ms, For(v))
        /\ \A c : Selected(ms, {i \in DOMAIN ms : ms[i].channel = c}) = Among(ms, In(c))
        /\ \A s : Selected(ms, {i \in DOMAIN ms : ms[i].from = s}) = Among(ms, From(s))
<1> SUFFICES ASSUME NEW ms \in Seq(Mails)
             PROVE  /\ \A s, v, c : Of(ms, s, v, c) = Among(ms, Mine(s, v, c))
                    /\ \A v : Selected(ms, {i \in DOMAIN ms : v \in ms[i].to}) = Among(ms, For(v))
                    /\ \A c : Selected(ms, {i \in DOMAIN ms : ms[i].channel = c}) = Among(ms, In(c))
                    /\ \A s : Selected(ms, {i \in DOMAIN ms : ms[i].from = s}) = Among(ms, From(s))
  BY Zenon
<1>1. \A i \in DOMAIN ms : ms[i] \in Mails
  OBVIOUS
<1>2. ASSUME NEW s, NEW v, NEW c PROVE Of(ms, s, v, c) = Among(ms, Mine(s, v, c))
  <2>1. {i \in DOMAIN ms : ms[i].from = s /\ ms[i].channel = c /\ v \in ms[i].to}
            = {i \in DOMAIN ms : ms[i] \in Mine(s, v, c)}
    BY <1>1 DEF Mine
  <2>. QED  BY <2>1 DEF Of, Among
<1>3. ASSUME NEW v PROVE Selected(ms, {i \in DOMAIN ms : v \in ms[i].to}) = Among(ms, For(v))
  <2>1. {i \in DOMAIN ms : v \in ms[i].to} = {i \in DOMAIN ms : ms[i] \in For(v)}
    BY <1>1 DEF For
  <2>. QED  BY <2>1 DEF Among
<1>4. ASSUME NEW c PROVE Selected(ms, {i \in DOMAIN ms : ms[i].channel = c}) = Among(ms, In(c))
  <2>1. {i \in DOMAIN ms : ms[i].channel = c} = {i \in DOMAIN ms : ms[i] \in In(c)}
    BY <1>1 DEF In
  <2>. QED  BY <2>1 DEF Among
<1>5. ASSUME NEW s PROVE Selected(ms, {i \in DOMAIN ms : ms[i].from = s}) = Among(ms, From(s))
  <2>1. {i \in DOMAIN ms : ms[i].from = s} = {i \in DOMAIN ms : ms[i] \in From(s)}
    BY <1>1 DEF From
  <2>. QED  BY <2>1 DEF Among
<1>. QED  BY <1>2, <1>3, <1>4, <1>5

\* What is picked of rows one behind the other, of no messages, of one, of none that fit.
LEMMA OfFacts ==
    /\ \A s, v, c : Of(<<>>, s, v, c) = <<>>
    /\ \A a, b \in Seq(Mails) : \A s, v, c :
          Of(a \o b, s, v, c) = Of(a, s, v, c) \o Of(b, s, v, c)
    /\ \A a \in Seq(Mails) : \A s, v, c : Of(a, s, v, c) \in Seq(Mails)
    /\ \A m \in Mails : \A s, v, c : Of(<<m>>, s, v, c) = IF m \in Mine(s, v, c) THEN <<m>> ELSE <<>>
    /\ \A a \in Seq(Mails) : \A S : AllIn(a, S) => \A s, v, c :
          S \cap Mine(s, v, c) = {} => Of(a, s, v, c) = <<>>
<1>0. \A ms \in Seq(Mails) : \A s, v, c : Of(ms, s, v, c) = Among(ms, Mine(s, v, c))
  BY OfAmong
<1>1. <<>> \in Seq(Mails)
  OBVIOUS
<1>2. ASSUME NEW s, NEW v, NEW c PROVE Of(<<>>, s, v, c) = <<>>
  <2>1. \A i \in DOMAIN <<>> : <<>>[i] \notin Mine(s, v, c)
    OBVIOUS
  <2>2. Among(<<>>, Mine(s, v, c)) = <<>>
    BY <1>1, <2>1, AmongCases
  <2>3. Of(<<>>, s, v, c) = Among(<<>>, Mine(s, v, c))
    BY <1>0, <1>1, Zenon
  <2>. QED  BY <2>2, <2>3, Zenon
<1>3. ASSUME NEW a \in Seq(Mails), NEW b \in Seq(Mails), NEW s, NEW v, NEW c
      PROVE  Of(a \o b, s, v, c) = Of(a, s, v, c) \o Of(b, s, v, c)
  <2>1. a \o b \in Seq(Mails)
    BY Regroup
  <2>2. Among(a \o b, Mine(s, v, c)) = Among(a, Mine(s, v, c)) \o Among(b, Mine(s, v, c))
    BY AmongConcatenated
  <2> DEFINE d == a \o b
  <2>3. d \in Seq(Mails)
    BY <2>1
  <2> HIDE DEF d
  <2>4. Of(d, s, v, c) = Among(d, Mine(s, v, c)) /\ Of(a, s, v, c) = Among(a, Mine(s, v, c))
        /\ Of(b, s, v, c) = Among(b, Mine(s, v, c))
    BY <1>0, <2>3
  <2>. QED  BY <2>2, <2>4, Zenon DEF d
<1>4. ASSUME NEW a \in Seq(Mails), NEW s, NEW v, NEW c PROVE Of(a, s, v, c) \in Seq(Mails)
  BY AmongCases, OfAmong
<1>5. ASSUME NEW m \in Mails, NEW s, NEW v, NEW c
      PROVE  Of(<<m>>, s, v, c) = IF m \in Mine(s, v, c) THEN <<m>> ELSE <<>>
  <2> DEFINE one == <<m>>
  <2>1. one \in Seq(Mails) /\ DOMAIN one = {1} /\ one[1] = m
    OBVIOUS
  <2> HIDE DEF one
  <2>2. Of(one, s, v, c) = Among(one, Mine(s, v, c))
    BY <2>1, OfAmong
  <2>3. CASE m \in Mine(s, v, c)
    <3>1. Among(one, Mine(s, v, c)) = one
      BY <2>1, <2>3, AmongCases
    <3>. QED  BY <2>2, <2>3, <3>1 DEF one
  <2>4. CASE m \notin Mine(s, v, c)
    <3>1. Among(one, Mine(s, v, c)) = <<>>
      BY <2>1, <2>4, AmongCases
    <3>. QED  BY <2>2, <2>4, <3>1 DEF one
  <2>. QED  BY <2>3, <2>4
<1>6. ASSUME NEW a \in Seq(Mails), NEW S, AllIn(a, S), NEW s, NEW v, NEW c, S \cap Mine(s, v, c) = {}
      PROVE  Of(a, s, v, c) = <<>>
  <2>1. \A i \in DOMAIN a : a[i] \notin Mine(s, v, c)
    BY <1>6 DEF AllIn
  <2>2. Among(a, Mine(s, v, c)) = <<>>
    BY <2>1, AmongCases
  <2>. QED  BY <2>2, OfAmong
<1>. QED  BY <1>2, <1>3, <1>4, <1>5, <1>6

\* What is picked of what was sorted out for the same worker, or channel.
LEMMA OfSorted ==
    \A a \in Seq(Mails) : \A s, v, c :
        /\ Of(Among(a, For(v)), s, v, c) = Of(a, s, v, c)
        /\ Of(Among(a, In(c)), s, v, c) = Of(a, s, v, c)
<1> SUFFICES ASSUME NEW a \in Seq(Mails), NEW s, NEW v, NEW c
             PROVE  /\ Of(Among(a, For(v)), s, v, c) = Of(a, s, v, c)
                    /\ Of(Among(a, In(c)), s, v, c) = Of(a, s, v, c)
  BY Zenon
<1>1. Among(a, For(v)) \in Seq(Mails) /\ Among(a, In(c)) \in Seq(Mails)
  BY AmongCases
<1>2. For(v) \cap Mine(s, v, c) = Mine(s, v, c) /\ In(c) \cap Mine(s, v, c) = Mine(s, v, c)
  BY DEF For, In, Mine
<1>3. /\ Among(Among(a, For(v)), Mine(s, v, c)) = Among(a, For(v) \cap Mine(s, v, c))
      /\ Among(Among(a, In(c)), Mine(s, v, c)) = Among(a, In(c) \cap Mine(s, v, c))
  BY AmongAmong
<1>4. /\ Of(Among(a, For(v)), s, v, c) = Among(Among(a, For(v)), Mine(s, v, c))
      /\ Of(Among(a, In(c)), s, v, c) = Among(Among(a, In(c)), Mine(s, v, c))
      /\ Of(a, s, v, c) = Among(a, Mine(s, v, c))
  BY <1>1, OfAmong
<1>. QED  BY <1>2, <1>3, <1>4

-----------------------------------------------------------------------------
(* Messages that are all of a kind.                                         *)

\* Rows of messages of a kind stay so when they grow or are sorted.
LEMMA AllInFacts ==
    /\ \A S : AllIn(<<>>, S)
    /\ \A a, b \in Seq(Mails) : \A S : AllIn(a, S) /\ AllIn(b, S) => AllIn(a \o b, S)
    /\ \A a \in Seq(Mails) : \A S, M : AllIn(a, S) => AllIn(Among(a, M), S)
    /\ \A a \in Seq(Mails) : \A M : AllIn(Among(a, M), M)
    /\ \A m \in Mails : \A S : m \in S => AllIn(<<m>>, S)
<1>1. \A S : AllIn(<<>>, S)
  BY DEF AllIn
<1>2. ASSUME NEW a \in Seq(Mails), NEW b \in Seq(Mails), NEW S, AllIn(a, S), AllIn(b, S)
      PROVE  AllIn(a \o b, S)
  <2> SUFFICES ASSUME NEW i \in DOMAIN (a \o b) PROVE (a \o b)[i] \in S
    BY DEF AllIn
  <2>1. \/ i \in DOMAIN a /\ (a \o b)[i] = a[i]
        \/ i - Len(a) \in DOMAIN b /\ (a \o b)[i] = b[i - Len(a)]
    OBVIOUS
  <2>. QED  BY <1>2, <2>1 DEF AllIn
<1>3. ASSUME NEW a \in Seq(Mails), NEW S, NEW M, AllIn(a, S) PROVE AllIn(Among(a, M), S)
  <2>1. \A k \in DOMAIN Among(a, M) : \E i \in DOMAIN a : a[i] = Among(a, M)[k]
    BY AmongFacts
  <2>. QED  BY <1>3, <2>1 DEF AllIn
<1>4. ASSUME NEW a \in Seq(Mails), NEW M PROVE AllIn(Among(a, M), M)
  BY AmongCases DEF AllIn
<1>5. ASSUME NEW m \in Mails, NEW S, m \in S PROVE AllIn(<<m>>, S)
  BY <1>5 DEF AllIn
<1>. QED  BY <1>1, <1>2, <1>3, <1>4, <1>5

\* A finite set in some order.
LEMMA SetToSeqFacts ==
    ASSUME NEW S, IsFiniteSet(S)
    PROVE  /\ Cardinality(S) \in Nat
           /\ SetToSeq(S) \in [1 .. Cardinality(S) -> S]
           /\ \A x \in S : \E i \in 1 .. Cardinality(S) : SetToSeq(S)[i] = x
           /\ \A i, j \in 1 .. Cardinality(S) : SetToSeq(S)[i] = SetToSeq(S)[j] => i = j
<1> DEFINE n == Cardinality(S)
           f == SetToSeq(S)
<1>1. n \in Nat /\ ExistsBijection(1 .. n, S)
  BY FS_CardinalityType
<1>2. PICK g : g \in Bijection(1 .. n, S)
  BY <1>1 DEF ExistsBijection
<1>3. g \in [1 .. n -> S] /\ IsInjective(g)
  BY <1>2 DEF Bijection, Injection, IsInjective
<1>4. f \in [1 .. n -> S] /\ IsInjective(f)
  BY <1>3 DEF SetToSeq
<1> HIDE DEF f
<1>5. f \in Injection(1 .. n, S)
  BY <1>4 DEF Injection, IsInjective
<1>6. f \in Surjection(1 .. n, S)
  <2>1. Cardinality(1 .. n) = n
    BY <1>1, FS_Interval
  <2> HIDE DEF n
  <2>. QED  BY <1>5, <2>1, FS_Injection DEF n
<1>7. \A x \in S : \E i \in 1 .. n : f[i] = x
  BY <1>6 DEF Surjection
<1>8. \A i, j \in 1 .. n : f[i] = f[j] => i = j
  BY <1>4 DEF IsInjective
<1>. QED  BY <1>1, <1>4, <1>7, <1>8 DEF f

\* What is picked of rows put one behind the other, if only one of them has it.
LEMMA OfFlatten ==
    \A ss \in Seq(Seq(Mails)) :
        /\ FlattenSeq(ss) \in Seq(Mails)
        /\ \A S : (\A i \in DOMAIN ss : AllIn(ss[i], S)) => AllIn(FlattenSeq(ss), S)
        /\ \A s, v, c : \A k \in DOMAIN ss :
              (\A i \in DOMAIN ss : i # k => Of(ss[i], s, v, c) = <<>>)
              => Of(FlattenSeq(ss), s, v, c) = Of(ss[k], s, v, c)
<1>0. \A ss \in Seq(Seq(Mails)) : FlattenSeq(ss) \in Seq(Mails)
  <2>1. <<>> \in Seq(Mails)
    OBVIOUS
  <2>. QED  BY <2>1, FlattenFacts
<1>1. ASSUME NEW S
      PROVE  \A ss \in Seq(Seq(Mails)) : (\A i \in DOMAIN ss : AllIn(ss[i], S)) => AllIn(FlattenSeq(ss), S)
  <2> DEFINE G == {ss \in Seq(Seq(Mails)) :
                      (\A i \in DOMAIN ss : AllIn(ss[i], S)) => AllIn(FlattenSeq(ss), S)}
  <2>1. <<>> \in G
    <3>1. FlattenSeq(<<>>) = <<>> /\ <<>> \in Seq(Seq(Mails))
      <4>1. <<>> \in Seq(Seq(Mails)) /\ <<>> \in Seq(Mails)
        OBVIOUS
      <4>. QED  BY <4>1, FlattenFacts
    <3>. QED  BY <3>1, AllInFacts
  <2>2. ASSUME NEW ss \in Seq(Seq(Mails)), NEW x \in Seq(Mails), ss \in G PROVE Append(ss, x) \in G
    <3> DEFINE tt == Append(ss, x)
    <3>1. tt \in Seq(Seq(Mails)) /\ Len(ss) + 1 \in DOMAIN tt /\ tt[Len(ss) + 1] = x
          /\ \A i \in DOMAIN ss : i \in DOMAIN tt /\ tt[i] = ss[i]
      OBVIOUS
    <3>2. FlattenSeq(tt) = FlattenSeq(ss) \o x /\ FlattenSeq(ss) \in Seq(Mails)
      BY FlattenFacts
    <3> HIDE DEF tt
    <3>3. ASSUME \A i \in DOMAIN tt : AllIn(tt[i], S) PROVE AllIn(FlattenSeq(tt), S)
      <4>1. AllIn(x, S) /\ \A i \in DOMAIN ss : AllIn(ss[i], S)
        BY <3>1, <3>3
      <4>2. AllIn(FlattenSeq(ss), S)
        BY <2>2, <4>1
      <4>. QED  BY <3>2, <4>1, <4>2, AllInFacts
    <3>. QED  BY <3>1, <3>3 DEF tt
  <2>3. \A ss \in Seq(Seq(Mails)) : ss \in G
    <3> HIDE DEF G
    <3>. QED  BY <2>1, <2>2, RowInduction
  <2>. QED  BY <2>3
<1>2. ASSUME NEW s, NEW v, NEW c
      PROVE  \A ss \in Seq(Seq(Mails)) :
                /\ (\A i \in DOMAIN ss : Of(ss[i], s, v, c) = <<>>) => Of(FlattenSeq(ss), s, v, c) = <<>>
                /\ \A k \in DOMAIN ss :
                      (\A i \in DOMAIN ss : i # k => Of(ss[i], s, v, c) = <<>>)
                      => Of(FlattenSeq(ss), s, v, c) = Of(ss[k], s, v, c)
  <2> DEFINE O(a) == Of(a, s, v, c)
             None(ss) == (\A i \in DOMAIN ss : O(ss[i]) = <<>>) => O(FlattenSeq(ss)) = <<>>
             One(ss) == \A k \in DOMAIN ss :
                           (\A i \in DOMAIN ss : i # k => O(ss[i]) = <<>>) => O(FlattenSeq(ss)) = O(ss[k])
             G == {ss \in Seq(Seq(Mails)) : None(ss) /\ One(ss)}
  <2>0. /\ O(<<>>) = <<>>
        /\ \A a, b \in Seq(Mails) : O(a \o b) = O(a) \o O(b)
        /\ \A a \in Seq(Mails) : O(a) \in Seq(Mails)
    BY OfFacts
  <2> HIDE DEF O
  <2>1. <<>> \in G
    <3>1. FlattenSeq(<<>>) = <<>> /\ <<>> \in Seq(Seq(Mails))
      <4>1. <<>> \in Seq(Seq(Mails)) /\ <<>> \in Seq(Mails)
        OBVIOUS
      <4>. QED  BY <4>1, FlattenFacts
    <3>. QED  BY <2>0, <3>1
  <2>2. ASSUME NEW ss \in Seq(Seq(Mails)), NEW x \in Seq(Mails), ss \in G PROVE Append(ss, x) \in G
    <3> DEFINE tt == Append(ss, x)
               n == Len(ss) + 1
    <3>1. tt \in Seq(Seq(Mails)) /\ n \in DOMAIN tt /\ tt[n] = x
          /\ \A i \in DOMAIN ss : i \in DOMAIN tt /\ i # n /\ tt[i] = ss[i]
      OBVIOUS
    <3>2. \A i \in DOMAIN tt : i = n \/ i \in DOMAIN ss
      OBVIOUS
    <3>3. FlattenSeq(tt) = FlattenSeq(ss) \o x /\ FlattenSeq(ss) \in Seq(Mails)
      BY FlattenFacts
    <3> HIDE DEF tt, n
    <3>4. O(FlattenSeq(tt)) = O(FlattenSeq(ss)) \o O(x)
      BY <2>0, <3>3
    <3>5. O(x) \in Seq(Mails) /\ O(FlattenSeq(ss)) \in Seq(Mails)
      BY <2>0, <3>3
    <3>6. None(tt)
      <4> SUFFICES ASSUME \A i \in DOMAIN tt : O(tt[i]) = <<>> PROVE O(FlattenSeq(tt)) = <<>>
        OBVIOUS
      <4>1. O(x) = <<>> /\ O(FlattenSeq(ss)) = <<>>
        BY <2>2, <3>1
      <4>. QED  BY <3>4, <4>1
    <3>7. One(tt)
      <4> SUFFICES ASSUME NEW k \in DOMAIN tt, \A i \in DOMAIN tt : i # k => O(tt[i]) = <<>>
                   PROVE  O(FlattenSeq(tt)) = O(tt[k])
        OBVIOUS
      <4>1. CASE k = n
        <5>1. O(FlattenSeq(ss)) = <<>>
          BY <2>2, <3>1, <4>1
        <5>. QED  BY <3>1, <3>4, <3>5, <4>1, <5>1
      <4>2. CASE k \in DOMAIN ss
        <5>1. O(FlattenSeq(ss)) = O(ss[k])
          BY <2>2, <3>1, <4>2
        <5>2. O(x) = <<>>
          BY <3>1, <4>2
        <5>. QED  BY <3>1, <3>4, <3>5, <4>2, <5>1, <5>2
      <4>. QED  BY <3>2, <4>1, <4>2
    <3>. QED  BY <3>1, <3>6, <3>7 DEF tt
  <2>3. \A ss \in Seq(Seq(Mails)) : ss \in G
    <3> HIDE DEF G
    <3>. QED  BY <2>1, <2>2, RowInduction
  <2>. QED  BY <2>3 DEF O
<1>. QED  BY <1>0, <1>1, <1>2

-----------------------------------------------------------------------------
(* The invariant of the data.                                               *)

Carrier(s) == IF medium = "ipc" THEN s ELSE Lead
InQ(s, v) == IF medium = "process" THEN <<Worker(s), Worker(v)>> ELSE <<Inbox, Worker(v)>>
OutQ(s) == <<Worker(s), ThreadOf(s)>>
Local(v, c) == IF c \in DOMAIN to_local[v] THEN to_local[v][c] ELSE <<>>
Flow == Carve(valid \o stream).messages
Through(t) == {m \in Mails : ThreadOf(m.from) = Thread(t)}
Dead == closed \in {"cut", "closed"}

Rows == Seq(Mails)

RowsTyped ==
    /\ queue \in [Queues -> Rows]
    /\ stash \in [Senders -> Rows] /\ writer \in [Senders -> Rows] /\ sent \in [Senders -> Rows]
    /\ staged \in [Receivers -> Rows] /\ received \in [Receivers -> [Channels -> Rows]]
    /\ valid \in Seq(Units) /\ stream \in Seq(Units)

\* Allocated channels, and those that have a queue.
LocalTyped ==
    /\ bound \in [Receivers -> 0 .. LastChannel]
    /\ DOMAIN to_local = Receivers /\ DOMAIN canaries = Receivers
    /\ \A v \in Receivers :
          /\ to_local[v] \in [DOMAIN to_local[v] -> Rows]
          /\ DOMAIN to_local[v] \subseteq 0 .. LastChannel
          /\ canaries[v] \subseteq DOMAIN to_local[v] \cap 1 .. bound[v]

SlabTyped == room \in Nat /\ shift \in Nat

\* Nothing but whole messages is on the way.
Whole == \E ms \in Rows : valid \o stream = AllBytes(ms)

\* Whose messages are where, and whom for.
QueuesLabelled ==
    /\ \A s \in Sending : \A q \in Outlets(s) : AllIn(queue[q], From(s))
    /\ \A v \in net.receivers : \A q \in Inlets(v) : AllIn(queue[q], For(v))
SendersLabelled ==
    /\ \A s \in Senders : AllIn(sent[s], From(s))
    /\ \A t \in Senders : AllIn(stash[t], Through(t)) /\ AllIn(writer[t], Through(t))
ReceiversLabelled ==
    \A v \in Receivers :
        /\ AllIn(staged[v], For(v))
        /\ \A c \in Channels : AllIn(received[v][c], For(v) \cap In(c))
        /\ \A c \in DOMAIN to_local[v] : AllIn(to_local[v][c], For(v) \cap In(c))

\* A send thread visits its own queues.
Owned == \A s \in Senders : todo[Thread(s)] \subseteq Handles(Thread(s))

\* A connection breaks after a panic.
CutFailed == closed = "cut" => Panicking(Thread(Lead))

\* Nothing comes to workers that are not there.
Absent == \A v \in Receivers \ net.receivers : \A c \in DOMAIN to_local[v] : to_local[v][c] = <<>>

\* Where the messages of s to v in c are, the farthest first.
InHand(s, v, c) == Of(received[v][c], s, v, c)
InLocal(s, v, c) == Of(Local(v, c), s, v, c)
InInlet(s, v, c) == Of(queue[InQ(s, v)], s, v, c)
InStage(s, v, c) == Of(staged[v], s, v, c)
InFlow(s, v, c) == Of(Flow, s, v, c)
InWriter(s, v, c) == Of(writer[Carrier(s)], s, v, c)
InStash(s, v, c) == Of(stash[Carrier(s)], s, v, c)
InOutlet(s, v, c) == Of(queue[OutQ(s)], s, v, c)
InSent(s, v, c) == Of(sent[s], s, v, c)

\* What has reached the connection, and what has not.
Join(a, b) == a \o b
Line(r, l, q, t, f) == Join(r, Join(l, Join(q, Join(t, f))))
Row(w, h, o) == Join(w, Join(h, o))

Down(s, v, c) ==
    IF medium = "process" THEN Line(InHand(s, v, c), InLocal(s, v, c), InInlet(s, v, c), <<>>, <<>>)
    ELSE Line(InHand(s, v, c), InLocal(s, v, c), InInlet(s, v, c), InStage(s, v, c), InFlow(s, v, c))
Up(s, v, c) ==
    IF medium = "process" THEN <<>>
    ELSE Row(InWriter(s, v, c), InStash(s, v, c), InOutlet(s, v, c))

\* The channel is not allocated yet, or has its queue.
Has(v, c) == c <= bound[v] => c \in DOMAIN to_local[v]

Keeps(s, v, c) ==
    Has(v, c) =>
        IF Dead THEN \E rest \in Rows : Join(Down(s, v, c), rest) = InSent(s, v, c)
        ELSE Join(Down(s, v, c), Up(s, v, c)) = InSent(s, v, c)

Kept == \A s \in Sending, v \in net.receivers, c \in Channels : Keeps(s, v, c)

\* Within a process there is no connection that could break.
Linked == Dead => medium # "process"

Labelled == QueuesLabelled /\ SendersLabelled /\ ReceiversLabelled
Shape == RowsTyped /\ LocalTyped /\ SlabTyped /\ Whole /\ Labelled /\ Linked
DataInv == Shape /\ Owned /\ CutFailed /\ Absent /\ Kept

-----------------------------------------------------------------------------
(* What a step does to the messages of s to v in c: what it pushes comes    *)
(* last, and the order stays.                                               *)
KeptStep(s, v, c) ==
    Has(v, c)' => /\ Has(v, c)
                  /\ \E x \in Rows :
                        /\ InSent(s, v, c)' = Join(InSent(s, v, c), x)
                        /\ \/ Dead /\ Dead' /\ Down(s, v, c)' = Down(s, v, c)
                           \/ /\ ~ Dead /\ Dead' /\ Down(s, v, c)' \in Rows
                              /\ \E rest \in Rows : Join(Down(s, v, c)', rest) = Join(Down(s, v, c), Up(s, v, c))
                           \/ /\ ~ Dead /\ ~ Dead'
                              /\ Join(Down(s, v, c)', Up(s, v, c)') = Join(Join(Down(s, v, c), Up(s, v, c)), x)

Flows == net' = net /\ Shape' /\ \A s \in Sending, v \in net.receivers, c \in Channels : KeptStep(s, v, c)

\* Rows can be joined in any order.
LEMMA JoinFacts ==
    /\ \A a, b \in Rows : Join(a, b) \in Rows
    /\ \A a, b, d \in Rows : Join(Join(a, b), d) = Join(a, Join(b, d))
    /\ \A a \in Rows : Join(<<>>, a) = a /\ Join(a, <<>>) = a
    /\ <<>> \in Rows
<1>1. \A a, b \in Rows : Join(a, b) \in Rows
  BY Regroup DEF Rows, Join
<1>2. \A a, b, d \in Rows : Join(Join(a, b), d) = Join(a, Join(b, d))
  BY Regroup DEF Rows, Join
<1>3. \A a \in Rows : Join(<<>>, a) = a /\ Join(a, <<>>) = a
  BY Regroup DEF Rows, Join
<1>4. <<>> \in Rows
  BY DEF Rows
<1>. QED  BY <1>1, <1>2, <1>3, <1>4

\* What is picked of rows that are joined, and of rows of other messages.
LEMMA OfJoin ==
    /\ \A s, v, c : Of(<<>>, s, v, c) = <<>>
    /\ \A a, b \in Rows : \A s, v, c : Of(Join(a, b), s, v, c) = Join(Of(a, s, v, c), Of(b, s, v, c))
    /\ \A a \in Rows : \A s, v, c : Of(a, s, v, c) \in Rows
    /\ \A a \in Rows : \A S : AllIn(a, S) => \A s, v, c :
          S \cap Mine(s, v, c) = {} => Of(a, s, v, c) = <<>>
<1>1. \A s, v, c : Of(<<>>, s, v, c) = <<>>
  BY OfFacts
<1>2. \A a, b \in Rows : \A s, v, c : Of(Join(a, b), s, v, c) = Join(Of(a, s, v, c), Of(b, s, v, c))
  <2>1. \A a, b \in Seq(Mails) : \A s, v, c : Of(a \o b, s, v, c) = Of(a, s, v, c) \o Of(b, s, v, c)
    BY OfFacts
  <2>. QED  BY <2>1, Zenon DEF Rows, Join
<1>3. \A a \in Rows : \A s, v, c : Of(a, s, v, c) \in Rows
  BY OfFacts DEF Rows
<1>4. \A a \in Rows : \A S : AllIn(a, S) => \A s, v, c :
          S \cap Mine(s, v, c) = {} => Of(a, s, v, c) = <<>>
  <2>1. \A a \in Seq(Mails) : \A S : AllIn(a, S) => \A s, v, c :
          S \cap Mine(s, v, c) = {} => Of(a, s, v, c) = <<>>
    BY OfFacts
  <2>. QED  BY <2>1, Zenon DEF Rows
<1>. QED  BY <1>1, <1>2, <1>3, <1>4

\* Rows of a kind stay so.
LEMMA AllInJoin ==
    /\ \A S : AllIn(<<>>, S)
    /\ \A a, b \in Rows : \A S : AllIn(a, S) /\ AllIn(b, S) => AllIn(Join(a, b), S)
    /\ \A a \in Rows : \A S, T : AllIn(a, S) /\ S \subseteq T => AllIn(a, T)
<1>1. \A S : AllIn(<<>>, S)
  BY AllInFacts
<1>2. \A a, b \in Rows : \A S : AllIn(a, S) /\ AllIn(b, S) => AllIn(Join(a, b), S)
  <2>1. \A a, b \in Seq(Mails) : \A S : AllIn(a, S) /\ AllIn(b, S) => AllIn(a \o b, S)
    BY AllInFacts
  <2>. QED  BY <2>1, Zenon DEF Rows, Join
<1>3. \A a \in Rows : \A S, T : AllIn(a, S) /\ S \subseteq T => AllIn(a, T)
  BY DEF AllIn
<1>. QED  BY <1>1, <1>2, <1>3

\* Lines of rows are rows.
LEMMA LineRows ==
    \A r, l, q, t, f \in Rows : Line(r, l, q, t, f) \in Rows /\ Row(r, l, q) \in Rows
  BY JoinFacts DEF Line, Row

\* The cells of a line are rows.
LEMMA Cells ==
    ASSUME net \in Scenarios, Shape, NEW s \in Sending, NEW v \in net.receivers, NEW c \in Channels
    PROVE  /\ Down(s, v, c) \in Rows /\ Up(s, v, c) \in Rows /\ InSent(s, v, c) \in Rows
           /\ InHand(s, v, c) \in Rows /\ InLocal(s, v, c) \in Rows /\ InInlet(s, v, c) \in Rows
           /\ InStage(s, v, c) \in Rows /\ InFlow(s, v, c) \in Rows
           /\ InWriter(s, v, c) \in Rows /\ InStash(s, v, c) \in Rows
           /\ medium # "process" => InOutlet(s, v, c) \in Rows /\ OutQ(s) \in Outlets(s) /\ OutQ(s) \in Queues
           /\ InQ(s, v) \in Inlets(v) /\ InQ(s, v) \in Queues
           /\ Flow \in Rows /\ Local(v, c) \in Rows
           /\ s \in Senders /\ v \in Receivers /\ Carrier(s) \in Senders /\ ThreadOf(s) = Thread(Carrier(s))
<1>1. s \in Senders /\ v \in Receivers /\ Carrier(s) \in Senders /\ ThreadOf(s) = Thread(Carrier(s))
  BY Cast DEF Carrier, ThreadOf
<1>2. InQ(s, v) \in Inlets(v) /\ InQ(s, v) \in Queues
  BY DEF InQ, Inlets, Queues
<1>3. medium # "process" => OutQ(s) \in Outlets(s) /\ OutQ(s) \in Queues
  BY DEF OutQ, Outlets, Queues
<1>4. Flow \in Rows
  <2>1. PICK ms \in Rows : valid \o stream = AllBytes(ms)
    BY DEF Whole, Shape
  <2> DEFINE p == valid \o stream
  <2>2. p \in Seq(Units)
    BY Regroup DEF RowsTyped, Shape
  <2>3. p \o <<>> = AllBytes(ms) /\ <<>> \in Seq(Units)
    <3>1. <<>> \in Seq(Units)
      OBVIOUS
    <3> HIDE DEF p
    <3>2. p \o <<>> = p
      BY <2>2, <3>1, Regroup
    <3>. QED  BY <2>1, <3>1, <3>2 DEF p
  <2>4. CutsInto(Carve(p), <<>>, ms)
    <3> HIDE DEF p
    <3>. QED  BY <2>1, <2>2, <2>3, CarveFacts DEF Rows
  <2>. QED  BY <2>4 DEF CutsInto, Flow, Rows
<1>5. received[v][c] \in Rows /\ queue[InQ(s, v)] \in Rows /\ staged[v] \in Rows /\ sent[s] \in Rows
      /\ writer[Carrier(s)] \in Rows /\ stash[Carrier(s)] \in Rows
      /\ (medium # "process" => queue[OutQ(s)] \in Rows)
  BY <1>1, <1>2, <1>3 DEF RowsTyped, Shape
<1>6. Local(v, c) \in Rows
  BY <1>1 DEF LocalTyped, Shape, Local, Rows
<1>7. <<>> \in Rows /\ \A a \in Rows : Of(a, s, v, c) \in Rows
  BY OfFacts DEF Rows
<1>8. /\ InSent(s, v, c) \in Rows
      /\ InHand(s, v, c) \in Rows /\ InLocal(s, v, c) \in Rows /\ InInlet(s, v, c) \in Rows
      /\ InStage(s, v, c) \in Rows /\ InFlow(s, v, c) \in Rows
      /\ InWriter(s, v, c) \in Rows /\ InStash(s, v, c) \in Rows
      /\ medium # "process" => InOutlet(s, v, c) \in Rows
  BY <1>4, <1>5, <1>6, <1>7 DEF InSent, InHand, InLocal, InInlet, InStage, InFlow, InWriter, InStash, InOutlet
<1>9. Down(s, v, c) \in Rows /\ Up(s, v, c) \in Rows
  BY <1>7, <1>8, LineRows DEF Down, Up
<1>. QED  BY <1>1, <1>2, <1>3, <1>4, <1>6, <1>8, <1>9

\* Steps that keep the order keep what is kept.
LEMMA KeptNext ==
    ASSUME net \in Scenarios, DataInv, Flows
    PROVE  Kept'
<1>1. Sending' = Sending /\ net' = net
  BY DEF Sending, Flows
<1>2. Rows' = Rows
  BY <1>1 DEF Rows, Mails
<1>3. ASSUME NEW s \in Sending, NEW v \in net.receivers, NEW c \in Channels, Has(v, c)'
      PROVE  IF Dead' THEN \E rest \in Rows : Join(Down(s, v, c)', rest) = InSent(s, v, c)'
             ELSE Join(Down(s, v, c)', Up(s, v, c)') = InSent(s, v, c)'
  <2>1. Down(s, v, c) \in Rows /\ Up(s, v, c) \in Rows /\ InSent(s, v, c) \in Rows
    BY Cells DEF DataInv
  <2>2. Has(v, c) /\ KeptStep(s, v, c)
    BY <1>3 DEF KeptStep, Flows
  <2>3. IF Dead THEN \E rest \in Rows : Join(Down(s, v, c), rest) = InSent(s, v, c)
        ELSE Join(Down(s, v, c), Up(s, v, c)) = InSent(s, v, c)
    BY <2>2 DEF DataInv, Kept, Keeps
  <2> DEFINE D == Down(s, v, c)
             U == Up(s, v, c)
             P == InSent(s, v, c)
  <2>4. PICK x \in Rows :
            /\ P' = Join(P, x)
            /\ \/ Dead /\ Dead' /\ D' = D
               \/ ~ Dead /\ Dead' /\ D' \in Rows /\ \E rest \in Rows : Join(D', rest) = Join(D, U)
               \/ ~ Dead /\ ~ Dead' /\ Join(D', U') = Join(Join(D, U), x)
    BY <1>3, <2>2 DEF KeptStep
  <2>5. D \in Rows /\ U \in Rows /\ P \in Rows
    BY <2>1
  <2>6. IF Dead THEN \E rest \in Rows : Join(D, rest) = P ELSE Join(D, U) = P
    BY <2>3
  <2>7. IF Dead' THEN \E rest \in Rows : Join(D', rest) = P' ELSE Join(D', U') = P'
    <3> HIDE DEF D, U, P
    <3>1. CASE Dead /\ Dead' /\ D' = D
      <4>1. PICK rest \in Rows : Join(D, rest) = P
        BY <2>6, <3>1
      <4>2. Join(D', Join(rest, x)) = P' /\ Join(rest, x) \in Rows
        BY <2>4, <2>5, <3>1, <4>1, JoinFacts
      <4>. QED  BY <3>1, <4>2
    <3>2. CASE ~ Dead /\ Dead' /\ D' \in Rows /\ \E rest \in Rows : Join(D', rest) = Join(D, U)
      <4>1. PICK rest \in Rows : Join(D', rest) = P
        BY <2>6, <3>2
      <4>2. Join(D', Join(rest, x)) = P' /\ Join(rest, x) \in Rows
        BY <2>4, <2>5, <3>2, <4>1, JoinFacts
      <4>. QED  BY <3>2, <4>2
    <3>3. CASE ~ Dead /\ ~ Dead' /\ Join(D', U') = Join(Join(D, U), x)
      BY <2>4, <2>6, <3>3
    <3>. QED  BY <2>4, <3>1, <3>2, <3>3
  <2>. QED  BY <2>7
<1>4. \A s \in Sending, v \in net.receivers, c \in Channels : Keeps(s, v, c)'
  BY <1>2, <1>3 DEF Keeps, Join
<1>. QED  BY <1>1, <1>4 DEF Kept

\* Within a process the inlet comes last.
LEMMA InletGrows ==
    \A r, l, q, x \in Rows : Line(r, l, Join(q, x), <<>>, <<>>) = Join(Line(r, l, q, <<>>, <<>>), x)
  BY JoinFacts, SMTT(30) DEF Line

\* What comes last in a line comes last.
LEMMA LineGrows ==
    \A r, l, q, t, f, x \in Rows : Line(r, l, q, t, Join(f, x)) = Join(Line(r, l, q, t, f), x)
  BY JoinFacts, SMTT(30) DEF Line

\* A read moves messages from the flow to what is staged.
LEMMA LineTakes ==
    \A r, l, q, t, x, f \in Rows : Line(r, l, q, Join(t, x), f) = Line(r, l, q, t, Join(x, f))
  BY JoinFacts, SMTT(30) DEF Line

\* What is staged is put last in the inlet.
LEMMA LinePasses ==
    \A r, l, q, t, f \in Rows : Line(r, l, Join(q, t), <<>>, f) = Line(r, l, q, t, f)
  BY JoinFacts, SMTT(30) DEF Line

\* What is in the inlet is put last in the queue of its channel.
LEMMA LineSorts ==
    \A r, l, q, t, f \in Rows : Line(r, Join(l, q), <<>>, t, f) = Line(r, l, q, t, f)
  BY JoinFacts, SMTT(30) DEF Line

\* What is pulled comes last in hand.
LEMMA LinePulls ==
    \A r, x, l, q, t, f \in Rows : Line(Join(r, x), l, q, t, f) = Line(r, Join(x, l), q, t, f)
  BY JoinFacts, SMTT(30) DEF Line

\* What waits before the connection is a row.
LEMMA RowRows == \A w, h, o \in Rows : Row(w, h, o) \in Rows
  BY LineRows

\* Moving rows on before the connection, onto it, and adding some.
LEMMA RowMoves ==
    \A w, h, o, x \in Rows :
        /\ Row(w, Join(h, o), <<>>) = Row(w, h, o)
        /\ Row(Join(w, h), <<>>, o) = Row(w, h, o)
        /\ Join(w, Row(<<>>, h, o)) = Row(w, h, o)
        /\ Join(Join(w, h), Row(<<>>, <<>>, o)) = Row(w, h, o)
        /\ Row(w, h, Join(o, x)) = Join(Row(w, h, o), x)
  BY JoinFacts, SMTT(30) DEF Row

-----------------------------------------------------------------------------
(* Steps that leave things alone.                                           *)

\* The cells that a step leaves alone.
LEMMA CellsStay ==
    ASSUME net' = net, NEW s, NEW v, NEW c
    PROVE  /\ received' = received => InHand(s, v, c)' = InHand(s, v, c)
           /\ Local(v, c)' = Local(v, c) => InLocal(s, v, c)' = InLocal(s, v, c)
           /\ to_local' = to_local => InLocal(s, v, c)' = InLocal(s, v, c)
           /\ queue'[InQ(s, v)] = queue[InQ(s, v)] => InInlet(s, v, c)' = InInlet(s, v, c)
           /\ staged' = staged => InStage(s, v, c)' = InStage(s, v, c)
           /\ valid' = valid /\ stream' = stream => InFlow(s, v, c)' = InFlow(s, v, c)
           /\ writer'[Carrier(s)] = writer[Carrier(s)] => InWriter(s, v, c)' = InWriter(s, v, c)
           /\ stash'[Carrier(s)] = stash[Carrier(s)] => InStash(s, v, c)' = InStash(s, v, c)
           /\ queue'[OutQ(s)] = queue[OutQ(s)] => InOutlet(s, v, c)' = InOutlet(s, v, c)
           /\ sent'[s] = sent[s] => InSent(s, v, c)' = InSent(s, v, c)
<1>1. medium' = medium /\ InQ(s, v)' = InQ(s, v) /\ OutQ(s)' = OutQ(s) /\ Carrier(s)' = Carrier(s)
  BY DEF medium, InQ, OutQ, Carrier, ThreadOf
<1>2. received' = received => InHand(s, v, c)' = InHand(s, v, c)
  BY DEF InHand
<1>3. Local(v, c)' = Local(v, c) => InLocal(s, v, c)' = InLocal(s, v, c)
  BY DEF InLocal
<1>4. to_local' = to_local => InLocal(s, v, c)' = InLocal(s, v, c)
  BY DEF InLocal, Local
<1>5. queue'[InQ(s, v)] = queue[InQ(s, v)] => InInlet(s, v, c)' = InInlet(s, v, c)
  BY <1>1 DEF InInlet
<1>6. staged' = staged => InStage(s, v, c)' = InStage(s, v, c)
  BY DEF InStage
<1>7. valid' = valid /\ stream' = stream => InFlow(s, v, c)' = InFlow(s, v, c)
  BY DEF InFlow, Flow
<1>8. writer'[Carrier(s)] = writer[Carrier(s)] => InWriter(s, v, c)' = InWriter(s, v, c)
  BY <1>1 DEF InWriter
<1>9. stash'[Carrier(s)] = stash[Carrier(s)] => InStash(s, v, c)' = InStash(s, v, c)
  BY <1>1 DEF InStash
<1>10. queue'[OutQ(s)] = queue[OutQ(s)] => InOutlet(s, v, c)' = InOutlet(s, v, c)
  BY <1>1 DEF InOutlet
<1>11. sent'[s] = sent[s] => InSent(s, v, c)' = InSent(s, v, c)
  BY DEF InSent
<1>. QED  BY <1>2, <1>3, <1>4, <1>5, <1>6, <1>7, <1>8, <1>9, <1>10, <1>11

\* The parts of the shape that a step leaves alone.
LEMMA ShapeStays ==
    ASSUME net' = net
    PROVE  /\ Rows' = Rows /\ Mails' = Mails /\ Units' = Units /\ medium' = medium /\ Sending' = Sending
           /\ closed' = closed => Dead' = Dead
           /\ Linked /\ closed' = closed => Linked'
           /\ closed = "open" /\ closed' = "shut" => Dead' = Dead /\ Linked'
           /\ \A v, c : bound' = bound /\ to_local' = to_local => Has(v, c)' = Has(v, c)
           /\ QueuesLabelled /\ queue' = queue => QueuesLabelled'
           /\ SendersLabelled /\ UNCHANGED <<sent, stash, writer>> => SendersLabelled'
           /\ ReceiversLabelled /\ UNCHANGED <<staged, received, to_local>> => ReceiversLabelled'
           /\ Whole /\ UNCHANGED <<valid, stream>> => Whole'
           /\ LocalTyped /\ UNCHANGED <<bound, to_local, canaries>> => LocalTyped'
           /\ SlabTyped /\ UNCHANGED <<room, shift>> => SlabTyped'
<1>1. Sending' = Sending /\ medium' = medium
  BY DEF Sending, medium
<1>2. Mails' = Mails
  BY <1>1 DEF Mails
<1>3. Rows' = Rows /\ Units' = Units
  BY <1>2 DEF Rows, Units
<1>4. (closed' = closed => Dead' = Dead) /\ (Linked /\ closed' = closed => Linked')
      /\ (closed = "open" /\ closed' = "shut" => Dead' = Dead /\ Linked')
  BY <1>1 DEF Dead, Linked
<1>5. \A v, c : bound' = bound /\ to_local' = to_local => Has(v, c)' = Has(v, c)
  BY DEF Has
<1>6. QueuesLabelled /\ queue' = queue => QueuesLabelled'
  <2>1. /\ \A s : From(s)' = From(s)
        /\ \A v : For(v)' = For(v)
        /\ \A s : Outlets(s)' = Outlets(s)
        /\ \A v : Inlets(v)' = Inlets(v)
    BY <1>1, <1>2 DEF From, For, Outlets, Inlets, ThreadOf
  <2>. QED  BY <1>1, <2>1 DEF QueuesLabelled
<1>7. SendersLabelled /\ UNCHANGED <<sent, stash, writer>> => SendersLabelled'
  <2>1. /\ \A s : From(s)' = From(s)
        /\ \A s : Through(s)' = Through(s)
    BY <1>1, <1>2 DEF From, Through, ThreadOf
  <2>. QED  BY <2>1 DEF SendersLabelled
<1>8. ReceiversLabelled /\ UNCHANGED <<staged, received, to_local>> => ReceiversLabelled'
  <2>1. /\ \A v : For(v)' = For(v)
        /\ \A c : In(c)' = In(c)
    BY <1>2 DEF For, In
  <2>. QED  BY <2>1 DEF ReceiversLabelled
<1>9. Whole /\ UNCHANGED <<valid, stream>> => Whole'
  BY <1>3 DEF Whole
<1>10. LocalTyped /\ UNCHANGED <<bound, to_local, canaries>> => LocalTyped'
  BY <1>3 DEF LocalTyped
<1>11. SlabTyped /\ UNCHANGED <<room, shift>> => SlabTyped'
  BY DEF SlabTyped
<1>. QED  BY <1>1, <1>2, <1>3, <1>4, <1>5, <1>6, <1>7, <1>8, <1>9, <1>10, <1>11

\* What a step does before the connection, or behind it, and nothing else.
LEMMA KeptSides ==
    ASSUME net \in Scenarios, Shape, net' = net,
           NEW s \in Sending, NEW v \in net.receivers, NEW c \in Channels,
           Has(v, c)' => Has(v, c) /\ Down(s, v, c)' = Down(s, v, c),
           Dead' = Dead, NEW x \in Rows,
           InSent(s, v, c)' = Join(InSent(s, v, c), x),
           Up(s, v, c)' = Join(Up(s, v, c), x)
    PROVE  KeptStep(s, v, c)
<1> DEFINE D == Down(s, v, c)
           U == Up(s, v, c)
<1>1. D \in Rows /\ U \in Rows
  BY Cells
<1> HIDE DEF D, U
<1>2. Join(D, Join(U, x)) = Join(Join(D, U), x)
  BY <1>1, JoinFacts
<1>. QED  BY <1>2 DEF KeptStep, D, U

\* Steps that touch no data.
Still ==
    /\ UNCHANGED <<net, queue, stash, writer, sent, staged, received>>
    /\ UNCHANGED <<valid, stream, room, shift, bound, to_local, canaries>>
    /\ closed' = closed \/ (closed = "open" /\ closed' = "shut")

\* A step that touches no data loses, doubles and overtakes no message.
LEMMA StillStep == net \in Scenarios /\ Shape /\ Still => Flows
<1> SUFFICES ASSUME net \in Scenarios, Shape, Still PROVE Flows
  OBVIOUS
<1>1. net' = net
  BY DEF Still
<1>2. RowsTyped'
  BY <1>1, ShapeStays DEF Still, Shape, RowsTyped, Queues, Outlets, Inlets, ThreadOf
<1>3. Shape'
  BY <1>1, <1>2, ShapeStays DEF Still, Shape, Labelled
<1>4. ASSUME NEW s \in Sending, NEW v \in net.receivers, NEW c \in Channels PROVE KeptStep(s, v, c)
  <2>1. /\ InHand(s, v, c)' = InHand(s, v, c) /\ InLocal(s, v, c)' = InLocal(s, v, c)
        /\ InInlet(s, v, c)' = InInlet(s, v, c) /\ InStage(s, v, c)' = InStage(s, v, c)
        /\ InFlow(s, v, c)' = InFlow(s, v, c) /\ InWriter(s, v, c)' = InWriter(s, v, c)
        /\ InStash(s, v, c)' = InStash(s, v, c) /\ InOutlet(s, v, c)' = InOutlet(s, v, c)
        /\ InSent(s, v, c)' = InSent(s, v, c)
    BY <1>1, CellsStay DEF Still
  <2>2. Down(s, v, c)' = Down(s, v, c) /\ Up(s, v, c)' = Up(s, v, c)
    BY <1>1, <2>1, ShapeStays DEF Down, Up
  <2>3. Has(v, c)' = Has(v, c) /\ Dead' = Dead
    BY <1>1, ShapeStays DEF Still
  <2>4. <<>> \in Rows /\ InSent(s, v, c)' = Join(InSent(s, v, c), <<>>) /\ Up(s, v, c)' = Join(Up(s, v, c), <<>>)
    BY <2>1, <2>2, Cells, JoinFacts
  <2>. QED  BY <1>1, <2>2, <2>3, <2>4, KeptSides
<1>. QED  BY <1>1, <1>3, <1>4 DEF Flows

-----------------------------------------------------------------------------
(* Steps of workers that send.                                              *)

\* What a worker pushes is a message.
LEMMA MessageTyped ==
    ASSUME net \in Scenarios, RowsTyped, NEW s \in Sending, Len(sent[s]) < Len(net.program[s]),
           NEW next, next = net.program[s][Len(sent[s]) + 1],
           NEW m, m = [from |-> s, channel |-> next[1], to |-> next[2],
                       seqno |-> Cardinality({i \in DOMAIN sent[s] :
                               sent[s][i].channel = next[1] /\ sent[s][i].to = next[2]})]
    PROVE  /\ m \in Mails /\ m.from = s /\ m.to = next[2]
           /\ medium = "process" => \A v : v \in m.to => m.to = {v}
<1>1. s \in Senders /\ sent[s] \in Seq(Mails)
  BY Cast DEF RowsTyped, Rows
<1>2. Cardinality({i \in DOMAIN sent[s] : sent[s][i].channel = next[1] /\ sent[s][i].to = next[2]}) \in Nat
  <2>0. Len(sent[s]) \in Int /\ 1 \in Int
    BY <1>1
  <2>1. IsFiniteSet(1 .. Len(sent[s]))
    BY <2>0, FS_Interval
  <2>2. DOMAIN sent[s] = 1 .. Len(sent[s])
    BY <1>1
  <2> DEFINE S == {i \in DOMAIN sent[s] : sent[s][i].channel = next[1] /\ sent[s][i].to = next[2]}
  <2>3. IsFiniteSet(S)
    BY <2>1, <2>2, FS_Subset
  <2>. QED  BY <2>3, FS_CardinalityType
<1>3. net.program[s] \in Seq(Channels \X SUBSET Receivers)
  BY TransportAssumption DEF Sending
<1>4. Len(sent[s]) + 1 \in 1 .. Len(net.program[s])
  <2>1. Len(sent[s]) \in Nat /\ Len(net.program[s]) \in Nat
    BY <1>1, <1>3
  <2>. QED  BY <2>1
<1>5. next \in Channels \X SUBSET Receivers
  BY <1>3, <1>4
<1>6. next[1] \in 0 .. LastChannel /\ next[2] \in SUBSET Receivers
  <2>1. next[1] \in Channels /\ next[2] \in SUBSET Receivers
    BY <1>5
  <2>2. LastChannel \in Nat
    BY TransportAssumption
  <2>. QED  BY <2>1, <2>2 DEF Channels
<1>7. m \in Mails /\ m.from = s /\ m.to = next[2]
  BY <1>2, <1>6 DEF Mails
<1>8. ASSUME medium = "process", NEW v, v \in m.to PROVE m.to = {v}
  <2>1. Cardinality(net.program[s][Len(sent[s]) + 1][2]) = 1
    <3>1. \A i \in DOMAIN net.program[s] : Cardinality(net.program[s][i][2]) = 1
      BY <1>8, TransportAssumption DEF medium, Sending
    <3>2. Len(sent[s]) + 1 \in DOMAIN net.program[s]
      BY <1>3, <1>4
    <3>. QED  BY <3>1, <3>2
  <2>2. Cardinality(m.to) = 1 /\ m.to \subseteq Receivers
    BY <1>6, <1>7, <2>1
  <2>3. IsFiniteSet(m.to)
    BY <2>2, TransportAssumption, FS_Subset
  <2>4. Cardinality({v}) = 1 /\ {v} \subseteq m.to
    BY <1>8, FS_Singleton
  <2>. QED  BY <2>2, <2>3, <2>4, FS_Subset
<1>. QED  BY <1>7, <1>8

\* push puts its message last in the first queue, and records it.
LEMMA PushData == \A s0 \in Senders : Typed /\ Shape /\ push(s0) => Flows
<1> SUFFICES ASSUME NEW s0 \in Senders, Typed, Shape, push(s0) PROVE Flows
  OBVIOUS
<1> DEFINE next == net.program[s0][Len(sent[s0]) + 1]
           m == [from |-> s0, channel |-> next[1], to |-> next[2],
                 seqno |-> Cardinality({i \in DOMAIN sent[s0] :
                         sent[s0][i].channel = next[1] /\ sent[s0][i].to = next[2]})]
<1>1. /\ net \in Scenarios /\ net' = net /\ s0 \in Sending /\ Len(sent[s0]) < Len(net.program[s0])
      /\ UNCHANGED <<stash, writer, staged, received, valid, stream, room, shift, closed>>
      /\ UNCHANGED <<bound, to_local, canaries>>
      /\ sent' = [sent EXCEPT ![s0] = Append(@, m)]
  BY DEF push, worker_vars, recv_vars, send_vars, link_vars, Typed
<1>2. PICK q \in Outlets(s0) :
          /\ medium = "process" => q[2] \in {Worker(v) : v \in m.to}
          /\ queue' = [queue EXCEPT ![q] = @ \o <<m>>]
  <2>1. PICK q \in Outlets(s0) :
            /\ medium = "process" => q[2] \in {Worker(v) : v \in m.to}
            /\ extend(Worker(s0), q, <<m>>)
    BY Zenon DEF push
  <2> HIDE DEF m, next
  <2>. QED  BY <2>1 DEF extend
<1>3. /\ m \in Mails /\ m.from = s0
      /\ medium = "process" => \A v : v \in m.to => m.to = {v}
  <2> HIDE DEF m, next
  <2>. QED  BY <1>1, MessageTyped, SMTT(30) DEF Shape, m, next
<1> HIDE DEF m, next
<1>4. q \in Queues /\ DOMAIN queue = Queues /\ queue \in [Queues -> Rows] /\ sent \in [Senders -> Rows]
  BY <1>1, <1>2 DEF Queues, Shape, RowsTyped
<1>5. <<m>> \in Rows /\ queue[q] \o <<m>> \in Rows /\ Append(sent[s0], m) = sent[s0] \o <<m>>
      /\ sent[s0] \o <<m>> \in Rows
  <2>1. <<m>> \in Rows
    BY <1>3 DEF Rows
  <2>2. \A a, b \in Rows : a \o b \in Rows
    BY Regroup DEF Rows
  <2>3. Append(sent[s0], m) = sent[s0] \o <<m>>
    BY <1>3, <1>4 DEF Rows
  <2>. QED  BY <1>4, <2>1, <2>2, <2>3
<1>6. /\ queue' \in [Queues -> Rows] /\ queue'[q] = queue[q] \o <<m>> /\ \A p \in Queues \ {q} : queue'[p] = queue[p]
      /\ sent' \in [Senders -> Rows] /\ sent'[s0] = sent[s0] \o <<m>> /\ \A s \in Senders \ {s0} : sent'[s] = sent[s]
  BY <1>1, <1>2, <1>4, <1>5
<1>7. \/ /\ medium = "process" /\ \E v \in net.receivers : q = <<Worker(s0), Worker(v)>> /\ m.to = {v}
      \/ medium # "process" /\ q = OutQ(s0)
  <2>1. CASE medium = "process"
    <3>1. PICK v \in net.receivers : q = <<Worker(s0), Worker(v)>>
      BY <1>2, <2>1 DEF Outlets
    <3>2. PICK u \in m.to : q[2] = Worker(u)
      BY <1>2, <2>1
    <3>3. u = v
      BY <3>1, <3>2, Names
    <3>. QED  BY <1>3, <2>1, <3>1, <3>2, <3>3
  <2>2. CASE medium # "process"
    BY <1>2, <2>2 DEF Outlets, OutQ
  <2>. QED  BY <2>1, <2>2
<1>8. Queues' = Queues /\ Rows' = Rows /\ Units' = Units
  BY <1>1, ShapeStays DEF Queues, Outlets, Inlets, ThreadOf
<1>9. RowsTyped'
  BY <1>1, <1>6, <1>8 DEF RowsTyped, Shape
<1>10. QueuesLabelled'
  <2>1. /\ \A s : From(s)' = From(s)
        /\ \A v : For(v)' = For(v)
        /\ \A s : Outlets(s)' = Outlets(s)
        /\ \A v : Inlets(v)' = Inlets(v)
        /\ Sending' = Sending
    BY <1>1, ShapeStays DEF From, For, Outlets, Inlets, ThreadOf
  <2>2. ASSUME NEW s \in Sending, NEW p \in Outlets(s) PROVE AllIn(queue'[p], From(s))
    <3>1. p \in Queues /\ AllIn(queue[p], From(s))
      BY DEF Queues, Shape, Labelled, QueuesLabelled
    <3>2. CASE p = q
      <4>1. s = s0
        <5>1. p[1] = Worker(s) /\ q[1] = Worker(s0)
          BY <1>2 DEF Outlets
        <5>. QED  BY <3>2, <5>1, Names
      <4>2. AllIn(<<m>>, From(s))
        BY <1>3, <4>1, AllInFacts DEF From
      <4>3. AllIn(queue[q] \o <<m>>, From(s))
        BY <1>4, <1>5, <3>1, <3>2, <4>2, AllInFacts DEF Rows
      <4>. QED  BY <1>6, <3>2, <4>3
    <3>. QED  BY <1>6, <3>1, <3>2
  <2>3. ASSUME NEW v \in net.receivers, NEW p \in Inlets(v) PROVE AllIn(queue'[p], For(v))
    <3>1. p \in Queues /\ AllIn(queue[p], For(v))
      BY DEF Queues, Shape, Labelled, QueuesLabelled
    <3>2. CASE p = q
      <4>1. v \in m.to
        <5>1. p[2] = Worker(v)
          BY DEF Inlets
        <5>2. medium = "process"
          <6>1. medium # "process" => q[2] # Worker(v)
            BY <1>1, <1>7, Cast, Names DEF OutQ
          <6>. QED  BY <3>2, <5>1, <6>1
        <5>3. PICK u \in net.receivers : q = <<Worker(s0), Worker(u)>> /\ m.to = {u}
          BY <1>7, <5>2
        <5>. QED  BY <3>2, <5>1, <5>3, Names
      <4>2. AllIn(<<m>>, For(v))
        BY <1>3, <4>1, AllInFacts DEF For
      <4>3. AllIn(queue[q] \o <<m>>, For(v))
        BY <1>4, <1>5, <3>1, <3>2, <4>2, AllInFacts DEF Rows
      <4>. QED  BY <1>6, <3>2, <4>3
    <3>. QED  BY <1>6, <3>1, <3>2
  <2>. QED  BY <1>1, <2>1, <2>2, <2>3 DEF QueuesLabelled
<1>11. SendersLabelled'
  <2>1. /\ \A s : From(s)' = From(s)
        /\ \A s : Through(s)' = Through(s)
    BY <1>1, ShapeStays DEF From, Through, ThreadOf
  <2>2. ASSUME NEW s \in Senders PROVE AllIn(sent'[s], From(s))
    <3>1. AllIn(sent[s], From(s))
      BY DEF Shape, Labelled, SendersLabelled
    <3>2. CASE s = s0
      <4>1. AllIn(<<m>>, From(s))
        BY <1>3, <3>2, AllInFacts DEF From
      <4>2. AllIn(sent[s0] \o <<m>>, From(s))
        BY <1>4, <1>5, <3>1, <3>2, <4>1, AllInFacts DEF Rows
      <4>. QED  BY <1>6, <3>2, <4>2
    <3>. QED  BY <1>6, <3>1, <3>2
  <2>. QED  BY <1>1, <2>1, <2>2 DEF SendersLabelled, Shape, Labelled
<1>12. Shape'
  BY <1>1, <1>9, <1>10, <1>11, ShapeStays DEF Shape, Labelled
<1>13. ASSUME NEW s \in Sending, NEW v \in net.receivers, NEW c \in Channels PROVE KeptStep(s, v, c)
  <2> DEFINE x == Of(<<m>>, s, v, c)
  <2>1. /\ InHand(s, v, c)' = InHand(s, v, c) /\ InLocal(s, v, c)' = InLocal(s, v, c)
        /\ InStage(s, v, c)' = InStage(s, v, c)
        /\ InFlow(s, v, c)' = InFlow(s, v, c) /\ InWriter(s, v, c)' = InWriter(s, v, c)
        /\ InStash(s, v, c)' = InStash(s, v, c)
    BY <1>1, CellsStay
  <2>2. Has(v, c)' = Has(v, c) /\ Dead' = Dead
    BY <1>1, ShapeStays
  <2>3. x \in Rows /\ (s # s0 => x = <<>>) /\ (v \notin m.to => x = <<>>)
    <3>1. x = IF m \in Mine(s, v, c) THEN <<m>> ELSE <<>>
      BY <1>3, OfFacts
    <3>. QED  BY <1>3, <1>5, <3>1, JoinFacts DEF Mine
  <2>4. \A a \in Rows : Of(a \o <<m>>, s, v, c) = Join(Of(a, s, v, c), x)
    <3>1. \A a \in Rows : Of(Join(a, <<m>>), s, v, c) = Join(Of(a, s, v, c), Of(<<m>>, s, v, c))
      BY <1>5, OfJoin
    <3>. QED  BY <3>1 DEF Join
  <2> HIDE DEF x
  <2>c. /\ InQ(s, v) \in Queues /\ (medium # "process" => OutQ(s) \in Queues)
        /\ s \in Senders /\ InSent(s, v, c) \in Rows /\ InInlet(s, v, c) \in Rows
        /\ (medium # "process" => InOutlet(s, v, c) \in Rows)
        /\ Down(s, v, c) \in Rows /\ Up(s, v, c) \in Rows
        /\ InHand(s, v, c) \in Rows /\ InLocal(s, v, c) \in Rows
        /\ InWriter(s, v, c) \in Rows /\ InStash(s, v, c) \in Rows
    BY <1>1, Cells
  <2>5. InSent(s, v, c)' = Join(InSent(s, v, c), x)
    <3>1. CASE s = s0
      <4>1. InSent(s, v, c)' = Of(sent[s0] \o <<m>>, s, v, c)
        BY <1>6, <3>1 DEF InSent
      <4>. QED  BY <1>4, <2>4, <3>1, <4>1 DEF InSent
    <3>2. CASE s # s0
      <4>1. InSent(s, v, c)' = InSent(s, v, c)
        BY <1>6, <2>c, <3>2 DEF InSent
      <4>. QED  BY <2>3, <2>c, <3>2, <4>1, JoinFacts
    <3>. QED  BY <3>1, <3>2
  <2>m. medium' = medium /\ InQ(s, v)' = InQ(s, v) /\ OutQ(s)' = OutQ(s)
    BY <1>1 DEF medium, InQ, OutQ, ThreadOf
  <2>6. CASE medium = "process"
    <3>1. PICK u \in net.receivers : q = <<Worker(s0), Worker(u)>> /\ m.to = {u}
      BY <1>7, <2>6
    <3>2. InInlet(s, v, c)' = Join(InInlet(s, v, c), x)
      <4>1. CASE s = s0 /\ v = u
        <5>1. InQ(s, v) = q
          BY <2>6, <3>1, <4>1 DEF InQ
        <5>2. InInlet(s, v, c)' = Of(queue[q] \o <<m>>, s, v, c)
          BY <1>6, <2>m, <5>1 DEF InInlet
        <5>. QED  BY <1>4, <2>4, <5>1, <5>2 DEF InInlet
      <4>2. CASE ~ (s = s0 /\ v = u)
        <5>1. InQ(s, v) # q
          BY <2>6, <3>1, <4>2, Names DEF InQ
        <5>2. InInlet(s, v, c)' = InInlet(s, v, c)
          BY <1>6, <2>c, <2>m, <5>1 DEF InInlet
        <5>3. x = <<>>
          BY <2>3, <3>1, <4>2
        <5>. QED  BY <2>c, <5>2, <5>3, JoinFacts
      <4>. QED  BY <4>1, <4>2
    <3>3. Down(s, v, c)' = Join(Down(s, v, c), x) /\ Up(s, v, c)' = <<>> /\ Up(s, v, c) = <<>>
      <4>1. Down(s, v, c)' = Line(InHand(s, v, c), InLocal(s, v, c), Join(InInlet(s, v, c), x), <<>>, <<>>)
        BY <2>1, <2>6, <2>m, <3>2 DEF Down
      <4>2. Down(s, v, c) = Line(InHand(s, v, c), InLocal(s, v, c), InInlet(s, v, c), <<>>, <<>>)
        BY <2>6 DEF Down
      <4>3. Up(s, v, c)' = <<>> /\ Up(s, v, c) = <<>>
        BY <2>6, <2>m DEF Up
      <4>4. Down(s, v, c)' = Join(Down(s, v, c), x)
        BY <2>3, <2>c, <4>1, <4>2, InletGrows
      <4>. QED  BY <4>3, <4>4
    <3>4. ~ Dead
      BY <2>6 DEF Shape, Linked
    <3>5. Join(Down(s, v, c)', Up(s, v, c)') = Join(Join(Down(s, v, c), Up(s, v, c)), x)
      BY <2>3, <2>c, <3>3, JoinFacts
    <3>. QED  BY <1>1, <2>2, <2>3, <2>5, <3>4, <3>5 DEF KeptStep
  <2>7. CASE medium # "process"
    <3>0. q = OutQ(s0)
      BY <1>7, <2>7
    <3>1. InOutlet(s, v, c)' = Join(InOutlet(s, v, c), x)
      <4>1. CASE s = s0
        <5>1. InOutlet(s, v, c)' = Of(queue[q] \o <<m>>, s, v, c)
          BY <1>6, <2>m, <3>0, <4>1 DEF InOutlet
        <5>. QED  BY <1>4, <2>4, <3>0, <4>1, <5>1 DEF InOutlet
      <4>2. CASE s # s0
        <5>1. OutQ(s) # q
          BY <3>0, <4>2, Names DEF OutQ
        <5>2. InOutlet(s, v, c)' = InOutlet(s, v, c)
          BY <1>6, <2>7, <2>c, <2>m, <5>1 DEF InOutlet
        <5>. QED  BY <2>3, <2>7, <2>c, <4>2, <5>2, JoinFacts
      <4>. QED  BY <4>1, <4>2
    <3>2. InInlet(s, v, c)' = InInlet(s, v, c)
      <4>1. InQ(s, v) # q
        BY <2>7, <3>0, Names DEF InQ, OutQ
      <4>. QED  BY <1>6, <2>c, <2>m, <4>1 DEF InInlet
    <3>3. Down(s, v, c)' = Down(s, v, c)
      BY <2>1, <2>m, <3>2 DEF Down
    <3>4. Up(s, v, c)' = Join(Up(s, v, c), x)
      <4>1. Up(s, v, c)' = Row(InWriter(s, v, c), InStash(s, v, c), Join(InOutlet(s, v, c), x))
        BY <2>1, <2>7, <2>m, <3>1 DEF Up
      <4>2. Up(s, v, c) = Row(InWriter(s, v, c), InStash(s, v, c), InOutlet(s, v, c))
        BY <2>7 DEF Up
      <4>. QED  BY <2>3, <2>7, <2>c, <4>1, <4>2, RowMoves
    <3>. QED  BY <1>1, <2>2, <2>3, <2>5, <3>3, <3>4, KeptSides
  <2>. QED  BY <2>6, <2>7
<1>. QED  BY <1>1, <1>12, <1>13 DEF Flows

-----------------------------------------------------------------------------
(* Steps of send threads.                                                   *)

\* Of whole messages on the connection all are taken out.
LEMMA CarveWhole ==
    \A k \in Rows : \A p \in Seq(Units) : p = AllBytes(k) => Carve(p).messages = k
<1> SUFFICES ASSUME NEW k \in Rows, NEW p \in Seq(Units), p = AllBytes(k) PROVE Carve(p).messages = k
  OBVIOUS
<1>1. <<>> \in Seq(Units)
  OBVIOUS
<1>2. p \o <<>> = p
  BY <1>1, Regroup
<1>3. CutsInto(Carve(p), <<>>, k)
  BY <1>1, <1>2, CarveFacts DEF Rows
<1>4. PICK a \in Seq(Mails), b \in Seq(Mails) : k = a \o b /\ Carve(p).messages = a /\ b = <<>>
  BY <1>3 DEF CutsInto
<1>5. a \o <<>> = a
  BY <1>4, Regroup
<1>. QED  BY <1>4, <1>5

\* Units can be joined in any order.
LEMMA JoinUnits ==
    /\ \A a, b \in Seq(Units) : Join(a, b) \in Seq(Units)
    /\ \A a, b, d \in Seq(Units) : Join(Join(a, b), d) = Join(a, Join(b, d))
    /\ \A a \in Seq(Units) : Join(<<>>, a) = a /\ Join(a, <<>>) = a
    /\ <<>> \in Seq(Units)
<1>1. \A a, b \in Seq(Units) : Join(a, b) \in Seq(Units)
  BY Regroup DEF Join
<1>2. \A a, b, d \in Seq(Units) : Join(Join(a, b), d) = Join(a, Join(b, d))
  BY Regroup DEF Join
<1>3. \A a \in Seq(Units) : Join(<<>>, a) = a /\ Join(a, <<>>) = a
  BY Regroup DEF Join
<1>4. <<>> \in Seq(Units)
  OBVIOUS
<1>. QED  BY <1>1, <1>2, <1>3, <1>4

\* What is added to the connection comes after what is there.
LEMMA FlowGrows ==
    ASSUME net' = net, Shape, NEW ms \in Rows, valid' = valid, stream' = stream \o AllBytes(ms)
    PROVE  Whole' /\ stream' \in Seq(Units) /\ Flow' = Join(Flow, ms) /\ Flow \in Rows
<1>1. Mails' = Mails /\ Units' = Units /\ Rows' = Rows
  BY ShapeStays
<1>2. PICK k \in Rows : valid \o stream = AllBytes(k)
  BY DEF Shape, Whole
<1>3. valid \in Seq(Units) /\ stream \in Seq(Units) /\ AllBytes(ms) \in Seq(Units) /\ AllBytes(k) \in Seq(Units)
  BY AllBytesFacts DEF Shape, RowsTyped, Rows
<1> DEFINE b == AllBytes(ms)
<1>4. stream \o b \in Seq(Units) /\ valid \o (stream \o b) = (valid \o stream) \o b
      /\ valid \o stream \in Seq(Units) /\ valid \o (stream \o b) \in Seq(Units)
  <2> HIDE DEF b
  <2>1. b \in Seq(Units)
    BY <1>3 DEF b
  <2>2. /\ Join(stream, b) \in Seq(Units) /\ Join(valid, Join(stream, b)) = Join(Join(valid, stream), b)
        /\ Join(valid, stream) \in Seq(Units) /\ Join(valid, Join(stream, b)) \in Seq(Units)
    BY <1>3, <2>1, JoinUnits
  <2>. QED  BY <2>2, Zenon DEF Join
<1>5. AllBytes(k \o ms) = AllBytes(k) \o b
  BY AllBytesConcatenated DEF Rows
<1>6. valid' \o stream' = AllBytes(k \o ms) /\ valid' \o stream' \in Seq(Units) /\ stream' \in Seq(Units)
  BY <1>2, <1>4, <1>5
<1>7. k \o ms \in Rows
  BY JoinFacts DEF Join
<1>8. Flow = k
  BY <1>2, <1>4, CarveWhole DEF Flow
<1>9. Flow' = k \o ms
  <2> DEFINE p == valid' \o stream'
             kk == k \o ms
  <2>1. Flow' = Carve(p).messages
    BY DEF Flow
  <2>2. p \in Seq(Units) /\ p = AllBytes(kk) /\ kk \in Rows
    BY <1>6, <1>7
  <2> HIDE DEF p, kk
  <2>3. Carve(p).messages = kk
    BY <2>2, CarveWhole
  <2>. QED  BY <2>1, <2>3 DEF kk
<1>10. Whole'
  BY <1>1, <1>6, <1>7 DEF Whole
<1>. QED  BY <1>6, <1>8, <1>9, <1>10 DEF Join

\* What is added behind a line.
LEMMA DownGrows ==
    ASSUME net \in Scenarios, Shape, medium # "process", NEW y \in Rows,
           NEW s \in Sending, NEW v \in net.receivers, NEW c \in Channels
    PROVE  Line(InHand(s, v, c), InLocal(s, v, c), InInlet(s, v, c), InStage(s, v, c), Join(InFlow(s, v, c), y))
           = Join(Down(s, v, c), y)
<1>1. /\ InHand(s, v, c) \in Rows /\ InLocal(s, v, c) \in Rows /\ InInlet(s, v, c) \in Rows
      /\ InStage(s, v, c) \in Rows /\ InFlow(s, v, c) \in Rows
  BY Cells
<1>2. Down(s, v, c) = Line(InHand(s, v, c), InLocal(s, v, c), InInlet(s, v, c), InStage(s, v, c), InFlow(s, v, c))
  BY DEF Down
<1>. QED  BY <1>1, <1>2, LineGrows

(* A step of a send thread that writes ms to the connection, and nothing    *)
(* else.                                                                    *)
Emits(ms) ==
    /\ net' = net /\ medium # "process" /\ Dead' = Dead
    /\ UNCHANGED <<queue, sent, staged, received, valid, room, shift, bound, to_local, canaries>>
    /\ stream' = IF Dead THEN stream ELSE stream \o AllBytes(ms)
    /\ writer' \in [Senders -> Rows] /\ stash' \in [Senders -> Rows] /\ SendersLabelled'
    /\ \A s \in Sending, v \in net.receivers, c \in Channels :
          Join(Of(ms, s, v, c), Up(s, v, c)') = Up(s, v, c)

\* Who passes on what it has to the connection keeps the order.
LEMMA EmitKept ==
    ASSUME net \in Scenarios, Shape, NEW ms \in Rows, Emits(ms)
    PROVE  Flows
<1>1. /\ Rows' = Rows /\ Mails' = Mails /\ Units' = Units /\ medium' = medium /\ Sending' = Sending
      /\ QueuesLabelled' /\ ReceiversLabelled' /\ LocalTyped' /\ SlabTyped' /\ Queues' = Queues
      /\ \A v, c : Has(v, c)' = Has(v, c)
  BY ShapeStays DEF Shape, Labelled, Queues, Outlets, Inlets, ThreadOf, Emits
<1>2. Whole' /\ stream' \in Seq(Units) /\ Flow \in Rows /\ Flow' = IF Dead THEN Flow ELSE Join(Flow, ms)
  <2>1. CASE Dead
    <3>1. Whole' /\ Flow' = Flow /\ stream' \in Seq(Units)
      BY <2>1, ShapeStays DEF Shape, Flow, RowsTyped, Emits
    <3>2. PICK k \in Rows : valid \o stream = AllBytes(k)
      BY DEF Shape, Whole
    <3>3. Join(valid, stream) \in Seq(Units)
      BY JoinUnits DEF Shape, RowsTyped
    <3>4. Flow = k
      BY <3>2, <3>3, CarveWhole DEF Flow, Join
    <3>. QED  BY <2>1, <3>1, <3>4
  <2>2. CASE ~ Dead
    BY <2>2, FlowGrows DEF Emits
  <2>. QED  BY <2>1, <2>2
<1>3. RowsTyped'
  BY <1>1, <1>2 DEF RowsTyped, Shape, Emits
<1>4. Linked'
  BY <1>1 DEF Linked, Shape, Emits
<1>5. Shape'
  BY <1>1, <1>2, <1>3, <1>4 DEF Shape, Labelled, Emits
<1>6. ASSUME NEW s \in Sending, NEW v \in net.receivers, NEW c \in Channels PROVE KeptStep(s, v, c)
  <2> DEFINE y == Of(ms, s, v, c)
             U1 == Up(s, v, c)'
             D == Down(s, v, c)
             U == Up(s, v, c)
  <2>1. /\ InHand(s, v, c)' = InHand(s, v, c) /\ InLocal(s, v, c)' = InLocal(s, v, c)
        /\ InStage(s, v, c)' = InStage(s, v, c)
        /\ InInlet(s, v, c)' = InInlet(s, v, c) /\ InSent(s, v, c)' = InSent(s, v, c)
    BY CellsStay DEF Emits
  <2>2. /\ InHand(s, v, c) \in Rows /\ InLocal(s, v, c) \in Rows /\ InInlet(s, v, c) \in Rows
        /\ InStage(s, v, c) \in Rows /\ InFlow(s, v, c) \in Rows /\ InSent(s, v, c) \in Rows
        /\ D \in Rows /\ U \in Rows /\ y \in Rows
    BY Cells, OfJoin
  <2>3. CASE Dead
    <3>1. InFlow(s, v, c)' = InFlow(s, v, c)
      BY <1>2, <2>3 DEF InFlow
    <3>2. Down(s, v, c)' = Down(s, v, c)
      BY <1>1, <2>1, <3>1 DEF Down, Emits
    <3>3. <<>> \in Rows /\ InSent(s, v, c)' = Join(InSent(s, v, c), <<>>)
      BY <2>1, <2>2, JoinFacts
    <3>. QED  BY <1>1, <2>3, <3>2, <3>3 DEF KeptStep, Emits
  <2>4. CASE ~ Dead
    <3>1. InFlow(s, v, c)' = Join(InFlow(s, v, c), y)
      BY <1>2, <2>4, OfJoin DEF InFlow
    <3>2. Down(s, v, c)' = Join(D, y)
      <4>1. Down(s, v, c)' = Line(InHand(s, v, c), InLocal(s, v, c), InInlet(s, v, c), InStage(s, v, c), Join(InFlow(s, v, c), y))
        BY <1>1, <2>1, <3>1 DEF Down, Emits
      <4>2. medium # "process"
        BY DEF Emits
      <4>. QED  BY <2>2, <4>1, <4>2, DownGrows
    <3>3. U1 \in Rows
      <4>1. /\ writer'[Carrier(s)] \in Rows /\ stash'[Carrier(s)] \in Rows /\ queue[OutQ(s)] \in Rows
            /\ Carrier(s)' = Carrier(s) /\ OutQ(s)' = OutQ(s)
        BY <1>1, Cells DEF Carrier, OutQ, ThreadOf, Shape, RowsTyped, Emits
      <4>2. InWriter(s, v, c)' \in Rows /\ InStash(s, v, c)' \in Rows /\ InOutlet(s, v, c)' \in Rows
        <5>1. \A a \in Rows : Of(a, s, v, c) \in Rows
          BY OfJoin
        <5>2. queue' = queue
          BY DEF Emits
        <5>3. InWriter(s, v, c)' = Of(writer'[Carrier(s)], s, v, c) /\ InStash(s, v, c)' = Of(stash'[Carrier(s)], s, v, c)
              /\ InOutlet(s, v, c)' = Of(queue[OutQ(s)], s, v, c)
          BY <4>1, <5>2 DEF InWriter, InStash, InOutlet
        <5>. QED  BY <4>1, <5>1, <5>3
      <4>3. U1 = Row(InWriter(s, v, c)', InStash(s, v, c)', InOutlet(s, v, c)')
        BY <1>1 DEF Up, Emits
      <4>4. \A w, h, o \in Rows : Row(w, h, o) \in Rows
        BY LineRows
      <4>. QED  BY <4>2, <4>3, <4>4
    <3>4. Join(y, U1) = U
      BY DEF Emits
    <3> HIDE DEF D, U, U1, y
    <3>5. Join(Join(D, y), U1) = Join(D, U)
      BY <2>2, <3>3, <3>4, JoinFacts
    <3>6. <<>> \in Rows /\ InSent(s, v, c)' = Join(InSent(s, v, c), <<>>) /\ Join(D, U) = Join(Join(D, U), <<>>)
      BY <2>1, <2>2, JoinFacts
    <3>7. Join(Down(s, v, c)', Up(s, v, c)') = Join(Join(Down(s, v, c), Up(s, v, c)), <<>>)
      BY <3>2, <3>5, <3>6 DEF D, U, U1
    <3>. QED  BY <1>1, <2>4, <3>6, <3>7 DEF KeptStep, Emits
  <2>. QED  BY <2>3, <2>4
<1>. QED  BY <1>5, <1>6 DEF Flows, Emits

\* Steps that leave the send threads' side alone for other senders.
LEMMA UpStays ==
    ASSUME net' = net, NEW s, NEW v, NEW c,
           writer'[Carrier(s)] = writer[Carrier(s)], stash'[Carrier(s)] = stash[Carrier(s)],
           queue'[OutQ(s)] = queue[OutQ(s)]
    PROVE  Up(s, v, c)' = Up(s, v, c)
<1>1. /\ InWriter(s, v, c)' = InWriter(s, v, c) /\ InStash(s, v, c)' = InStash(s, v, c)
      /\ InOutlet(s, v, c)' = InOutlet(s, v, c) /\ medium' = medium
  BY CellsStay, ShapeStays
<1>. QED  BY <1>1 DEF Up

\* Who has the messages of s, and who has not.
LEMMA CarrierFacts ==
    ASSUME net \in Scenarios, NEW s \in Sending, NEW s0 \in Senders, NEW v, NEW c
    PROVE  /\ Carrier(s) # s0 => Through(s0) \cap Mine(s, v, c) = {}
           /\ Carrier(s) = s0 => From(s) \subseteq Through(s0)
<1>1. ThreadOf(s) = Thread(Carrier(s))
  BY DEF ThreadOf, Carrier
<1>2. \A m \in Mine(s, v, c) : m.from = s
  BY DEF Mine
<1>3. Carrier(s) # s0 => Thread(Carrier(s)) # Thread(s0)
  BY Names
<1>. QED  BY <1>1, <1>2, <1>3 DEF Through, From

\* A send thread drains a queue of its own.
LEMMA DrainData == \A s0 \in Senders : WakeInv /\ Shape /\ Owned /\ drain(s0) => Flows
<1> SUFFICES ASSUME NEW s0 \in Senders, WakeInv, Shape, Owned, drain(s0) PROVE Flows
  OBVIOUS
<1>0. net \in Scenarios
  BY DEF WakeInv, Typed
<1>1. CASE leave(Thread(s0), "unwind")
  <2>1. Still
    BY <1>1 DEF leave, Still, worker_vars, recv_vars, send_vars, link_vars
  <2>. QED  BY <1>0, <2>1, StillStep
<1>2. CASE \E q \in todo[Thread(s0)] :
              /\ stash' = [stash EXCEPT ![s0] = @ \o queue[q]]
              /\ queue' = [queue EXCEPT ![q] = <<>>]
              /\ UNCHANGED <<net, writer, sent>>
              /\ UNCHANGED <<worker_vars, recv_vars, link_vars>>
  <2>1. PICK q \in todo[Thread(s0)] :
              /\ stash' = [stash EXCEPT ![s0] = @ \o queue[q]]
              /\ queue' = [queue EXCEPT ![q] = <<>>]
              /\ UNCHANGED <<net, writer, sent>>
              /\ UNCHANGED <<worker_vars, recv_vars, link_vars>>
    BY <1>2
  <2>2. q \in Queues /\ q[2] = Thread(s0)
    <3>1. q \in Queues /\ Thread(s0) \in {q[1], q[2]}
      BY Names DEF WakeInv, Typed, Owned, Handles
    <3>. QED  BY <1>0, <3>1, QueueShape
  <2>3. PICK r \in Sending : q = <<Worker(r), Thread(s0)>> /\ ThreadOf(r) = Thread(s0) /\ medium # "process"
    BY <1>0, <2>2, QueueShape DEF Sources
  <2>4. q = OutQ(r) /\ q \in Outlets(r) /\ Carrier(r) = s0
    BY <2>3, Names DEF OutQ, Outlets, ThreadOf, Carrier
  <2>5. /\ queue \in [Queues -> Rows] /\ stash \in [Senders -> Rows] /\ AllIn(queue[q], From(r)) /\ AllIn(stash[s0], Through(s0))
        /\ queue[q] \in Rows /\ stash[s0] \in Rows /\ <<>> \in Rows
    BY <2>2, <2>4, JoinFacts DEF Shape, RowsTyped, Labelled, QueuesLabelled, SendersLabelled
  <2>6. Join(stash[s0], queue[q]) \in Rows /\ AllIn(Join(stash[s0], queue[q]), Through(s0))
    <3>1. AllIn(queue[q], Through(s0))
      BY <1>0, <2>4, <2>5, AllInJoin, CarrierFacts
    <3>. QED  BY <2>5, <3>1, JoinFacts, AllInJoin
  <2>7. /\ queue' \in [Queues -> Rows] /\ queue'[q] = <<>> /\ \A p \in Queues \ {q} : queue'[p] = queue[p]
        /\ stash' \in [Senders -> Rows] /\ stash'[s0] = Join(stash[s0], queue[q])
        /\ \A s \in Senders \ {s0} : stash'[s] = stash[s]
    BY <2>1, <2>2, <2>5, <2>6 DEF Join
  <2>8. /\ net' = net
        /\ UNCHANGED <<writer, staged, received, valid, stream, room, shift, closed, sent>>
        /\ UNCHANGED <<bound, to_local, canaries>>
    BY <2>1 DEF worker_vars, recv_vars, link_vars
  <2>9. RowsTyped'
    <3>1. Queues' = Queues /\ Rows' = Rows /\ Units' = Units
      BY <2>8, ShapeStays DEF Queues, Outlets, Inlets, ThreadOf
    <3>. QED  BY <2>7, <2>8, <3>1 DEF RowsTyped, Shape
  <2>10. QueuesLabelled'
    <3>1. /\ \A s : From(s)' = From(s)
          /\ \A v : For(v)' = For(v)
          /\ \A s : Outlets(s)' = Outlets(s)
          /\ \A v : Inlets(v)' = Inlets(v)
          /\ Sending' = Sending
      BY <2>8, ShapeStays DEF From, For, Outlets, Inlets, ThreadOf
    <3>2. \A p \in Queues : queue'[p] = queue[p] \/ queue'[p] = <<>>
      BY <2>7
    <3>3. ASSUME NEW s \in Sending, NEW p \in Outlets(s) PROVE AllIn(queue'[p], From(s))
      BY <3>2, AllInJoin DEF Queues, Shape, Labelled, QueuesLabelled
    <3>4. ASSUME NEW v \in net.receivers, NEW p \in Inlets(v) PROVE AllIn(queue'[p], For(v))
      BY <3>2, AllInJoin DEF Queues, Shape, Labelled, QueuesLabelled
    <3>. QED  BY <2>8, <3>1, <3>3, <3>4 DEF QueuesLabelled
  <2>11. SendersLabelled'
    <3>1. /\ \A s : From(s)' = From(s)
          /\ \A s : Through(s)' = Through(s)
      BY <2>8, ShapeStays DEF From, Through, ThreadOf
    <3>2. ASSUME NEW s \in Senders PROVE AllIn(stash'[s], Through(s))
      BY <2>6, <2>7 DEF Shape, Labelled, SendersLabelled
    <3>. QED  BY <2>8, <3>1, <3>2 DEF SendersLabelled, Shape, Labelled
  <2>12. Shape'
    BY <2>8, <2>9, <2>10, <2>11, ShapeStays DEF Shape, Labelled
  <2>13. ASSUME NEW s \in Sending, NEW v \in net.receivers, NEW c \in Channels PROVE KeptStep(s, v, c)
    <3>1. /\ InHand(s, v, c)' = InHand(s, v, c) /\ InLocal(s, v, c)' = InLocal(s, v, c)
          /\ InStage(s, v, c)' = InStage(s, v, c)
          /\ InFlow(s, v, c)' = InFlow(s, v, c) /\ InWriter(s, v, c)' = InWriter(s, v, c)
          /\ InSent(s, v, c)' = InSent(s, v, c)
      BY <2>8, CellsStay
    <3>2. Has(v, c)' = Has(v, c) /\ Dead' = Dead /\ medium' = medium
      BY <2>8, ShapeStays
    <3>3. /\ InQ(s, v) \in Queues /\ OutQ(s) \in Queues /\ Carrier(s) \in Senders
          /\ Up(s, v, c) \in Rows /\ InSent(s, v, c) \in Rows
          /\ InWriter(s, v, c) \in Rows /\ InStash(s, v, c) \in Rows /\ InOutlet(s, v, c) \in Rows
      BY <1>0, <2>3, Cells
    <3>4. InQ(s, v) # q
      BY <2>3, Names DEF InQ
    <3>5. InInlet(s, v, c)' = InInlet(s, v, c)
      BY <2>7, <2>8, <3>3, <3>4, CellsStay
    <3>6. Down(s, v, c)' = Down(s, v, c)
      BY <3>1, <3>2, <3>5 DEF Down
    <3>7. Up(s, v, c)' = Up(s, v, c)
      <4>0. Carrier(s)' = Carrier(s) /\ OutQ(s)' = OutQ(s)
        BY <2>8 DEF Carrier, OutQ, ThreadOf, medium
      <4>1. CASE Carrier(s) # s0
        <5>1. OutQ(s) # q
          BY <2>3, <4>1, Names DEF OutQ, ThreadOf, Carrier
        <5>. QED  BY <2>7, <2>8, <3>3, <4>1, <5>1, UpStays
      <4>2. CASE Carrier(s) = s0 /\ s # r
        <5>1. OutQ(s) # q
          BY <2>3, <4>2, Names DEF OutQ
        <5>2. From(r) \cap Mine(s, v, c) = {}
          BY <4>2 DEF From, Mine
        <5>3. Of(queue[q], s, v, c) = <<>>
          BY <2>5, <5>2, OfJoin
        <5>4. InStash(s, v, c)' = Of(Join(stash[s0], queue[q]), s, v, c)
          BY <2>7, <4>0, <4>2 DEF InStash
        <5>5. Of(Join(stash[s0], queue[q]), s, v, c) = Join(Of(stash[s0], s, v, c), <<>>)
          BY <2>5, <5>3, OfJoin
        <5>6. InStash(s, v, c) = Of(stash[s0], s, v, c)
          BY <4>2 DEF InStash
        <5>7. InStash(s, v, c)' = InStash(s, v, c)
          BY <3>3, <5>4, <5>5, <5>6, JoinFacts
        <5>8. InOutlet(s, v, c)' = InOutlet(s, v, c)
          BY <2>7, <2>8, <3>3, <5>1, CellsStay
        <5>. QED  BY <3>1, <3>2, <5>7, <5>8 DEF Up
      <4>3. CASE s = r
        <5>1. OutQ(s) = q /\ Carrier(s) = s0
          BY <2>4, <4>3
        <5>2. InOutlet(s, v, c)' = <<>>
          BY <2>7, <4>0, <5>1, OfJoin DEF InOutlet
        <5>3. InStash(s, v, c)' = Of(Join(stash[s0], queue[q]), s, v, c)
          BY <2>7, <4>0, <5>1 DEF InStash
        <5>4. InStash(s, v, c)' = Join(InStash(s, v, c), InOutlet(s, v, c))
          BY <2>5, <5>1, <5>3, OfJoin DEF InStash, InOutlet
        <5>5. Up(s, v, c)' = Row(InWriter(s, v, c), Join(InStash(s, v, c), InOutlet(s, v, c)), <<>>)
          BY <2>3, <3>1, <3>2, <5>2, <5>4 DEF Up
        <5>6. Up(s, v, c) = Row(InWriter(s, v, c), InStash(s, v, c), InOutlet(s, v, c))
          BY <2>3 DEF Up
        <5>. QED  BY <3>3, <5>5, <5>6, RowMoves
      <4>. QED  BY <4>1, <4>2, <4>3
    <3>8. <<>> \in Rows /\ InSent(s, v, c)' = Join(InSent(s, v, c), <<>>) /\ Up(s, v, c)' = Join(Up(s, v, c), <<>>)
      BY <3>1, <3>3, <3>7, JoinFacts
    <3>. QED  BY <1>0, <2>8, <3>2, <3>6, <3>8, KeptSides
  <2>. QED  BY <2>8, <2>12, <2>13 DEF Flows
<1>. QED  BY <1>1, <1>2 DEF drain

\* A send thread writes all that it has.
LEMMA AllEmitted ==
    ASSUME net \in Scenarios, Shape, NEW s0 \in Senders, net' = net, medium # "process", Dead' = Dead,
           UNCHANGED <<queue, sent, staged, received, valid, room, shift, bound, to_local, canaries>>,
           stream' = IF Dead THEN stream ELSE stream \o AllBytes(Join(writer[s0], stash[s0])),
           writer' = [writer EXCEPT ![s0] = <<>>], stash' = [stash EXCEPT ![s0] = <<>>]
    PROVE  Flows
<1> DEFINE ms == Join(writer[s0], stash[s0])
<1>1. /\ writer \in [Senders -> Rows] /\ stash \in [Senders -> Rows]
      /\ AllIn(writer[s0], Through(s0)) /\ AllIn(stash[s0], Through(s0))
      /\ writer[s0] \in Rows /\ stash[s0] \in Rows /\ <<>> \in Rows
  BY JoinFacts DEF Shape, RowsTyped, Labelled, SendersLabelled
<1>2. ms \in Rows /\ AllIn(ms, Through(s0))
  BY <1>1, JoinFacts, AllInJoin
<1>3. writer' \in [Senders -> Rows] /\ stash' \in [Senders -> Rows] /\ writer'[s0] = <<>> /\ stash'[s0] = <<>>
      /\ \A s \in Senders \ {s0} : writer'[s] = writer[s] /\ stash'[s] = stash[s]
  BY <1>1
<1>4. SendersLabelled'
  <2>1. /\ \A s : From(s)' = From(s)
        /\ \A s : Through(s)' = Through(s)
    BY ShapeStays DEF From, Through, ThreadOf
  <2>2. \A s \in Senders : AllIn(writer'[s], Through(s)) /\ AllIn(stash'[s], Through(s))
    BY <1>3, AllInJoin DEF Shape, Labelled, SendersLabelled
  <2>. QED  BY <2>1, <2>2 DEF SendersLabelled, Shape, Labelled
<1>5. ASSUME NEW s \in Sending, NEW v \in net.receivers, NEW c \in Channels
      PROVE  Join(Of(ms, s, v, c), Up(s, v, c)') = Up(s, v, c)
  <2>0. Carrier(s) \in Senders /\ Carrier(s)' = Carrier(s) /\ medium' = medium /\ Up(s, v, c) \in Rows
        /\ InWriter(s, v, c) \in Rows /\ InStash(s, v, c) \in Rows /\ InOutlet(s, v, c) \in Rows
    BY Cells, ShapeStays DEF Carrier
  <2>1. CASE Carrier(s) # s0
    <3>1. Up(s, v, c)' = Up(s, v, c)
      BY <1>3, <2>0, <2>1, UpStays
    <3>2. Of(ms, s, v, c) = <<>>
      <4>1. Through(s0) \cap Mine(s, v, c) = {}
        BY <2>1, CarrierFacts
      <4> HIDE DEF ms
      <4>. QED  BY <1>2, <4>1, OfJoin
    <3>. QED  BY <2>0, <3>1, <3>2, JoinFacts
  <2>2. CASE Carrier(s) = s0
    <3>1. Of(ms, s, v, c) = Join(InWriter(s, v, c), InStash(s, v, c))
      BY <1>1, <2>2, OfJoin DEF InWriter, InStash
    <3>2. InWriter(s, v, c)' = <<>> /\ InStash(s, v, c)' = <<>>
      BY <1>3, <2>0, <2>2, OfJoin DEF InWriter, InStash
    <3>3. InOutlet(s, v, c)' = InOutlet(s, v, c)
      BY CellsStay
    <3>4. Up(s, v, c)' = Row(<<>>, <<>>, InOutlet(s, v, c)) /\ Up(s, v, c) = Row(InWriter(s, v, c), InStash(s, v, c), InOutlet(s, v, c))
      BY <2>0, <3>2, <3>3 DEF Up
    <3> HIDE DEF ms
    <3>. QED  BY <2>0, <3>1, <3>4, RowMoves
  <2>. QED  BY <2>1, <2>2
<1>6. Emits(ms)
  BY <1>3, <1>4, <1>5 DEF Emits
<1> HIDE DEF ms
<1>. QED  BY <1>2, <1>6, EmitKept

\* write moves what was drained to the BufWriter or onto the connection.
LEMMA WriteData == \A s0 \in Senders : \A b : Typed /\ Shape /\ medium # "process" /\ write(s0, b) => Flows
<1> SUFFICES ASSUME NEW s0 \in Senders, NEW b, Typed, Shape, medium # "process", write(s0, b) PROVE Flows
  OBVIOUS
<1>1. /\ net \in Scenarios /\ net' = net /\ Dead' = Dead
      /\ UNCHANGED <<queue, sent, staged, received, valid, room, shift, bound, to_local, canaries>>
      /\ stash' = [stash EXCEPT ![s0] = <<>>]
  BY DEF write, Typed, worker_vars, recv_vars, Dead
<1>2. CASE writer' = [writer EXCEPT ![s0] = @ \o stash[s0]] /\ UNCHANGED stream
  <2>1. /\ writer \in [Senders -> Rows] /\ stash \in [Senders -> Rows]
        /\ AllIn(writer[s0], Through(s0)) /\ AllIn(stash[s0], Through(s0))
        /\ writer[s0] \in Rows /\ stash[s0] \in Rows /\ <<>> \in Rows
    BY JoinFacts DEF Shape, RowsTyped, Labelled, SendersLabelled
  <2>2. Join(writer[s0], stash[s0]) \in Rows /\ AllIn(Join(writer[s0], stash[s0]), Through(s0))
    BY <2>1, JoinFacts, AllInJoin
  <2>3. writer' \in [Senders -> Rows] /\ stash' \in [Senders -> Rows]
        /\ writer'[s0] = Join(writer[s0], stash[s0]) /\ stash'[s0] = <<>>
        /\ \A s \in Senders \ {s0} : writer'[s] = writer[s] /\ stash'[s] = stash[s]
    BY <1>1, <1>2, <2>1, <2>2 DEF Join
  <2>4. SendersLabelled'
    <3>1. /\ \A s : From(s)' = From(s)
          /\ \A s : Through(s)' = Through(s)
      BY <1>1, ShapeStays DEF From, Through, ThreadOf
    <3>2. \A s \in Senders : AllIn(writer'[s], Through(s)) /\ AllIn(stash'[s], Through(s))
      BY <2>2, <2>3, AllInJoin DEF Shape, Labelled, SendersLabelled
    <3>. QED  BY <1>1, <3>1, <3>2 DEF SendersLabelled, Shape, Labelled
  <2>5. ASSUME NEW s \in Sending, NEW v \in net.receivers, NEW c \in Channels
        PROVE  Join(Of(<<>>, s, v, c), Up(s, v, c)') = Up(s, v, c)
    <3>0. Carrier(s) \in Senders /\ Carrier(s)' = Carrier(s) /\ medium' = medium /\ Up(s, v, c) \in Rows
          /\ InWriter(s, v, c) \in Rows /\ InStash(s, v, c) \in Rows /\ InOutlet(s, v, c) \in Rows
      BY <1>1, Cells, ShapeStays DEF Carrier
    <3>1. Up(s, v, c)' = Up(s, v, c)
      <4>1. CASE Carrier(s) # s0
        BY <1>1, <2>3, <3>0, <4>1, UpStays
      <4>2. CASE Carrier(s) = s0
        <5>1. InWriter(s, v, c)' = Join(InWriter(s, v, c), InStash(s, v, c))
          BY <2>1, <2>3, <3>0, <4>2, OfJoin DEF InWriter, InStash
        <5>2. InStash(s, v, c)' = <<>>
          BY <2>3, <3>0, <4>2, OfJoin DEF InStash
        <5>3. InOutlet(s, v, c)' = InOutlet(s, v, c)
          BY <1>1, CellsStay
        <5>4. Up(s, v, c)' = Row(Join(InWriter(s, v, c), InStash(s, v, c)), <<>>, InOutlet(s, v, c))
              /\ Up(s, v, c) = Row(InWriter(s, v, c), InStash(s, v, c), InOutlet(s, v, c))
          BY <3>0, <5>1, <5>2, <5>3 DEF Up
        <5>. QED  BY <3>0, <5>4, RowMoves
      <4>. QED  BY <4>1, <4>2
    <3>2. Of(<<>>, s, v, c) = <<>>
      BY OfJoin
    <3>. QED  BY <3>0, <3>1, <3>2, JoinFacts
  <2>6. stream' = IF Dead THEN stream ELSE stream \o AllBytes(<<>>)
    <3>1. AllBytes(<<>>) = <<>> /\ stream \in Seq(Units)
      BY AllBytesFacts DEF Shape, RowsTyped
    <3>2. Join(stream, <<>>) = stream
      BY <3>1, JoinUnits
    <3>. QED  BY <1>2, <3>1, <3>2 DEF Join
  <2>7. Emits(<<>>)
    BY <1>1, <2>3, <2>4, <2>5, <2>6 DEF Emits
  <2>. QED  BY <1>1, <2>1, <2>7, EmitKept
<1>3. CASE /\ writer' = [writer EXCEPT ![s0] = <<>>]
           /\ emit(Thread(s0), writer[s0] \o stash[s0])
  BY <1>1, <1>3, AllEmitted DEF emit, Dead, Join
<1>. QED  BY <1>2, <1>3 DEF write

\* flush moves what is in the BufWriter onto the connection.
LEMMA FlushData == \A s0 \in Senders : Typed /\ Shape /\ medium # "process" /\ flush(s0) => Flows
<1> SUFFICES ASSUME NEW s0 \in Senders, Typed, Shape, medium # "process", flush(s0) PROVE Flows
  OBVIOUS
<1>1. /\ net \in Scenarios /\ net' = net /\ Dead' = Dead
      /\ UNCHANGED <<queue, sent, staged, received, valid, room, shift, bound, to_local, canaries>>
      /\ stash[s0] = <<>> /\ stash' = stash /\ writer' = [writer EXCEPT ![s0] = <<>>]
      /\ stream' = IF Dead THEN stream ELSE stream \o AllBytes(writer[s0])
  BY DEF flush, emit, Typed, worker_vars, recv_vars, Dead
<1>2. Join(writer[s0], stash[s0]) = writer[s0] /\ stash' = [stash EXCEPT ![s0] = <<>>]
  <2>1. writer[s0] \in Rows /\ stash \in [Senders -> Rows]
    BY DEF Shape, RowsTyped
  <2>2. Join(writer[s0], <<>>) = writer[s0]
    BY <2>1, JoinFacts
  <2>. QED  BY <1>1, <2>1, <2>2
<1>. QED  BY <1>1, <1>2, AllEmitted

\* A final header is for no worker.
LEMMA EndFacts ==
    ASSUME net \in Scenarios
    PROVE  End \in Mails /\ <<End>> \in Rows
           /\ \A s, v : \A c \in Channels : Of(<<End>>, s, v, c) = <<>>
<1>1. End \in Mails
  <2>1. Lead \in Sending /\ LastChannel \in Nat
    BY Cast, TransportAssumption
  <2>. QED  BY <2>1 DEF End, Mails
<1>2. <<End>> \in Rows
  BY <1>1 DEF Rows
<1>3. ASSUME NEW s, NEW v, NEW c \in Channels PROVE Of(<<End>>, s, v, c) = <<>>
  <2>1. End \notin Mine(s, v, c)
    BY <1>3 DEF End, Mine, Channels
  <2>. QED  BY <1>1, <2>1, OfFacts
<1>. QED  BY <1>1, <1>2, <1>3

(* A send thread that ends has nothing left in its queues; the header that  *)
(* it writes belongs to no channel.                                         *)
LEMMA FinalHeaderData ==
    \A s0 \in Senders : \A how \in {"shut", "open"} :
        WakeInv /\ Shape /\ medium # "process" /\ finish(s0, final_header(s0, how)) => Flows
<1> SUFFICES ASSUME NEW s0 \in Senders, NEW how \in {"shut", "open"},
                    WakeInv, Shape, medium # "process", finish(s0, final_header(s0, how))
             PROVE  Flows
  OBVIOUS
<1>1. /\ net \in Scenarios /\ net' = net
      /\ UNCHANGED <<queue, sent, stash, staged, received, valid, room, shift, bound, to_local, canaries>>
      /\ writer' = [writer EXCEPT ![s0] = <<>>]
      /\ stream' = IF Dead THEN stream ELSE stream \o AllBytes(Append(writer[s0], End))
  BY DEF finish, final_header, emit, WakeInv, Typed, worker_vars, recv_vars, Dead
<1>2. Dead' = Dead
  BY DEF finish, final_header, Dead
<1>3. writer[s0] = <<>> /\ writer \in [Senders -> Rows] /\ stash \in [Senders -> Rows]
  <2>1. pc[Thread(s0)] = "check"
    BY DEF finish, At
  <2>. QED  BY <2>1 DEF WakeInv, Checked, Shape, RowsTyped
<1>4. writer' = writer /\ Append(writer[s0], End) = <<End>>
  BY <1>1, <1>3
<1>5. SendersLabelled'
  BY <1>1, <1>4, ShapeStays DEF Shape, Labelled
<1>6. ASSUME NEW s \in Sending, NEW v \in net.receivers, NEW c \in Channels
      PROVE  Join(Of(<<End>>, s, v, c), Up(s, v, c)') = Up(s, v, c)
  <2>1. Up(s, v, c)' = Up(s, v, c)
    BY <1>1, <1>4, UpStays
  <2>2. Up(s, v, c) \in Rows
    BY <1>1, Cells
  <2>3. Of(<<End>>, s, v, c) = <<>>
    BY <1>1, EndFacts
  <2>. QED  BY <2>1, <2>2, <2>3, JoinFacts
<1>7. Emits(<<End>>)
  BY <1>1, <1>2, <1>3, <1>4, <1>5, <1>6 DEF Emits
<1>. QED  BY <1>1, <1>7, EndFacts, EmitKept

\* A connection breaks or is closed: what is behind may be lost.
Cuts(ms) ==
    /\ net' = net /\ medium # "process" /\ ~ Dead /\ Dead'
    /\ UNCHANGED <<queue, sent, stash, writer, staged, received, valid, room, shift, bound, to_local, canaries>>
    /\ stream' = stream \o AllBytes(ms)
    /\ \A s \in Sending, v \in net.receivers, c \in Channels :
          \E rest \in Rows : Join(Of(ms, s, v, c), rest) = Up(s, v, c)

\* A connection that is cut keeps the messages that are on it already.
LEMMA CutKept ==
    ASSUME net \in Scenarios, Shape, NEW ms \in Rows, Cuts(ms)
    PROVE  Flows
<1>0. /\ net' = net /\ medium # "process" /\ Dead' /\ ~ Dead
      /\ UNCHANGED <<queue, sent, stash, writer, staged, received, valid, room, shift, bound, to_local, canaries>>
  BY DEF Cuts
<1>1. /\ Rows' = Rows /\ Mails' = Mails /\ Units' = Units /\ medium' = medium /\ Sending' = Sending
      /\ QueuesLabelled' /\ SendersLabelled' /\ ReceiversLabelled' /\ LocalTyped' /\ SlabTyped' /\ Queues' = Queues
      /\ \A v, c : Has(v, c)' = Has(v, c)
  BY <1>0, ShapeStays DEF Shape, Labelled, Queues, Outlets, Inlets, ThreadOf
<1>2. Whole' /\ stream' \in Seq(Units) /\ Flow \in Rows /\ Flow' = Join(Flow, ms)
  BY FlowGrows DEF Cuts
<1>3. RowsTyped'
  BY <1>0, <1>1, <1>2 DEF RowsTyped, Shape
<1>4. Linked'
  BY <1>0, <1>1 DEF Linked
<1>5. Shape'
  BY <1>1, <1>2, <1>3, <1>4 DEF Shape, Labelled
<1>6. ASSUME NEW s \in Sending, NEW v \in net.receivers, NEW c \in Channels PROVE KeptStep(s, v, c)
  <2> DEFINE y == Of(ms, s, v, c)
             D == Down(s, v, c)
             U == Up(s, v, c)
  <2>1. /\ InHand(s, v, c)' = InHand(s, v, c) /\ InLocal(s, v, c)' = InLocal(s, v, c)
        /\ InStage(s, v, c)' = InStage(s, v, c)
        /\ InInlet(s, v, c)' = InInlet(s, v, c) /\ InSent(s, v, c)' = InSent(s, v, c)
    BY <1>0, CellsStay
  <2>2. InSent(s, v, c) \in Rows /\ D \in Rows /\ U \in Rows /\ y \in Rows
    BY Cells, OfJoin
  <2>3. InFlow(s, v, c)' = Join(InFlow(s, v, c), y)
    BY <1>2, OfJoin DEF InFlow
  <2>4. Down(s, v, c)' = Join(D, y)
    <3>1. Down(s, v, c)' = Line(InHand(s, v, c), InLocal(s, v, c), InInlet(s, v, c), InStage(s, v, c), Join(InFlow(s, v, c), y))
      BY <1>0, <1>1, <2>1, <2>3 DEF Down
    <3> HIDE DEF D, y
    <3>. QED  BY <1>0, <2>2, <3>1, DownGrows DEF D
  <2>5. PICK rest \in Rows : Join(y, rest) = U
    BY DEF Cuts
  <2> HIDE DEF D, U, y
  <2>6. Join(Join(D, y), rest) = Join(D, U) /\ Join(D, y) \in Rows
    BY <2>2, <2>5, JoinFacts
  <2>7. <<>> \in Rows /\ InSent(s, v, c)' = Join(InSent(s, v, c), <<>>)
    BY <2>1, <2>2, JoinFacts
  <2>8. Down(s, v, c)' \in Rows /\ \E z \in Rows : Join(Down(s, v, c)', z) = Join(Down(s, v, c), Up(s, v, c))
    BY <2>4, <2>5, <2>6 DEF D, U
  <2>. QED  BY <1>0, <1>1, <2>7, <2>8 DEF KeptStep
<1>. QED  BY <1>0, <1>5, <1>6 DEF Flows

\* Nothing is added to the connection.
LEMMA CutAtOnce ==
    ASSUME net \in Scenarios, Shape, net' = net, medium # "process", ~ Dead, Dead', stream' = stream,
           UNCHANGED <<queue, sent, stash, writer, staged, received, valid, room, shift, bound, to_local, canaries>>
    PROVE  Flows
<1>1. stream' = stream \o AllBytes(<<>>)
  <2>1. AllBytes(<<>>) = <<>> /\ stream \in Seq(Units)
    BY AllBytesFacts DEF Shape, RowsTyped
  <2>2. Join(stream, <<>>) = stream
    BY <2>1, JoinUnits
  <2>. QED  BY <2>1, <2>2 DEF Join
<1>2. \A s \in Sending, v \in net.receivers, c \in Channels :
          \E rest \in Rows : Join(Of(<<>>, s, v, c), rest) = Up(s, v, c)
  <2> SUFFICES ASSUME NEW s \in Sending, NEW v \in net.receivers, NEW c \in Channels
               PROVE  \E rest \in Rows : Join(Of(<<>>, s, v, c), rest) = Up(s, v, c)
    OBVIOUS
  <2>1. Up(s, v, c) \in Rows /\ Of(<<>>, s, v, c) = <<>>
    BY Cells, OfJoin
  <2>. QED  BY <2>1, JoinFacts
<1>3. Cuts(<<>>) /\ <<>> \in Rows
  BY <1>1, <1>2, JoinFacts DEF Cuts
<1>. QED  BY <1>3, CutKept

\* Closing a QUIC connection loses what was not read, and no more.
LEMMA CloseData ==
    \A s0 \in Senders : WakeInv /\ Shape /\ medium # "process" /\ finish(s0, close_connection) => Flows
<1> SUFFICES ASSUME NEW s0 \in Senders, WakeInv, Shape, medium # "process", finish(s0, close_connection)
             PROVE  Flows
  OBVIOUS
<1>1. /\ net \in Scenarios /\ net' = net
      /\ UNCHANGED <<queue, sent, stash, staged, received, valid, room, shift, bound, to_local, canaries>>
      /\ writer' = [writer EXCEPT ![s0] = <<>>] /\ stream' = stream
      /\ closed' = IF closed = "open" THEN "closed" ELSE closed
  BY DEF finish, close_connection, WakeInv, Typed, worker_vars, recv_vars
<1>2. writer[s0] = <<>> /\ writer \in [Senders -> Rows]
  <2>1. pc[Thread(s0)] = "check"
    BY DEF finish, At
  <2>. QED  BY <2>1 DEF WakeInv, Checked, Shape, RowsTyped
<1>3. writer' = writer
  BY <1>1, <1>2
<1>4. CASE closed = "open"
  BY <1>1, <1>3, <1>4, CutAtOnce DEF Dead
<1>5. CASE closed # "open"
  <2>1. Still
    BY <1>1, <1>3, <1>5 DEF Still
  <2>. QED  BY <1>1, <2>1, StillStep
<1>. QED  BY <1>4, <1>5

\* A stream that is finished keeps what was written.
LEMMA FinishedData == Typed /\ Shape /\ stream_finished => Flows
<1> SUFFICES ASSUME Typed, Shape, stream_finished PROVE Flows
  OBVIOUS
<1>1. Still
  BY DEF stream_finished, Still, worker_vars, recv_vars, send_vars
<1>. QED  BY <1>1, StillStep DEF Typed

\* So does closing it from the other end.
LEMMA ReceiverCloseData == Typed /\ Shape /\ receiver_process_closes => Flows
<1> SUFFICES ASSUME Typed, Shape, receiver_process_closes PROVE Flows
  OBVIOUS
<1>1. /\ net \in Scenarios /\ net' = net /\ medium = "quic"
      /\ UNCHANGED <<queue, sent, stash, writer, staged, received, valid, room, shift, bound, to_local, canaries>>
      /\ closed \in {"open", "shut"} /\ closed' = "closed" /\ stream' = stream
  BY DEF receiver_process_closes, Typed, worker_vars, recv_vars, send_vars
<1>. QED  BY <1>1, CutAtOnce DEF Dead

\* A process that exits loses what it had not sent, and no more.
LEMMA ExitData == Typed /\ Shape /\ sender_process_exits => Flows
<1> SUFFICES ASSUME Typed, Shape, sender_process_exits PROVE Flows
  OBVIOUS
<1>1. /\ net \in Scenarios /\ net' = net /\ medium \in Networks
      /\ UNCHANGED <<queue, sent, stash, writer, staged, received, valid, room, shift, bound, to_local, canaries>>
      /\ closed \in {"open", "shut"} /\ closed' = "cut"
      /\ \E rest \in {<<>>, AllBytes(writer[Lead])} : stream' = stream \o rest
  BY DEF sender_process_exits, Typed, worker_vars, recv_vars, send_vars
<1>2. medium # "process" /\ medium # "ipc" /\ ~ Dead /\ Dead'
  BY <1>1 DEF Networks, Dead
<1>3. CASE stream' = stream \o <<>>
  <2>1. stream \in Seq(Units)
    BY DEF Shape, RowsTyped
  <2>2. Join(stream, <<>>) = stream
    BY <2>1, JoinUnits
  <2>3. stream' = stream
    BY <1>3, <2>2 DEF Join
  <2>. QED  BY <1>1, <1>2, <2>3, CutAtOnce
<1>4. CASE stream' = stream \o AllBytes(writer[Lead])
  <2>1. writer[Lead] \in Rows
    BY TransportAssumption DEF Shape, RowsTyped
  <2>2. ASSUME NEW s \in Sending, NEW v \in net.receivers, NEW c \in Channels
        PROVE  \E rest \in Rows : Join(Of(writer[Lead], s, v, c), rest) = Up(s, v, c)
    <3>1. Of(writer[Lead], s, v, c) = InWriter(s, v, c)
      BY <1>2 DEF InWriter, Carrier
    <3>2. InWriter(s, v, c) \in Rows /\ InStash(s, v, c) \in Rows /\ InOutlet(s, v, c) \in Rows
      BY <1>1, <1>2, Cells
    <3>3. Up(s, v, c) = Row(InWriter(s, v, c), InStash(s, v, c), InOutlet(s, v, c))
      BY <1>2 DEF Up
    <3>. QED  BY <3>1, <3>2, <3>3, JoinFacts DEF Row
  <2>3. Cuts(writer[Lead])
    BY <1>1, <1>2, <1>4, <2>2 DEF Cuts
  <2>. QED  BY <1>1, <2>1, <2>3, CutKept
<1>. QED  BY <1>1, <1>3, <1>4

-----------------------------------------------------------------------------
(* Steps of the receive thread.                                             *)

\* Some size of a buffer is enough.
LEMMA ShiftFits ==
    ASSUME shift \in Nat, NEW n \in Nat
    PROVE  ShiftFor(n) \in Nat /\ 2^ShiftFor(n) \in Nat /\ 2^ShiftFor(n) >= n
<1> DEFINE S == {k \in shift .. shift + n : 2^k >= n}
           m == shift + n
<1>1. m \in S
  <2>1. m \in Nat /\ m < 2^m /\ 2^m \in Nat
    BY Powers
  <2>2. \A x \in Nat : m < x => n <= x
    OBVIOUS
  <2>3. n <= 2^m
    <3> HIDE DEF m
    <3>. QED  BY <2>1, <2>2
  <2>. QED  BY <2>1, <2>3
<1>2. IsFiniteSet(S) /\ S \in SUBSET Int
  <2>1. IsFiniteSet(shift .. m) /\ S \in SUBSET (shift .. m)
    BY FS_Interval
  <2> HIDE DEF S
  <2>2. IsFiniteSet(S)
    BY <2>1, FS_Subset
  <2>. QED  BY <2>1, <2>2
<1>3. PICK k \in S : \A x \in S : k <= x
  <2> HIDE DEF S
  <2>. QED  BY <1>1, <1>2, SmallestExists
<1>4. \A j \in shift .. k - 1 : 2^j < n
  <2> SUFFICES ASSUME NEW j \in shift .. k - 1 PROVE 2^j < n
    OBVIOUS
  <2>1. k \in Int /\ j \in Nat /\ ~ k <= j /\ j \in shift .. shift + n
    BY <1>3
  <2>2. j \notin S
    BY <1>3, <2>1
  <2>3. 2^j \in Nat
    BY <2>1, Powers
  <2>4. ~ 2^j >= n
    BY <2>1, <2>2
  <2>. QED  BY <2>3, <2>4
<1>5. \E z \in shift .. shift + n : 2^z >= n /\ \A j \in shift .. z - 1 : 2^j < n
  BY <1>3, <1>4
<1>6. ShiftFor(n) \in shift .. shift + n /\ 2^ShiftFor(n) >= n
  BY <1>5 DEF ShiftFor
<1>7. ShiftFor(n) \in Nat
  BY <1>6
<1>8. 2^ShiftFor(n) \in Nat
  BY <1>7, Powers
<1>. QED  BY <1>6, <1>7, <1>8

\* There is room for what was asked for.
LEMMA RoomFits ==
    ASSUME SlabTyped, valid \in Seq(Units), NEW n \in Nat
    PROVE  ensure_capacity(n).room \in Nat /\ ensure_capacity(n).room >= n /\ ensure_capacity(n).shift \in Nat
<1>0. room \in Nat /\ shift \in Nat /\ Len(valid) \in Nat
  BY DEF SlabTyped
<1>1. CASE room >= n
  <2>1. ensure_capacity(n) = [shift |-> shift, room |-> room]
    BY <1>1 DEF ensure_capacity
  <2>. QED  BY <1>0, <1>1, <2>1
<1>2. CASE ~ room >= n
  <2> DEFINE l == Len(valid) + n
             k == ShiftFor(l)
  <2>1. ensure_capacity(n) = [shift |-> k, room |-> 2^k - Len(valid)]
    BY <1>2 DEF ensure_capacity
  <2>2. l \in Nat
    BY <1>0
  <2>3. k \in Nat /\ 2^k \in Nat /\ 2^k >= l
    <3> HIDE DEF l
    <3>. QED  BY <1>0, <2>2, ShiftFits
  <2> DEFINE p == 2^k
  <2>4. p \in Nat /\ p >= Len(valid) + n
    BY <2>3
  <2>5. ensure_capacity(n).room = p - Len(valid) /\ ensure_capacity(n).shift = k
    BY <2>1
  <2> HIDE DEF p, k
  <2>. QED  BY <1>0, <2>3, <2>4, <2>5
<1>. QED  BY <1>1, <1>2

\* What is staged next was on the connection.
LEMMA DownTakes ==
    ASSUME net \in Scenarios, Shape, medium # "process", NEW x \in Rows, NEW f \in Rows,
           NEW s \in Sending, NEW v \in net.receivers, NEW c \in Channels,
           InFlow(s, v, c) = Join(x, f)
    PROVE  Line(InHand(s, v, c), InLocal(s, v, c), InInlet(s, v, c), Join(InStage(s, v, c), x), f)
           = Down(s, v, c)
<1>1. /\ InHand(s, v, c) \in Rows /\ InLocal(s, v, c) \in Rows /\ InInlet(s, v, c) \in Rows
      /\ InStage(s, v, c) \in Rows
  BY Cells
<1>2. Down(s, v, c) = Line(InHand(s, v, c), InLocal(s, v, c), InInlet(s, v, c), InStage(s, v, c), Join(x, f))
  BY DEF Down
<1>. QED  BY <1>1, <1>2, LineTakes

(* A step that takes p off the connection, r being left, and stages the     *)
(* messages in it.                                                          *)
Takes(p, r) ==
    /\ net' = net /\ medium # "process"
    /\ UNCHANGED <<queue, sent, stash, writer, received, closed, bound, to_local, canaries>>
    /\ p \in Seq(Units) /\ r \in Seq(Units) /\ valid \o stream = p \o r
    /\ stage(Carve(p).messages) /\ valid' = Carve(p).left /\ stream' = r
    /\ SlabTyped'

\* A read of any part of the flow stages the complete messages in it, in order.
LEMMA TakeKept ==
    ASSUME net \in Scenarios, Shape, NEW p, NEW r, Takes(p, r)
    PROVE  Flows
<1>0. /\ net' = net /\ medium # "process"
      /\ UNCHANGED <<queue, sent, stash, writer, received, closed, bound, to_local, canaries>>
      /\ SlabTyped' /\ stream' = r /\ r \in Seq(Units) /\ p \in Seq(Units)
  BY DEF Takes
<1>1. /\ Rows' = Rows /\ Mails' = Mails /\ Units' = Units /\ medium' = medium /\ Sending' = Sending
      /\ QueuesLabelled' /\ SendersLabelled' /\ LocalTyped' /\ Queues' = Queues /\ Linked'
      /\ Dead' = Dead
      /\ \A v, c : Has(v, c)' = Has(v, c)
  BY <1>0, ShapeStays DEF Shape, Labelled, Queues, Outlets, Inlets, ThreadOf
<1>2. PICK k \in Rows : valid \o stream = AllBytes(k)
  BY DEF Shape, Whole
<1>3. CutsInto(Carve(p), r, k)
  <2>1. p \o r = AllBytes(k)
    BY <1>2 DEF Takes
  <2>. QED  BY <1>0, <2>1, CarveFacts DEF Rows
<1>4. PICK a \in Rows, b \in Rows :
          /\ k = a \o b /\ Carve(p).messages = a
          /\ Carve(p).left \in Seq(Units) /\ Carve(p).left \o r = AllBytes(b)
  BY <1>3 DEF CutsInto, Rows
<1>5. valid' \in Seq(Units) /\ valid' \o stream' = AllBytes(b)
  BY <1>0, <1>4 DEF Takes
<1>6. Whole' /\ stream' \in Seq(Units)
  BY <1>0, <1>1, <1>4, <1>5 DEF Whole
<1>7. Flow = Join(a, b) /\ Flow' = b
  <2>1. Join(valid, stream) \in Seq(Units)
    BY JoinUnits DEF Shape, RowsTyped
  <2>2. Flow = k
    BY <1>2, <2>1, CarveWhole DEF Flow, Join
  <2> DEFINE z == valid' \o stream'
  <2>3. z \in Seq(Units) /\ z = AllBytes(b)
    BY <1>4, <1>5, AllBytesFacts DEF Rows
  <2>4. Flow' = Carve(z).messages
    BY DEF Flow
  <2> HIDE DEF z
  <2>5. Flow' = b
    BY <1>4, <2>3, <2>4, CarveWhole
  <2>. QED  BY <1>4, <2>2, <2>5 DEF Join
<1>8. /\ staged' = [v \in Receivers |-> Join(staged[v], Among(a, For(v)))]
      /\ staged \in [Receivers -> Rows]
      /\ \A v \in Receivers : Among(a, For(v)) \in Rows /\ AllIn(Among(a, For(v)), For(v))
  <2>1. \A v : Selected(a, {i \in DOMAIN a : v \in a[i].to}) = Among(a, For(v))
    BY <1>4, OfAmong DEF Rows
  <2>2. staged' = [v \in Receivers |-> staged[v] \o Selected(a, {i \in DOMAIN a : v \in a[i].to})]
    BY <1>4 DEF Takes, stage
  <2>3. staged' = [v \in Receivers |-> Join(staged[v], Among(a, For(v)))]
    BY <2>1, <2>2 DEF Join
  <2>4. \A v \in Receivers : Among(a, For(v)) \in Rows /\ AllIn(Among(a, For(v)), For(v))
    BY <1>4, AmongCases, AllInFacts DEF Rows
  <2>. QED  BY <2>3, <2>4 DEF Shape, RowsTyped
<1>9. ASSUME NEW v \in Receivers
      PROVE  staged'[v] \in Rows /\ AllIn(staged'[v], For(v)) /\ staged'[v] = Join(staged[v], Among(a, For(v)))
  <2>1. staged[v] \in Rows /\ AllIn(staged[v], For(v))
    BY <1>8 DEF Shape, Labelled, ReceiversLabelled
  <2>. QED  BY <1>8, <2>1, JoinFacts, AllInJoin
<1>10. staged' \in [Receivers -> Rows]
  BY <1>8, <1>9
<1>11. RowsTyped'
  BY <1>0, <1>1, <1>5, <1>6, <1>10 DEF RowsTyped, Shape
<1>12. ReceiversLabelled'
  <2>1. /\ \A v : For(v)' = For(v)
        /\ \A c : In(c)' = In(c)
    BY <1>1 DEF For, In
  <2>. QED  BY <1>0, <1>9, <2>1 DEF ReceiversLabelled, Shape, Labelled
<1>13. Shape'
  BY <1>0, <1>1, <1>6, <1>11, <1>12 DEF Shape, Labelled
<1>14. ASSUME NEW s \in Sending, NEW v \in net.receivers, NEW c \in Channels PROVE KeptStep(s, v, c)
  <2>1. /\ InHand(s, v, c)' = InHand(s, v, c) /\ InLocal(s, v, c)' = InLocal(s, v, c)
        /\ InInlet(s, v, c)' = InInlet(s, v, c) /\ InSent(s, v, c)' = InSent(s, v, c)
        /\ InWriter(s, v, c)' = InWriter(s, v, c) /\ InStash(s, v, c)' = InStash(s, v, c)
        /\ InOutlet(s, v, c)' = InOutlet(s, v, c)
    BY <1>0, CellsStay
  <2>2. /\ InSent(s, v, c) \in Rows /\ Up(s, v, c) \in Rows /\ v \in Receivers
        /\ InHand(s, v, c) \in Rows /\ InLocal(s, v, c) \in Rows /\ InInlet(s, v, c) \in Rows
        /\ InStage(s, v, c) \in Rows
    BY Cells
  <2> DEFINE x == Of(a, s, v, c)
             f == Of(b, s, v, c)
  <2>3. x \in Rows /\ f \in Rows
    BY <1>4, OfJoin
  <2>4. InStage(s, v, c)' = Join(InStage(s, v, c), x)
    <3>1. staged[v] \in Rows /\ Among(a, For(v)) \in Rows
      BY <1>8, <2>2
    <3>2. Of(Among(a, For(v)), s, v, c) = x
      BY <1>4, OfSorted DEF Rows
    <3>3. InStage(s, v, c)' = Of(Join(staged[v], Among(a, For(v))), s, v, c)
      BY <1>9, <2>2 DEF InStage
    <3>. QED  BY <3>1, <3>2, <3>3, OfJoin DEF InStage
  <2>5. InFlow(s, v, c)' = f /\ InFlow(s, v, c) = Join(x, f)
    BY <1>4, <1>7, OfJoin DEF InFlow
  <2>6. Up(s, v, c)' = Up(s, v, c)
    BY <1>1, <2>1 DEF Up
  <2>7. Down(s, v, c)' = Down(s, v, c)
    <3> HIDE DEF x, f
    <3>1. Down(s, v, c)' = Line(InHand(s, v, c), InLocal(s, v, c), InInlet(s, v, c), Join(InStage(s, v, c), x), f)
      BY <1>0, <1>1, <2>1, <2>4, <2>5 DEF Down
    <3>. QED  BY <1>0, <2>3, <2>5, <3>1, DownTakes
  <2>8. <<>> \in Rows /\ InSent(s, v, c)' = Join(InSent(s, v, c), <<>>) /\ Up(s, v, c)' = Join(Up(s, v, c), <<>>)
    BY <2>1, <2>2, <2>6, JoinFacts
  <2>. QED  BY <1>0, <1>1, <2>7, <2>8, KeptSides
<1>. QED  BY <1>0, <1>13, <1>14 DEF Flows

\* read takes a part of what is on the connection.
LEMMA ReadTakes ==
    \A n : Typed /\ Shape /\ medium # "process" /\ read(n)
          => Takes(valid \o SubSeq(stream, 1, n), SubSeq(stream, n + 1, Len(stream)))
<1> SUFFICES ASSUME NEW n, Typed, Shape, medium # "process", read(n)
             PROVE  Takes(valid \o SubSeq(stream, 1, n), SubSeq(stream, n + 1, Len(stream)))
  OBVIOUS
<1> DEFINE p == valid \o SubSeq(stream, 1, n)
           r == SubSeq(stream, n + 1, Len(stream))
           slab == ensure_capacity(1)
<1>1. /\ net \in Scenarios /\ net' = net
      /\ UNCHANGED <<queue, sent, stash, writer, received, closed, bound, to_local, canaries>>
      /\ stage(Carve(p).messages) /\ valid' = Carve(p).left /\ stream' = r
  BY DEF read, Typed, worker_vars, send_vars
<1>2. n \in 1 .. Len(stream) /\ n <= slab.room /\ shift' = slab.shift /\ room' = slab.room - n
  BY DEF read
<1>3. valid \in Seq(Units) /\ stream \in Seq(Units) /\ SlabTyped
  BY DEF Shape, RowsTyped
<1>4. SlabTyped'
  <2>1. slab.room \in Nat /\ slab.shift \in Nat
    BY <1>3, RoomFits
  <2> HIDE DEF slab
  <2>. QED  BY <1>2, <1>3, <2>1 DEF SlabTyped
<1>5. /\ SubSeq(stream, 1, n) \in Seq(Units) /\ r \in Seq(Units)
      /\ SubSeq(stream, 1, n) \o r = stream
  <2>1. n \in Int /\ Len(stream) \in Nat /\ n >= 1 /\ n <= Len(stream)
    BY <1>2, <1>3
  <2>2. SubSeq(stream, 1, n) \in Seq(Units) /\ r \in Seq(Units)
    BY <1>3, <2>1
  <2>3. SubSeq(stream, 1, n) \o r = SubSeq(stream, 1, Len(stream))
    BY <1>3, <2>1, ConcatAdjacentSubSeq
  <2>4. SubSeq(stream, 1, Len(stream)) = stream
    BY <1>3, SubSeqFull
  <2>. QED  BY <2>2, <2>3, <2>4
<1>6. p \in Seq(Units) /\ valid \o stream = p \o r
  <2> DEFINE a == SubSeq(stream, 1, n)
  <2>1. a \in Seq(Units) /\ r \in Seq(Units) /\ Join(a, r) = stream
    BY <1>5 DEF Join
  <2>2. p = Join(valid, a)
    BY DEF Join
  <2> HIDE DEF a, p, r
  <2>3. p \in Seq(Units) /\ Join(valid, stream) = Join(p, r)
    BY <1>3, <2>1, <2>2, JoinUnits
  <2>. QED  BY <2>3 DEF Join
<1> HIDE DEF p, r
<1>7. Takes(p, r)
  BY <1>1, <1>4, <1>5, <1>6 DEF Takes, r
<1>. QED  BY <1>7 DEF p, r

\* read stages the complete messages in it, in order.
LEMMA ReadData == \A n : Typed /\ Shape /\ medium # "process" /\ read(n) => Flows
<1> SUFFICES ASSUME NEW n, Typed, Shape, medium # "process", read(n) PROVE Flows
  OBVIOUS
<1> DEFINE p == valid \o SubSeq(stream, 1, n)
           r == SubSeq(stream, n + 1, Len(stream))
<1>1. net \in Scenarios /\ Shape /\ Takes(p, r)
  BY ReadTakes DEF Typed
<1> HIDE DEF p, r
<1>. QED  BY <1>1, TakeKept

\* on_event takes all of it.
LEMMA EventTakes ==
    Typed /\ Shape /\ medium # "process" /\ on_event
    /\ UNCHANGED <<net, queue, sent, stash, writer, received, closed, bound, to_local, canaries>>
    => Takes(valid \o stream, <<>>)
<1> SUFFICES ASSUME Typed, Shape, medium # "process", on_event,
                    UNCHANGED <<net, queue, sent, stash, writer, received, closed, bound, to_local, canaries>>
             PROVE  Takes(valid \o stream, <<>>)
  OBVIOUS
<1> DEFINE p == valid \o stream
           n == Len(valid) + Len(stream)
           slab == ensure_capacity(n)
<1>1. net \in Scenarios /\ stage(Carve(p).messages) /\ valid' = Carve(p).left /\ stream' = <<>>
  BY DEF on_event, Typed
<1>2. shift' = slab.shift /\ room' = slab.room - Len(stream)
  BY DEF on_event
<1>3. valid \in Seq(Units) /\ stream \in Seq(Units) /\ SlabTyped
  BY DEF Shape, RowsTyped
<1>4. SlabTyped'
  <2>0. n \in Nat /\ Len(stream) \in Nat /\ n >= Len(stream)
    BY <1>3
  <2>1. slab.room \in Nat /\ slab.shift \in Nat /\ slab.room >= n
    <3> HIDE DEF n
    <3>. QED  BY <1>3, <2>0, RoomFits
  <2> HIDE DEF slab, n
  <2>. QED  BY <1>2, <2>0, <2>1 DEF SlabTyped
<1>5. p \in Seq(Units) /\ <<>> \in Seq(Units) /\ valid \o stream = p \o <<>>
  <2>1. Join(valid, stream) \in Seq(Units)
    BY <1>3, JoinUnits
  <2>2. p \in Seq(Units) /\ p = valid \o stream
    BY <2>1 DEF Join
  <2> HIDE DEF p
  <2>3. Join(p, <<>>) = p /\ <<>> \in Seq(Units)
    BY <2>2, JoinUnits
  <2>. QED  BY <2>2, <2>3 DEF Join
<1> HIDE DEF p
<1>6. Takes(p, <<>>)
  BY <1>1, <1>4, <1>5 DEF Takes
<1>. QED  BY <1>6 DEF p

\* on_event stages all complete messages, in order.
LEMMA EventData ==
    Typed /\ Shape /\ medium # "process" /\ on_event
    /\ UNCHANGED <<net, queue, sent, stash, writer, received, closed, bound, to_local, canaries>> => Flows
<1> SUFFICES ASSUME Typed, Shape, medium # "process", on_event,
                    UNCHANGED <<net, queue, sent, stash, writer, received, closed, bound, to_local, canaries>>
             PROVE  Flows
  OBVIOUS
<1> DEFINE p == valid \o stream
<1>1. net \in Scenarios /\ Shape /\ Takes(p, <<>>)
  BY EventTakes DEF Typed
<1> HIDE DEF p
<1>. QED  BY <1>1, TakeKept

\* What was staged for a worker comes last in its queue.
LEMMA DownPasses ==
    ASSUME net \in Scenarios, Shape, medium # "process",
           NEW s \in Sending, NEW v \in net.receivers, NEW c \in Channels
    PROVE  Line(InHand(s, v, c), InLocal(s, v, c), Join(InInlet(s, v, c), InStage(s, v, c)), <<>>, InFlow(s, v, c))
           = Down(s, v, c)
<1>1. /\ InHand(s, v, c) \in Rows /\ InLocal(s, v, c) \in Rows /\ InInlet(s, v, c) \in Rows
      /\ InStage(s, v, c) \in Rows /\ InFlow(s, v, c) \in Rows
  BY Cells
<1>2. Down(s, v, c) = Line(InHand(s, v, c), InLocal(s, v, c), InInlet(s, v, c), InStage(s, v, c), InFlow(s, v, c))
  BY DEF Down
<1>. QED  BY <1>1, <1>2, LinePasses

\* pass_along puts what is staged for a worker last in its queue.
LEMMA PassData == Typed /\ Shape /\ medium # "process" /\ pass_along => Flows
<1> SUFFICES ASSUME Typed, Shape, medium # "process", pass_along PROVE Flows
  OBVIOUS
<1>0. net \in Scenarios
  BY DEF Typed
<1>1. CASE leave(Inbox, "unwind")
  <2>1. Still
    BY <1>1 DEF leave, Still, worker_vars, recv_vars, send_vars, link_vars
  <2>. QED  BY <1>0, <2>1, StillStep
<1>2. CASE \E u \in net.receivers :
              /\ queue' = [queue EXCEPT ![<<Inbox, Worker(u)>>] = @ \o staged[u]]
              /\ staged' = [staged EXCEPT ![u] = <<>>]
              /\ UNCHANGED <<net, sent, valid, room, shift>>
              /\ UNCHANGED <<worker_vars, send_vars, link_vars>>
  <2>1. PICK u \in net.receivers :
              /\ queue' = [queue EXCEPT ![<<Inbox, Worker(u)>>] = @ \o staged[u]]
              /\ staged' = [staged EXCEPT ![u] = <<>>]
              /\ UNCHANGED <<net, sent, valid, room, shift>>
              /\ UNCHANGED <<worker_vars, send_vars, link_vars>>
    BY <1>2
  <2> DEFINE q == <<Inbox, Worker(u)>>
  <2>2. q \in Inlets(u) /\ q \in Queues /\ u \in Receivers
    BY <1>0, Cast DEF Inlets, Queues
  <2>3. \A s : q \notin Outlets(s)
    BY Names DEF Outlets
  <2>4. \A v : q \in Inlets(v) => v = u
    BY Names DEF Inlets
  <2>5. \A v : medium # "process" => InQ(v, u) = q
    BY DEF InQ
  <2>5a. \A s, v : v # u => InQ(s, v) # q
    BY Names DEF InQ
  <2>5b. \A s : OutQ(s) # q
    BY Names DEF OutQ
  <2>6. queue' = [queue EXCEPT ![q] = @ \o staged[u]]
    BY <2>1
  <2> HIDE DEF q
  <2>7. /\ queue \in [Queues -> Rows] /\ staged \in [Receivers -> Rows] /\ <<>> \in Rows
        /\ queue[q] \in Rows /\ staged[u] \in Rows
        /\ AllIn(queue[q], For(u)) /\ AllIn(staged[u], For(u))
    BY <2>2, JoinFacts DEF Shape, RowsTyped, Labelled, QueuesLabelled, ReceiversLabelled
  <2>8. Join(queue[q], staged[u]) \in Rows /\ AllIn(Join(queue[q], staged[u]), For(u))
    BY <2>7, JoinFacts, AllInJoin
  <2>9. /\ queue' \in [Queues -> Rows] /\ queue'[q] = Join(queue[q], staged[u])
        /\ \A p \in Queues \ {q} : queue'[p] = queue[p]
        /\ staged' \in [Receivers -> Rows] /\ staged'[u] = <<>> /\ \A v \in Receivers \ {u} : staged'[v] = staged[v]
    BY <2>1, <2>2, <2>6, <2>7, <2>8 DEF Join
  <2>10. /\ net' = net
         /\ UNCHANGED <<writer, stash, received, valid, stream, room, shift, closed, sent>>
         /\ UNCHANGED <<bound, to_local, canaries>>
    BY <2>1 DEF worker_vars, send_vars, link_vars
  <2>11. RowsTyped'
    <3>1. Queues' = Queues /\ Rows' = Rows /\ Units' = Units
      BY <2>10, ShapeStays DEF Queues, Outlets, Inlets, ThreadOf
    <3>. QED  BY <2>9, <2>10, <3>1 DEF RowsTyped, Shape
  <2>12. QueuesLabelled'
    <3>1. /\ \A s : From(s)' = From(s)
          /\ \A v : For(v)' = For(v)
          /\ \A s : Outlets(s)' = Outlets(s)
          /\ \A v : Inlets(v)' = Inlets(v)
          /\ Sending' = Sending
      BY <2>10, ShapeStays DEF From, For, Outlets, Inlets, ThreadOf
    <3>2. ASSUME NEW s \in Sending, NEW p \in Outlets(s) PROVE AllIn(queue'[p], From(s))
      <4>1. p \in Queues /\ p # q /\ AllIn(queue[p], From(s))
        BY <2>3 DEF Queues, Shape, Labelled, QueuesLabelled
      <4>. QED  BY <2>9, <4>1
    <3>3. ASSUME NEW v \in net.receivers, NEW p \in Inlets(v) PROVE AllIn(queue'[p], For(v))
      <4>1. p \in Queues /\ AllIn(queue[p], For(v))
        BY DEF Queues, Shape, Labelled, QueuesLabelled
      <4>. QED  BY <2>4, <2>8, <2>9, <4>1
    <3>. QED  BY <2>10, <3>1, <3>2, <3>3 DEF QueuesLabelled
  <2>13. ReceiversLabelled'
    <3>1. /\ \A v : For(v)' = For(v)
          /\ \A c : In(c)' = In(c)
      BY <2>10, ShapeStays DEF For, In
    <3>2. \A v \in Receivers : AllIn(staged'[v], For(v))
      BY <2>9, AllInJoin DEF Shape, Labelled, ReceiversLabelled
    <3>. QED  BY <2>10, <3>1, <3>2 DEF ReceiversLabelled, Shape, Labelled
  <2>14. Shape'
    BY <2>10, <2>11, <2>12, <2>13, ShapeStays DEF Shape, Labelled
  <2>15. ASSUME NEW s \in Sending, NEW v \in net.receivers, NEW c \in Channels PROVE KeptStep(s, v, c)
    <3>1. /\ InHand(s, v, c)' = InHand(s, v, c) /\ InLocal(s, v, c)' = InLocal(s, v, c)
          /\ InFlow(s, v, c)' = InFlow(s, v, c) /\ InSent(s, v, c)' = InSent(s, v, c)
      BY <2>10, CellsStay
    <3>2. Has(v, c)' = Has(v, c) /\ Dead' = Dead /\ medium' = medium
      BY <2>10, ShapeStays
    <3>3. /\ InQ(s, v) \in Queues /\ OutQ(s) \in Queues /\ v \in Receivers
          /\ Up(s, v, c) \in Rows /\ InSent(s, v, c) \in Rows
          /\ InInlet(s, v, c) \in Rows /\ InStage(s, v, c) \in Rows
      BY <1>0, Cells
    <3>4. Up(s, v, c)' = Up(s, v, c)
      BY <2>5b, <2>9, <2>10, <3>3, UpStays
    <3>5. Down(s, v, c)' = Down(s, v, c)
      <4>1. CASE v = u
        <5>1. InQ(s, v) = q /\ InQ(s, v)' = q
          <6>1. InQ(s, v)' = InQ(s, v)
            BY <3>2 DEF InQ
          <6>. QED  BY <2>5, <4>1, <6>1
        <5>2. InInlet(s, v, c)' = Join(InInlet(s, v, c), InStage(s, v, c))
          <6>1. InInlet(s, v, c)' = Of(Join(queue[q], staged[u]), s, v, c)
            BY <2>9, <5>1 DEF InInlet
          <6>2. InInlet(s, v, c) = Of(queue[q], s, v, c) /\ InStage(s, v, c) = Of(staged[u], s, v, c)
            BY <4>1, <5>1 DEF InInlet, InStage
          <6>. QED  BY <2>7, <6>1, <6>2, OfJoin
        <5>3. InStage(s, v, c)' = <<>>
          BY <2>9, <4>1, OfJoin DEF InStage
        <5>4. Down(s, v, c)' = Line(InHand(s, v, c), InLocal(s, v, c), Join(InInlet(s, v, c), InStage(s, v, c)), <<>>, InFlow(s, v, c))
          BY <3>1, <3>2, <5>2, <5>3 DEF Down
        <5>. QED  BY <1>0, <5>4, DownPasses
      <4>2. CASE v # u
        <5>1. InInlet(s, v, c)' = InInlet(s, v, c)
          BY <2>5a, <2>9, <2>10, <3>3, <4>2, CellsStay
        <5>2. InStage(s, v, c)' = InStage(s, v, c)
          BY <2>9, <3>3, <4>2 DEF InStage
        <5>. QED  BY <3>1, <3>2, <5>1, <5>2 DEF Down
      <4>. QED  BY <4>1, <4>2
    <3>6. <<>> \in Rows /\ InSent(s, v, c)' = Join(InSent(s, v, c), <<>>) /\ Up(s, v, c)' = Join(Up(s, v, c), <<>>)
      BY <3>1, <3>3, <3>4, JoinFacts
    <3>. QED  BY <1>0, <2>10, <3>2, <3>5, <3>6, KeptSides
  <2>. QED  BY <2>10, <2>14, <2>15 DEF Flows
<1>. QED  BY <1>1, <1>2 DEF pass_along, extend

-----------------------------------------------------------------------------
(* Steps of workers that receive.                                           *)

\* A worker has finitely many queues to read.
LEMMA InletsFinite ==
    ASSUME net \in Scenarios, NEW v
    PROVE  IsFiniteSet(Inlets(v))
<1>1. IsFiniteSet(Sending)
  BY Cast, TransportAssumption, FS_Subset
<1>2. CASE medium = "process"
  <2> DEFINE f == [s \in Sending |-> <<Worker(s), Worker(v)>>]
  <2>1. f \in Surjection(Sending, Inlets(v))
    BY <1>2 DEF Surjection, Inlets
  <2> HIDE DEF f
  <2>. QED  BY <1>1, <2>1, FS_Surjection
<1>3. CASE medium # "process"
  BY <1>3, FS_Singleton DEF Inlets
<1>. QED  BY <1>2, <1>3

\* Only one of several queues has messages of a kind.
LEMMA OfOne ==
    ASSUME NEW ss \in Seq(Seq(Mails)), NEW s, NEW v, NEW c, NEW k \in DOMAIN ss,
           \A i \in DOMAIN ss : i # k => Of(ss[i], s, v, c) = <<>>
    PROVE  Of(FlattenSeq(ss), s, v, c) = Of(ss[k], s, v, c)
  BY OfFlatten

\* What a worker gets out of its queues.
Got(v) == FlattenSeq([i \in 1 .. Cardinality(Inlets(v)) |-> queue[SetToSeq(Inlets(v))[i]]])

\* A worker gets the messages of each sender in the order of their queue.
LEMMA GotFacts ==
    ASSUME net \in Scenarios, Shape, NEW v \in net.receivers
    PROVE  /\ Got(v) \in Rows /\ AllIn(Got(v), For(v))
           /\ \A s \in Sending : \A c : Of(Got(v), s, v, c) = Of(queue[InQ(s, v)], s, v, c)
<1> DEFINE S == Inlets(v)
           n == Cardinality(S)
           e == SetToSeq(S)
           g == [i \in 1 .. n |-> queue[e[i]]]
<1>1. IsFiniteSet(S)
  BY InletsFinite
<1>2. /\ n \in Nat /\ e \in [1 .. n -> S]
      /\ \A x \in S : \E i \in 1 .. n : e[i] = x
      /\ \A i, j \in 1 .. n : e[i] = e[j] => i = j
  <2> HIDE DEF S
  <2>. QED  BY <1>1, SetToSeqFacts
<1>3. \A q \in S : q \in Queues /\ queue[q] \in Rows /\ AllIn(queue[q], For(v))
  BY DEF Queues, Shape, RowsTyped, Labelled, QueuesLabelled
<1> HIDE DEF S, n, e
<1>4. g \in Seq(Seq(Mails)) /\ DOMAIN g = 1 .. n /\ \A i \in 1 .. n : g[i] = queue[e[i]]
  <2>1. \A i \in 1 .. n : queue[e[i]] \in Seq(Mails)
    BY <1>2, <1>3 DEF Rows
  <2>. QED  BY <1>2, <2>1
<1>5. \A i \in DOMAIN g : AllIn(g[i], For(v))
  BY <1>2, <1>3, <1>4
<1>6. Got(v) = FlattenSeq(g)
  BY DEF Got, g, n, e, S
<1> HIDE DEF g
<1>7. Got(v) \in Rows /\ AllIn(Got(v), For(v))
  BY <1>4, <1>5, <1>6, OfFlatten DEF Rows
<1>8. ASSUME NEW s \in Sending, NEW c PROVE Of(Got(v), s, v, c) = Of(queue[InQ(s, v)], s, v, c)
  <2>1. InQ(s, v) \in S
    BY DEF InQ, Inlets, S
  <2>2. PICK k \in 1 .. n : e[k] = InQ(s, v)
    BY <1>2, <2>1
  <2>3. ASSUME NEW i \in DOMAIN g, i # k PROVE Of(g[i], s, v, c) = <<>>
    <3>1. i \in 1 .. n /\ e[i] \in S /\ e[i] # InQ(s, v) /\ g[i] = queue[e[i]]
      BY <1>2, <1>4, <2>2, <2>3
    <3>2. PICK r \in Sending : medium = "process" /\ e[i] = <<Worker(r), Worker(v)>>
      BY <3>1 DEF S, Inlets, InQ
    <3>3. r # s
      BY <3>1, <3>2 DEF InQ
    <3>4. AllIn(queue[e[i]], From(r)) /\ queue[e[i]] \in Rows
      BY <1>3, <3>1, <3>2 DEF Outlets, Shape, Labelled, QueuesLabelled
    <3>5. From(r) \cap Mine(s, v, c) = {}
      BY <3>3 DEF From, Mine
    <3>. QED  BY <3>1, <3>4, <3>5, OfJoin
  <2>4. k \in DOMAIN g /\ g[k] = queue[InQ(s, v)]
    BY <1>4, <2>2
  <2>5. Of(FlattenSeq(g), s, v, c) = Of(g[k], s, v, c)
    <3>1. g \in Seq(Seq(Mails))
      BY <1>4
    <3>2. k \in DOMAIN g
      BY <2>4
    <3>3. \A i \in DOMAIN g : i # k => Of(g[i], s, v, c) = <<>>
      BY <2>3
    <3>. QED  BY <3>1, <3>2, <3>3, OfOne, Zenon
  <2>. QED  BY <1>6, <2>4, <2>5
<1>. QED  BY <1>7, <1>8

\* Messages of two kinds at once.
LEMMA AllInBoth == \A a, S, T : AllIn(a, S) /\ AllIn(a, T) => AllIn(a, S \cap T)
  BY DEF AllIn

\* What deposit makes of the queues of a worker.
LEMMA DepositFacts ==
    ASSUME NEW local, NEW limit, NEW ms \in Rows, NEW d, d = deposit(local, limit, ms)
    PROVE  /\ \A c : c \in DOMAIN d <=> \/ c \in DOMAIN local
                                        \/ \E i \in DOMAIN ms : limit < ms[i].channel /\ c = ms[i].channel
           /\ \A c \in DOMAIN d : d[c] = Join(IF c \in DOMAIN local THEN local[c] ELSE <<>>, Among(ms, In(c)))
           /\ d = [c \in DOMAIN d |-> d[c]]
<1>1. \A c : Selected(ms, {i \in DOMAIN ms : ms[i].channel = c}) = Among(ms, In(c))
  BY OfAmong DEF Rows
<1>2. DOMAIN d = DOMAIN local \cup {ms[i].channel : i \in {j \in DOMAIN ms : limit < ms[j].channel}}
  BY DEF deposit
<1>3. \A c : c \in DOMAIN d <=> \/ c \in DOMAIN local
                                \/ \E i \in DOMAIN ms : limit < ms[i].channel /\ c = ms[i].channel
  BY <1>2
<1>4. \A c \in DOMAIN d : d[c] = Join(IF c \in DOMAIN local THEN local[c] ELSE <<>>, Among(ms, In(c)))
  BY <1>1 DEF deposit, Join
<1>5. d = [c \in DOMAIN d |-> d[c]]
  BY DEF deposit
<1>. QED  BY <1>3, <1>4, <1>5

Live(u) == [c \in DOMAIN to_local[u] \ canaries[u] |-> to_local[u][c]]

\* What receive does to the data.
Sorts(u) ==
    /\ to_local' = [to_local EXCEPT ![u] = deposit(Live(u), bound[u], Got(u))]
    /\ canaries' = [canaries EXCEPT ![u] = {}]
    /\ queue' = [q \in Queues |-> IF q \in Inlets(u) THEN <<>> ELSE queue[q]]
    /\ UNCHANGED <<net, stash, writer, sent, staged, received>>
    /\ UNCHANGED <<valid, stream, room, shift, closed, bound>>

\* The queues of the channels, after messages were put there.
LEMMA NewLocal ==
    ASSUME net \in Scenarios, Shape, NEW u \in net.receivers, Sorts(u)
    PROVE  /\ DOMAIN to_local' = Receivers /\ \A v \in Receivers \ {u} : to_local'[v] = to_local[v]
           /\ \A c : c \in DOMAIN to_local'[u] <=>
                  \/ c \in DOMAIN Live(u)
                  \/ \E i \in DOMAIN Got(u) : bound[u] < Got(u)[i].channel /\ c = Got(u)[i].channel
           /\ \A c \in DOMAIN to_local'[u] :
                 to_local'[u][c] = Join(IF c \in DOMAIN Live(u) THEN Live(u)[c] ELSE <<>>, Among(Got(u), In(c)))
           /\ to_local'[u] = [c \in DOMAIN to_local'[u] |-> to_local'[u][c]]
           /\ DOMAIN Live(u) = DOMAIN to_local[u] \ canaries[u]
           /\ \A c \in DOMAIN Live(u) : Live(u)[c] = to_local[u][c]
<1>1. Got(u) \in Rows
  BY GotFacts
<1>2. u \in Receivers /\ DOMAIN to_local = Receivers
  BY Cast DEF Shape, LocalTyped
<1>3. to_local' = [to_local EXCEPT ![u] = deposit(Live(u), bound[u], Got(u))]
  BY DEF Sorts
<1>4. to_local'[u] = deposit(Live(u), bound[u], Got(u))
  BY <1>2, <1>3
<1>5. DOMAIN to_local' = Receivers /\ \A v \in Receivers \ {u} : to_local'[v] = to_local[v]
  BY <1>2, <1>3
<1>6. DOMAIN Live(u) = DOMAIN to_local[u] \ canaries[u] /\ \A c \in DOMAIN Live(u) : Live(u)[c] = to_local[u][c]
  BY DEF Live
<1>7. /\ \A c : c \in DOMAIN to_local'[u] <=>
             \/ c \in DOMAIN Live(u)
             \/ \E i \in DOMAIN Got(u) : bound[u] < Got(u)[i].channel /\ c = Got(u)[i].channel
      /\ \A c \in DOMAIN to_local'[u] :
            to_local'[u][c] = Join(IF c \in DOMAIN Live(u) THEN Live(u)[c] ELSE <<>>, Among(Got(u), In(c)))
      /\ to_local'[u] = [c \in DOMAIN to_local'[u] |-> to_local'[u][c]]
  BY <1>1, <1>4, DepositFacts
<1>. QED  BY <1>5, <1>6, <1>7

\* The queues of the channels stay rows of messages for their worker.
LEMMA LocalRows ==
    ASSUME net \in Scenarios, Shape, NEW u \in net.receivers, Sorts(u)
    PROVE  /\ LocalTyped'
           /\ \A c \in DOMAIN to_local'[u] : AllIn(to_local'[u][c], For(u) \cap In(c))
<1> DEFINE got == Got(u)
           new == to_local'[u]
<1>1. got \in Rows /\ AllIn(got, For(u))
  BY GotFacts
<1>2. LocalTyped /\ u \in Receivers /\ \A c \in DOMAIN to_local[u] : AllIn(to_local[u][c], For(u) \cap In(c))
  BY Cast DEF Shape, Labelled, ReceiversLabelled
<1>3. \A c : Among(got, In(c)) \in Rows /\ AllIn(Among(got, In(c)), For(u)) /\ AllIn(Among(got, In(c)), In(c))
  BY <1>1, AmongCases, AllInFacts DEF Rows
<1>4. \A c : AllIn(Among(got, In(c)), For(u) \cap In(c))
  BY <1>3, AllInBoth
<1> HIDE DEF got
<1>5. \A i \in DOMAIN got : got[i].channel \in 0 .. LastChannel
  <2>1. \A i \in DOMAIN got : got[i] \in Mails
    BY <1>1 DEF Rows
  <2>2. \A m \in Mails : m.channel \in 0 .. LastChannel
    BY DEF Mails
  <2>. QED  BY <2>1, <2>2
<1>6. DOMAIN new \subseteq 0 .. LastChannel
  <2>1. DOMAIN Live(u) \subseteq 0 .. LastChannel
    BY <1>2, NewLocal DEF LocalTyped
  <2>2. \A c : c \in DOMAIN new <=> \/ c \in DOMAIN Live(u)
                                    \/ \E i \in DOMAIN got : bound[u] < got[i].channel /\ c = got[i].channel
    BY NewLocal DEF got
  <2> HIDE DEF new
  <2>. QED  BY <1>5, <2>1, <2>2
<1>7. ASSUME NEW c \in DOMAIN new PROVE new[c] \in Rows /\ AllIn(new[c], For(u) \cap In(c))
  <2> DEFINE old == IF c \in DOMAIN Live(u) THEN Live(u)[c] ELSE <<>>
  <2>1. new[c] = Join(old, Among(got, In(c)))
    BY NewLocal DEF got
  <2>2. old \in Rows /\ AllIn(old, For(u) \cap In(c))
    <3>1. CASE c \in DOMAIN Live(u)
      <4>1. c \in DOMAIN to_local[u] /\ old = to_local[u][c]
        BY <3>1, NewLocal
      <4>. QED  BY <1>2, <4>1 DEF LocalTyped
    <3>2. CASE c \notin DOMAIN Live(u)
      BY <3>2, JoinFacts, AllInJoin
    <3>. QED  BY <3>1, <3>2
  <2> HIDE DEF old
  <2>. QED  BY <1>3, <1>4, <2>1, <2>2, JoinFacts, AllInJoin
<1>8. new \in [DOMAIN new -> Rows]
  <2>1. new = [c \in DOMAIN new |-> new[c]]
    BY NewLocal
  <2> HIDE DEF new
  <2>. QED  BY <1>7, <2>1
<1>9. /\ net' = net /\ bound' = bound /\ canaries' = [canaries EXCEPT ![u] = {}]
  BY DEF Sorts
<1>10. LocalTyped'
  <2>1. Rows' = Rows
    BY <1>9, ShapeStays
  <2>2. bound' \in [Receivers -> 0 .. LastChannel] /\ DOMAIN to_local' = Receivers /\ DOMAIN canaries' = Receivers
    BY <1>2, <1>9, NewLocal DEF LocalTyped
  <2>3. ASSUME NEW v \in Receivers
        PROVE  /\ to_local'[v] \in [DOMAIN to_local'[v] -> Rows] /\ DOMAIN to_local'[v] \subseteq 0 .. LastChannel
               /\ canaries'[v] \subseteq DOMAIN to_local'[v] \cap 1 .. bound'[v]
    <3>1. CASE v = u
      <4>1. canaries'[v] = {}
        BY <1>2, <1>9, <3>1 DEF LocalTyped
      <4>. QED  BY <1>6, <1>8, <3>1, <4>1
    <3>2. CASE v # u
      <4>1. to_local'[v] = to_local[v] /\ canaries'[v] = canaries[v]
        BY <1>2, <1>9, <3>2, NewLocal DEF LocalTyped
      <4>. QED  BY <1>2, <1>9, <4>1 DEF LocalTyped
    <3>. QED  BY <3>1, <3>2
  <2> HIDE DEF new
  <2>. QED  BY <2>1, <2>2, <2>3 DEF LocalTyped
<1>. QED  BY <1>7, <1>10

\* The messages in the queues of a channel, after those of the inlets came there.
LEMMA LocalSorts ==
    ASSUME net \in Scenarios, Shape, NEW u \in net.receivers, Sorts(u),
           NEW s \in Sending, NEW c \in Channels, Has(u, c)'
    PROVE  Has(u, c) /\ InLocal(s, u, c)' = Join(InLocal(s, u, c), InInlet(s, u, c))
<1> DEFINE got == Got(u)
           new == to_local'[u]
<1>1. got \in Rows /\ Of(got, s, u, c) = InInlet(s, u, c)
  BY GotFacts DEF InInlet
<1>2. LocalTyped /\ u \in Receivers /\ bound' = bound
  BY Cast DEF Shape, Sorts
<1>3. Among(got, In(c)) \in Rows /\ Of(Among(got, In(c)), s, u, c) = Of(got, s, u, c)
  <2> HIDE DEF got
  <2>. QED  BY <1>1, AmongCases, OfSorted DEF Rows
<1>4. InLocal(s, u, c)' = Of(IF c \in DOMAIN new THEN new[c] ELSE <<>>, s, u, c)
  BY DEF InLocal, Local
<1>5. InLocal(s, u, c) = Of(IF c \in DOMAIN to_local[u] THEN to_local[u][c] ELSE <<>>, s, u, c)
  BY DEF InLocal, Local
<1>6. c <= bound[u] => c \in DOMAIN new
  BY <1>2 DEF Has
<1> HIDE DEF got
<1>7. bound[u] \in Int /\ c \in Int /\ c \in 1 .. LastChannel
  BY <1>2 DEF LocalTyped, Channels
<1>8. /\ \A i \in DOMAIN got : bound[u] < got[i].channel => got[i].channel \in DOMAIN new
      /\ \A d \in DOMAIN new \ DOMAIN Live(u) : \E i \in DOMAIN got : bound[u] < got[i].channel /\ d = got[i].channel
      /\ DOMAIN Live(u) = DOMAIN to_local[u] \ canaries[u] /\ DOMAIN Live(u) \subseteq DOMAIN new
  <2>1. \A d : d \in DOMAIN new <=> \/ d \in DOMAIN Live(u)
                                    \/ \E i \in DOMAIN got : bound[u] < got[i].channel /\ d = got[i].channel
    BY NewLocal DEF got
  <2>2. DOMAIN Live(u) = DOMAIN to_local[u] \ canaries[u]
    BY NewLocal
  <2> HIDE DEF new
  <2>. QED  BY <2>1, <2>2
<1>9. canaries[u] \subseteq 1 .. bound[u]
  BY <1>2 DEF LocalTyped
<1>10. CASE c \in DOMAIN Live(u)
  <2>1. c \in DOMAIN to_local[u] /\ c \in DOMAIN new /\ to_local[u][c] \in Rows
    BY <1>2, <1>8, <1>10 DEF LocalTyped
  <2>2. new[c] = Join(to_local[u][c], Among(got, In(c)))
    BY <1>10, <2>1, NewLocal DEF got
  <2>3. Of(new[c], s, u, c) = Join(Of(to_local[u][c], s, u, c), Of(got, s, u, c))
    BY <1>3, <2>1, <2>2, OfJoin
  <2>. QED  BY <1>1, <1>4, <1>5, <2>1, <2>3 DEF Has
<1>11. CASE c \notin DOMAIN Live(u)
  <2>1. c > bound[u]
    <3>1. ASSUME c <= bound[u] PROVE FALSE
      <4>1. PICK i \in DOMAIN got : bound[u] < got[i].channel /\ c = got[i].channel
        BY <1>6, <1>8, <1>11, <3>1
      <4>. QED  BY <1>7, <3>1, <4>1
    <3>. QED  BY <1>7, <3>1
  <2>2. c \notin canaries[u]
    BY <1>7, <1>9, <2>1
  <2>3. c \notin DOMAIN to_local[u] /\ Has(u, c)
    BY <1>7, <1>8, <1>11, <2>1, <2>2 DEF Has
  <2>4. InLocal(s, u, c) = <<>> /\ Of(got, s, u, c) \in Rows
    BY <1>1, <1>5, <2>3, OfJoin
  <2>5. CASE c \in DOMAIN new
    <3>1. new[c] = Join(<<>>, Among(got, In(c)))
      BY <1>11, <2>5, NewLocal DEF got
    <3>2. new[c] = Among(got, In(c))
      BY <1>3, <3>1, JoinFacts
    <3>. QED  BY <1>1, <1>3, <1>4, <2>3, <2>4, <2>5, <3>2, JoinFacts
  <2>6. CASE c \notin DOMAIN new
    <3>1. \A i \in DOMAIN got : got[i].channel # c
      BY <1>8, <2>1, <2>6
    <3>2. AllIn(got, {m \in Mails : m.channel # c})
      BY <1>1, <3>1 DEF AllIn, Rows
    <3>3. {m \in Mails : m.channel # c} \cap Mine(s, u, c) = {}
      BY DEF Mine
    <3>4. Of(got, s, u, c) = <<>>
      BY <1>1, <3>2, <3>3, OfJoin
    <3>. QED  BY <1>1, <1>4, <2>3, <2>4, <2>6, <3>4, JoinFacts, OfJoin
  <2>. QED  BY <2>5, <2>6
<1>. QED  BY <1>10, <1>11

\* What was in the inlets comes last in the queues of the channels.
LEMMA DownSorts ==
    ASSUME net \in Scenarios, Shape,
           NEW s \in Sending, NEW v \in net.receivers, NEW c \in Channels
    PROVE  /\ medium = "process" =>
                 Line(InHand(s, v, c), Join(InLocal(s, v, c), InInlet(s, v, c)), <<>>, <<>>, <<>>) = Down(s, v, c)
           /\ medium # "process" =>
                 Line(InHand(s, v, c), Join(InLocal(s, v, c), InInlet(s, v, c)), <<>>, InStage(s, v, c), InFlow(s, v, c))
                     = Down(s, v, c)
<1>1. /\ InHand(s, v, c) \in Rows /\ InLocal(s, v, c) \in Rows /\ InInlet(s, v, c) \in Rows
      /\ InStage(s, v, c) \in Rows /\ InFlow(s, v, c) \in Rows /\ <<>> \in Rows
  BY Cells, JoinFacts
<1>2. CASE medium = "process"
  <2>1. Down(s, v, c) = Line(InHand(s, v, c), InLocal(s, v, c), InInlet(s, v, c), <<>>, <<>>)
    BY <1>2 DEF Down
  <2>. QED  BY <1>1, <1>2, <2>1, LineSorts
<1>3. CASE medium # "process"
  <2>1. Down(s, v, c) = Line(InHand(s, v, c), InLocal(s, v, c), InInlet(s, v, c), InStage(s, v, c), InFlow(s, v, c))
    BY <1>3 DEF Down
  <2>. QED  BY <1>1, <1>3, <2>1, LineSorts
<1>. QED  BY <1>2, <1>3

\* Sorting messages into the queues of the channels.
LEMMA SortKept ==
    ASSUME net \in Scenarios, Shape, NEW u \in net.receivers, Sorts(u)
    PROVE  Flows
<1>1. /\ net' = net
      /\ UNCHANGED <<writer, stash, received, staged, valid, stream, room, shift, closed, sent>>
      /\ bound' = bound
      /\ queue' = [q \in Queues |-> IF q \in Inlets(u) THEN <<>> ELSE queue[q]]
  BY DEF Sorts
<1>2. /\ queue \in [Queues -> Rows] /\ <<>> \in Rows
      /\ u \in Receivers
  BY Cast, JoinFacts DEF Shape, RowsTyped
<1>3. /\ queue' \in [Queues -> Rows]
      /\ \A q \in Queues : queue'[q] = IF q \in Inlets(u) THEN <<>> ELSE queue[q]
  BY <1>1, <1>2
<1>4. RowsTyped'
  <2>1. Queues' = Queues /\ Rows' = Rows /\ Units' = Units
    BY <1>1, ShapeStays DEF Queues, Outlets, Inlets, ThreadOf
  <2>. QED  BY <1>1, <1>3, <2>1 DEF RowsTyped, Shape
<1>5. QueuesLabelled'
  <2>1. /\ \A s : From(s)' = From(s)
        /\ \A v : For(v)' = For(v)
        /\ \A s : Outlets(s)' = Outlets(s)
        /\ \A v : Inlets(v)' = Inlets(v)
        /\ Sending' = Sending
    BY <1>1, ShapeStays DEF From, For, Outlets, Inlets, ThreadOf
  <2>2. ASSUME NEW s \in Sending, NEW p \in Outlets(s) PROVE AllIn(queue'[p], From(s))
    <3>1. p \in Queues /\ AllIn(queue[p], From(s))
      BY DEF Queues, Shape, Labelled, QueuesLabelled
    <3>. QED  BY <1>3, <3>1, AllInJoin
  <2>3. ASSUME NEW v \in net.receivers, NEW p \in Inlets(v) PROVE AllIn(queue'[p], For(v))
    <3>1. p \in Queues /\ AllIn(queue[p], For(v))
      BY DEF Queues, Shape, Labelled, QueuesLabelled
    <3>. QED  BY <1>3, <3>1, AllInJoin
  <2>. QED  BY <1>1, <2>1, <2>2, <2>3 DEF QueuesLabelled
<1>6. ReceiversLabelled'
  <2>1. /\ \A v : For(v)' = For(v)
        /\ \A c : In(c)' = In(c)
    BY <1>1, ShapeStays DEF For, In
  <2>2. ASSUME NEW v \in Receivers, NEW c \in DOMAIN to_local'[v] PROVE AllIn(to_local'[v][c], For(v) \cap In(c))
    <3>1. CASE v = u
      BY <3>1, LocalRows
    <3>2. CASE v # u
      <4>1. to_local'[v] = to_local[v]
        BY <3>2, NewLocal
      <4>. QED  BY <4>1 DEF Shape, Labelled, ReceiversLabelled
    <3>. QED  BY <3>1, <3>2
  <2>. QED  BY <1>1, <2>1, <2>2 DEF ReceiversLabelled, Shape, Labelled
<1>7. Shape'
  BY <1>1, <1>4, <1>5, <1>6, LocalRows, ShapeStays DEF Shape, Labelled
<1>8. ASSUME NEW s \in Sending, NEW v \in net.receivers, NEW c \in Channels PROVE KeptStep(s, v, c)
  <2>1. /\ InHand(s, v, c)' = InHand(s, v, c) /\ InStage(s, v, c)' = InStage(s, v, c)
        /\ InFlow(s, v, c)' = InFlow(s, v, c) /\ InSent(s, v, c)' = InSent(s, v, c)
    BY <1>1, CellsStay
  <2>2. Dead' = Dead /\ medium' = medium /\ InQ(s, v)' = InQ(s, v)
    BY <1>1, ShapeStays DEF InQ
  <2>3. /\ InQ(s, v) \in Queues /\ InQ(s, v) \in Inlets(v) /\ v \in Receivers
        /\ Up(s, v, c) \in Rows /\ InSent(s, v, c) \in Rows
        /\ (medium # "process" => OutQ(s) \in Queues)
    BY Cells
  <2>4. Up(s, v, c)' = Up(s, v, c)
    <3>1. CASE medium = "process"
      BY <2>2, <3>1 DEF Up
    <3>2. CASE medium # "process"
      <4>1. OutQ(s) \notin Inlets(u)
        BY <3>2, Names DEF OutQ, Inlets
      <4>2. queue'[OutQ(s)] = queue[OutQ(s)]
        BY <1>3, <2>3, <3>2, <4>1
      <4>. QED  BY <1>1, <4>2, UpStays
    <3>. QED  BY <3>1, <3>2
  <2>5. Has(v, c)' => Has(v, c) /\ Down(s, v, c)' = Down(s, v, c)
    <3>1. CASE v = u
      <4> SUFFICES ASSUME Has(v, c)' PROVE Has(v, c) /\ Down(s, v, c)' = Down(s, v, c)
        OBVIOUS
      <4>1. Has(v, c) /\ InLocal(s, v, c)' = Join(InLocal(s, v, c), InInlet(s, v, c))
        BY <3>1, LocalSorts
      <4>2. InInlet(s, v, c)' = <<>>
        <5>1. queue'[InQ(s, v)] = <<>>
          BY <1>3, <2>3, <3>1
        <5>. QED  BY <2>2, <5>1, OfJoin DEF InInlet
      <4>3. CASE medium = "process"
        <5>1. Down(s, v, c)' = Line(InHand(s, v, c), Join(InLocal(s, v, c), InInlet(s, v, c)), <<>>, <<>>, <<>>)
          BY <2>1, <2>2, <4>1, <4>2, <4>3 DEF Down
        <5>. QED  BY <4>1, <4>3, <5>1, DownSorts
      <4>4. CASE medium # "process"
        <5>1. Down(s, v, c)' = Line(InHand(s, v, c), Join(InLocal(s, v, c), InInlet(s, v, c)), <<>>, InStage(s, v, c), InFlow(s, v, c))
          BY <2>1, <2>2, <4>1, <4>2, <4>4 DEF Down
        <5>. QED  BY <4>1, <4>4, <5>1, DownSorts
      <4>. QED  BY <4>3, <4>4
    <3>2. CASE v # u
      <4>1. to_local'[v] = to_local[v]
        BY <2>3, <3>2, NewLocal
      <4>2. Local(v, c)' = Local(v, c) /\ Has(v, c)' = Has(v, c)
        BY <1>1, <4>1 DEF Local, Has
      <4>3. InQ(s, v) \notin Inlets(u)
        BY <3>2, Names DEF InQ, Inlets
      <4>4. InLocal(s, v, c)' = InLocal(s, v, c) /\ InInlet(s, v, c)' = InInlet(s, v, c)
        BY <1>1, <1>3, <2>3, <4>2, <4>3, CellsStay
      <4>5. Down(s, v, c)' = Down(s, v, c)
        BY <2>1, <2>2, <4>4 DEF Down
      <4>. QED  BY <4>2, <4>5
    <3>. QED  BY <3>1, <3>2
  <2>6. <<>> \in Rows /\ InSent(s, v, c)' = Join(InSent(s, v, c), <<>>) /\ Up(s, v, c)' = Join(Up(s, v, c), <<>>)
    BY <2>1, <2>3, <2>4, JoinFacts
  <2>. QED  BY <1>1, <2>2, <2>5, <2>6, KeptSides
<1>. QED  BY <1>1, <1>7, <1>8 DEF Flows

\* receive sorts what it gets by channels, or the worker panics.
LEMMA ReceiveData == \A v : Typed /\ Shape /\ receive(v) => Flows
<1> SUFFICES ASSUME NEW v, Typed, Shape, receive(v) PROVE Flows
  OBVIOUS
<1>1. net \in Scenarios /\ v \in net.receivers
  BY DEF Typed, receive
<1>2. UNCHANGED <<net, stash, writer, sent, staged, received, valid, stream, room, shift, closed, bound>>
  BY DEF receive, recv_vars, send_vars, link_vars
<1>3. CASE UNCHANGED <<queue, to_local, canaries>>
  <2>1. Still
    BY <1>2, <1>3 DEF Still
  <2>. QED  BY <1>1, <2>1, StillStep
<1>4. CASE /\ to_local' = [to_local EXCEPT ![v] = deposit(Live(v), bound[v], Got(v))]
           /\ canaries' = [canaries EXCEPT ![v] = {}]
           /\ queue' = [q \in Queues |-> IF q \in Inlets(v) THEN <<>> ELSE queue[q]]
  <2>1. Sorts(v)
    BY <1>2, <1>4 DEF Sorts
  <2>. QED  BY <1>1, <2>1, SortKept
<1>. QED  BY <1>3, <1>4 DEF receive, Live, Got

\* A channel that is allocated finds the messages that came before.
LEMMA AllocateData == \A u \in Receivers : Typed /\ Shape /\ allocate(u) => Flows
<1> SUFFICES ASSUME NEW u \in Receivers, Typed, Shape, allocate(u) PROVE Flows
  OBVIOUS
<1> DEFINE b == bound[u] + 1
           new == to_local'[u]
<1>1. /\ net \in Scenarios /\ net' = net
      /\ UNCHANGED <<queue, stash, writer, sent, staged, received, valid, stream, room, shift, closed, canaries>>
  BY DEF Typed, allocate, recv_vars, send_vars, link_vars
<1>2. /\ LocalTyped /\ bound[u] \in 0 .. LastChannel /\ bound[u] < LastChannel /\ bound' = [bound EXCEPT ![u] = b]
      /\ LastChannel \in Nat
  BY TransportAssumption DEF allocate, Shape, LocalTyped
<1>3. /\ to_local' = [to_local EXCEPT ![u] = IF b \in DOMAIN to_local[u] THEN to_local[u]
           ELSE [c \in DOMAIN to_local[u] \cup {b} |-> IF c \in DOMAIN to_local[u] THEN to_local[u][c] ELSE <<>>]]
      /\ DOMAIN to_local = Receivers
  BY <1>2 DEF allocate, LocalTyped
<1>4. new = IF b \in DOMAIN to_local[u] THEN to_local[u]
            ELSE [c \in DOMAIN to_local[u] \cup {b} |-> IF c \in DOMAIN to_local[u] THEN to_local[u][c] ELSE <<>>]
  BY <1>3
<1>5. DOMAIN to_local' = Receivers /\ \A v \in Receivers \ {u} : to_local'[v] = to_local[v]
  BY <1>3
<1>6. b \in 0 .. LastChannel /\ b > bound[u] /\ b \in Int
  BY <1>2
<1>7. /\ bound' \in [Receivers -> 0 .. LastChannel] /\ bound'[u] = b
      /\ \A v \in Receivers \ {u} : bound'[v] = bound[v]
  BY <1>2, <1>6 DEF LocalTyped
<1> HIDE DEF b, new
<1>8. /\ DOMAIN new = DOMAIN to_local[u] \cup {b}
      /\ \A c \in DOMAIN new : new[c] = IF c \in DOMAIN to_local[u] THEN to_local[u][c] ELSE <<>>
  BY <1>4
<1>9. to_local[u] \in [DOMAIN to_local[u] -> Rows] /\ <<>> \in Rows
  BY <1>2, JoinFacts DEF LocalTyped
<1>10. new \in [DOMAIN new -> Rows]
  BY <1>4, <1>9
<1>11. LocalTyped'
  <2>1. Rows' = Rows
    BY <1>1, ShapeStays
  <2>2. ASSUME NEW v \in Receivers
        PROVE  /\ to_local'[v] \in [DOMAIN to_local'[v] -> Rows] /\ DOMAIN to_local'[v] \subseteq 0 .. LastChannel
               /\ canaries[v] \subseteq DOMAIN to_local'[v] \cap 1 .. bound'[v]
    <3>1. CASE v = u
      <4>1. to_local'[v] = new
        BY <3>1 DEF new
      <4>2. DOMAIN new \subseteq 0 .. LastChannel
        BY <1>2, <1>6, <1>8 DEF LocalTyped
      <4>3. canaries[u] \subseteq DOMAIN to_local[u] \cap 1 .. bound[u]
        BY <1>2 DEF LocalTyped
      <4>4. 1 .. bound[u] \subseteq 1 .. b
        BY <1>2, <1>6
      <4>. QED  BY <1>7, <1>8, <1>10, <3>1, <4>1, <4>2, <4>3, <4>4
    <3>2. CASE v # u
      BY <1>2, <1>5, <1>7, <3>2 DEF LocalTyped
    <3>. QED  BY <3>1, <3>2
  <2>. QED  BY <1>1, <1>2, <1>5, <1>7, <2>1, <2>2 DEF LocalTyped
<1>12. ReceiversLabelled'
  <2>1. /\ \A v : For(v)' = For(v)
        /\ \A c : In(c)' = In(c)
    BY <1>1, ShapeStays DEF For, In
  <2>2. ASSUME NEW v \in Receivers, NEW c \in DOMAIN to_local'[v] PROVE AllIn(to_local'[v][c], For(v) \cap In(c))
    <3>0. \A d \in DOMAIN to_local[v] : AllIn(to_local[v][d], For(v) \cap In(d))
      BY DEF Shape, Labelled, ReceiversLabelled
    <3>1. CASE v = u
      <4>1. to_local'[v] = new
        BY <3>1 DEF new
      <4>. QED  BY <1>8, <3>0, <3>1, <4>1, AllInJoin
    <3>2. CASE v # u
      BY <1>5, <3>0, <3>2
    <3>. QED  BY <3>1, <3>2
  <2>. QED  BY <1>1, <2>1, <2>2 DEF ReceiversLabelled, Shape, Labelled
<1>13. RowsTyped'
  BY <1>1, ShapeStays DEF Shape, RowsTyped, Queues, Outlets, Inlets, ThreadOf
<1>14. Shape'
  BY <1>1, <1>11, <1>12, <1>13, ShapeStays DEF Shape, Labelled
<1>15. ASSUME NEW s \in Sending, NEW v \in net.receivers, NEW c \in Channels PROVE KeptStep(s, v, c)
  <2>1. /\ InHand(s, v, c)' = InHand(s, v, c) /\ InInlet(s, v, c)' = InInlet(s, v, c)
        /\ InStage(s, v, c)' = InStage(s, v, c) /\ InFlow(s, v, c)' = InFlow(s, v, c)
        /\ InSent(s, v, c)' = InSent(s, v, c)
    BY <1>1, CellsStay
  <2>2. Up(s, v, c)' = Up(s, v, c)
    BY <1>1, UpStays
  <2>3. v \in Receivers /\ Dead' = Dead /\ medium' = medium /\ c \in Int
    BY <1>1, Cast, ShapeStays DEF Channels
  <2>4. Has(v, c)' => Has(v, c) /\ Local(v, c)' = Local(v, c)
    <3> SUFFICES ASSUME Has(v, c)' PROVE Has(v, c) /\ Local(v, c)' = Local(v, c)
      OBVIOUS
    <3>1. CASE v = u
      <4>1. to_local'[v] = new
        BY <3>1 DEF new
      <4>2. c <= b => c \in DOMAIN new
        BY <1>7, <3>1, <4>1 DEF Has
      <4>3. Has(v, c)
        BY <1>2, <1>6, <1>8, <2>3, <3>1, <4>2 DEF Has, b
      <4>4. Local(v, c)' = IF c \in DOMAIN new THEN new[c] ELSE <<>>
        BY <4>1 DEF Local
      <4>. QED  BY <1>8, <3>1, <4>3, <4>4 DEF Local
    <3>2. CASE v # u
      BY <1>5, <1>7, <2>3, <3>2 DEF Has, Local
    <3>. QED  BY <3>1, <3>2
  <2>5. Has(v, c)' => Has(v, c) /\ Down(s, v, c)' = Down(s, v, c)
    <3>1. Local(v, c)' = Local(v, c) => InLocal(s, v, c)' = InLocal(s, v, c)
      BY <1>1, CellsStay
    <3>2. InLocal(s, v, c)' = InLocal(s, v, c) => Down(s, v, c)' = Down(s, v, c)
      BY <2>1, <2>3 DEF Down
    <3>. QED  BY <2>4, <3>1, <3>2
  <2>6. <<>> \in Rows /\ InSent(s, v, c)' = Join(InSent(s, v, c), <<>>) /\ Up(s, v, c)' = Join(Up(s, v, c), <<>>)
    BY <1>1, <2>1, <2>2, Cells, JoinFacts
  <2>. QED  BY <1>1, <2>3, <2>5, <2>6, KeptSides
<1>. QED  BY <1>1, <1>14, <1>15 DEF Flows

\* A Puller that is dropped leaves the data to the next receive.
LEMMA DropPullerData == \A u \in Receivers : \A d \in Channels : Typed /\ Shape /\ drop_puller(u, d) => Flows
<1> SUFFICES ASSUME NEW u \in Receivers, NEW d \in Channels, Typed, Shape, drop_puller(u, d) PROVE Flows
  OBVIOUS
<1>1. /\ net \in Scenarios /\ net' = net
      /\ UNCHANGED <<queue, stash, writer, sent, staged, received, valid, stream, room, shift, closed, bound, to_local>>
  BY DEF Typed, drop_puller, recv_vars, send_vars, link_vars
<1>2. LocalTyped /\ d \in DOMAIN to_local[u] /\ d <= bound[u] /\ d \in 1 .. LastChannel
      /\ canaries' = [canaries EXCEPT ![u] = @ \cup {d}]
  BY DEF drop_puller, Open, Shape, Channels
<1>3. LocalTyped'
  <2>1. Rows' = Rows
    BY <1>1, ShapeStays
  <2>2. d \in 1 .. bound[u]
    BY <1>2 DEF LocalTyped
  <2>3. \A v \in Receivers : canaries'[v] \subseteq DOMAIN to_local[v] \cap 1 .. bound[v]
    BY <1>2, <2>2 DEF LocalTyped
  <2>4. DOMAIN canaries' = Receivers
    BY <1>2 DEF LocalTyped
  <2>. QED  BY <1>1, <1>2, <2>1, <2>3, <2>4 DEF LocalTyped
<1>4. RowsTyped'
  BY <1>1, ShapeStays DEF Shape, RowsTyped, Queues, Outlets, Inlets, ThreadOf
<1>5. Shape'
  BY <1>1, <1>3, <1>4, ShapeStays DEF Shape, Labelled
<1>6. ASSUME NEW s \in Sending, NEW v \in net.receivers, NEW c \in Channels PROVE KeptStep(s, v, c)
  <2>1. /\ InHand(s, v, c)' = InHand(s, v, c) /\ InInlet(s, v, c)' = InInlet(s, v, c)
        /\ InStage(s, v, c)' = InStage(s, v, c) /\ InFlow(s, v, c)' = InFlow(s, v, c)
        /\ InSent(s, v, c)' = InSent(s, v, c) /\ InLocal(s, v, c)' = InLocal(s, v, c)
    BY <1>1, CellsStay
  <2>2. Up(s, v, c)' = Up(s, v, c)
    BY <1>1, UpStays
  <2>3. Dead' = Dead /\ medium' = medium /\ Has(v, c)' = Has(v, c)
    BY <1>1, ShapeStays
  <2>4. Down(s, v, c)' = Down(s, v, c)
    BY <2>1, <2>3 DEF Down
  <2>6. <<>> \in Rows /\ InSent(s, v, c)' = Join(InSent(s, v, c), <<>>) /\ Up(s, v, c)' = Join(Up(s, v, c), <<>>)
    BY <1>1, <2>1, <2>2, Cells, JoinFacts
  <2>. QED  BY <1>1, <2>3, <2>4, <2>6, KeptSides
<1>. QED  BY <1>1, <1>5, <1>6 DEF Flows

\* The first message of a row, and the others.
LEMMA HeadTail ==
    ASSUME NEW a \in Rows, a # <<>>
    PROVE  /\ Head(a) \in Mails /\ Tail(a) \in Rows /\ <<Head(a)>> \in Rows
           /\ a = Join(<<Head(a)>>, Tail(a))
           /\ \A S : AllIn(a, S) => AllIn(<<Head(a)>>, S) /\ AllIn(Tail(a), S) /\ Head(a) \in S
<1>1. Head(a) \in Mails /\ Tail(a) \in Rows /\ <<Head(a)>> \in Rows
  BY DEF Rows
<1>2. a = <<Head(a)>> \o Tail(a)
  BY DEF Rows
<1>3. ASSUME NEW S, AllIn(a, S) PROVE AllIn(<<Head(a)>>, S) /\ AllIn(Tail(a), S) /\ Head(a) \in S
  <2>1. \A i \in 1 .. Len(a) : a[i] \in S
    BY <1>3 DEF AllIn, Rows
  <2>2. Head(a) = a[1] /\ Len(a) \in Nat /\ Len(a) > 0
    BY DEF Rows
  <2>3. Head(a) \in S
    BY <2>1, <2>2
  <2>4. AllIn(<<Head(a)>>, S)
    BY <1>1, <2>3, AllInFacts
  <2>5. \A i \in DOMAIN Tail(a) : i + 1 \in 1 .. Len(a) /\ Tail(a)[i] = a[i + 1]
    BY DEF Rows
  <2>. QED  BY <2>1, <2>3, <2>4, <2>5 DEF AllIn
<1>. QED  BY <1>1, <1>2, <1>3 DEF Join

\* A message that is pulled comes last in hand.
LEMMA DownPulls ==
    ASSUME net \in Scenarios, Shape,
           NEW s \in Sending, NEW v \in net.receivers, NEW c \in Channels,
           NEW x \in Rows, NEW l \in Rows, InLocal(s, v, c) = Join(x, l)
    PROVE  /\ medium = "process" =>
                 Line(Join(InHand(s, v, c), x), l, InInlet(s, v, c), <<>>, <<>>) = Down(s, v, c)
           /\ medium # "process" =>
                 Line(Join(InHand(s, v, c), x), l, InInlet(s, v, c), InStage(s, v, c), InFlow(s, v, c))
                     = Down(s, v, c)
<1>1. /\ InHand(s, v, c) \in Rows /\ InLocal(s, v, c) \in Rows /\ InInlet(s, v, c) \in Rows
      /\ InStage(s, v, c) \in Rows /\ InFlow(s, v, c) \in Rows /\ <<>> \in Rows
  BY Cells, JoinFacts
<1>1a. \A r, q, t, f \in Rows : Line(Join(r, x), l, q, t, f) = Line(r, Join(x, l), q, t, f)
  BY LinePulls
<1>2. CASE medium = "process"
  <2>1. Down(s, v, c) = Line(InHand(s, v, c), Join(x, l), InInlet(s, v, c), <<>>, <<>>)
    BY <1>2 DEF Down
  <2>2. Line(Join(InHand(s, v, c), x), l, InInlet(s, v, c), <<>>, <<>>)
        = Line(InHand(s, v, c), Join(x, l), InInlet(s, v, c), <<>>, <<>>)
    BY <1>1, <1>1a
  <2>. QED  BY <1>2, <2>1, <2>2
<1>3. CASE medium # "process"
  <2>1. Down(s, v, c) = Line(InHand(s, v, c), Join(x, l), InInlet(s, v, c), InStage(s, v, c), InFlow(s, v, c))
    BY <1>3 DEF Down
  <2>2. Line(Join(InHand(s, v, c), x), l, InInlet(s, v, c), InStage(s, v, c), InFlow(s, v, c))
        = Line(InHand(s, v, c), Join(x, l), InInlet(s, v, c), InStage(s, v, c), InFlow(s, v, c))
    BY <1>1, <1>1a
  <2>. QED  BY <1>3, <2>1, <2>2
<1>. QED  BY <1>2, <1>3

\* The first message of a channel is taken in hand.
Hands(u, d, x, l) ==
    /\ to_local[u][d] = Join(x, l)
    /\ received' = [received EXCEPT ![u][d] = Join(@, x)]
    /\ to_local' = [to_local EXCEPT ![u][d] = l]

\* A pull takes the first message of its channel in hand.
LEMMA PullFacts ==
    ASSUME net \in Scenarios, Shape, NEW u \in Receivers, NEW d \in Channels, pull(u, d)
    PROVE  LET a == to_local[u][d]
           IN  /\ d \in DOMAIN to_local[u] /\ d <= bound[u] /\ a \in Rows /\ a # <<>>
               /\ AllIn(a, For(u) \cap In(d))
               /\ Hands(u, d, <<Head(a)>>, Tail(a))
<1>1. d \in DOMAIN to_local[u] /\ d <= bound[u] /\ to_local[u][d] # <<>>
  BY DEF pull, Open
<1>2. to_local[u][d] \in Rows /\ AllIn(to_local[u][d], For(u) \cap In(d))
  BY <1>1 DEF Shape, LocalTyped, Labelled, ReceiversLabelled
<1>3. to_local[u][d] = Join(<<Head(to_local[u][d])>>, Tail(to_local[u][d]))
  BY <1>1, <1>2, HeadTail
<1>4. received' = [received EXCEPT ![u][d] = Join(@, <<Head(to_local[u][d])>>)]
  <2> DEFINE h == Head(to_local[u][d])
  <2>1. received[u][d] \in Seq(Mails) /\ h \in Mails
    BY <1>1, <1>2, HeadTail DEF Shape, RowsTyped, Rows
  <2>2. received' = [received EXCEPT ![u][d] = Append(received[u][d], h)]
    BY DEF pull
  <2> HIDE DEF h
  <2>3. Append(received[u][d], h) = Join(received[u][d], <<h>>)
    BY <2>1 DEF Join
  <2>4. received' = [received EXCEPT ![u][d] = Join(received[u][d], <<h>>)]
    BY <2>2, <2>3
  <2>. QED  BY <2>4 DEF h
<1>5. to_local' = [to_local EXCEPT ![u][d] = Tail(to_local[u][d])]
  BY DEF pull
<1>. QED  BY <1>1, <1>2, <1>3, <1>4, <1>5 DEF Hands

\* pull takes one message from the queue of the channel to the hand.
LEMMA PullData == \A u \in Receivers : \A d \in Channels : Typed /\ Shape /\ pull(u, d) => Flows
<1> SUFFICES ASSUME NEW u \in Receivers, NEW d \in Channels, Typed, Shape, pull(u, d) PROVE Flows
  OBVIOUS
<1>1. /\ net \in Scenarios /\ net' = net
      /\ UNCHANGED <<queue, stash, writer, sent, staged, valid, stream, room, shift, closed, bound, canaries>>
  BY DEF Typed, pull, recv_vars, send_vars, link_vars
<1>2. PICK x \in Rows, l \in Rows :
          /\ d \in DOMAIN to_local[u] /\ d <= bound[u]
          /\ AllIn(x, For(u) \cap In(d)) /\ AllIn(l, For(u) \cap In(d))
          /\ Hands(u, d, x, l)
  <2> DEFINE a == to_local[u][d]
  <2>1. /\ d \in DOMAIN to_local[u] /\ d <= bound[u] /\ a \in Rows /\ a # <<>>
        /\ AllIn(a, For(u) \cap In(d)) /\ Hands(u, d, <<Head(a)>>, Tail(a))
    BY <1>1, PullFacts
  <2>2. /\ <<Head(a)>> \in Rows /\ Tail(a) \in Rows
        /\ AllIn(<<Head(a)>>, For(u) \cap In(d)) /\ AllIn(Tail(a), For(u) \cap In(d))
    <3> HIDE DEF a
    <3>. QED  BY <2>1, HeadTail
  <2> HIDE DEF a
  <2>. QED  BY <2>1, <2>2
<1>3. /\ to_local[u][d] = Join(x, l) /\ LocalTyped /\ RowsTyped
      /\ received' = [received EXCEPT ![u][d] = Join(@, x)]
      /\ to_local' = [to_local EXCEPT ![u][d] = l]
  BY <1>2 DEF Hands, Shape
<1>4. /\ DOMAIN to_local' = Receivers /\ DOMAIN to_local'[u] = DOMAIN to_local[u]
      /\ to_local'[u][d] = l
      /\ \A c \in DOMAIN to_local[u] \ {d} : to_local'[u][c] = to_local[u][c]
      /\ \A v \in Receivers \ {u} : to_local'[v] = to_local[v]
      /\ to_local'[u] \in [DOMAIN to_local'[u] -> Rows]
  BY <1>2, <1>3 DEF LocalTyped
<1>5. received[u][d] \in Rows /\ Join(received[u][d], x) \in Rows /\ AllIn(received[u][d], For(u) \cap In(d))
      /\ AllIn(Join(received[u][d], x), For(u) \cap In(d))
  <2>1. received[u][d] \in Rows /\ AllIn(received[u][d], For(u) \cap In(d))
    BY DEF RowsTyped, Shape, Labelled, ReceiversLabelled
  <2>2. Join(received[u][d], x) \in Rows
    BY <2>1, JoinFacts
  <2>3. AllIn(Join(received[u][d], x), For(u) \cap In(d))
    BY <1>2, <2>1, AllInJoin
  <2>. QED  BY <2>1, <2>2, <2>3
<1>6. /\ received' \in [Receivers -> [Channels -> Rows]] /\ received'[u][d] = Join(received[u][d], x)
      /\ \A c \in Channels \ {d} : received'[u][c] = received[u][c]
      /\ \A v \in Receivers \ {u} : received'[v] = received[v]
  BY <1>3, <1>5 DEF RowsTyped
<1>7. LocalTyped'
  <2>1. Rows' = Rows
    BY <1>1, ShapeStays
  <2>2. \A v \in Receivers : DOMAIN to_local'[v] = DOMAIN to_local[v]
    BY <1>4
  <2>3. \A v \in Receivers : to_local'[v] \in [DOMAIN to_local'[v] -> Rows]
    BY <1>3, <1>4 DEF LocalTyped
  <2>. QED  BY <1>1, <1>3, <1>4, <2>1, <2>2, <2>3 DEF LocalTyped
<1>8. ReceiversLabelled'
  <2>1. /\ \A v : For(v)' = For(v)
        /\ \A c : In(c)' = In(c)
    BY <1>1, ShapeStays DEF For, In
  <2>2. ASSUME NEW v \in Receivers
        PROVE  /\ \A c \in Channels : AllIn(received'[v][c], For(v) \cap In(c))
               /\ \A c \in DOMAIN to_local'[v] : AllIn(to_local'[v][c], For(v) \cap In(c))
    <3>1. /\ \A c \in Channels : AllIn(received[v][c], For(v) \cap In(c))
          /\ \A c \in DOMAIN to_local[v] : AllIn(to_local[v][c], For(v) \cap In(c))
      BY DEF Shape, Labelled, ReceiversLabelled
    <3>2. CASE v = u
      BY <1>2, <1>4, <1>5, <1>6, <3>1, <3>2
    <3>3. CASE v # u
      BY <1>4, <1>6, <3>1, <3>3
    <3>. QED  BY <3>2, <3>3
  <2>. QED  BY <1>1, <2>1, <2>2 DEF ReceiversLabelled, Shape, Labelled
<1>9. RowsTyped'
  <2>1. Queues' = Queues /\ Rows' = Rows /\ Units' = Units
    BY <1>1, ShapeStays DEF Queues, Outlets, Inlets, ThreadOf
  <2>. QED  BY <1>1, <1>3, <1>6, <2>1 DEF RowsTyped
<1>10. Shape'
  BY <1>1, <1>7, <1>8, <1>9, ShapeStays DEF Shape, Labelled
<1>11. ASSUME NEW s \in Sending, NEW v \in net.receivers, NEW c \in Channels PROVE KeptStep(s, v, c)
  <2>1. /\ InInlet(s, v, c)' = InInlet(s, v, c)
        /\ InStage(s, v, c)' = InStage(s, v, c) /\ InFlow(s, v, c)' = InFlow(s, v, c)
        /\ InSent(s, v, c)' = InSent(s, v, c)
    BY <1>1, CellsStay
  <2>2. Up(s, v, c)' = Up(s, v, c)
    BY <1>1, UpStays
  <2>3. v \in Receivers /\ Dead' = Dead /\ medium' = medium
    BY <1>1, Cast, ShapeStays
  <2>4. Has(v, c)' = Has(v, c)
    BY <1>1, <1>4, <2>3 DEF Has
  <2>5. Down(s, v, c)' = Down(s, v, c)
    <3>1. CASE v = u /\ c = d
      <4>1. InHand(s, v, c)' = Join(InHand(s, v, c), Of(x, s, v, c))
        BY <1>5, <1>6, <3>1, OfJoin DEF InHand
      <4>2. InLocal(s, v, c) = Join(Of(x, s, v, c), Of(l, s, v, c)) /\ InLocal(s, v, c)' = Of(l, s, v, c)
        BY <1>2, <1>3, <1>4, <3>1, OfJoin DEF InLocal, Local
      <4>3. Of(x, s, v, c) \in Rows /\ Of(l, s, v, c) \in Rows
        BY <1>2, OfJoin
      <4>4. CASE medium = "process"
        <5>1. Down(s, v, c)' = Line(Join(InHand(s, v, c), Of(x, s, v, c)), Of(l, s, v, c), InInlet(s, v, c), <<>>, <<>>)
          BY <2>1, <2>3, <4>1, <4>2, <4>4 DEF Down
        <5>. QED  BY <1>1, <4>2, <4>3, <4>4, <5>1, DownPulls
      <4>5. CASE medium # "process"
        <5>1. Down(s, v, c)' = Line(Join(InHand(s, v, c), Of(x, s, v, c)), Of(l, s, v, c), InInlet(s, v, c), InStage(s, v, c), InFlow(s, v, c))
          BY <2>1, <2>3, <4>1, <4>2, <4>5 DEF Down
        <5>. QED  BY <1>1, <4>2, <4>3, <4>5, <5>1, DownPulls
      <4>. QED  BY <4>4, <4>5
    <3>2. CASE ~ (v = u /\ c = d)
      <4>1. received'[v][c] = received[v][c]
        BY <1>6, <2>3, <3>2
      <4>2. InHand(s, v, c)' = InHand(s, v, c)
        BY <4>1 DEF InHand
      <4>3. Local(v, c)' = Local(v, c)
        BY <1>4, <2>3, <3>2 DEF Local
      <4>4. InLocal(s, v, c)' = InLocal(s, v, c)
        BY <1>1, <4>3, CellsStay
      <4>. QED  BY <2>1, <2>3, <4>2, <4>4 DEF Down
    <3>. QED  BY <3>1, <3>2
  <2>6. <<>> \in Rows /\ InSent(s, v, c)' = Join(InSent(s, v, c), <<>>) /\ Up(s, v, c)' = Join(Up(s, v, c), <<>>)
    BY <1>1, <2>1, <2>2, Cells, JoinFacts
  <2>. QED  BY <1>1, <2>3, <2>4, <2>5, <2>6, KeptSides
<1>. QED  BY <1>1, <1>10, <1>11 DEF Flows

-----------------------------------------------------------------------------
(* Every step.                                                              *)

\* A thread that leaves its loop touches no data.
LEMMA LeaveStill == \A th, how : leave(th, how) => Still
  BY DEF leave, Still, worker_vars, recv_vars, send_vars, link_vars

\* Steps of a send thread.
LEMMA SendFlows ==
    \A s \in Senders :
        WakeInv /\ Shape /\ Owned
        /\ (tcp_send_loop(s) \/ tls_send_loop(s) \/ quic_send_loop(s) \/ ipc_send_loop(s)) => Flows
<1> SUFFICES ASSUME NEW s \in Senders, WakeInv, Shape, Owned,
                    tcp_send_loop(s) \/ tls_send_loop(s) \/ quic_send_loop(s) \/ ipc_send_loop(s)
             PROVE  Flows
  OBVIOUS
<1>1. /\ medium # "process"
      /\ \/ drain(s) \/ write(s, TRUE) \/ write(s, FALSE) \/ flush(s) \/ write_fails(s)
         \/ is_complete(s) \/ park(s)
         \/ finish(s, final_header(s, "shut"))
         \/ finish(s, final_header(s, "open"))
         \/ finish(s, close_connection)
  BY DEF tcp_send_loop, tls_send_loop, quic_send_loop, ipc_send_loop
<1>2. Typed /\ net \in Scenarios
  BY DEF WakeInv, Typed
<1>3. CASE write_fails(s) \/ is_complete(s) \/ park(s)
  <2>1. Still
    BY <1>3, LeaveStill DEF write_fails, is_complete, park, Still, worker_vars, recv_vars, link_vars
  <2>. QED  BY <1>2, <2>1, StillStep
<1>4. CASE drain(s)
  BY <1>4, DrainData
<1>5. CASE write(s, TRUE) \/ write(s, FALSE)
  BY <1>1, <1>2, <1>5, WriteData
<1>6. CASE flush(s)
  BY <1>1, <1>2, <1>6, FlushData
<1>7. CASE finish(s, final_header(s, "shut")) \/ finish(s, final_header(s, "open"))
  BY <1>1, <1>7, FinalHeaderData
<1>8. CASE finish(s, close_connection)
  BY <1>1, <1>8, CloseData
<1>. QED  BY <1>1, <1>3, <1>4, <1>5, <1>6, <1>7, <1>8

\* Steps of the receive thread.
LEMMA ReceiveFlows ==
    Typed /\ Shape /\ (tcp_recv_loop \/ tls_recv_loop \/ quic_recv_loop \/ ipc_receive_loop) => Flows
<1> SUFFICES ASSUME Typed, Shape, tcp_recv_loop \/ tls_recv_loop \/ quic_recv_loop \/ ipc_receive_loop
             PROVE  Flows
  OBVIOUS
<1>1. net \in Scenarios /\ medium # "process"
  BY DEF Typed, tcp_recv_loop, tls_recv_loop, quic_recv_loop, ipc_receive_loop
<1>2. \/ \E n : read(n)
      \/ read_fails \/ read_eof \/ (\E how : leave(Inbox, how)) \/ pass_along
      \/ UNCHANGED <<net, queue, sent, worker_vars, recv_vars, send_vars, link_vars>>
      \/ on_event /\ UNCHANGED <<net, queue, closed, sent, worker_vars, send_vars>>
  BY DEF tcp_recv_loop, tls_recv_loop, quic_recv_loop, ipc_receive_loop
<1>3. CASE \E n : read(n)
  BY <1>1, <1>3, ReadData
<1>4. CASE read_fails \/ read_eof \/ \E how : leave(Inbox, how)
  <2>1. Still
    BY <1>4, LeaveStill DEF read_fails, read_eof
  <2>. QED  BY <1>1, <2>1, StillStep
<1>5. CASE pass_along
  BY <1>1, <1>5, PassData
<1>6. CASE UNCHANGED <<net, queue, sent, worker_vars, recv_vars, send_vars, link_vars>>
  <2>1. Still
    BY <1>6 DEF Still, worker_vars, recv_vars, send_vars, link_vars
  <2>. QED  BY <1>1, <2>1, StillStep
<1>7. CASE on_event /\ UNCHANGED <<net, queue, closed, sent, worker_vars, send_vars>>
  <2>1. UNCHANGED <<net, queue, sent, stash, writer, received, closed, bound, to_local, canaries>>
    BY <1>7 DEF worker_vars, send_vars
  <2>. QED  BY <1>1, <1>7, <2>1, EventData
<1>. QED  BY <1>2, <1>3, <1>4, <1>5, <1>6, <1>7

\* No step loses, doubles or overtakes a message.
LEMMA FlowsNext == WakeInv /\ Shape /\ Owned /\ [Next]_vars => Flows
<1> SUFFICES ASSUME WakeInv, Shape, Owned, [Next]_vars PROVE Flows
  OBVIOUS
<1>1. Typed /\ net \in Scenarios
  BY DEF WakeInv, Typed
<1>2. ASSUME NEW th \in Threads, buzz(th) \/ drop(th) PROVE Flows
  <2>1. Still
    BY <1>2 DEF buzz, drop, Still, worker_vars, recv_vars, send_vars, link_vars
  <2>. QED  BY <1>1, <2>1, StillStep
<1>3. ASSUME NEW s \in Senders, push(s) \/ sender_ends(s) PROVE Flows
  <2>1. CASE push(s)
    BY <1>1, <2>1, PushData
  <2>2. CASE sender_ends(s)
    <3>1. Still
      BY <2>2, LeaveStill DEF sender_ends
    <3>. QED  BY <1>1, <3>1, StillStep
  <2>. QED  BY <1>3, <2>1, <2>2
<1>4. ASSUME NEW s \in Senders, tcp_send_loop(s) \/ tls_send_loop(s) \/ quic_send_loop(s) \/ ipc_send_loop(s)
      PROVE  Flows
  BY <1>4, SendFlows
<1>5. CASE stream_finished \/ sender_process_exits \/ receiver_process_closes
  BY <1>1, <1>5, FinishedData, ExitData, ReceiverCloseData
<1>6. CASE tcp_recv_loop \/ tls_recv_loop \/ quic_recv_loop \/ ipc_receive_loop
  BY <1>1, <1>6, ReceiveFlows
<1>7. ASSUME NEW v \in Receivers,
             \/ allocate(v) \/ receive(v) \/ await_events(v) \/ receiver_ends(v)
             \/ \E c \in Channels : pull(v, c) \/ drop_puller(v, c)
      PROVE  Flows
  <2>1. CASE allocate(v)
    BY <1>1, <2>1, AllocateData
  <2>2. CASE receive(v)
    BY <1>1, <2>2, ReceiveData
  <2>3. CASE await_events(v) \/ receiver_ends(v)
    <3>1. Still
      BY <2>3, LeaveStill DEF await_events, receiver_ends, Still, worker_vars, recv_vars, send_vars, link_vars
    <3>. QED  BY <1>1, <3>1, StillStep
  <2>4. CASE \E c \in Channels : pull(v, c) \/ drop_puller(v, c)
    BY <1>1, <2>4, PullData, DropPullerData
  <2>. QED  BY <1>7, <2>1, <2>2, <2>3, <2>4
<1>8. CASE UNCHANGED vars
  <2>1. Still
    BY <1>8 DEF vars, Still
  <2>. QED  BY <1>1, <2>1, StillStep
<1>. QED  BY <1>2, <1>3, <1>4, <1>5, <1>6, <1>7, <1>8 DEF Next

\* A panic lasts, a send thread visits its own queues, and a connection
\* breaks only after the panic of its send thread.
Onward ==
    \/ UNCHANGED pc
    \/ \E th \in Threads : \E where :
          Goto(th, where) /\ (pc[th] \in {"unwind", "panicked"} => where \in {"unwind", "panicked"})
Onto ==
    \/ UNCHANGED todo
    \/ \E th \in Threads : \E Q :
          todo' = [todo EXCEPT ![th] = Q] /\ (th = Inbox \/ Q \subseteq todo[th] \cup holds[th])
Breaks == closed' = "cut" => closed = "cut" \/ pc[Thread(Lead)] = "panicked"
Tidy == Onward /\ Onto /\ Breaks

\* A thread that has not panicked may leave its loop.
LEMMA LeaveTidy == \A th \in Threads : \A how : leave(th, how) /\ pc[th] \notin {"unwind", "panicked"} => Tidy
<1> SUFFICES ASSUME NEW th \in Threads, NEW how, leave(th, how), pc[th] \notin {"unwind", "panicked"} PROVE Tidy
  OBVIOUS
<1>1. Onward
  BY DEF leave, Onward
<1>2. Onto /\ Breaks
  BY DEF leave, link_vars, Onto, Breaks
<1>. QED  BY <1>1, <1>2 DEF Tidy

\* A send thread visits its own queues, and a panic of it lasts.
LEMMA SendTidy ==
    \A s \in Senders :
        tcp_send_loop(s) \/ tls_send_loop(s) \/ quic_send_loop(s) \/ ipc_send_loop(s) => Tidy
<1> SUFFICES ASSUME NEW s \in Senders,
                    tcp_send_loop(s) \/ tls_send_loop(s) \/ quic_send_loop(s) \/ ipc_send_loop(s)
             PROVE  Tidy
  OBVIOUS
<1> DEFINE t == Thread(s)
<1>0. t \in Threads
  BY Names
<1> HIDE DEF t
<1>1. \/ drain(s) \/ write(s, TRUE) \/ write(s, FALSE) \/ flush(s) \/ write_fails(s)
      \/ is_complete(s) \/ park(s)
      \/ finish(s, final_header(s, "shut"))
      \/ finish(s, final_header(s, "open"))
      \/ finish(s, close_connection)
  BY DEF tcp_send_loop, tls_send_loop, quic_send_loop, ipc_send_loop
<1>2. CASE drain(s)
  <2>1. CASE leave(t, "unwind") /\ At(t, "drain")
    BY <1>0, <2>1, LeaveTidy DEF At
  <2>2. CASE UNCHANGED <<pc, closed>> /\ \E q : todo' = [todo EXCEPT ![t] = @ \ {q}]
    <3>1. PICK q : todo' = [todo EXCEPT ![t] = todo[t] \ {q}]
      BY <2>2
    <3>2. todo[t] \ {q} \subseteq todo[t] \cup holds[t]
      OBVIOUS
    <3>3. Onto
      BY <1>0, <3>1, <3>2 DEF Onto
    <3>. QED  BY <2>2, <3>3 DEF Tidy, Onward, Breaks
  <2>. QED  BY <1>2, <2>1, <2>2 DEF drain, link_vars, t
<1>3. CASE write(s, TRUE) \/ write(s, FALSE)
  <2>1. todo' = [todo EXCEPT ![t] = holds[t]] /\ UNCHANGED <<pc, closed>>
    BY <1>3 DEF write, t
  <2>2. Onto
    BY <1>0, <2>1 DEF Onto
  <2>. QED  BY <2>1, <2>2 DEF Tidy, Onward, Breaks
<1>4. CASE flush(s) \/ park(s)
  <2>1. todo' = [todo EXCEPT ![t] = holds[t]] /\ UNCHANGED closed /\ pc[t] \in {"drain", "check"}
        /\ \E where : Goto(t, where)
    BY <1>4 DEF flush, park, At, link_vars, t
  <2>2. Onto
    BY <1>0, <2>1 DEF Onto
  <2>3. Onward
    BY <1>0, <2>1 DEF Onward
  <2>. QED  BY <2>1, <2>2, <2>3 DEF Tidy, Breaks
<1>5. CASE write_fails(s)
  BY <1>0, <1>5, LeaveTidy DEF write_fails, At, t
<1>6. CASE is_complete(s)
  <2>1. UNCHANGED closed /\ pc[t] = "check"
    BY <1>6 DEF is_complete, link_vars, At, t
  <2>2. UNCHANGED pc \/ \E where : Goto(t, where)
    BY <1>6 DEF is_complete, t
  <2>3. UNCHANGED todo \/ \E q : todo' = [todo EXCEPT ![t] = todo[t] \ {q}]
    BY <1>6 DEF is_complete, t
  <2>4. Onward
    BY <1>0, <2>1, <2>2 DEF Onward
  <2>5. Onto
    <3>1. CASE UNCHANGED todo
      BY <3>1 DEF Onto
    <3>2. ASSUME NEW q, todo' = [todo EXCEPT ![t] = todo[t] \ {q}] PROVE Onto
      <4>1. todo[t] \ {q} \subseteq todo[t] \cup holds[t]
        OBVIOUS
      <4>. QED  BY <1>0, <3>2, <4>1 DEF Onto
    <3>. QED  BY <2>3, <3>1, <3>2
  <2>. QED  BY <2>1, <2>4, <2>5 DEF Tidy, Breaks
<1>7. CASE finish(s, final_header(s, "shut")) \/ finish(s, final_header(s, "open")) \/ finish(s, close_connection)
  <2>1. pc[t] = "check" /\ Goto(t, "done") /\ UNCHANGED todo /\ (closed' = "cut" => closed = "cut")
    BY <1>7 DEF finish, final_header, close_connection, At, t
  <2>. QED  BY <1>0, <2>1 DEF Tidy, Onward, Onto, Breaks
<1>. QED  BY <1>1, <1>2, <1>3, <1>4, <1>5, <1>6, <1>7

\* So it is with the receive thread.
LEMMA ReceiveTidy == tcp_recv_loop \/ tls_recv_loop \/ quic_recv_loop \/ ipc_receive_loop => Tidy
<1> SUFFICES ASSUME tcp_recv_loop \/ tls_recv_loop \/ quic_recv_loop \/ ipc_receive_loop PROVE Tidy
  OBVIOUS
<1>0. Inbox \in Threads
  BY Names
<1>1. CASE \E n : read(n)
  <2>1. UNCHANGED closed /\ pc[Inbox] = "read" /\ todo' = [todo EXCEPT ![Inbox] = Targets]
        /\ \E where : Goto(Inbox, where)
    BY <1>1 DEF read, At
  <2>. QED  BY <1>0, <2>1 DEF Tidy, Onward, Onto, Breaks
<1>2. CASE \E how : leave(Inbox, how) /\ pc[Inbox] \in {"read", "eof", "accept", "extend", "last"}
  BY <1>0, <1>2, LeaveTidy
<1>3. CASE \E Q : todo' = [todo EXCEPT ![Inbox] = Q] /\ UNCHANGED closed /\ pc[Inbox] \in {"event", "extend", "last"}
                  /\ \E where : Goto(Inbox, where)
  BY <1>0, <1>3 DEF Tidy, Onward, Onto, Breaks
<1>4. CASE UNCHANGED <<todo, closed>> /\ pc[Inbox] = "read" /\ Goto(Inbox, "event")
  BY <1>0, <1>4 DEF Tidy, Onward, Onto, Breaks
<1>5. pass_along => \/ \E how : leave(Inbox, how) /\ pc[Inbox] \in {"read", "eof", "accept", "extend", "last"}
                    \/ \E Q : todo' = [todo EXCEPT ![Inbox] = Q] /\ UNCHANGED closed
                              /\ pc[Inbox] \in {"event", "extend", "last"} /\ \E where : Goto(Inbox, where)
  BY DEF pass_along, At, link_vars
<1>6. read_fails \/ read_eof => \E how : leave(Inbox, how) /\ pc[Inbox] \in {"read", "eof", "accept", "extend", "last"}
  BY DEF read_fails, read_eof, At
<1>7. CASE tcp_recv_loop \/ tls_recv_loop \/ quic_recv_loop
  <2>1. \/ \E n : read(n)
        \/ read_fails \/ read_eof \/ pass_along
        \/ \E how : leave(Inbox, how) /\ pc[Inbox] \in {"read", "accept"}
    BY <1>7 DEF tcp_recv_loop, tls_recv_loop, quic_recv_loop, At
  <2>. QED  BY <1>1, <1>2, <1>3, <1>5, <1>6, <2>1
<1>8. CASE ipc_receive_loop
  <2>1. \/ UNCHANGED <<todo, closed>> /\ pc[Inbox] = "read" /\ Goto(Inbox, "event")
        \/ \E Q : todo' = [todo EXCEPT ![Inbox] = Q] /\ UNCHANGED closed /\ pc[Inbox] \in {"event", "extend", "last"}
                  /\ \E where : Goto(Inbox, where)
        \/ pass_along
    BY <1>8 DEF ipc_receive_loop, on_event, At, link_vars
  <2>. QED  BY <1>2, <1>3, <1>4, <1>5, <2>1
<1>. QED  BY <1>7, <1>8

\* Panics last, whatever is done next.
LEMMA TidyNext == Typed /\ [Next]_vars => Tidy
<1> SUFFICES ASSUME Typed, [Next]_vars PROVE Tidy
  OBVIOUS
<1>1. ASSUME NEW th \in Threads, buzz(th) \/ drop(th) PROVE Tidy
  <2>1. UNCHANGED <<todo, closed>>
    BY <1>1 DEF buzz, drop, link_vars
  <2>2. Onward
    <3>1. CASE buzz(th)
      BY <3>1 DEF buzz, Onward
    <3>2. CASE drop(th)
      <4>1. PICK q \in holds[th] :
               \/ At(th, "unwind") /\ Goto(th, IF holds[th] = {q} THEN "panicked" ELSE pc[th])
               \/ pc[th] = "closing" /\ \E where : Goto(th, where)
        BY <3>2 DEF drop, At
      <4>. QED  BY <4>1 DEF Onward, At
    <3>. QED  BY <1>1, <3>1, <3>2
  <2>. QED  BY <2>1, <2>2 DEF Tidy, Onto, Breaks
<1>2. ASSUME NEW s \in Senders, push(s) \/ sender_ends(s) PROVE Tidy
  <2>1. CASE push(s)
    BY <2>1 DEF push, link_vars, Tidy, Onward, Onto, Breaks
  <2>2. CASE sender_ends(s)
    <3>1. Worker(s) \in Threads
      BY Names
    <3>. QED  BY <2>2, <3>1, LeaveTidy DEF sender_ends, At
  <2>. QED  BY <1>2, <2>1, <2>2
<1>3. ASSUME NEW s \in Senders, tcp_send_loop(s) \/ tls_send_loop(s) \/ quic_send_loop(s) \/ ipc_send_loop(s)
      PROVE  Tidy
  BY <1>3, SendTidy
<1>4. CASE stream_finished \/ sender_process_exits \/ receiver_process_closes
  BY <1>4 DEF stream_finished, sender_process_exits, receiver_process_closes, Tidy, Onward, Onto, Breaks
<1>5. CASE tcp_recv_loop \/ tls_recv_loop \/ quic_recv_loop \/ ipc_receive_loop
  BY <1>5, ReceiveTidy
<1>6. ASSUME NEW v \in Receivers,
             \/ allocate(v) \/ receive(v) \/ await_events(v) \/ receiver_ends(v)
             \/ \E c \in Channels : pull(v, c) \/ drop_puller(v, c)
      PROVE  Tidy
  <2>0. Worker(v) \in Threads
    BY Names
  <2>1. CASE allocate(v) \/ \E c \in Channels : pull(v, c) \/ drop_puller(v, c)
    BY <2>1 DEF allocate, pull, drop_puller, link_vars, Tidy, Onward, Onto, Breaks
  <2>2. CASE receive(v) \/ await_events(v)
    <3>1. UNCHANGED <<todo, closed>> /\ pc[Worker(v)] \in {"run", "park"}
          /\ (UNCHANGED pc \/ \E where : Goto(Worker(v), where))
      BY <2>2 DEF receive, await_events, link_vars, At
    <3>. QED  BY <2>0, <3>1 DEF Tidy, Onward, Onto, Breaks
  <2>3. CASE receiver_ends(v)
    BY <2>0, <2>3, LeaveTidy DEF receiver_ends, At
  <2>. QED  BY <1>6, <2>1, <2>2, <2>3
<1>7. CASE UNCHANGED vars
  BY <1>7 DEF vars, Tidy, Onward, Onto, Breaks
<1>. QED  BY <1>1, <1>2, <1>3, <1>4, <1>5, <1>6, <1>7 DEF Next

\* The steps that push, pull or change the queues of the channels.
Handled ==
    \/ \E s \in Senders : push(s)
    \/ \E v \in Receivers : allocate(v) \/ receive(v) \/ \E c \in Channels : pull(v, c)
    \/ UNCHANGED <<net, sent, received, to_local>>

\* Nothing else is recorded as pushed, or as pulled.
LEMMA HandledNext == [Next]_vars => Handled
<1> SUFFICES ASSUME [Next]_vars PROVE Handled
  OBVIOUS
<1>1. ASSUME NEW th \in Threads, buzz(th) \/ drop(th) PROVE Handled
  BY <1>1 DEF buzz, drop, worker_vars, Handled
<1>2. \A th, how : leave(th, how) => UNCHANGED <<net, sent, received, to_local>>
  BY DEF leave, worker_vars
<1>3. ASSUME NEW s \in Senders, push(s) \/ sender_ends(s) PROVE Handled
  BY <1>2, <1>3 DEF sender_ends, Handled
<1>4. ASSUME NEW s \in Senders, tcp_send_loop(s) \/ tls_send_loop(s) \/ quic_send_loop(s) \/ ipc_send_loop(s)
      PROVE  Handled
  <2>1. \/ drain(s) \/ write(s, TRUE) \/ write(s, FALSE) \/ flush(s) \/ write_fails(s)
        \/ is_complete(s) \/ park(s)
        \/ finish(s, final_header(s, "shut"))
        \/ finish(s, final_header(s, "open"))
        \/ finish(s, close_connection)
    BY <1>4 DEF tcp_send_loop, tls_send_loop, quic_send_loop, ipc_send_loop
  <2>2. CASE drain(s) \/ write_fails(s)
    BY <1>2, <2>2 DEF drain, write_fails, worker_vars, Handled
  <2>3. CASE write(s, TRUE) \/ write(s, FALSE) \/ flush(s)
    BY <2>3 DEF write, flush, worker_vars, Handled
  <2>4. CASE is_complete(s) \/ park(s)
    BY <2>4 DEF is_complete, park, worker_vars, Handled
  <2>5. CASE finish(s, final_header(s, "shut")) \/ finish(s, final_header(s, "open")) \/ finish(s, close_connection)
    BY <2>5 DEF finish, worker_vars, Handled
  <2>. QED  BY <2>1, <2>2, <2>3, <2>4, <2>5
<1>5. CASE stream_finished \/ sender_process_exits \/ receiver_process_closes
  BY <1>5 DEF stream_finished, sender_process_exits, receiver_process_closes, worker_vars, Handled
<1>6. CASE tcp_recv_loop \/ tls_recv_loop \/ quic_recv_loop \/ ipc_receive_loop
  <2>1. pass_along => Handled
    BY <1>2 DEF pass_along, worker_vars, Handled
  <2>2. read_fails \/ read_eof => Handled
    BY <1>2 DEF read_fails, read_eof, Handled
  <2>3. (\E n : read(n)) => Handled
    BY DEF read, worker_vars, Handled
  <2>. QED  BY <1>2, <1>6, <2>1, <2>2, <2>3 DEF tcp_recv_loop, tls_recv_loop, quic_recv_loop, ipc_receive_loop, worker_vars, Handled
<1>7. ASSUME NEW v \in Receivers,
             \/ allocate(v) \/ receive(v) \/ await_events(v) \/ receiver_ends(v)
             \/ \E c \in Channels : pull(v, c) \/ drop_puller(v, c)
      PROVE  Handled
  BY <1>2, <1>7 DEF await_events, receiver_ends, drop_puller, worker_vars, Handled
<1>8. CASE UNCHANGED vars
  BY <1>8 DEF vars, Handled
<1>. QED  BY <1>1, <1>3, <1>4, <1>5, <1>6, <1>7, <1>8 DEF Next

\* At first there is nothing anywhere.
LEMMA DataInit == Init => DataInv
<1> SUFFICES ASSUME Init PROVE DataInv
  OBVIOUS
<1>1. net \in Scenarios /\ net.allocated \in 0 .. LastChannel /\ LastChannel \in Nat
  BY TransportAssumption DEF Init
<1>2. <<>> \in Rows /\ <<>> \in Seq(Units) /\ \A S : AllIn(<<>>, S)
  BY JoinFacts, AllInJoin
<1>3. RowsTyped
  BY <1>2 DEF Init, RowsTyped
<1>4. LocalTyped
  <2>1. bound \in [Receivers -> 0 .. LastChannel] /\ \A v \in Receivers : bound[v] = net.allocated
    BY <1>1 DEF Init
  <2>2. DOMAIN to_local = Receivers /\ DOMAIN canaries = Receivers /\ \A v \in Receivers : canaries[v] = {}
    BY DEF Init
  <2>3. \A v \in Receivers : to_local[v] = [c \in 1 .. net.allocated |-> <<>>]
    BY DEF Init
  <2>4. ASSUME NEW v \in Receivers
        PROVE  to_local[v] \in [DOMAIN to_local[v] -> Rows] /\ DOMAIN to_local[v] \subseteq 0 .. LastChannel
    <3>1. DOMAIN to_local[v] = 1 .. net.allocated
      BY <2>3
    <3>2. 1 .. net.allocated \subseteq 0 .. LastChannel
      BY <1>1
    <3>3. to_local[v] \in [1 .. net.allocated -> Rows]
      BY <1>2, <2>3
    <3>. QED  BY <3>1, <3>2, <3>3
  <2>. QED  BY <2>1, <2>2, <2>4 DEF LocalTyped
<1>5. SlabTyped
  BY TransportAssumption, Powers DEF Init, SlabTyped
<1>6. Whole
  <2>1. <<>> \o <<>> = AllBytes(<<>>)
    BY NoBytes
  <2>. QED  BY <1>2, <2>1 DEF Init, Whole
<1>7. QueuesLabelled
  BY <1>2 DEF Init, QueuesLabelled, Queues
<1>8. SendersLabelled
  BY <1>2 DEF Init, SendersLabelled
<1>9. ReceiversLabelled
  <2>1. \A v \in Receivers : to_local[v] = [c \in 1 .. net.allocated |-> <<>>]
    BY DEF Init
  <2>2. \A v \in Receivers : \A c \in DOMAIN to_local[v] : to_local[v][c] = <<>>
    BY <2>1
  <2>3. \A v \in Receivers : staged[v] = <<>> /\ \A c \in Channels : received[v][c] = <<>>
    BY DEF Init
  <2>. QED  BY <1>2, <2>2, <2>3 DEF ReceiversLabelled
<1>10. ~ Dead
  BY DEF Init, Dead
<1>11. Shape
  BY <1>3, <1>4, <1>5, <1>6, <1>7, <1>8, <1>9, <1>10 DEF Shape, Labelled, Linked
<1>12. Owned
  <2> SUFFICES ASSUME NEW s \in Senders PROVE todo[Thread(s)] \subseteq Handles(Thread(s))
    BY DEF Owned
  <2>1. todo[Thread(s)] = Sources(Thread(s))
    BY Names DEF Init
  <2>2. ASSUME NEW q \in Sources(Thread(s)) PROVE q \in Handles(Thread(s))
    <3>1. PICK r \in Sending : q = <<Worker(r), Thread(s)>> /\ ThreadOf(r) = Thread(s) /\ medium # "process"
      BY DEF Sources
    <3>2. q \in Queues
      BY <3>1 DEF Queues, Outlets
    <3>. QED  BY <3>1, <3>2 DEF Handles
  <2>. QED  BY <2>1, <2>2
<1>13. CutFailed
  BY DEF Init, CutFailed
<1>14. ASSUME NEW s \in Sending, NEW v \in net.receivers, NEW c \in Channels PROVE Keeps(s, v, c)
  <2>1. /\ s \in Senders /\ v \in Receivers /\ Carrier(s) \in Senders /\ InQ(s, v) \in Queues
        /\ (medium # "process" => OutQ(s) \in Queues)
    BY <1>1, <1>11, Cells
  <2>2. InHand(s, v, c) = <<>> /\ InInlet(s, v, c) = <<>> /\ InStage(s, v, c) = <<>>
        /\ InWriter(s, v, c) = <<>> /\ InStash(s, v, c) = <<>> /\ InSent(s, v, c) = <<>>
        /\ (medium # "process" => InOutlet(s, v, c) = <<>>)
    BY <2>1, OfJoin DEF Init, InHand, InInlet, InStage, InWriter, InStash, InSent, InOutlet
  <2>3. InLocal(s, v, c) = <<>>
    <3>1. to_local[v] = [d \in 1 .. net.allocated |-> <<>>]
      BY <2>1 DEF Init
    <3>2. Local(v, c) = <<>>
      BY <3>1 DEF Local
    <3>. QED  BY <3>2, OfJoin DEF InLocal
  <2>4. InFlow(s, v, c) = <<>>
    <3>1. Flow = <<>>
      <4>1. valid \o stream = <<>> /\ <<>> \o <<>> = <<>> /\ AllBytes(<<>>) = <<>>
        BY NoBytes DEF Init
      <4>2. <<>> \in Seq(Mails)
        OBVIOUS
      <4>3. CutsInto(Carve(<<>>), <<>>, <<>>)
        BY <1>2, <4>1, <4>2, CarveFacts
      <4>. QED  BY <4>1, <4>3, JoinFacts DEF CutsInto, Flow
    <3>. QED  BY <3>1, OfJoin DEF InFlow
  <2>5. Down(s, v, c) = <<>> /\ Up(s, v, c) = <<>>
    BY <2>2, <2>3, <2>4, JoinFacts DEF Down, Up, Line, Row
  <2>. QED  BY <1>10, <2>2, <2>5, JoinFacts DEF Keeps
<1>15. Kept
  BY <1>14 DEF Kept
<1>16. Absent
  <2>1. \A v \in Receivers : to_local[v] = [c \in 1 .. net.allocated |-> <<>>]
    BY DEF Init
  <2>. QED  BY <2>1 DEF Absent
<1>. QED  BY <1>11, <1>12, <1>13, <1>15, <1>16 DEF DataInv

\* Every step of the system keeps the messages in order.
LEMMA DataNext == WakeInv /\ DataInv /\ [Next]_vars => DataInv'
<1> SUFFICES ASSUME WakeInv, DataInv, [Next]_vars PROVE DataInv'
  OBVIOUS
<1>1. Typed /\ Placed /\ net \in Scenarios
  BY DEF WakeInv, Typed
<1>2. Flows /\ Tidy
  BY <1>1, FlowsNext, TidyNext DEF DataInv
<1>3. Kept' /\ Shape' /\ net' = net
  BY <1>1, <1>2, KeptNext DEF Flows
<1>4. Owned'
  <2> SUFFICES ASSUME NEW s \in Senders PROVE todo'[Thread(s)] \subseteq Handles(Thread(s))'
    BY DEF Owned
  <2>1. Handles(Thread(s))' = Handles(Thread(s))
    BY <1>3 DEF Handles, Queues, Outlets, Inlets, Sending, medium, ThreadOf
  <2>2. holds[Thread(s)] \subseteq Handles(Thread(s)) /\ todo[Thread(s)] \subseteq Handles(Thread(s))
    BY <1>1, Names DEF Placed, DataInv, Owned
  <2>3. todo'[Thread(s)] \subseteq todo[Thread(s)] \cup holds[Thread(s)]
    BY <1>1, <1>2, Names DEF Tidy, Onto, Typed
  <2>. QED  BY <2>1, <2>2, <2>3
<1>5. CutFailed'
  <2> SUFFICES ASSUME closed' = "cut" PROVE pc'[Thread(Lead)] \in {"unwind", "panicked"}
    BY DEF CutFailed, Panicking
  <2>1. pc[Thread(Lead)] \in {"unwind", "panicked"}
    BY <1>2 DEF Tidy, Breaks, DataInv, CutFailed, Panicking
  <2>2. Thread(Lead) \in Threads
    BY TransportAssumption, Names
  <2>. QED  BY <1>1, <1>2, <2>1, <2>2 DEF Tidy, Onward, Goto, Typed
<1>6. Absent'
  <2> SUFFICES ASSUME NEW v \in Receivers \ net.receivers, NEW c \in DOMAIN to_local'[v]
               PROVE  to_local'[v][c] = <<>>
    BY <1>3 DEF Absent
  <2>1. DOMAIN to_local = Receivers /\ \A d \in DOMAIN to_local[v] : to_local[v][d] = <<>>
    BY DEF DataInv, Shape, LocalTyped, Absent
  <2>2. CASE to_local' = to_local
    BY <2>1, <2>2
  <2>3. ASSUME NEW u \in Receivers, allocate(u) \/ receive(u) \/ \E d \in Channels : pull(u, d)
        PROVE  to_local'[v] = to_local[v]
    <3>1. CASE u = v
      <4>1. ~ allocate(u) /\ ~ receive(u)
        BY <3>1 DEF allocate, receive
      <4>2. \A d \in Channels : ~ pull(u, d)
        BY <2>1, <3>1 DEF pull, Open
      <4>. QED  BY <2>3, <4>1, <4>2
    <3>2. CASE u # v
      <4>1. allocate(u) => to_local'[v] = to_local[v]
        BY <2>1, <3>2 DEF allocate
      <4>2. receive(u) => to_local'[v] = to_local[v]
        BY <2>1, <3>2 DEF receive
      <4>3. \A d \in Channels : pull(u, d) => to_local'[v] = to_local[v]
        BY <2>1, <3>2 DEF pull
      <4>. QED  BY <2>3, <4>1, <4>2, <4>3
    <3>. QED  BY <3>1, <3>2
  <2>4. CASE \E s \in Senders : push(s)
    <3>1. to_local' = to_local
      BY <2>4 DEF push, worker_vars
    <3>. QED  BY <2>2, <3>1
  <2>. QED  BY <2>1, <2>2, <2>3, <2>4, HandledNext DEF Handled
<1>. QED  BY <1>3, <1>4, <1>5, <1>6 DEF DataInv

(* What was pushed by one worker for another in a channel is, in order, in   *)
(* the places it passes, and after a failure a prefix of it: for any        *)
(* programs, sizes and media, whatever reads split and panics interrupt.    *)
THEOREM DataInvHolds == Spec => []DataInv
<1>1. Spec => []WakeInv
  BY WakeInvHolds
<1>. QED  BY <1>1, DataInit, DataNext, PTL DEF Spec

\* The abstract specification selects in the same way.
LEMMA SameSelected == \A a, P : Mail!Selected(a, P) = Selected(a, P)
<1>1. \A P : Mail!Cardinality(P) = Cardinality(P)
  BY DEF Mail!Cardinality, Cardinality
<1>2. \A P : Mail!InOrder(P) = InOrder(P)
  BY <1>1 DEF Mail!InOrder, InOrder
<1>. QED  BY <1>1, <1>2 DEF Mail!Selected, Selected

\* What was posted is what was pushed.
LEMMA PostedSent ==
    ASSUME net \in Scenarios, Shape, NEW s \in Sending, NEW v, NEW c
    PROVE  InSent(s, v, c) = Mail!Posted(s, v, c)
<1>1. s \in Senders /\ sent[s] \in Rows /\ AllIn(sent[s], From(s))
  BY Cast DEF Shape, RowsTyped, Labelled, SendersLabelled
<1>2. \A i \in DOMAIN sent[s] : sent[s][i].from = s
  BY <1>1 DEF AllIn, From
<1>3. {i \in DOMAIN sent[s] : sent[s][i].from = s /\ sent[s][i].channel = c /\ v \in sent[s][i].to}
      = {i \in DOMAIN sent[s] : sent[s][i].channel = c /\ v \in sent[s][i].to}
  BY <1>2
<1>. QED  BY <1>3, SameSelected DEF InSent, Of, Mail!Posted

\* The whole way, piece by piece.
LEMMA ShortWay == \A r, l, q \in Rows : Join(Join(r, l), q) = Join(Line(r, l, q, <<>>, <<>>), <<>>)
  BY JoinFacts DEF Line

NearWay(q, t, f, w, h, o) == Join(Join(Join(Join(Join(q, t), f), w), h), o)
FarWay(r, l, q, t, f, z) == Join(Join(r, l), Join(Join(Join(q, t), f), z))

\* From the inlet back to the first queue.
LEMMA NearWayFacts ==
    \A q, t, f, w, h, o \in Rows : NearWay(q, t, f, w, h, o) = Join(Join(Join(q, t), f), Row(w, h, o))
<1> SUFFICES ASSUME NEW q \in Rows, NEW t \in Rows, NEW f \in Rows, NEW w \in Rows, NEW h \in Rows, NEW o \in Rows
             PROVE  NearWay(q, t, f, w, h, o) = Join(Join(Join(q, t), f), Row(w, h, o))
  OBVIOUS
<1>1. \A x \in Rows : Join(Join(Join(x, w), h), o) = Join(x, Join(w, Join(h, o)))
  BY JoinFacts
<1>2. Join(Join(q, t), f) \in Rows
  BY JoinFacts
<1>. QED  BY <1>1, <1>2 DEF NearWay, Row

\* From the hand back to the connection.
LEMMA FarWayFacts ==
    \A r, l, q, t, f, z \in Rows : FarWay(r, l, q, t, f, z) = Join(Line(r, l, q, t, f), z)
<1> SUFFICES ASSUME NEW r \in Rows, NEW l \in Rows, NEW q \in Rows, NEW t \in Rows, NEW f \in Rows, NEW z \in Rows
             PROVE  FarWay(r, l, q, t, f, z) = Join(Line(r, l, q, t, f), z)
  OBVIOUS
<1>1. Join(Line(r, l, q, t, f), z) = Join(r, Join(l, Join(q, Join(t, Join(f, z)))))
  BY JoinFacts DEF Line
<1>2. Join(Join(Join(q, t), f), z) = Join(q, Join(t, Join(f, z)))
  BY JoinFacts
<1>3. Join(q, Join(t, Join(f, z))) \in Rows
  BY JoinFacts
<1>. QED  BY <1>1, <1>2, <1>3, JoinFacts DEF FarWay

\* OnTheWay is the line of what came down and what waits before the connection.
LEMMA WayIsLine ==
    ASSUME net \in Scenarios, Shape, NEW s \in Sending, NEW v \in net.receivers, NEW c \in Channels
    PROVE  OnTheWay(s, v, c) = Join(Down(s, v, c), Up(s, v, c))
<1>1. /\ InHand(s, v, c) \in Rows /\ InLocal(s, v, c) \in Rows /\ InInlet(s, v, c) \in Rows
      /\ InStage(s, v, c) \in Rows /\ InFlow(s, v, c) \in Rows
      /\ InWriter(s, v, c) \in Rows /\ InStash(s, v, c) \in Rows
      /\ (medium # "process" => InOutlet(s, v, c) \in Rows)
  BY Cells
<1>2. CASE medium = "process"
  <2>1. OnTheWay(s, v, c) = Join(Join(InHand(s, v, c), InLocal(s, v, c)), InInlet(s, v, c))
    BY <1>2 DEF OnTheWay, InHand, InLocal, InInlet, Local, InQ, Join
  <2>2. Down(s, v, c) = Line(InHand(s, v, c), InLocal(s, v, c), InInlet(s, v, c), <<>>, <<>>) /\ Up(s, v, c) = <<>>
    BY <1>2 DEF Down, Up
  <2>. QED  BY <1>1, <2>1, <2>2, ShortWay
<1>3. CASE medium # "process"
  <2>1. OnTheWay(s, v, c)
        = Join(Join(InHand(s, v, c), InLocal(s, v, c)),
               NearWay(InInlet(s, v, c), InStage(s, v, c), InFlow(s, v, c),
                       InWriter(s, v, c), InStash(s, v, c), InOutlet(s, v, c)))
    BY <1>3 DEF OnTheWay, InHand, InLocal, InInlet, InStage, InFlow, InWriter, InStash, InOutlet,
                Local, InQ, OutQ, Flow, Carrier, Join, NearWay
  <2>2. Down(s, v, c) = Line(InHand(s, v, c), InLocal(s, v, c), InInlet(s, v, c), InStage(s, v, c), InFlow(s, v, c))
        /\ Up(s, v, c) = Row(InWriter(s, v, c), InStash(s, v, c), InOutlet(s, v, c))
    BY <1>3 DEF Down, Up
  <2>3. InOutlet(s, v, c) \in Rows
    BY <1>1, <1>3
  <2>4. NearWay(InInlet(s, v, c), InStage(s, v, c), InFlow(s, v, c),
                InWriter(s, v, c), InStash(s, v, c), InOutlet(s, v, c))
        = Join(Join(Join(InInlet(s, v, c), InStage(s, v, c)), InFlow(s, v, c)), Up(s, v, c))
    <3>1. /\ InInlet(s, v, c) \in Rows /\ InStage(s, v, c) \in Rows /\ InFlow(s, v, c) \in Rows
          /\ InWriter(s, v, c) \in Rows /\ InStash(s, v, c) \in Rows /\ InOutlet(s, v, c) \in Rows
      BY <1>1, <2>3
    <3>2. NearWay(InInlet(s, v, c), InStage(s, v, c), InFlow(s, v, c),
                  InWriter(s, v, c), InStash(s, v, c), InOutlet(s, v, c))
          = Join(Join(Join(InInlet(s, v, c), InStage(s, v, c)), InFlow(s, v, c)),
                 Row(InWriter(s, v, c), InStash(s, v, c), InOutlet(s, v, c)))
      BY <3>1, NearWayFacts
    <3>. QED  BY <2>2, <3>2
  <2>5. OnTheWay(s, v, c) = FarWay(InHand(s, v, c), InLocal(s, v, c), InInlet(s, v, c), InStage(s, v, c),
                                   InFlow(s, v, c), Up(s, v, c))
    BY <2>1, <2>4 DEF FarWay
  <2>6. Up(s, v, c) \in Rows
    BY Cells
  <2>7. /\ InHand(s, v, c) \in Rows /\ InLocal(s, v, c) \in Rows /\ InInlet(s, v, c) \in Rows
        /\ InStage(s, v, c) \in Rows /\ InFlow(s, v, c) \in Rows
    BY <1>1
  <2>8. FarWay(InHand(s, v, c), InLocal(s, v, c), InInlet(s, v, c), InStage(s, v, c), InFlow(s, v, c), Up(s, v, c))
        = Join(Line(InHand(s, v, c), InLocal(s, v, c), InInlet(s, v, c), InStage(s, v, c), InFlow(s, v, c)),
               Up(s, v, c))
    BY <2>6, <2>7, FarWayFacts
  <2>. QED  BY <2>2, <2>5, <2>8
<1>. QED  BY <1>2, <1>3

(* extend, drain, writes, splits by read, pass_along, deposit and pull:      *)
(* while nothing has failed, no message is lost, doubled or overtaken, and  *)
(* the slab of the receive thread never overflows.                          *)
THEOREM ConservedHolds == Spec => []Conserved
<1>1. WakeInv /\ DataInv => Conserved
  <2> SUFFICES ASSUME WakeInv, DataInv PROVE Conserved
    OBVIOUS
  <2>1. net \in Scenarios /\ Shape
    BY DEF WakeInv, Typed, DataInv
  <2>2. room >= 0
    BY <2>1 DEF Shape, SlabTyped
  <2>3. ASSUME ~ Failed, closed # "closed",
               NEW s \in Sending, NEW v \in net.receivers, NEW c \in Channels, c <= bound[v] => Open(v, c)
        PROVE  OnTheWay(s, v, c) = Mail!Posted(s, v, c)
    <3>1. ~ Dead
      BY <2>3, TransportAssumption, Names DEF DataInv, CutFailed, Dead, Failed
    <3>2. Has(v, c)
      BY <2>3 DEF Has, Open
    <3>3. Join(Down(s, v, c), Up(s, v, c)) = InSent(s, v, c)
      BY <3>1, <3>2 DEF DataInv, Kept, Keeps
    <3>. QED  BY <2>1, <3>3, WayIsLine, PostedSent
  <2>. QED  BY <2>2, <2>3 DEF Conserved
<1>. QED  BY <1>1, WakeInvHolds, DataInvHolds, PTL

\* Rows that begin in the same way.
LEMMA NextOf ==
    \A a, z \in Rows : \A h \in Mails :
        /\ Len(a) < Len(Join(a, Join(<<h>>, z)))
        /\ Join(a, Join(<<h>>, z))[Len(a) + 1] = h
<1> SUFFICES ASSUME NEW a \in Rows, NEW z \in Rows, NEW h \in Mails
             PROVE  /\ Len(a) < Len(Join(a, Join(<<h>>, z)))
                    /\ Join(a, Join(<<h>>, z))[Len(a) + 1] = h
  OBVIOUS
<1>1. a \in Seq(Mails) /\ z \in Seq(Mails)
  BY DEF Rows
<1>2. /\ Len(<<h>> \o z) = Len(z) + 1 /\ <<h>> \o z \in Seq(Mails) /\ (<<h>> \o z)[1] = h
  BY <1>1
<1> DEFINE y == <<h>> \o z
<1>3. Len(a \o y) = Len(a) + Len(y) /\ (a \o y)[Len(a) + 1] = y[1] /\ Len(a) \in Nat /\ Len(y) = Len(z) + 1 /\ Len(z) \in Nat
  <2>1. y \in Seq(Mails) /\ Len(y) = Len(z) + 1 /\ Len(z) \in Nat /\ Len(a) \in Nat
    BY <1>1, <1>2
  <2> HIDE DEF y
  <2>. QED  BY <1>1, <2>1
<1> HIDE DEF y
<1>. QED  BY <1>2, <1>3 DEF Join, y

\* What v has in hand of s is what it has pulled from s.
LEMMA PulledHand ==
    ASSUME net \in Scenarios, Shape, NEW s, NEW v \in Receivers, NEW c \in Channels
    PROVE  InHand(s, v, c) = Mail!Pulled(s, v, c)
<1>1. received[v][c] \in Rows /\ AllIn(received[v][c], For(v) \cap In(c))
  BY DEF Shape, RowsTyped, Labelled, ReceiversLabelled
<1>2. \A i \in DOMAIN received[v][c] : received[v][c][i].channel = c /\ v \in received[v][c][i].to
  BY <1>1 DEF AllIn, For, In
<1>3. {i \in DOMAIN received[v][c] : received[v][c][i].from = s /\ received[v][c][i].channel = c
                                      /\ v \in received[v][c][i].to}
      = {i \in DOMAIN received[v][c] : received[v][c][i].from = s}
  BY <1>2
<1>. QED  BY <1>3, SameSelected DEF InHand, Of, Mail!Pulled

\* The first message in the queue of a channel is the next one of its sender.
LEMMA NextPulled ==
    ASSUME WakeInv, DataInv, NEW v \in Receivers, NEW c \in Channels, pull(v, c)
    PROVE  LET h == Head(to_local[v][c])
           IN  /\ h.from \in Senders
               /\ Len(Mail!Pulled(h.from, v, c)) < Len(Mail!Posted(h.from, v, c))
               /\ Mail!Posted(h.from, v, c)[Len(Mail!Pulled(h.from, v, c)) + 1] = h
<1> DEFINE h == Head(to_local[v][c])
           s == h.from
<1>1. net \in Scenarios /\ Shape
  BY DEF WakeInv, Typed, DataInv
<1>2. /\ c \in DOMAIN to_local[v] /\ to_local[v][c] # <<>> /\ to_local[v][c] \in Rows
      /\ AllIn(to_local[v][c], For(v) \cap In(c))
      /\ to_local[v][c] = Join(<<h>>, Tail(to_local[v][c]))
  BY <1>1, PullFacts DEF Hands
<1>3. h \in Mails /\ Tail(to_local[v][c]) \in Rows /\ <<h>> \in Rows /\ h \in For(v) \cap In(c)
  BY <1>2, HeadTail
<1>4. v \in net.receivers
  BY <1>2 DEF DataInv, Absent
<1>5. s \in Sending /\ s \in Senders /\ h \in Mine(s, v, c)
  BY <1>1, <1>3, Cast DEF Mails, For, In, Mine
<1> HIDE DEF h, s
<1> DEFINE z == Of(Tail(to_local[v][c]), s, v, c)
           hand == InHand(s, v, c)
           all == InSent(s, v, c)
<1>6. Of(<<h>>, s, v, c) = <<h>>
  BY <1>3, <1>5, OfFacts
<1>7. z \in Rows /\ InLocal(s, v, c) = Join(<<h>>, z)
  BY <1>2, <1>3, <1>6, OfJoin DEF InLocal, Local
<1>8. PICK w \in Rows : Join(Down(s, v, c), w) = all
  <2>1. Has(v, c)
    BY <1>2 DEF Has
  <2>2. Up(s, v, c) \in Rows
    BY <1>1, <1>4, <1>5, Cells
  <2>3. IF Dead THEN \E rest \in Rows : Join(Down(s, v, c), rest) = all
        ELSE Join(Down(s, v, c), Up(s, v, c)) = all
    BY <1>4, <1>5, <2>1 DEF DataInv, Kept, Keeps
  <2>. QED  BY <2>2, <2>3
<1>9. PICK y \in Rows : Down(s, v, c) = Join(hand, Join(Join(<<h>>, z), y))
  <2>1. /\ InHand(s, v, c) \in Rows /\ InLocal(s, v, c) \in Rows /\ InInlet(s, v, c) \in Rows
        /\ InStage(s, v, c) \in Rows /\ InFlow(s, v, c) \in Rows /\ <<>> \in Rows
    BY <1>1, <1>4, <1>5, Cells, JoinFacts
  <2>2. CASE medium = "process"
    <3>1. Down(s, v, c) = Join(hand, Join(InLocal(s, v, c), Join(InInlet(s, v, c), Join(<<>>, <<>>))))
      BY <2>2 DEF Down, Line
    <3>2. Join(InInlet(s, v, c), Join(<<>>, <<>>)) \in Rows
      BY <2>1, JoinFacts
    <3>. QED  BY <1>7, <3>1, <3>2
  <2>3. CASE medium # "process"
    <3>1. Down(s, v, c) = Join(hand, Join(InLocal(s, v, c), Join(InInlet(s, v, c), Join(InStage(s, v, c), InFlow(s, v, c)))))
      BY <2>3 DEF Down, Line
    <3>2. Join(InInlet(s, v, c), Join(InStage(s, v, c), InFlow(s, v, c))) \in Rows
      BY <2>1, JoinFacts
    <3>. QED  BY <1>7, <3>1, <3>2
  <2>. QED  BY <2>2, <2>3
<1>10. hand \in Rows
  BY <1>1, <1>4, <1>5, Cells
<1> HIDE DEF z, hand, all
<1>11. all = Join(hand, Join(<<h>>, Join(Join(z, y), w))) /\ Join(Join(z, y), w) \in Rows
  <2>1. Join(<<h>>, z) \in Rows /\ Join(z, y) \in Rows
    BY <1>3, <1>7, <1>9, JoinFacts
  <2>2. Join(Join(<<h>>, z), y) \in Rows /\ Join(Join(z, y), w) \in Rows
    BY <2>1, <1>8, <1>9, JoinFacts
  <2>3. all = Join(Join(hand, Join(Join(<<h>>, z), y)), w)
    BY <1>8, <1>9
  <2>4. all = Join(hand, Join(Join(Join(<<h>>, z), y), w))
    BY <2>2, <2>3, <1>8, <1>10, JoinFacts
  <2>5. Join(Join(<<h>>, z), y) = Join(<<h>>, Join(z, y))
    BY <1>3, <1>7, <1>9, JoinFacts
  <2>6. Join(Join(<<h>>, Join(z, y)), w) = Join(<<h>>, Join(Join(z, y), w))
    BY <2>1, <1>3, <1>8, JoinFacts
  <2>. QED  BY <2>2, <2>4, <2>5, <2>6
<1>12. Len(hand) < Len(all) /\ all[Len(hand) + 1] = h
  BY <1>3, <1>10, <1>11, NextOf
<1>13. hand = Mail!Pulled(s, v, c) /\ all = Mail!Posted(s, v, c)
  BY <1>1, <1>5, PulledHand, PostedSent DEF hand, all
<1>. QED  BY <1>5, <1>12, <1>13 DEF s, h

(* The transport keeps the promise of Mailboxes, also when threads panic and *)
(* connections are cut: each step is a push, a pull of the next message of  *)
(* its sender, or a stutter.                                                *)
THEOREM ImplementsHolds == Spec => Implements
<1>1. Init => Mail!MailInit
  BY DEF Init, Mail!MailInit
<1>2. WakeInv /\ DataInv /\ [Next]_vars => [Mail!MailNext]_(Mail!mail_vars)
  <2> SUFFICES ASSUME WakeInv, DataInv, [Next]_vars PROVE [Mail!MailNext]_(Mail!mail_vars)
    OBVIOUS
  <2>0. net \in Scenarios /\ Shape
    BY DEF WakeInv, Typed, DataInv
  <2>1. CASE UNCHANGED <<sent, received>>
    BY <2>1 DEF Mail!mail_vars
  <2>2. ASSUME NEW s \in Senders, push(s) PROVE Mail!Push(s)
    <3>1. sent \in [Senders -> Seq(Mails)]
      BY <2>0 DEF Shape, RowsTyped, Rows
    <3>2. PICK m : m.from = s /\ sent' = [sent EXCEPT ![s] = Append(sent[s], m)]
      BY <2>2 DEF push
    <3>3. UNCHANGED received
      BY <2>2 DEF push, worker_vars
    <3>4. sent[s] \in Seq(Mails) /\ sent'[s] = Append(sent[s], m)
      BY <3>1, <3>2
    <3>5. Len(sent'[s]) = Len(sent[s]) + 1 /\ sent'[s][Len(sent[s]) + 1] = m
      BY <3>4
    <3>6. sent' = [sent EXCEPT ![s] = Append(sent[s], sent'[s][Len(sent[s]) + 1])]
      BY <3>2, <3>5
    <3>. QED  BY <3>2, <3>3, <3>5, <3>6 DEF Mail!Push
  <2>3. ASSUME NEW v \in Receivers, NEW c \in Channels, pull(v, c)
        PROVE  \E s \in Senders : Mail!Pull(s, v, c)
    <3> DEFINE h == Head(to_local[v][c])
    <3>1. /\ h.from \in Senders
          /\ Len(Mail!Pulled(h.from, v, c)) < Len(Mail!Posted(h.from, v, c))
          /\ Mail!Posted(h.from, v, c)[Len(Mail!Pulled(h.from, v, c)) + 1] = h
      BY <2>3, NextPulled
    <3>2. received' = [received EXCEPT ![v][c] = Append(received[v][c], h)] /\ UNCHANGED sent
      BY <2>3 DEF pull
    <3> HIDE DEF h
    <3>3. received' = [received EXCEPT ![v][c] =
              Append(received[v][c], Mail!Posted(h.from, v, c)[Len(Mail!Pulled(h.from, v, c)) + 1])]
      BY <3>1, <3>2
    <3>. QED  BY <3>1, <3>2, <3>3 DEF Mail!Pull
  <2>4. ASSUME NEW v \in Receivers, allocate(v) \/ receive(v) PROVE UNCHANGED <<sent, received>>
    BY <2>4 DEF allocate, receive
  <2>. QED  BY <2>1, <2>2, <2>3, <2>4, HandledNext DEF Handled, Mail!MailNext
<1>. QED  BY <1>1, <1>2, WakeInvHolds, DataInvHolds, PTL DEF Spec, Implements, Mail!MailSpec

-----------------------------------------------------------------------------
(* How threads and streams end.                                             *)

\* A sender that has let go of its queue is over.
Outlasts ==
    medium # "process" => \A s \in Sending : OutQ(s) \in holds[Worker(s)] \/ Over(Worker(s))

\* A send thread has sent all that it drained before it looks who is left, and
\* lets go of a queue when nothing can come from it any more.
SendDone(s) ==
    /\ Handles(Thread(s)) = {} => pc[Thread(s)] = "none"
    /\ pc[Thread(s)] \in {"none", "drain", "check", "unwind", "panicked", "done"}
    /\ pc[Thread(s)] \in {"check", "done"} => stash[s] = <<>> /\ writer[s] = <<>>
    /\ pc[Thread(s)] = "done" => holds[Thread(s)] = {}
    /\ pc[Thread(s)] \in {"drain", "check", "done"} =>
          \A q \in Handles(Thread(s)) \ holds[Thread(s)] : q \notin holds[q[1]] /\ queue[q] = <<>>
    /\ \A q \in Queues : <<q, "empty">> \in seen[s] => q \notin holds[q[1]]

\* Workers do not push final headers.
NoEnd(ms) == \A i \in DOMAIN ms : ms[i].channel # 0
NoEnds ==
    /\ \A s \in Sending : \A q \in Outlets(s) : NoEnd(queue[q])
    /\ \A s \in Senders : NoEnd(stash[s]) /\ NoEnd(writer[s])

\* All messages that have been read as a whole have been cut out.
Unread == stream = <<>> => Flow = <<>>

\* The final header is the last message, and is on its way, or was read.
Heard == {"eof", "last", "closing", "done"}
EndComes ==
    \/ /\ pc[Inbox] \in {"none", "read", "extend"}
       /\ Flow # <<>> /\ Flow[Len(Flow)] = End /\ Ends(Flow) = 1
    \/ pc[Inbox] \in Heard /\ valid = <<>> /\ stream = <<>>
    \/ Panicking(Inbox)
StreamEnds ==
    medium \notin {"quic", "ipc", "process"} =>
        /\ closed \in {"open", "shut", "cut"}
        /\ pc[Thread(Lead)] = "done" <=> closed = "shut"
        /\ pc[Inbox] # "event"
        /\ IF closed = "shut" THEN EndComes ELSE Ends(Flow) = 0 /\ pc[Inbox] \notin Heard

\* As many final headers were sent as have been read, or are on their way.
Ended == {s \in Sending : pc[Thread(s)] = "done"}
PeersEnd ==
    medium = "ipc" =>
        /\ closed = "open" /\ alive \in Int
        /\ pc[Inbox] # "eof"
        /\ alive + Cardinality(Ended) = Cardinality(Sending) + Ends(Flow)
        /\ pc[Inbox] \in Heard => Ended = Sending /\ valid = <<>> /\ stream = <<>>

\* The receive thread ends when everything has been passed on.
InboxKeeps ==
    /\ medium = "process" => pc[Inbox] = "none"
    /\ pc[Inbox] = "accept" => medium = "quic"
    /\ pc[Inbox] \in {"none", "read", "accept", "event", "extend", "unwind", "panicked"} \cup Heard
    /\ pc[Inbox] \in {"read", "event", "extend", "eof", "accept", "last"} => holds[Inbox] # {}
    /\ pc[Inbox] = "eof" => Targets \subseteq todo[Inbox]
    /\ pc[Inbox] = "last" =>
          \A v \in net.receivers : <<Inbox, Worker(v)>> \in todo[Inbox] \/ staged[v] = <<>>
    /\ medium # "quic" /\ pc[Inbox] \in {"closing", "done"} =>
          \A v \in net.receivers : staged[v] = <<>>

\* Nobody panics first.
Calm == net.failing = {} /\ medium # "quic" => panic = {} /\ \A th \in Threads : ~ Panicking(th)

Senders1 == DOMAIN seen = Senders /\ Outlasts /\ (\A s \in Senders : SendDone(s)) /\ NoEnds
Streams == Unread /\ StreamEnds /\ PeersEnd
EndInv == Senders1 /\ Streams /\ InboxKeeps /\ Calm

-----------------------------------------------------------------------------
(* What does not disturb them.                                              *)

\* A step after which a sender still holds what it held, and is over if it was.
LEMMA OutlastsStays ==
    ASSUME net \in Scenarios, net' = net, Outlasts,
           \A s \in Senders : /\ holds'[Worker(s)] = holds[Worker(s)]
                              /\ pc'[Worker(s)] = pc[Worker(s)] \/ ~ Over(Worker(s))
    PROVE  Outlasts'
<1>1. medium' = medium /\ Sending' = Sending /\ Sending \subseteq Senders /\ \A s : OutQ(s)' = OutQ(s)
  BY SameNet, Cast DEF OutQ, ThreadOf
<1>2. ASSUME medium # "process", NEW s \in Sending PROVE OutQ(s) \in holds'[Worker(s)] \/ Over(Worker(s))'
  <2>1. OutQ(s) \in holds[Worker(s)] \/ Over(Worker(s))
    BY <1>2 DEF Outlasts
  <2>2. Over(Worker(s)) => Over(Worker(s))'
    BY <1>1 DEF Over
  <2>. QED  BY <1>1, <2>1, <2>2
<1>. QED  BY <1>1, <1>2 DEF Outlasts

\* A step that leaves a send thread alone, and adds nothing to a queue whose pusher has gone.
LEMMA SendDoneStays ==
    ASSUME net' = net, NEW s \in Senders, SendDone(s),
           pc'[Thread(s)] = pc[Thread(s)], holds'[Thread(s)] = holds[Thread(s)],
           seen'[s] = seen[s], stash'[s] = stash[s], writer'[s] = writer[s],
           \A q \in Queues : q \notin holds[q[1]] => q \notin holds'[q[1]],
           \A q \in Handles(Thread(s)) :
               q \notin holds[q[1]] /\ queue[q] = <<>> => queue'[q] = <<>>
    PROVE  SendDone(s)'
<1>1. Queues' = Queues /\ Handles(Thread(s))' = Handles(Thread(s)) /\ Handles(Thread(s)) \subseteq Queues
  BY SameNet DEF Handles
<1>2. pc[Thread(s)] \in {"drain", "check", "done"} =>
          \A q \in Handles(Thread(s)) \ holds[Thread(s)] : q \notin holds'[q[1]] /\ queue'[q] = <<>>
  BY <1>1 DEF SendDone
<1>3. \A q \in Queues : <<q, "empty">> \in seen[s] => q \notin holds'[q[1]]
  BY DEF SendDone
<1>. QED  BY <1>1, <1>2, <1>3 DEF SendDone

\* A step that leaves what is queued, drained and buffered alone.
LEMMA NoEndsStay ==
    ASSUME net' = net, NoEnds, queue' = queue, stash' = stash, writer' = writer
    PROVE  NoEnds'
<1>1. Sending' = Sending /\ \A s : Outlets(s)' = Outlets(s)
  BY SameNet DEF Outlets, ThreadOf
<1>. QED  BY <1>1 DEF NoEnds, NoEnd

\* The receive thread goes on without reading.
Passes ==
    \/ pc'[Inbox] = pc[Inbox]
    \/ pc'[Inbox] \in {"unwind", "panicked"}
    \/ pc[Inbox] \in Heard /\ pc'[Inbox] \in {"last", "closing", "done"}
    \/ pc[Inbox] = "extend" /\ pc'[Inbox] = "read"
    \/ medium = "ipc" /\ pc[Inbox] = "read" /\ pc'[Inbox] = "event"

\* A step that neither reads nor writes, and in which no send thread ends.
LEMMA StreamsStay ==
    ASSUME net' = net, Streams, valid' = valid, stream' = stream, closed' = closed, alive' = alive,
           \A s \in Senders : pc[Thread(s)] = "done" <=> pc'[Thread(s)] = "done", Passes,
           net \in Scenarios
    PROVE  Streams'
<1>1. medium' = medium /\ Sending' = Sending /\ Sending \subseteq Senders /\ Lead \in Senders
  BY SameNet, Cast
<1>2. Flow' = Flow
  BY DEF Flow
<1>3. Unread'
  BY <1>2 DEF Streams, Unread
<1>4. Ended' = Ended
  BY <1>1 DEF Ended
<1>5. Ends(Flow)' = Ends(Flow)
  BY <1>2 DEF Ends
<1> DEFINE n == Ends(Flow)
           c == Cardinality(Ended)
<1>6. n' = n /\ c' = c
  BY <1>4, <1>5
<1>7. StreamEnds'
  <2>1. EndComes => EndComes' \/ medium = "ipc"
    BY <1>2, <1>6 DEF EndComes, Passes, Heard, Panicking
  <2>2. pc'[Inbox] # "event" \/ medium = "ipc" \/ pc[Inbox] = "event"
    BY DEF Passes
  <2>3. pc'[Inbox] \notin Heard \/ pc[Inbox] \in Heard
    BY DEF Passes, Heard
  <2>4. pc'[Thread(Lead)] = "done" <=> pc[Thread(Lead)] = "done"
    BY <1>1
  <2> HIDE DEF n, c
  <2>. QED  BY <1>1, <1>5, <2>1, <2>2, <2>3, <2>4 DEF Streams, StreamEnds, Heard
<1>8. PeersEnd'
  <2>1. pc'[Inbox] # "eof" \/ pc[Inbox] = "eof"
    BY DEF Passes
  <2>2. pc'[Inbox] \notin Heard \/ pc[Inbox] \in Heard
    BY DEF Passes, Heard
  <2>3. Cardinality(Sending)' = Cardinality(Sending) /\ Cardinality(Ended)' = Cardinality(Ended)
    BY <1>1, <1>4
  <2>. QED  BY <1>1, <1>4, <1>5, <2>1, <2>2, <2>3 DEF Streams, PeersEnd, Heard
<1>. QED  BY <1>3, <1>7, <1>8 DEF Streams

\* A step that leaves the receive thread and what it has staged alone.
LEMMA InboxStays ==
    ASSUME net' = net, InboxKeeps, pc'[Inbox] = pc[Inbox], holds'[Inbox] = holds[Inbox],
           todo'[Inbox] = todo[Inbox], staged' = staged
    PROVE  InboxKeeps'
<1>1. Targets' = Targets /\ medium' = medium
  BY SameNet DEF Targets
<1>. QED  BY <1>1 DEF InboxKeeps

\* A step in which no thread panics unless a panic has come before it.
LEMMA CalmStays ==
    ASSUME net' = net, Calm, panic' = panic,
           \A th \in Threads : Panicking(th)' => Panicking(th) \/ net.failing # {} \/ medium = "quic"
    PROVE  Calm'
  BY SameNet DEF Calm

\* A step of a worker, which leaves its handles of queues alone.
Aside(w) ==
    /\ net' = net
    /\ UNCHANGED <<holds, panic, todo, seen, stash, writer, stream, closed, alive, valid, staged>>
    /\ \A th \in Threads \ {Worker(w)} : pc'[th] = pc[th]
    /\ pc'[Worker(w)] = pc[Worker(w)] \/ ~ Over(Worker(w))
    /\ Panicking(Worker(w))' => Panicking(Worker(w)) \/ net.failing # {} \/ panic # {}
    /\ \A s \in Senders : \A q \in Handles(Thread(s)) :
          q \notin holds[q[1]] /\ queue[q] = <<>> => queue'[q] = <<>>
    /\ \A s \in Sending : \A q \in Outlets(s) : NoEnd(queue[q]) => NoEnd(queue'[q])

\* A step of a worker that lets go of no queue keeps the invariant.
LEMMA AsideEnds ==
    ASSUME net \in Scenarios, EndInv, NEW w \in Senders \cup Receivers, Aside(w)
    PROVE  EndInv'
<1>0. net' = net /\ UNCHANGED <<holds, panic, todo, seen, stash, writer, stream, closed, alive, valid, staged>>
  BY DEF Aside
<1>1. /\ \A s \in Senders : pc'[Thread(s)] = pc[Thread(s)]
      /\ pc'[Inbox] = pc[Inbox]
      /\ \A s \in Senders : pc'[Worker(s)] = pc[Worker(s)] \/ ~ Over(Worker(s))
  BY Names DEF Aside
<1>2. Outlasts'
  BY <1>0, <1>1, OutlastsStays DEF EndInv, Senders1
<1>3. ASSUME NEW s \in Senders PROVE SendDone(s)'
  <2>1. SendDone(s) /\ \A q \in Handles(Thread(s)) :
            q \notin holds[q[1]] /\ queue[q] = <<>> => queue'[q] = <<>>
    BY DEF EndInv, Senders1, Aside
  <2>. QED  BY <1>0, <1>1, <2>1, SendDoneStays
<1>4. NoEnds'
  <2>1. Sending' = Sending /\ \A s : Outlets(s)' = Outlets(s)
    BY <1>0, SameNet DEF Outlets, ThreadOf
  <2>2. \A s \in Sending : \A q \in Outlets(s) : NoEnd(queue'[q])
    BY DEF EndInv, Senders1, NoEnds, Aside
  <2>3. \A s \in Senders : NoEnd(stash[s]) /\ NoEnd(writer[s])
    BY DEF EndInv, Senders1, NoEnds
  <2>4. \A x : NoEnd(x)' = NoEnd(x)
    BY DEF NoEnd
  <2>. QED  BY <1>0, <2>1, <2>2, <2>3 DEF NoEnds, NoEnd
<1>5. Streams'
  BY <1>0, <1>1, StreamsStay DEF Passes, EndInv
<1>6. InboxKeeps'
  BY <1>0, <1>1, InboxStays DEF EndInv
<1>7. Calm'
  <2>1. \A th \in Threads : Panicking(th)' => Panicking(th) \/ net.failing # {} \/ medium = "quic"
    BY DEF Aside, Panicking, EndInv, Calm
  <2>. QED  BY <1>0, <2>1, CalmStays DEF EndInv
<1>. QED  BY <1>0, <1>2, <1>3, <1>4, <1>5, <1>6, <1>7 DEF EndInv, Senders1

\* A thread panics, and lets go of nothing yet.
LEMMA LeavePanics ==
    ASSUME WakeInv, EndInv, NEW th \in Threads, leave(th, "unwind"), ~ Over(th),
           net.failing # {} \/ medium = "quic" \/ panic # {} \/ \E u \in Threads : Panicking(u)
    PROVE  EndInv'
<1>0. net' = net /\ net \in Scenarios
      /\ UNCHANGED <<queue, holds, panic, todo, seen, stash, writer, stream, closed, alive, valid, staged>>
      /\ DOMAIN pc = Threads
  BY DEF leave, WakeInv, Typed, worker_vars, recv_vars, send_vars, link_vars
<1>1. PICK x \in {"unwind", "panicked"} : pc' = [pc EXCEPT ![th] = x]
  BY DEF leave, Goto
<1>2. pc'[th] = x /\ \A u \in Threads \ {th} : pc'[u] = pc[u]
  BY <1>0, <1>1
<1>3. Outlasts'
  <2>1. \A s \in Senders : pc'[Worker(s)] = pc[Worker(s)] \/ ~ Over(Worker(s))
    BY <1>2, Names
  <2>. QED  BY <1>0, <2>1, OutlastsStays DEF EndInv, Senders1
<1>4. ASSUME NEW s \in Senders PROVE SendDone(s)'
  <2>0. SendDone(s)
    BY DEF EndInv, Senders1
  <2>1. CASE th = Thread(s)
    <3>1. Queues' = Queues /\ Handles(Thread(s))' = Handles(Thread(s))
      BY <1>0, SameNet
    <3>2. pc'[Thread(s)] \in {"unwind", "panicked"} /\ Handles(Thread(s)) # {}
      BY <1>2, <2>0, <2>1 DEF SendDone, Over
    <3>. QED  BY <1>0, <2>0, <3>1, <3>2 DEF SendDone
  <2>2. CASE th # Thread(s)
    <3>1. pc'[Thread(s)] = pc[Thread(s)]
      BY <1>2, <2>2, Names
    <3>. QED  BY <1>0, <2>0, <3>1, SendDoneStays
  <2>. QED  BY <2>1, <2>2
<1>5. NoEnds'
  BY <1>0, NoEndsStay DEF EndInv, Senders1
<1>6. Streams'
  <2>1. Passes
    BY <1>2, Names DEF Passes
  <2>2. \A s \in Senders : pc[Thread(s)] = "done" <=> pc'[Thread(s)] = "done"
    BY <1>2, Names DEF Over
  <2>. QED  BY <1>0, <2>1, <2>2, StreamsStay DEF EndInv
<1>7. InboxKeeps'
  <2>1. CASE th = Inbox
    <3>1. InboxKeeps /\ medium' = medium /\ pc'[Inbox] \in {"unwind", "panicked"} /\ pc[Inbox] # "none"
      BY <1>0, <1>2, <2>1, SameNet DEF EndInv, Over
    <3>. QED  BY <3>1 DEF InboxKeeps
  <2>2. CASE th # Inbox
    BY <1>0, <1>2, <2>2, Names, InboxStays DEF EndInv
  <2>. QED  BY <2>1, <2>2
<1>8. Calm'
  <2>1. net.failing # {} \/ medium = "quic"
    BY DEF EndInv, Calm
  <2>. QED  BY <1>0, <2>1, SameNet DEF Calm
<1>. QED  BY <1>0, <1>3, <1>4, <1>5, <1>6, <1>7, <1>8 DEF EndInv, Senders1

\* Unparking a thread, and receiving.
LEMMA WorkersEnd ==
    ASSUME WakeInv, EndInv,
           \/ \E th \in Threads : buzz(th)
           \/ \E v \in Receivers :
                 \/ allocate(v) \/ receive(v) \/ await_events(v) \/ receiver_ends(v)
                 \/ \E c \in Channels : pull(v, c) \/ drop_puller(v, c)
    PROVE  EndInv'
<1>0. net \in Scenarios /\ DOMAIN pc = Threads /\ DOMAIN queue = Queues
  BY DEF WakeInv, Typed
<1>1. ASSUME UNCHANGED <<net, pc, queue, holds, panic, todo, seen, stash, writer, stream, closed, alive, valid, staged>>
      PROVE  EndInv'
  <2>1. PICK w \in Senders \cup Receivers : TRUE
    BY <1>0, Cast
  <2>2. Aside(w)
    BY <1>1 DEF Aside, Panicking
  <2>. QED  BY <1>0, <2>2, AsideEnds
<1>2. ASSUME NEW th \in Threads, buzz(th) PROVE EndInv'
  BY <1>1, <1>2 DEF buzz, worker_vars, recv_vars, send_vars, link_vars
<1>3. ASSUME NEW v \in Receivers, allocate(v) \/ \E c \in Channels : pull(v, c) \/ drop_puller(v, c) PROVE EndInv'
  BY <1>1, <1>3 DEF allocate, pull, drop_puller, recv_vars, send_vars, link_vars
<1>4. ASSUME NEW v \in Receivers, await_events(v) \/ receiver_ends(v) PROVE EndInv'
  <2>1. PICK x \in {"run", "closing", "done"} : pc' = [pc EXCEPT ![Worker(v)] = x]
    BY <1>4 DEF await_events, receiver_ends, leave, Goto
  <2>2. /\ net' = net /\ queue' = queue /\ ~ Over(Worker(v))
        /\ UNCHANGED <<holds, panic, todo, seen, stash, writer, stream, closed, alive, valid, staged>>
    BY <1>4 DEF await_events, receiver_ends, leave, At, Over, recv_vars, send_vars, link_vars
  <2>3. pc'[Worker(v)] = x /\ \A th \in Threads \ {Worker(v)} : pc'[th] = pc[th]
    BY <1>0, <2>1, Names
  <2>4. Aside(v)
    BY <2>2, <2>3 DEF Aside, Panicking
  <2>. QED  BY <1>0, <2>4, AsideEnds
<1>5. ASSUME NEW v \in Receivers, receive(v) PROVE EndInv'
  <2>1. /\ net' = net /\ ~ Over(Worker(v)) /\ Worker(v) \in Threads
        /\ UNCHANGED <<holds, panic, todo, seen, stash, writer, stream, closed, alive, valid, staged>>
    BY <1>5, Names DEF receive, At, Over, recv_vars, send_vars, link_vars
  <2>2. /\ \A th \in Threads \ {Worker(v)} : pc'[th] = pc[th]
        /\ pc'[Worker(v)] \in {pc[Worker(v)], "park"} \/ (pc'[Worker(v)] = "unwind" /\ panic # {})
    BY <1>0, <1>5, <2>1 DEF receive, Goto
  <2>3. \A q \in Queues : queue'[q] = queue[q] \/ queue'[q] = <<>>
    BY <1>0, <1>5 DEF receive
  <2>4. \A s \in Senders : Handles(Thread(s)) \subseteq Queues
    BY DEF Handles
  <2>5. \A s \in Sending : Outlets(s) \subseteq Queues
    BY DEF Queues
  <2>6. NoEnd(<<>>)
    BY DEF NoEnd
  <2>7. Aside(v)
    BY <2>1, <2>2, <2>3, <2>4, <2>5, <2>6 DEF Aside, Panicking
  <2>. QED  BY <1>0, <2>7, AsideEnds
<1>. QED  BY <1>2, <1>3, <1>4, <1>5

-----------------------------------------------------------------------------
(* Steps of workers, and of threads that leave.                             *)

\* Ending a row with messages of channels leaves it without final headers.
LEMMA NoEndJoins ==
    /\ \A a, b \in Rows : NoEnd(a) /\ NoEnd(b) => NoEnd(Join(a, b))
    /\ NoEnd(<<>>)
    /\ \A m \in Mails : m.channel # 0 => NoEnd(<<m>>)
<1> DEFINE Named == {m \in Mails : m.channel # 0}
<1>1. \A a \in Rows : NoEnd(a) <=> AllIn(a, Named)
  BY DEF Rows, NoEnd, AllIn
<1>2. \A a, b \in Rows : NoEnd(a) /\ NoEnd(b) => NoEnd(Join(a, b))
  <2> HIDE DEF Named
  <2>. QED  BY <1>1, JoinFacts, AllInJoin
<1>. QED  BY <1>2 DEF NoEnd

\* Senders push into queues that they still have.
LEMMA PushEnds ==
    \A s0 \in Senders : WakeInv /\ Shape /\ EndInv /\ push(s0) => EndInv'
<1> SUFFICES ASSUME NEW s0 \in Senders, WakeInv, Shape, EndInv, push(s0) PROVE EndInv'
  OBVIOUS
<1> DEFINE next == net.program[s0][Len(sent[s0]) + 1]
           m == [from |-> s0, channel |-> next[1], to |-> next[2],
                 seqno |-> Cardinality({i \in DOMAIN sent[s0] :
                         sent[s0][i].channel = next[1] /\ sent[s0][i].to = next[2]})]
<1>1. /\ net \in Scenarios /\ net' = net /\ s0 \in Sending /\ Len(sent[s0]) < Len(net.program[s0])
      /\ UNCHANGED <<pc, holds, panic, todo, seen, stash, writer, stream, closed, alive, valid, staged>>
      /\ pc[Worker(s0)] = "run"
  BY DEF push, At, worker_vars, recv_vars, send_vars, link_vars, Typed, WakeInv
<1>2. PICK q \in Outlets(s0) : queue' = [queue EXCEPT ![q] = @ \o <<m>>]
  <2>1. PICK q \in Outlets(s0) : extend(Worker(s0), q, <<m>>)
    BY Zenon DEF push
  <2> HIDE DEF m, next
  <2>. QED  BY <2>1 DEF extend
<1>3. m \in Mails
  <2> HIDE DEF m, next
  <2>. QED  BY <1>1, MessageTyped, SMTT(30) DEF Shape, m, next
<1>4. m.channel # 0
  <2>1. net.program[s0] \in Seq(Channels \X SUBSET Receivers) /\ sent[s0] \in Seq(Mails)
    BY <1>1, TransportAssumption DEF Sending, Shape, RowsTyped, Rows
  <2>2. Len(sent[s0]) + 1 \in 1 .. Len(net.program[s0])
    <3>1. Len(sent[s0]) \in Nat /\ Len(net.program[s0]) \in Nat
      BY <2>1
    <3>. QED  BY <1>1, <3>1
  <2>3. next \in Channels \X SUBSET Receivers
    BY <2>1, <2>2
  <2>4. next[1] \in Channels
    BY <2>3
  <2>. QED  BY <2>4 DEF Channels
<1> HIDE DEF m, next
<1>5. q \in Queues /\ queue \in [Queues -> Rows] /\ queue'[q] = Join(queue[q], <<m>>)
      /\ \A p \in Queues \ {q} : queue'[p] = queue[p]
  <2>1. q \in Queues /\ queue \in [Queues -> Rows]
    BY <1>1 DEF Queues, Shape, RowsTyped
  <2>. QED  BY <1>2, <2>1 DEF Join
<1>6. <<m>> \in Rows /\ NoEnd(<<m>>)
  BY <1>3, <1>4, NoEndJoins DEF Rows
<1>7. ASSUME NEW s \in Senders, q \in Handles(Thread(s)) PROVE q \in holds[q[1]]
  <2>1. q[2] = Thread(s)
    BY <1>1, <1>7, SenderEnd
  <2>2. medium # "process"
    BY <1>2, <2>1, Names DEF Outlets
  <2>3. q = OutQ(s0) /\ q[1] = Worker(s0)
    BY <1>2, <2>2 DEF Outlets, OutQ
  <2>. QED  BY <1>1, <2>2, <2>3 DEF EndInv, Senders1, Outlasts, Over
<1>8. \A s \in Senders : \A p \in Handles(Thread(s)) :
          p \notin holds[p[1]] /\ queue[p] = <<>> => queue'[p] = <<>>
  <2>1. \A s \in Senders : Handles(Thread(s)) \subseteq Queues
    BY DEF Handles
  <2>. QED  BY <1>5, <1>7, <2>1
<1>9. \A s \in Sending : \A p \in Outlets(s) : NoEnd(queue[p]) => NoEnd(queue'[p])
  <2>1. \A s \in Sending : Outlets(s) \subseteq Queues
    BY DEF Queues
  <2>2. queue[q] \in Rows
    BY <1>5
  <2>3. NoEnd(queue[q]) => NoEnd(queue'[q])
    BY <1>5, <1>6, <2>2, NoEndJoins
  <2>. QED  BY <1>5, <2>1, <2>3
<1>10. Aside(s0)
  BY <1>1, <1>8, <1>9 DEF Aside, Panicking
<1>. QED  BY <1>1, <1>10, AsideEnds

\* A worker that sends leaves.
LEMMA SenderEnds ==
    \A s0 \in Senders : WakeInv /\ EndInv /\ sender_ends(s0) => EndInv'
<1> SUFFICES ASSUME NEW s0 \in Senders, WakeInv, EndInv, sender_ends(s0) PROVE EndInv'
  OBVIOUS
<1>1. net \in Scenarios /\ DOMAIN pc = Threads /\ Worker(s0) \in Threads
  BY Names DEF WakeInv, Typed
<1>2. PICK x \in {"closing", "unwind", "panicked", "done"} :
          /\ pc' = [pc EXCEPT ![Worker(s0)] = x]
          /\ x \in {"unwind", "panicked"} => net.failing # {} \/ panic # {}
  BY DEF sender_ends, leave, Goto
<1>3. /\ net' = net /\ queue' = queue /\ ~ Over(Worker(s0))
      /\ UNCHANGED <<holds, panic, todo, seen, stash, writer, stream, closed, alive, valid, staged>>
  BY DEF sender_ends, leave, At, Over, worker_vars, recv_vars, send_vars, link_vars
<1>4. pc'[Worker(s0)] = x /\ \A th \in Threads \ {Worker(s0)} : pc'[th] = pc[th]
  BY <1>1, <1>2
<1>5. Aside(s0)
  BY <1>2, <1>3, <1>4 DEF Aside, Panicking
<1>. QED  BY <1>1, <1>5, AsideEnds

\* Away from a process of its own, a worker that sends has one queue.
LEMMA OneOutlet ==
    ASSUME net \in Scenarios, medium # "process", NEW s \in Sending
    PROVE  Handles(Worker(s)) = {OutQ(s)}
<1>1. OutQ(s) \in Queues /\ OutQ(s)[1] = Worker(s)
  BY DEF OutQ, Queues, Outlets
<1>2. ASSUME NEW q \in Queues, Worker(s) \in {q[1], q[2]} PROVE q = OutQ(s)
  <2>1. CASE \E r \in Sending : q \in Outlets(r)
    <3>1. PICK r \in Sending : q = OutQ(r)
      BY <2>1 DEF Outlets, OutQ
    <3>2. q[1] = Worker(r) /\ q[2] = ThreadOf(r)
      BY <3>1 DEF OutQ
    <3>3. r = s
      BY <1>2, <3>2, Names DEF ThreadOf
    <3>. QED  BY <3>1, <3>3
  <2>2. CASE \E v \in net.receivers : q \in Inlets(v)
    <3>1. PICK v \in net.receivers : q = <<Inbox, Worker(v)>>
      BY <2>2 DEF Inlets
    <3>2. v = s
      <4>1. q[1] = Inbox /\ q[2] = Worker(v)
        BY <3>1
      <4>. QED  BY <1>2, <4>1, Names
    <3>3. v \notin Sending
      BY TransportAssumption DEF medium, Sending
    <3>. QED  BY <3>2, <3>3
  <2>3. (\E r \in Sending : q \in Outlets(r)) \/ (\E v \in net.receivers : q \in Inlets(v))
    BY Zenon DEF Queues
  <2>. QED  BY <2>1, <2>2, <2>3
<1>. QED  BY <1>1, <1>2 DEF Handles

\* A queue is dropped, by a thread that has left its loop.
LEMMA DropEnds ==
    \A th \in Threads : WakeInv /\ EndInv /\ drop(th) => EndInv'
<1> SUFFICES ASSUME NEW th \in Threads, WakeInv, EndInv, drop(th) PROVE EndInv'
  OBVIOUS
<1>0. /\ net \in Scenarios /\ net' = net /\ DOMAIN pc = Threads /\ holds \in [Threads -> SUBSET Queues]
      /\ UNCHANGED <<queue, todo, seen, stash, writer, stream, closed, alive, valid, staged>>
  BY DEF drop, WakeInv, Typed, worker_vars, recv_vars, send_vars, link_vars
<1>1. PICK q \in holds[th] :
          /\ holds' = [holds EXCEPT ![th] = @ \ {q}]
          /\ \/ /\ pc[th] = "unwind" /\ panic' = panic \cup {q}
                /\ pc' = [pc EXCEPT ![th] = IF holds[th] = {q} THEN "panicked" ELSE pc[th]]
             \/ /\ pc[th] = "closing" /\ q \in panic /\ panic' = panic
                /\ pc' = [pc EXCEPT ![th] = IF holds[th] = {q} THEN "panicked" ELSE "unwind"]
             \/ /\ pc[th] = "closing" /\ panic' = panic
                /\ pc' = [pc EXCEPT ![th] = IF holds[th] = {q} THEN "done" ELSE pc[th]]
  BY DEF drop, At, Goto
<1>2. /\ \A u \in Threads \ {th} : pc'[u] = pc[u] /\ holds'[u] = holds[u]
      /\ holds'[th] = holds[th] \ {q}
      /\ \/ pc[th] = "unwind" /\ panic' = panic \cup {q} /\ pc'[th] \in {"unwind", "panicked"}
         \/ pc[th] = "closing" /\ panic' = panic /\ panic # {} /\ pc'[th] \in {"unwind", "panicked"}
         \/ pc[th] = "closing" /\ panic' = panic /\ pc'[th] \in {"closing", "done"}
      /\ holds[th] = {q} => pc'[th] \in {"done", "panicked"}
  BY <1>0, <1>1
<1>3. \A u \in Threads : holds'[u] \subseteq holds[u]
  BY <1>2
<1>4. \A p \in Queues : p \notin holds[p[1]] => p \notin holds'[p[1]]
  <2>1. \A p \in Queues : p[1] \in Threads
    BY <1>0, QueueShape
  <2>. QED  BY <1>3, <2>1
<1>5. Outlasts'
  <2>1. medium' = medium /\ Sending' = Sending /\ Sending \subseteq Senders /\ \A s : OutQ(s)' = OutQ(s)
    BY <1>0, SameNet, Cast DEF OutQ, ThreadOf
  <2>2. ASSUME medium # "process", NEW s \in Sending
        PROVE  OutQ(s) \in holds'[Worker(s)] \/ Over(Worker(s))'
    <3>0. Worker(s) \in Threads
      BY <2>1, Names
    <3>1. CASE th # Worker(s)
      <4>1. OutQ(s) \in holds[Worker(s)] \/ Over(Worker(s))
        BY <2>2 DEF EndInv, Senders1, Outlasts
      <4>. QED  BY <1>2, <3>0, <3>1, <4>1 DEF Over
    <3>2. CASE th = Worker(s)
      <4>1. holds[th] \subseteq {OutQ(s)}
        <5>1. holds[th] \subseteq Handles(th)
          BY DEF WakeInv, Placed
        <5>. QED  BY <1>0, <2>2, <3>2, <5>1, OneOutlet
      <4>2. holds[th] = {q}
        BY <1>1, <4>1
      <4>. QED  BY <1>2, <3>2, <4>2 DEF Over
    <3>. QED  BY <3>1, <3>2
  <2>. QED  BY <2>1, <2>2 DEF Outlasts
<1>6. ASSUME NEW s \in Senders PROVE SendDone(s)'
  <2>0. SendDone(s) /\ Thread(s) \in Threads
    BY Names DEF EndInv, Senders1
  <2>1. CASE th # Thread(s)
    <3>1. pc'[Thread(s)] = pc[Thread(s)] /\ holds'[Thread(s)] = holds[Thread(s)]
      BY <1>2, <2>0, <2>1
    <3>. QED  BY <1>0, <1>4, <2>0, <3>1, SendDoneStays
  <2>2. CASE th = Thread(s)
    <3>1. Queues' = Queues /\ Handles(Thread(s))' = Handles(Thread(s))
      BY <1>0, SameNet
    <3>2. pc[Thread(s)] = "unwind" /\ pc'[Thread(s)] \in {"unwind", "panicked"}
      BY <1>2, <2>0, <2>2 DEF SendDone
    <3>3. Handles(Thread(s)) # {}
      BY <2>0, <3>2 DEF SendDone
    <3>. QED  BY <1>0, <1>4, <2>0, <3>1, <3>2, <3>3 DEF SendDone
  <2>. QED  BY <2>1, <2>2
<1>7. NoEnds'
  BY <1>0, NoEndsStay DEF EndInv, Senders1
<1>8. Streams'
  <2>1. Passes
    BY <1>2, Names DEF Passes, Heard
  <2>2. \A s \in Senders : pc[Thread(s)] = "done" <=> pc'[Thread(s)] = "done"
    <3> SUFFICES ASSUME NEW s \in Senders PROVE pc[Thread(s)] = "done" <=> pc'[Thread(s)] = "done"
      OBVIOUS
    <3>1. Thread(s) \in Threads /\ pc[Thread(s)] # "closing"
      BY Names DEF EndInv, Senders1, SendDone
    <3>. QED  BY <1>2, <3>1
  <2>. QED  BY <1>0, <2>1, <2>2, StreamsStay DEF EndInv
<1>9. InboxKeeps'
  <2>0. InboxKeeps /\ Inbox \in Threads
    BY Names DEF EndInv
  <2>1. CASE th # Inbox
    BY <1>0, <1>2, <2>0, <2>1, InboxStays
  <2>2. CASE th = Inbox
    <3>1. /\ medium' = medium /\ net' = net /\ staged' = staged
          /\ pc[Inbox] \in {"unwind", "closing"} /\ pc'[Inbox] \in {"unwind", "panicked", "closing", "done"}
          /\ pc'[Inbox] \in {"closing", "done"} => pc[Inbox] = "closing"
      BY <1>0, <1>2, <2>2, SameNet
    <3>. QED  BY <2>0, <3>1 DEF InboxKeeps, Heard
  <2>. QED  BY <2>1, <2>2
<1>10. Calm'
  <2>1. medium' = medium
    BY <1>0, SameNet
  <2>2. \A u \in Threads : Panicking(u)' => Panicking(u) \/ panic # {}
    BY <1>2 DEF Panicking
  <2>3. panic' # {} => panic # {} \/ Panicking(th)
    BY <1>2 DEF Panicking
  <2>. QED  BY <1>0, <2>1, <2>2, <2>3 DEF Calm, EndInv
<1>. QED  BY <1>0, <1>5, <1>6, <1>7, <1>8, <1>9, <1>10 DEF EndInv, Senders1

\* What is empty has no parts that are not.
LEMMA BothEmpty == \A T : \A a, b \in Seq(T) : a \o b = <<>> => a = <<>> /\ b = <<>>
<1> SUFFICES ASSUME NEW T, NEW a \in Seq(T), NEW b \in Seq(T), a \o b = <<>> PROVE a = <<>> /\ b = <<>>
  BY Zenon
<1>1. Len(a) + Len(b) = 0 /\ Len(a) \in Nat /\ Len(b) \in Nat
  <2>1. Len(<<>>) = 0
    OBVIOUS
  <2>. QED  BY <2>1, Lengths
<1>2. Len(a) = 0 /\ Len(b) = 0
  BY <1>1
<1>. QED  BY <1>2

\* A row of messages has bytes.
LEMMA BytesOfRows == \A ms \in Rows : AllBytes(ms) = <<>> => ms = <<>>
<1> SUFFICES ASSUME NEW ms \in Rows, AllBytes(ms) = <<>>, ms # <<>> PROVE FALSE
  OBVIOUS
<1> DEFINE front == SubSeq(ms, 1, Len(ms) - 1)
           m == ms[Len(ms)]
<1>1. ms \in Seq(Mails) /\ Len(ms) \in Nat \ {0}
  BY DEF Rows
<1>2. front \in Seq(Mails) /\ m \in Mails /\ ms = Append(front, m)
  BY <1>1
<1> HIDE DEF front, m
<1>3. AllBytes(ms) = AllBytes(front) \o Bytes(m) /\ AllBytes(front) \in Seq(Units)
  BY <1>2, AllBytesFacts
<1>4. Bytes(m) \in Seq(Units) /\ Len(Bytes(m)) > 0
  BY <1>2, BytesFacts
<1>5. Bytes(m) = <<>>
  BY <1>3, <1>4, BothEmpty
<1>. QED  BY <1>4, <1>5

\* How many final headers there are in rows that are joined.
LEMMA EndsFacts ==
    ASSUME net \in Scenarios
    PROVE  /\ \A a \in Rows : Ends(a) \in Nat
           /\ \A a, b \in Rows : Ends(Join(a, b)) = Ends(a) + Ends(b)
           /\ Ends(<<>>) = 0 /\ Ends(<<End>>) = 1
           /\ \A a \in Rows : NoEnd(a) => Ends(a) = 0
           /\ \A a \in Rows : a # <<>> /\ a[Len(a)] = End => Ends(a) > 0
<1> DEFINE N(a) == Among(a, {End})
           P(a) == {i \in DOMAIN a : a[i] \in {End}}
<1>1. ASSUME NEW a \in Rows
      PROVE  /\ Ends(a) = Cardinality(P(a)) /\ Ends(a) = Len(N(a)) /\ N(a) \in Rows
             /\ IsFiniteSet(P(a)) /\ Ends(a) \in Nat
  <2>0. a \in Seq(Mails) /\ P(a) \in SUBSET (DOMAIN a)
    BY DEF Rows
  <2>1. Ends(a) = Cardinality(P(a))
    <3>1. P(a) = {i \in DOMAIN a : a[i] = End}
      OBVIOUS
    <3>. QED  BY <3>1 DEF Ends
  <2>2. N(a) = Selected(a, P(a))
    BY DEF Among
  <2> HIDE DEF P
  <2>3. /\ Len(Selected(a, P(a))) = Cardinality(P(a)) /\ Selected(a, P(a)) \in Seq(Mails)
        /\ IsFiniteSet(P(a)) /\ Cardinality(P(a)) \in Nat
    BY <2>0, SelectedFacts
  <2>. QED  BY <2>1, <2>2, <2>3 DEF Rows
<1>2. ASSUME NEW a \in Rows, NEW b \in Rows PROVE Ends(Join(a, b)) = Ends(a) + Ends(b)
  <2>1. Join(a, b) \in Rows
    BY JoinFacts
  <2>2. N(Join(a, b)) = N(a) \o N(b)
    <3>1. a \in Seq(Mails) /\ b \in Seq(Mails)
      BY DEF Rows
    <3>2. Among(a \o b, {End}) = Among(a, {End}) \o Among(b, {End})
      BY <3>1, AmongConcatenated
    <3>. QED  BY <3>2 DEF Join
  <2>3. Ends(Join(a, b)) = Len(N(Join(a, b))) /\ Ends(a) = Len(N(a)) /\ Ends(b) = Len(N(b))
        /\ N(a) \in Rows /\ N(b) \in Rows
    BY <1>1, <2>1
  <2> HIDE DEF N
  <2>4. Len(N(a) \o N(b)) = Len(N(a)) + Len(N(b))
    BY <2>3 DEF Rows
  <2>. QED  BY <2>2, <2>3, <2>4
<1>3. <<>> \in Rows /\ <<End>> \in Rows
  BY EndFacts, JoinFacts
<1>4. ASSUME NEW a \in Rows, NoEnd(a) PROVE Ends(a) = 0
  <2>1. P(a) = {}
    BY <1>4 DEF NoEnd, End
  <2>. QED  BY <1>1, <2>1, FS_EmptySet
<1>5. Ends(<<>>) = 0
  BY <1>3, <1>4, NoEndJoins
<1>6. Ends(<<End>>) = 1
  <2>1. P(<<End>>) = {1}
    OBVIOUS
  <2>2. Ends(<<End>>) = Cardinality(P(<<End>>))
    BY <1>1, <1>3
  <2>. QED  BY <2>1, <2>2, FS_Singleton
<1>7. ASSUME NEW a \in Rows, a # <<>>, a[Len(a)] = End PROVE Ends(a) > 0
  <2>1. Len(a) \in DOMAIN a
    BY <1>7 DEF Rows
  <2>2. P(a) # {}
    BY <1>7, <2>1
  <2>3. Ends(a) = Cardinality(P(a)) /\ IsFiniteSet(P(a)) /\ Ends(a) \in Nat
    BY <1>1
  <2> HIDE DEF P
  <2>4. Cardinality(P(a)) # 0
    BY <2>2, <2>3, FS_EmptySet
  <2>. QED  BY <2>3, <2>4
<1>. QED  BY <1>1, <1>2, <1>4, <1>5, <1>6, <1>7

\* The last of rows that are joined.
LEMMA LastOfJoin ==
    \A a, b \in Rows : b # <<>> => Join(a, b) # <<>> /\ Join(a, b)[Len(Join(a, b))] = b[Len(b)]
<1> SUFFICES ASSUME NEW a \in Rows, NEW b \in Rows, b # <<>>
             PROVE  a \o b # <<>> /\ (a \o b)[Len(a \o b)] = b[Len(b)]
  BY DEF Join
<1>1. a \in Seq(Mails) /\ b \in Seq(Mails) /\ Len(a) \in Nat /\ Len(b) \in Nat \ {0}
  BY DEF Rows
<1>2. Len(a \o b) = Len(a) + Len(b)
  BY <1>1
<1>3. (a \o b)[Len(a) + Len(b)] = b[Len(b)]
  BY <1>1
<1>. QED  BY <1>1, <1>2, <1>3

\* What senders write adds no final header to the flow.
LEMMA FlowEnds ==
    ASSUME net \in Scenarios, Shape, net' = net, Unread, NEW ms \in Rows, NoEnd(ms),
           valid' = valid, stream' = stream \o AllBytes(ms)
    PROVE  Unread' /\ Ends(Flow)' = Ends(Flow) /\ (ms = <<>> => Flow' = Flow)
<1>1. Flow' = Join(Flow, ms) /\ Flow \in Rows /\ Join(Flow, ms) \in Rows
  BY FlowGrows, JoinFacts
<1>2. ASSUME stream' = <<>> PROVE Flow' = <<>>
  <2>1. stream \in Seq(Units) /\ AllBytes(ms) \in Seq(Units)
    BY AllBytesFacts DEF Shape, RowsTyped, Rows
  <2>2. stream = <<>> /\ AllBytes(ms) = <<>>
    BY <1>2, <2>1, BothEmpty
  <2>3. Flow = <<>> /\ ms = <<>>
    BY <2>2, BytesOfRows DEF Unread
  <2>. QED  BY <1>1, <2>3, JoinFacts
<1>3. Ends(Flow)' = Ends(Join(Flow, ms))
  BY <1>1 DEF Ends
<1>4. Ends(Join(Flow, ms)) = Ends(Flow) + 0 /\ Ends(Flow) \in Nat
  BY <1>1, EndsFacts
<1>. QED  BY <1>1, <1>2, <1>3, <1>4, JoinFacts DEF Unread

\* A send thread that runs has workers to serve.
LEMMA Serves ==
    ASSUME net \in Scenarios, NEW s \in Senders, SendDone(s), pc[Thread(s)] # "none"
    PROVE  /\ medium # "process" /\ s \in Sending /\ Carrier(s) = s
           /\ medium # "ipc" => s = Lead
<1>1. PICK q \in Handles(Thread(s)) : TRUE
  BY DEF SendDone
<1>2. q \in Queues /\ q[2] = Thread(s)
  BY <1>1, SenderEnd
<1>3. q \in Sources(Thread(s))
  BY <1>2, QueueShape
<1>4. PICK r \in Sending : ThreadOf(r) = Thread(s) /\ medium # "process"
  BY <1>3 DEF Sources
<1>5. IF medium = "ipc" THEN r = s ELSE Lead = s
  BY <1>4, Names DEF ThreadOf
<1>. QED  BY <1>4, <1>5, Cast DEF Carrier

\* A send thread that still runs writes messages.
LEMMA StreamsGrow ==
    ASSUME net \in Scenarios, Shape, EndInv, net' = net, NEW ms \in Rows, NoEnd(ms),
           NEW s0 \in Senders, pc[Thread(s0)] \notin {"none", "done"},
           valid' = valid, closed' = closed, alive' = alive, pc'[Inbox] = pc[Inbox],
           \A s \in Senders : pc[Thread(s)] = "done" <=> pc'[Thread(s)] = "done",
           stream' = IF closed \in {"cut", "closed"} THEN stream ELSE stream \o AllBytes(ms)
    PROVE  Streams'
<1>0. Streams /\ SendDone(s0)
  BY DEF EndInv, Senders1
<1>1. CASE closed \in {"cut", "closed"}
  BY <1>0, <1>1, StreamsStay DEF Passes
<1>2. CASE closed \notin {"cut", "closed"}
  <2>1. Unread' /\ Ends(Flow)' = Ends(Flow)
    BY <1>0, <1>2, FlowEnds DEF Streams
  <2>2. medium' = medium /\ Sending' = Sending /\ Sending \subseteq Senders /\ Lead \in Senders
    BY SameNet, Cast
  <2>3. Ended' = Ended
    BY <2>2 DEF Ended
  <2>4. s0 \in Sending /\ (medium # "ipc" => s0 = Lead)
    BY <1>0, Serves
  <2>5. StreamEnds'
    <3>1. medium \notin {"quic", "ipc", "process"} => closed # "shut"
      BY <1>0, <2>4 DEF Streams, StreamEnds
    <3>2. pc'[Thread(Lead)] = "done" <=> pc[Thread(Lead)] = "done"
      BY <2>2
    <3>. QED  BY <1>0, <2>1, <2>2, <3>1, <3>2 DEF Streams, StreamEnds, Heard
  <2>6. PeersEnd'
    <3>1. medium = "ipc" => pc[Inbox] \notin Heard
      <4>1. s0 \notin Ended
        BY DEF Ended
      <4>. QED  BY <1>0, <2>4, <4>1 DEF Streams, PeersEnd
    <3>2. Cardinality(Sending)' = Cardinality(Sending) /\ Cardinality(Ended)' = Cardinality(Ended)
      BY <2>2, <2>3
    <3>. QED  BY <1>0, <2>1, <2>2, <3>1, <3>2 DEF Streams, PeersEnd, Heard
  <2>. QED  BY <2>1, <2>5, <2>6 DEF Streams
<1>. QED  BY <1>1, <1>2

\* A step of the send thread of s.
Posts(s) ==
    /\ net' = net
    /\ UNCHANGED <<panic, valid, alive, staged>> /\ DOMAIN seen' = DOMAIN seen
    /\ \A th \in Threads \ {Thread(s)} : pc'[th] = pc[th] /\ holds'[th] = holds[th]
    /\ todo'[Inbox] = todo[Inbox]
    /\ \A r \in Senders \ {s} : seen'[r] = seen[r] /\ stash'[r] = stash[r] /\ writer'[r] = writer[r]
    /\ \A q \in Queues : queue'[q] = queue[q] \/ queue'[q] = <<>>
    /\ holds'[Thread(s)] \subseteq holds[Thread(s)]
    /\ Panicking(Thread(s))' => panic # {}

\* A step of a send thread keeps the invariant if it does so for its own part and for the stream.
LEMMA PostsEnds ==
    ASSUME net \in Scenarios, EndInv, NEW s \in Senders, Posts(s), SendDone(s)', NoEnds', Streams'
    PROVE  EndInv'
<1>0. /\ net' = net /\ panic' = panic /\ staged' = staged
      /\ \A th \in Threads \ {Thread(s)} : pc'[th] = pc[th] /\ holds'[th] = holds[th]
      /\ holds'[Thread(s)] \subseteq holds[Thread(s)]
      /\ DOMAIN seen' = DOMAIN seen
  BY DEF Posts
<1>1. Outlasts'
  <2>1. \A r \in Senders : holds'[Worker(r)] = holds[Worker(r)] /\ pc'[Worker(r)] = pc[Worker(r)]
    BY <1>0, Names
  <2>. QED  BY <1>0, <2>1, OutlastsStays DEF EndInv, Senders1
<1>2. ASSUME NEW r \in Senders, r # s PROVE SendDone(r)'
  <2>1. SendDone(r) /\ pc'[Thread(r)] = pc[Thread(r)] /\ holds'[Thread(r)] = holds[Thread(r)]
    BY <1>0, <1>2, Names DEF EndInv, Senders1
  <2>2. seen'[r] = seen[r] /\ stash'[r] = stash[r] /\ writer'[r] = writer[r]
    BY <1>2 DEF Posts
  <2>3. \A q \in Queues : q \notin holds[q[1]] => q \notin holds'[q[1]]
    <3>1. \A q \in Queues : q[1] \in Threads
      BY QueueShape
    <3>. QED  BY <1>0, <3>1
  <2>4. \A q \in Handles(Thread(r)) : q \notin holds[q[1]] /\ queue[q] = <<>> => queue'[q] = <<>>
    BY DEF Handles, Posts
  <2>. QED  BY <1>0, <2>1, <2>2, <2>3, <2>4, SendDoneStays
<1>3. InboxKeeps'
  <2>1. todo'[Inbox] = todo[Inbox] /\ pc'[Inbox] = pc[Inbox] /\ holds'[Inbox] = holds[Inbox]
    BY <1>0, Names DEF Posts
  <2>. QED  BY <1>0, <2>1, InboxStays DEF EndInv
<1>4. Calm'
  <2>1. \A th \in Threads : Panicking(th)' => Panicking(th) \/ panic # {}
    BY <1>0 DEF Panicking, Posts
  <2>2. medium' = medium
    BY <1>0, SameNet
  <2>. QED  BY <1>0, <2>1, <2>2 DEF EndInv, Calm
<1>. QED  BY <1>0, <1>1, <1>2, <1>3, <1>4 DEF EndInv, Senders1

-----------------------------------------------------------------------------
(* The send threads.                                                        *)

\* Nothing is drained but what workers pushed.
LEMMA DrainEnds ==
    \A s0 \in Senders : WakeInv /\ DataInv /\ EndInv /\ drain(s0) => EndInv'
<1> SUFFICES ASSUME NEW s0 \in Senders, WakeInv, DataInv, EndInv, drain(s0) PROVE EndInv'
  OBVIOUS
<1> DEFINE t == Thread(s0)
<1>0. net \in Scenarios /\ t \in Threads /\ pc[t] = "drain" /\ SendDone(s0) /\ Shape
  BY Names DEF drain, At, WakeInv, Typed, EndInv, Senders1, DataInv
<1>1. PICK q \in todo[t] :
          \/ q \in panic /\ leave(t, "unwind")
          \/ /\ stash' = [stash EXCEPT ![s0] = @ \o queue[q]]
             /\ queue' = [queue EXCEPT ![q] = <<>>]
             /\ todo' = [todo EXCEPT ![t] = @ \ {q}]
             /\ UNCHANGED <<net, pc, holds, panic, seen, writer, stream, closed, alive, valid, staged>>
  BY DEF drain, worker_vars, recv_vars, link_vars
<1>2. CASE q \in panic /\ leave(t, "unwind")
  BY <1>0, <1>2, LeavePanics DEF Over
<1>3. CASE /\ stash' = [stash EXCEPT ![s0] = @ \o queue[q]]
           /\ queue' = [queue EXCEPT ![q] = <<>>]
           /\ todo' = [todo EXCEPT ![t] = @ \ {q}]
           /\ UNCHANGED <<net, pc, holds, panic, seen, writer, stream, closed, alive, valid, staged>>
  <2>1. /\ q \in Handles(t) /\ q \in Queues /\ q[2] = t
        /\ queue \in [Queues -> Rows] /\ stash \in [Senders -> Rows] /\ DOMAIN todo = Threads
    <3>1. q \in Handles(t)
      BY DEF DataInv, Owned
    <3>. QED  BY <1>0, <3>1, SenderEnd DEF Shape, RowsTyped, WakeInv, Typed
  <2>2. /\ \A p \in Queues \ {q} : queue'[p] = queue[p]
        /\ queue'[q] = <<>>
        /\ stash'[s0] = Join(stash[s0], queue[q]) /\ \A r \in Senders \ {s0} : stash'[r] = stash[r]
        /\ todo'[Inbox] = todo[Inbox]
    BY <1>3, <2>1, Names DEF Join
  <2>3. Posts(s0)
    BY <1>0, <1>3, <2>2 DEF Posts, Panicking
  <2>4. SendDone(s0)'
    <3>1. Queues' = Queues /\ Handles(t)' = Handles(t) /\ Handles(t) \subseteq Queues
      BY <1>3, SameNet DEF Handles
    <3>. QED  BY <1>0, <1>3, <2>2, <3>1 DEF SendDone
  <2>5. NoEnds'
    <3>1. Sending' = Sending /\ \A r : Outlets(r)' = Outlets(r)
      BY <1>3, SameNet DEF Outlets, ThreadOf
    <3>2. NoEnd(queue[q])
      <4>1. q \in Sources(t)
        BY <1>0, <2>1, QueueShape
      <4>2. PICK r \in Sending : q = <<Worker(r), t>> /\ ThreadOf(r) = t /\ medium # "process"
        BY <4>1 DEF Sources
      <4>3. q \in Outlets(r)
        BY <4>2 DEF Outlets
      <4>. QED  BY <4>3 DEF EndInv, Senders1, NoEnds
    <3>3. \A r \in Senders : NoEnd(stash'[r])
      <4>1. NoEnd(Join(stash[s0], queue[q]))
        <5>1. stash[s0] \in Rows /\ queue[q] \in Rows /\ NoEnd(stash[s0])
          BY <2>1 DEF EndInv, Senders1, NoEnds
        <5>. QED  BY <3>2, <5>1, NoEndJoins
      <4>. QED  BY <2>2, <4>1 DEF EndInv, Senders1, NoEnds
    <3>4. \A r \in Sending : \A p \in Outlets(r) : NoEnd(queue'[p])
      <4>1. \A r \in Sending : Outlets(r) \subseteq Queues
        BY DEF Queues
      <4>. QED  BY <2>2, <4>1, NoEndJoins DEF EndInv, Senders1, NoEnds
    <3>5. \A r \in Senders : NoEnd(writer'[r])
      BY <1>3 DEF EndInv, Senders1, NoEnds
    <3>. QED  BY <3>1, <3>3, <3>4, <3>5 DEF NoEnds, NoEnd
  <2>6. Streams'
    BY <1>0, <1>3, StreamsStay DEF Passes, EndInv
  <2>. QED  BY <1>0, <2>3, <2>4, <2>5, <2>6, PostsEnds
<1>. QED  BY <1>1, <1>2, <1>3

\* The rest of a step that writes ms to the connection, and then may look who is left.
LEMMA EmitEnds ==
    ASSUME WakeInv, DataInv, EndInv, NEW s0 \in Senders, NEW ms \in Rows, NoEnd(ms), net' = net,
           pc[Thread(s0)] = "drain", pc'[Thread(s0)] \in {"drain", "check"},
           \A th \in Threads \ {Thread(s0)} : pc'[th] = pc[th],
           UNCHANGED <<queue, holds, panic, seen, closed, alive, valid, staged>>,
           todo'[Inbox] = todo[Inbox],
           \A r \in Senders \ {s0} : stash'[r] = stash[r] /\ writer'[r] = writer[r],
           stash'[s0] = <<>>, NoEnd(writer'[s0]),
           pc'[Thread(s0)] = "check" => writer'[s0] = <<>>,
           stream' = IF closed \in {"cut", "closed"} THEN stream ELSE stream \o AllBytes(ms)
    PROVE  EndInv'
<1>0. net \in Scenarios /\ Thread(s0) \in Threads /\ SendDone(s0) /\ Shape
  BY Names DEF WakeInv, Typed, EndInv, Senders1, DataInv
<1>1. Posts(s0)
  BY <1>0 DEF Posts, Panicking
<1>2. SendDone(s0)'
  <2>1. Queues' = Queues /\ Handles(Thread(s0))' = Handles(Thread(s0)) /\ Handles(Thread(s0)) # {}
    BY <1>0, SameNet DEF SendDone
  <2>. QED  BY <1>0, <2>1 DEF SendDone
<1>3. NoEnds'
  <2>1. Sending' = Sending /\ \A r : Outlets(r)' = Outlets(r)
    BY SameNet DEF Outlets, ThreadOf
  <2>2. \A r \in Senders : NoEnd(stash'[r]) /\ NoEnd(writer'[r])
    BY NoEndJoins DEF EndInv, Senders1, NoEnds
  <2>3. \A r \in Sending : \A p \in Outlets(r) : NoEnd(queue'[p])
    BY DEF EndInv, Senders1, NoEnds
  <2>. QED  BY <2>1, <2>2, <2>3 DEF NoEnds, NoEnd
<1>4. Streams'
  <2>1. \A s \in Senders : pc[Thread(s)] = "done" <=> pc'[Thread(s)] = "done"
    BY Names
  <2>2. pc'[Inbox] = pc[Inbox]
    BY Names
  <2>. QED  BY <1>0, <2>1, <2>2, StreamsGrow
<1>. QED  BY <1>0, <1>1, <1>2, <1>3, <1>4, PostsEnds

\* What was drained is written.
LEMMA WriteEnds ==
    \A s0 \in Senders : \A b : WakeInv /\ DataInv /\ EndInv /\ write(s0, b) => EndInv'
<1> SUFFICES ASSUME NEW s0 \in Senders, NEW b, WakeInv, DataInv, EndInv, write(s0, b) PROVE EndInv'
  OBVIOUS
<1> DEFINE t == Thread(s0)
<1>0. /\ t \in Threads /\ DOMAIN todo = Threads /\ writer \in [Senders -> Rows] /\ stash \in [Senders -> Rows]
      /\ NoEnd(stash[s0]) /\ NoEnd(writer[s0])
  BY Names DEF WakeInv, Typed, DataInv, Shape, RowsTyped, EndInv, Senders1, NoEnds
<1>1. /\ net' = net /\ pc[t] = "drain" /\ pc' = pc
      /\ UNCHANGED <<queue, holds, panic, seen, closed, alive, valid, staged>>
      /\ stash' = [stash EXCEPT ![s0] = <<>>] /\ todo' = [todo EXCEPT ![t] = holds[t]]
      /\ \/ writer' = [writer EXCEPT ![s0] = @ \o stash[s0]] /\ stream' = stream
         \/ /\ writer' = [writer EXCEPT ![s0] = <<>>]
            /\ stream' = IF closed \in {"cut", "closed"} THEN stream ELSE stream \o AllBytes(Join(writer[s0], stash[s0]))
  BY DEF write, emit, At, Join, worker_vars, recv_vars
<1> DEFINE ms == Join(writer[s0], stash[s0])
<1>2. ms \in Rows /\ NoEnd(ms)
  <2>1. writer[s0] \in Rows /\ stash[s0] \in Rows
    BY <1>0
  <2>. QED  BY <1>0, <2>1, JoinFacts, NoEndJoins
<1>3. stash'[s0] = <<>> /\ todo'[Inbox] = todo[Inbox] /\ \A r \in Senders \ {s0} : stash'[r] = stash[r]
  BY <1>0, <1>1, Names
<1>4. CASE writer' = [writer EXCEPT ![s0] = @ \o stash[s0]] /\ stream' = stream
  <2>1. writer'[s0] = ms /\ \A r \in Senders \ {s0} : writer'[r] = writer[r]
    BY <1>0, <1>4 DEF Join
  <2>2. stream' = IF closed \in {"cut", "closed"} THEN stream ELSE stream \o AllBytes(<<>>)
    <3>1. AllBytes(<<>>) = <<>> /\ stream \in Seq(Units)
      BY AllBytesFacts DEF DataInv, Shape, RowsTyped
    <3>2. Join(stream, <<>>) = stream
      BY <3>1, JoinUnits
    <3>. QED  BY <1>4, <3>1, <3>2 DEF Join
  <2> HIDE DEF ms
  <2>3. <<>> \in Rows /\ NoEnd(<<>>)
    BY JoinFacts, NoEndJoins
  <2>. QED  BY <1>1, <1>2, <1>3, <2>1, <2>2, <2>3, EmitEnds
<1>5. CASE /\ writer' = [writer EXCEPT ![s0] = <<>>]
           /\ stream' = IF closed \in {"cut", "closed"} THEN stream ELSE stream \o AllBytes(ms)
  <2>1. writer'[s0] = <<>> /\ NoEnd(<<>>) /\ \A r \in Senders \ {s0} : writer'[r] = writer[r]
    BY <1>0, <1>5, NoEndJoins
  <2> HIDE DEF ms
  <2>. QED  BY <1>1, <1>2, <1>3, <1>5, <2>1, EmitEnds
<1>. QED  BY <1>1, <1>4, <1>5

\* What was buffered is written, when nothing was drained.
LEMMA FlushEnds ==
    \A s0 \in Senders : WakeInv /\ DataInv /\ EndInv /\ flush(s0) => EndInv'
<1> SUFFICES ASSUME NEW s0 \in Senders, WakeInv, DataInv, EndInv, flush(s0) PROVE EndInv'
  OBVIOUS
<1> DEFINE t == Thread(s0)
<1>0. /\ t \in Threads /\ DOMAIN pc = Threads /\ DOMAIN todo = Threads /\ writer \in [Senders -> Rows]
      /\ NoEnd(writer[s0]) /\ NoEnd(<<>>)
  BY Names, NoEndJoins DEF WakeInv, Typed, DataInv, Shape, RowsTyped, EndInv, Senders1, NoEnds
<1>1. /\ net' = net /\ pc[t] = "drain" /\ pc' = [pc EXCEPT ![t] = "check"]
      /\ UNCHANGED <<queue, holds, panic, seen, closed, alive, valid, staged>>
      /\ stash' = stash /\ stash[s0] = <<>> /\ todo' = [todo EXCEPT ![t] = holds[t]]
      /\ writer' = [writer EXCEPT ![s0] = <<>>]
      /\ stream' = IF closed \in {"cut", "closed"} THEN stream ELSE stream \o AllBytes(writer[s0])
  BY DEF flush, emit, At, Goto, worker_vars, recv_vars
<1>2. /\ pc'[t] = "check" /\ \A th \in Threads \ {t} : pc'[th] = pc[th]
      /\ writer'[s0] = <<>> /\ writer[s0] \in Rows /\ \A r \in Senders \ {s0} : writer'[r] = writer[r]
      /\ todo'[Inbox] = todo[Inbox]
  BY <1>0, <1>1, Names
<1>. QED  BY <1>0, <1>1, <1>2, EmitEnds

\* Writing fails only when a worker of some process has panicked, or a connection was closed.
LEMMA WriteFailsEnds ==
    \A s0 \in Senders : WakeInv /\ DataInv /\ EndInv /\ write_fails(s0) => EndInv'
<1> SUFFICES ASSUME NEW s0 \in Senders, WakeInv, DataInv, EndInv, write_fails(s0) PROVE EndInv'
  OBVIOUS
<1>1. net \in Scenarios /\ Thread(s0) \in Threads /\ pc[Thread(s0)] = "drain" /\ SendDone(s0)
      /\ leave(Thread(s0), "unwind") /\ closed \in {"cut", "closed"}
  BY Names DEF write_fails, At, WakeInv, Typed, EndInv, Senders1
<1>2. medium # "quic" => closed = "cut"
  <2>1. medium # "process"
    BY <1>1, Serves
  <2>. QED  BY <1>1, <2>1 DEF EndInv, Streams, StreamEnds, PeersEnd
<1>3. closed = "cut" => \E u \in Threads : Panicking(u)
  BY TransportAssumption, Names DEF DataInv, CutFailed
<1>. QED  BY <1>1, <1>2, <1>3, LeavePanics DEF Over

\* A queue is found complete: its writer has gone, and after that it was found empty.
LEMMA CompleteEnds ==
    \A s0 \in Senders : WakeInv /\ DataInv /\ EndInv /\ is_complete(s0) => EndInv'
<1> SUFFICES ASSUME NEW s0 \in Senders, WakeInv, DataInv, EndInv, is_complete(s0) PROVE EndInv'
  OBVIOUS
<1> DEFINE t == Thread(s0)
<1>0. /\ net \in Scenarios /\ t \in Threads /\ pc[t] = "check" /\ SendDone(s0) /\ DOMAIN pc = Threads
      /\ holds \in [Threads -> SUBSET Queues] /\ DOMAIN todo = Threads /\ DOMAIN seen = Senders
  BY Names DEF is_complete, At, WakeInv, Typed, EndInv, Senders1
<1>1. /\ net' = net
      /\ UNCHANGED <<queue, panic, stash, writer, stream, closed, alive, valid, staged>>
      /\ seen' = seen \/ \E x : seen' = [seen EXCEPT ![s0] = x]
      /\ pc' = pc \/ \E x \in {"unwind", "panicked"} : panic # {} /\ pc' = [pc EXCEPT ![t] = x]
      /\ holds' = holds \/ \E q : holds' = [holds EXCEPT ![t] = @ \ {q}]
      /\ todo' = todo \/ \E q : todo' = [todo EXCEPT ![t] = @ \ {q}]
  BY DEF is_complete, Goto, worker_vars, recv_vars, link_vars
<1>2. \E q \in todo[t] :
          \/ holds' = holds /\ (seen' = seen \/ seen' = [seen EXCEPT ![s0] = {<<q, "count">>}] \/ seen' = [seen EXCEPT ![s0] = {}])
          \/ holds' = holds /\ seen' = [seen EXCEPT ![s0] = {<<q, "empty">>}] /\ q \notin holds[q[1]]
          \/ /\ <<q, "empty">> \in seen[s0] /\ queue[q] = <<>> /\ holds' = [holds EXCEPT ![t] = @ \ {q}]
             /\ seen' = [seen EXCEPT ![s0] = {}]
  BY DEF is_complete
<1>3. PICK q \in todo[t] :
          \/ holds' = holds /\ (seen' = seen \/ seen' = [seen EXCEPT ![s0] = {<<q, "count">>}] \/ seen' = [seen EXCEPT ![s0] = {}])
          \/ holds' = holds /\ seen' = [seen EXCEPT ![s0] = {<<q, "empty">>}] /\ q \notin holds[q[1]]
          \/ /\ <<q, "empty">> \in seen[s0] /\ queue[q] = <<>> /\ holds' = [holds EXCEPT ![t] = @ \ {q}]
             /\ seen' = [seen EXCEPT ![s0] = {}]
  BY <1>2
<1>4. q \in Handles(t) /\ q \in Queues /\ q[1] \in Threads /\ Handles(t) \subseteq Queues
  <2>1. q \in Handles(t)
    BY DEF DataInv, Owned
  <2>. QED  BY <1>0, <2>1, SenderEnd, QueueShape DEF Handles
<1>5. /\ \A th \in Threads \ {t} : pc'[th] = pc[th] /\ holds'[th] = holds[th]
      /\ holds'[t] \subseteq holds[t] /\ todo'[Inbox] = todo[Inbox]
      /\ pc'[t] = "check" \/ (panic # {} /\ pc'[t] \in {"unwind", "panicked"})
      /\ \A r \in Senders \ {s0} : seen'[r] = seen[r]
  BY <1>0, <1>1, Names
<1>6. \A p \in Queues : p \notin holds[p[1]] => p \notin holds'[p[1]]
  <2>1. \A p \in Queues : p[1] \in Threads
    BY <1>0, QueueShape
  <2>. QED  BY <1>5, <2>1
<1>7. Posts(s0)
  BY <1>1, <1>5 DEF Posts, Panicking
<1>8. SendDone(s0)'
  <2>1. Queues' = Queues /\ Handles(t)' = Handles(t) /\ Handles(t) # {}
    BY <1>0, <1>1, SameNet DEF SendDone
  <2>2. \A p \in Queues : <<p, "empty">> \in seen'[s0] => p \notin holds'[p[1]]
    <3> SUFFICES ASSUME NEW p \in Queues, <<p, "empty">> \in seen'[s0] PROVE p \notin holds'[p[1]]
      OBVIOUS
    <3>1. seen'[s0] = seen[s0] \/ seen'[s0] \in {{}, {<<q, "count">>}}
          \/ (seen'[s0] = {<<q, "empty">>} /\ q \notin holds[q[1]])
      BY <1>0, <1>3
    <3>2. <<p, "empty">> # <<q, "count">>
      OBVIOUS
    <3>3. <<p, "empty">> \in seen[s0] \/ (p = q /\ q \notin holds[q[1]])
      BY <3>1, <3>2
    <3>4. p \notin holds[p[1]]
      BY <1>0, <3>3 DEF SendDone
    <3>. QED  BY <1>6, <3>4
  <2>3. \A p \in Handles(t) \ holds'[t] : p \notin holds'[p[1]] /\ queue'[p] = <<>>
    <3> SUFFICES ASSUME NEW p \in Handles(t), p \notin holds'[t] PROVE p \notin holds'[p[1]] /\ queue'[p] = <<>>
      OBVIOUS
    <3>1. CASE p \notin holds[t]
      BY <1>0, <1>1, <1>4, <1>6, <3>1 DEF SendDone
    <3>2. CASE p \in holds[t]
      <4>1. p = q /\ <<q, "empty">> \in seen[s0] /\ queue[q] = <<>>
        BY <1>0, <1>3, <3>2
      <4>2. q \notin holds[q[1]]
        BY <1>0, <1>4, <4>1 DEF SendDone
      <4>. QED  BY <1>1, <1>4, <1>6, <4>1, <4>2
    <3>. QED  BY <3>1, <3>2
  <2>4. stash'[s0] = <<>> /\ writer'[s0] = <<>>
    BY <1>0, <1>1 DEF SendDone
  <2>. QED  BY <1>5, <2>1, <2>2, <2>3, <2>4 DEF SendDone
<1>9. NoEnds'
  BY <1>1, NoEndsStay DEF EndInv, Senders1
<1>10. Streams'
  <2>1. \A s \in Senders : pc[Thread(s)] = "done" <=> pc'[Thread(s)] = "done"
    BY <1>0, <1>5, Names
  <2>2. Passes
    BY <1>5, Names DEF Passes
  <2>. QED  BY <1>0, <1>1, <2>1, <2>2, StreamsStay DEF EndInv
<1>. QED  BY <1>0, <1>7, <1>8, <1>9, <1>10, PostsEnds

\* A send thread goes on after it has been woken.
LEMMA ParkEnds ==
    \A s0 \in Senders : WakeInv /\ EndInv /\ park(s0) => EndInv'
<1> SUFFICES ASSUME NEW s0 \in Senders, WakeInv, EndInv, park(s0) PROVE EndInv'
  OBVIOUS
<1> DEFINE t == Thread(s0)
<1>0. /\ net \in Scenarios /\ t \in Threads /\ pc[t] = "check" /\ SendDone(s0) /\ DOMAIN pc = Threads
      /\ DOMAIN todo = Threads
  BY Names DEF park, At, WakeInv, Typed, EndInv, Senders1
<1>1. /\ net' = net /\ pc' = [pc EXCEPT ![t] = "drain"] /\ todo' = [todo EXCEPT ![t] = holds[t]]
      /\ UNCHANGED <<queue, holds, panic, seen, stash, writer, stream, closed, alive, valid, staged>>
  BY DEF park, Goto, worker_vars, recv_vars, link_vars
<1>2. pc'[t] = "drain" /\ (\A th \in Threads \ {t} : pc'[th] = pc[th]) /\ todo'[Inbox] = todo[Inbox]
  BY <1>0, <1>1, Names
<1>3. Posts(s0)
  BY <1>1, <1>2 DEF Posts, Panicking
<1>4. SendDone(s0)'
  <2>1. Queues' = Queues /\ Handles(t)' = Handles(t) /\ Handles(t) # {}
    BY <1>0, <1>1, SameNet DEF SendDone
  <2>. QED  BY <1>0, <1>1, <1>2, <2>1 DEF SendDone
<1>5. NoEnds'
  BY <1>1, NoEndsStay DEF EndInv, Senders1
<1>6. Streams'
  <2>1. \A s \in Senders : pc[Thread(s)] = "done" <=> pc'[Thread(s)] = "done"
    BY <1>0, <1>2, Names
  <2>2. Passes
    BY <1>2, Names DEF Passes
  <2>. QED  BY <1>0, <1>1, <2>1, <2>2, StreamsStay DEF EndInv
<1>. QED  BY <1>0, <1>3, <1>4, <1>5, <1>6, PostsEnds

\* A send thread ends, and leaves the stream in order.
LEMMA FinishedEnds ==
    ASSUME WakeInv, DataInv, EndInv, NEW s0 \in Senders, net' = net,
           pc[Thread(s0)] = "check", holds[Thread(s0)] = {}, pc' = [pc EXCEPT ![Thread(s0)] = "done"],
           writer' = [writer EXCEPT ![s0] = <<>>],
           UNCHANGED <<queue, holds, panic, todo, seen, stash, alive, valid, staged>>, Streams'
    PROVE  EndInv'
<1> DEFINE t == Thread(s0)
<1>0. net \in Scenarios /\ t \in Threads /\ SendDone(s0) /\ DOMAIN pc = Threads /\ writer \in [Senders -> Rows]
  BY Names DEF WakeInv, Typed, EndInv, Senders1, DataInv, Shape, RowsTyped
<1>1. /\ pc'[t] = "done" /\ \A th \in Threads \ {t} : pc'[th] = pc[th]
      /\ writer'[s0] = <<>> /\ \A r \in Senders \ {s0} : writer'[r] = writer[r]
  BY <1>0
<1>2. Posts(s0)
  BY <1>1 DEF Posts, Panicking
<1>3. SendDone(s0)'
  <2>1. Queues' = Queues /\ Handles(t)' = Handles(t) /\ Handles(t) # {}
    BY <1>0, SameNet DEF SendDone
  <2>. QED  BY <1>0, <1>1, <2>1 DEF SendDone
<1>4. NoEnds'
  <2>1. writer[s0] = <<>>
    BY <1>0 DEF SendDone
  <2>2. writer' = writer
    BY <1>0, <2>1
  <2>. QED  BY <2>2, NoEndsStay DEF EndInv, Senders1
<1>. QED  BY <1>0, <1>2, <1>3, <1>4, PostsEnds

\* The final header comes last, and it is the only one of its thread.
LEMMA FinalHeaderEnds ==
    \A s0 \in Senders : \A how \in {"shut", "open"} :
        /\ WakeInv /\ DataInv /\ EndInv /\ finish(s0, final_header(s0, how))
        /\ medium \notin {"quic", "process"} /\ (medium = "ipc" <=> how = "open")
        => EndInv'
<1> SUFFICES ASSUME NEW s0 \in Senders, NEW how \in {"shut", "open"},
                    WakeInv, DataInv, EndInv, finish(s0, final_header(s0, how)),
                    medium \notin {"quic", "process"}, medium = "ipc" <=> how = "open"
             PROVE  EndInv'
  OBVIOUS
<1> DEFINE t == Thread(s0)
<1>0. /\ net \in Scenarios /\ t \in Threads /\ DOMAIN pc = Threads /\ writer \in [Senders -> Rows] /\ Shape
      /\ SendDone(s0) /\ Streams
  BY Names DEF WakeInv, Typed, DataInv, Shape, RowsTyped, EndInv, Senders1
<1>1. /\ net' = net /\ pc[t] = "check" /\ holds[t] = {} /\ pc' = [pc EXCEPT ![t] = "done"]
      /\ writer' = [writer EXCEPT ![s0] = <<>>]
      /\ UNCHANGED <<queue, holds, panic, todo, seen, stash, alive, valid, staged>>
      /\ stream' = IF closed \in {"cut", "closed"} THEN stream ELSE stream \o AllBytes(Append(writer[s0], End))
      /\ closed' = IF closed = "open" THEN how ELSE closed
  BY DEF finish, final_header, emit, At, Goto, worker_vars, recv_vars
<1>2. Append(writer[s0], End) = <<End>>
  BY <1>0, <1>1 DEF SendDone
<1>3. s0 \in Sending /\ (medium # "ipc" => s0 = Lead)
  BY <1>0, <1>1, Serves
<1>4. closed = "open"
  <2>1. medium # "ipc" => closed # "shut" /\ closed \in {"open", "shut", "cut"}
    BY <1>0, <1>1, <1>3 DEF Streams, StreamEnds
  <2>2. medium = "ipc" => closed = "open"
    BY <1>0 DEF Streams, PeersEnd
  <2>3. medium # "ipc" => closed # "cut"
    BY <1>1, <1>3 DEF DataInv, CutFailed, Panicking
  <2>. QED  BY <2>1, <2>2, <2>3
<1>5. Flow' = Join(Flow, <<End>>) /\ Flow \in Rows /\ <<End>> \in Rows /\ Join(Flow, <<End>>) \in Rows
  <2>1. <<End>> \in Rows
    BY <1>0, EndFacts
  <2>2. stream' = stream \o AllBytes(<<End>>)
    BY <1>1, <1>2, <1>4
  <2>3. Flow' = Join(Flow, <<End>>) /\ Flow \in Rows
    BY <1>0, <1>1, <2>1, <2>2, FlowGrows
  <2>. QED  BY <2>1, <2>3, JoinFacts
<1>6. Ends(Flow)' = Ends(Flow) + 1 /\ Ends(Flow) \in Nat
  <2>1. Ends(Flow)' = Ends(Join(Flow, <<End>>))
    BY <1>5 DEF Ends
  <2>. QED  BY <1>0, <1>5, <2>1, EndsFacts
<1>7. Flow' # <<>> /\ Flow'[Len(Flow')] = End' /\ stream' # <<>> /\ End' = End
  <2>1. Join(Flow, <<End>>) # <<>> /\ Join(Flow, <<End>>)[Len(Join(Flow, <<End>>))] = <<End>>[Len(<<End>>)]
    BY <1>5, LastOfJoin
  <2>2. <<End>>[Len(<<End>>)] = End
    OBVIOUS
  <2>3. stream' # <<>>
    <3>1. stream' = stream \o AllBytes(<<End>>) /\ stream \in Seq(Units) /\ AllBytes(<<End>>) \in Seq(Units)
      BY <1>0, <1>1, <1>2, <1>4, <1>5, AllBytesFacts DEF Shape, RowsTyped, Rows
    <3>2. AllBytes(<<End>>) # <<>>
      BY <1>5, BytesOfRows
    <3>. QED  BY <3>1, <3>2, BothEmpty
  <2>4. End' = End
    BY DEF End
  <2>. QED  BY <1>5, <2>1, <2>2, <2>3, <2>4
<1>8. /\ medium' = medium /\ Sending' = Sending /\ pc'[t] = "done" /\ pc'[Inbox] = pc[Inbox]
      /\ \A s \in Senders \ {s0} : pc'[Thread(s)] = pc[Thread(s)]
  BY <1>0, <1>1, SameNet, Names
<1>9. StreamEnds'
  <2> SUFFICES ASSUME medium # "ipc" PROVE StreamEnds'
    BY <1>8 DEF StreamEnds
  <2>1. closed' = "shut" /\ pc'[Thread(Lead)] = "done"
    BY <1>1, <1>3, <1>4, <1>8
  <2>2. pc[Inbox] # "event" /\ pc[Inbox] \notin Heard /\ Ends(Flow) = 0
    BY <1>0, <1>4 DEF Streams, StreamEnds
  <2>3. pc[Inbox] \in {"none", "read", "extend"} \/ Panicking(Inbox)
    BY <2>2 DEF EndInv, InboxKeeps, Panicking
  <2>4. EndComes'
    <3>1. Ends(Flow)' = 1
      BY <1>6, <2>2
    <3>2. (pc[Inbox] \in {"none", "read", "extend"})' \/ Panicking(Inbox)'
      BY <1>8, <2>3 DEF Panicking
    <3>. QED  BY <1>7, <3>1, <3>2 DEF EndComes
  <2>. QED  BY <1>8, <2>1, <2>2, <2>4 DEF StreamEnds
<1>10. PeersEnd'
  <2> SUFFICES ASSUME medium = "ipc" PROVE PeersEnd'
    BY <1>8 DEF PeersEnd
  <2>1. closed' = "open"
    BY <1>1, <1>4
  <2>2. Ended' = Ended \cup {s0} /\ s0 \notin Ended
    <3>1. Sending \subseteq Senders
      BY <1>0, Cast
    <3>. QED  BY <1>1, <1>3, <1>8, <3>1 DEF Ended
  <2>3. Cardinality(Ended)' = Cardinality(Ended) + 1 /\ Cardinality(Ended) \in Nat
        /\ Cardinality(Sending)' = Cardinality(Sending) /\ Cardinality(Sending) \in Nat
    <3>1. IsFiniteSet(Sending) /\ Ended \subseteq Sending
      BY <1>0, Cast, TransportAssumption, FS_Subset DEF Ended
    <3>2. IsFiniteSet(Ended)
      BY <3>1, FS_Subset
    <3>3. Cardinality(Ended \cup {s0}) = Cardinality(Ended) + 1
      BY <2>2, <3>2, FS_AddElement
    <3>. QED  BY <1>8, <2>2, <3>1, <3>2, <3>3, FS_CardinalityType
  <2>4. pc[Inbox] \notin Heard
    BY <1>0, <1>3, <2>2 DEF Streams, PeersEnd
  <2>5. alive \in Int /\ pc[Inbox] # "eof" /\ alive + Cardinality(Ended) = Cardinality(Sending) + Ends(Flow)
    BY <1>0 DEF Streams, PeersEnd
  <2>6. alive' + Cardinality(Ended)' = Cardinality(Sending)' + Ends(Flow)'
    <3> DEFINE e == Ends(Flow)
               c == Cardinality(Ended)
               n == Cardinality(Sending)
    <3>1. e' = e + 1 /\ c' = c + 1 /\ n' = n /\ e \in Nat /\ c \in Nat /\ n \in Nat
      BY <1>6, <2>3
    <3>2. alive' = alive /\ alive \in Int /\ alive + c = n + e
      BY <1>1, <2>5
    <3> HIDE DEF e, c, n
    <3>3. alive' + c' = n' + e'
      BY <3>1, <3>2
    <3>. QED  BY <3>3 DEF e, c, n
  <2>7. pc'[Inbox] \notin Heard' /\ pc'[Inbox] # "eof" /\ alive' \in Int
    BY <1>1, <1>8, <2>4, <2>5 DEF Heard
  <2>. QED  BY <2>1, <2>6, <2>7 DEF PeersEnd
<1>11. Unread'
  BY <1>7 DEF Unread
<1>. QED  BY <1>1, <1>9, <1>10, <1>11, FinishedEnds DEF Streams

\* Closing a QUIC connection ends no stream in order.
LEMMA CloseEnds ==
    \A s0 \in Senders :
        WakeInv /\ DataInv /\ EndInv /\ medium = "quic" /\ finish(s0, close_connection) => EndInv'
<1> SUFFICES ASSUME NEW s0 \in Senders, WakeInv, DataInv, EndInv, medium = "quic", finish(s0, close_connection)
             PROVE  EndInv'
  OBVIOUS
<1>1. /\ net' = net /\ pc[Thread(s0)] = "check" /\ holds[Thread(s0)] = {}
      /\ pc' = [pc EXCEPT ![Thread(s0)] = "done"]
      /\ writer' = [writer EXCEPT ![s0] = <<>>]
      /\ UNCHANGED <<queue, holds, panic, todo, seen, stash, alive, valid, staged, stream>>
  BY DEF finish, close_connection, At, Goto, worker_vars, recv_vars
<1>2. Flow' = Flow
  BY <1>1 DEF Flow
<1>3. Streams'
  <2>1. medium' = "quic"
    BY <1>1, SameNet
  <2>. QED  BY <1>1, <1>2, <2>1 DEF EndInv, Streams, Unread, StreamEnds, PeersEnd
<1>. QED  BY <1>1, <1>3, FinishedEnds

\* Processes that go away.
LEMMA CutEnds ==
    WakeInv /\ DataInv /\ EndInv
    /\ (stream_finished \/ sender_process_exits \/ receiver_process_closes) => EndInv'
<1> SUFFICES ASSUME WakeInv, DataInv, EndInv,
                    stream_finished \/ sender_process_exits \/ receiver_process_closes
             PROVE  EndInv'
  OBVIOUS
<1>0. /\ net \in Scenarios /\ net' = net /\ medium' = medium /\ Shape /\ Streams
      /\ UNCHANGED <<pc, queue, holds, panic, todo, seen, stash, writer, alive, valid, staged>>
  BY SameNet DEF stream_finished, sender_process_exits, receiver_process_closes, worker_vars, recv_vars, send_vars, WakeInv, Typed,
        DataInv, EndInv
<1>1. Outlasts'
  BY <1>0, OutlastsStays DEF EndInv, Senders1
<1>2. ASSUME NEW s \in Senders PROVE SendDone(s)'
  BY <1>0, SendDoneStays DEF EndInv, Senders1
<1>3. NoEnds' /\ InboxKeeps'
  BY <1>0, NoEndsStay, InboxStays DEF EndInv, Senders1
<1>4. Calm'
  <2>1. \A th \in Threads : Panicking(th)' => Panicking(th)
    BY <1>0 DEF Panicking
  <2>. QED  BY <1>0, <2>1, CalmStays DEF EndInv
<1>5. CASE stream_finished \/ receiver_process_closes
  <2>1. medium = "quic" /\ stream' = stream
    BY <1>5 DEF stream_finished, receiver_process_closes
  <2>2. Flow' = Flow
    BY <1>0, <2>1 DEF Flow
  <2>3. Streams'
    BY <1>0, <2>1, <2>2 DEF Streams, Unread, StreamEnds, PeersEnd
  <2>. QED  BY <1>0, <1>1, <1>2, <1>3, <1>4, <2>3 DEF EndInv, Senders1
<1>6. CASE sender_process_exits
  <2>1. /\ medium \in Networks /\ closed' = "cut" /\ pc[Thread(Lead)] = "panicked"
        /\ medium # "quic" => closed = "open"
    BY <1>6 DEF sender_process_exits
  <2>2. PICK ms \in Rows : NoEnd(ms) /\ stream' = stream \o AllBytes(ms)
    <3>1. CASE stream' = stream \o <<>>
      BY <3>1, AllBytesFacts, JoinFacts, NoEndJoins
    <3>2. CASE stream' = stream \o AllBytes(writer[Lead])
      BY <3>2, TransportAssumption DEF EndInv, Senders1, NoEnds, DataInv, Shape, RowsTyped
    <3>. QED  BY <1>6, <3>1, <3>2 DEF sender_process_exits
  <2>3. Unread' /\ Ends(Flow)' = Ends(Flow)
    BY <1>0, <2>2, FlowEnds DEF Streams
  <2>4. StreamEnds'
    BY <1>0, <2>1, <2>3 DEF Streams, StreamEnds, Heard
  <2>5. PeersEnd'
    BY <1>0, <2>1 DEF PeersEnd, Networks
  <2>6. Streams'
    BY <2>3, <2>4, <2>5 DEF Streams
  <2>. QED  BY <1>0, <1>1, <1>2, <1>3, <1>4, <2>6 DEF EndInv, Senders1
<1>. QED  BY <1>5, <1>6

-----------------------------------------------------------------------------
(* The receive threads.                                                     *)

\* What a read takes is the front of the flow; when all of the flow is taken, no unit is left.
LEMMA TakeCuts ==
    ASSUME net \in Scenarios, Shape, NEW p, NEW r, Takes(p, r)
    PROVE  \E a, b \in Rows :
              /\ Flow = Join(a, b) /\ Flow' = b /\ Carve(p).messages = a
              /\ r = <<>> => b = <<>>
              /\ b = <<>> => Carve(p).left = <<>> /\ r = <<>>
<1>0. p \in Seq(Units) /\ r \in Seq(Units)
  BY DEF Takes
<1>1. PICK k \in Rows : valid \o stream = AllBytes(k)
  BY DEF Shape, Whole
<1>2. CutsInto(Carve(p), r, k)
  <2>1. p \o r = AllBytes(k)
    BY <1>1 DEF Takes
  <2>. QED  BY <1>0, <2>1, CarveFacts DEF Rows
<1>3. PICK a \in Rows, b \in Rows :
          /\ k = a \o b /\ Carve(p).messages = a
          /\ Carve(p).left \in Seq(Units) /\ Carve(p).left \o r = AllBytes(b)
          /\ r = <<>> => b = <<>>
  BY <1>2 DEF CutsInto, Rows
<1>4. Flow = k
  <2>1. Join(valid, stream) \in Seq(Units)
    BY JoinUnits DEF Shape, RowsTyped
  <2>. QED  BY <1>1, <2>1, CarveWhole DEF Flow, Join
<1>5. Flow' = b
  <2> DEFINE z == valid' \o stream'
  <2>1. z \in Seq(Units) /\ z = AllBytes(b)
    BY <1>3, AllBytesFacts DEF Rows, Takes
  <2>2. Flow' = Carve(z).messages
    BY DEF Flow
  <2> HIDE DEF z
  <2>. QED  BY <1>3, <2>1, <2>2, CarveWhole
<1>6. b = <<>> => Carve(p).left = <<>> /\ r = <<>>
  BY <1>0, <1>3, AllBytesFacts, BothEmpty
<1>. QED  BY <1>3, <1>4, <1>5, <1>6 DEF Join

\* A step of the receive thread.
Receives ==
    /\ net' = net
    /\ UNCHANGED <<holds, panic, seen, stash, writer, closed>>
    /\ \A th \in Threads \ {Inbox} : pc'[th] = pc[th]
    /\ \A q \in Queues : q[1] # Inbox => queue'[q] = queue[q]

\* A step of the receive thread keeps the invariant if it does so for its own part and for the stream.
LEMMA ReceivesEnds ==
    ASSUME net \in Scenarios, EndInv, Receives, Streams', InboxKeeps',
           medium # "quic" => ~ Panicking(Inbox)' \/ panic # {} \/ \E th \in Threads : Panicking(th)
    PROVE  EndInv'
<1>0. net' = net /\ UNCHANGED <<holds, panic, seen, stash, writer, closed>>
  BY DEF Receives
<1>1. /\ \A s \in Senders : pc'[Thread(s)] = pc[Thread(s)] /\ pc'[Worker(s)] = pc[Worker(s)]
  BY Names DEF Receives
<1>2. Outlasts'
  BY <1>0, <1>1, OutlastsStays DEF EndInv, Senders1
<1>3. ASSUME NEW s \in Senders PROVE SendDone(s)'
  <2>1. \A q \in Handles(Thread(s)) : queue'[q] = queue[q]
    <3>1. \A q \in Handles(Thread(s)) : q \in Queues /\ q[2] = Thread(s)
      BY SenderEnd
    <3>. QED  BY <3>1, QueueShape DEF Receives
  <2>. QED  BY <1>0, <1>1, <2>1, SendDoneStays DEF EndInv, Senders1
<1>4. NoEnds'
  <2>1. Sending' = Sending /\ \A s : Outlets(s)' = Outlets(s)
    BY <1>0, SameNet DEF Outlets, ThreadOf
  <2>2. ASSUME NEW s \in Sending, NEW q \in Outlets(s) PROVE NoEnd(queue'[q])
    <3>1. q \in Queues
      BY DEF Queues
    <3>2. q[1] = Worker(s)
      BY DEF Outlets
    <3>3. queue'[q] = queue[q]
      BY <3>1, <3>2, Names DEF Receives
    <3>. QED  BY <3>3 DEF EndInv, Senders1, NoEnds
  <2>3. \A s \in Senders : NoEnd(stash'[s]) /\ NoEnd(writer'[s])
    BY <1>0 DEF EndInv, Senders1, NoEnds
  <2>. QED  BY <2>1, <2>2, <2>3 DEF NoEnds, NoEnd
<1>5. Calm'
  <2>1. medium' = medium
    BY <1>0, SameNet
  <2>2. \A th \in Threads \ {Inbox} : Panicking(th)' => Panicking(th)
    BY DEF Receives, Panicking
  <2>. QED  BY <1>0, <2>1, <2>2, Names DEF EndInv, Calm
<1>. QED  BY <1>0, <1>2, <1>3, <1>4, <1>5 DEF EndInv, Senders1

\* A read takes the final header only with all that came before it, and then finds nothing else.
LEMMA ReadEnds ==
    \A n : WakeInv /\ DataInv /\ EndInv /\ medium \notin {"ipc", "process"} /\ read(n) => EndInv'
<1> SUFFICES ASSUME NEW n, WakeInv, DataInv, EndInv, medium \notin {"ipc", "process"}, read(n) PROVE EndInv'
  OBVIOUS
<1> DEFINE p == valid \o SubSeq(stream, 1, n)
           r == SubSeq(stream, n + 1, Len(stream))
           c == Carve(p)
<1>0. /\ net \in Scenarios /\ Typed /\ Shape /\ Streams /\ InboxKeeps /\ DOMAIN pc = Threads /\ DOMAIN todo = Threads
      /\ Inbox \in Threads
  BY Names DEF WakeInv, Typed, DataInv, EndInv
<1>1. /\ net' = net /\ pc[Inbox] = "read"
      /\ UNCHANGED <<queue, holds, panic, seen, stash, writer, closed, alive>>
      /\ valid' = c.left /\ stream' = r /\ todo' = [todo EXCEPT ![Inbox] = Targets]
      /\ pc' = [pc EXCEPT ![Inbox] = IF Ends(c.messages) = 0 THEN "extend" ELSE IF c.left = <<>> THEN "eof" ELSE "unwind"]
  BY DEF read, At, Goto, send_vars
<1>2. Takes(p, r)
  BY <1>0, ReadTakes
<1> HIDE DEF p, r
<1>3. PICK a \in Rows, b \in Rows :
          /\ Flow = Join(a, b) /\ Flow' = b /\ c.messages = a
          /\ r = <<>> => b = <<>>
          /\ b = <<>> => c.left = <<>> /\ r = <<>>
  BY <1>0, <1>2, TakeCuts
<1> HIDE DEF c
<1>4. /\ Ends(Flow) = Ends(a) + Ends(b) /\ Ends(Flow') = Ends(b) /\ Ends(a) \in Nat /\ Ends(b) \in Nat
      /\ b = <<>> => Ends(b) = 0
      /\ b # <<>> => (Flow[Len(Flow)] = End => b[Len(b)] = End /\ Ends(b) > 0)
  <2>1. Ends(Flow) = Ends(a) + Ends(b) /\ Ends(Flow') = Ends(b) /\ Ends(a) \in Nat /\ Ends(b) \in Nat
    BY <1>0, <1>3, EndsFacts
  <2>2. b = <<>> => Ends(b) = 0
    BY <1>0, EndsFacts
  <2>3. b # <<>> => (Flow[Len(Flow)] = End => b[Len(b)] = End /\ Ends(b) > 0)
    BY <1>0, <1>3, EndsFacts, LastOfJoin
  <2>. QED  BY <2>1, <2>2, <2>3
<1>5. /\ pc'[Inbox] = IF Ends(a) = 0 THEN "extend" ELSE IF c.left = <<>> THEN "eof" ELSE "unwind"
      /\ todo'[Inbox] = Targets /\ \A th \in Threads \ {Inbox} : pc'[th] = pc[th]
  BY <1>0, <1>1, <1>3
<1>6. Unread'
  BY <1>1, <1>3 DEF Unread
<1>7. /\ medium' = medium /\ pc'[Thread(Lead)] = pc[Thread(Lead)] /\ Targets' = Targets /\ End' = End
      /\ Ends(Flow)' = Ends(b)
  <2>1. Thread(Lead) \in Threads /\ Thread(Lead) # Inbox
    BY Names, TransportAssumption
  <2>2. Ends(Flow)' = Ends(Flow')
    BY DEF Ends
  <2>. QED  BY <1>1, <1>3, <1>5, <2>1, <2>2, SameNet DEF Targets, End
<1>8. medium # "quic" =>
        /\ closed = "shut" => EndComes' /\ pc'[Inbox] # "unwind"
        /\ closed # "shut" => Ends(b) = 0 /\ pc'[Inbox] = "extend"
  <2> SUFFICES ASSUME medium # "quic"
               PROVE  /\ closed = "shut" => EndComes' /\ pc'[Inbox] # "unwind"
                      /\ closed # "shut" => Ends(b) = 0 /\ pc'[Inbox] = "extend"
    OBVIOUS
  <2>1. CASE closed = "shut"
    <3>1. Flow # <<>> /\ Flow[Len(Flow)] = End /\ Ends(Flow) = 1
      BY <1>0, <1>1, <2>1 DEF Streams, StreamEnds, EndComes, Heard, Panicking
    <3>2. CASE b = <<>>
      <4>1. Ends(a) = 1 /\ c.left = <<>> /\ r = <<>>
        BY <1>3, <1>4, <3>1, <3>2
      <4>2. pc'[Inbox] = "eof" /\ valid' = <<>> /\ stream' = <<>>
        BY <1>1, <1>5, <4>1
      <4>. QED  BY <2>1, <4>2 DEF EndComes, Heard
    <3>3. CASE b # <<>>
      <4>1. Ends(a) = 0 /\ Ends(b) = 1 /\ b[Len(b)] = End
        BY <1>4, <3>1, <3>3
      <4>2. pc'[Inbox] = "extend"
        BY <1>5, <4>1
      <4>. QED  BY <1>3, <1>7, <2>1, <3>3, <4>1, <4>2 DEF EndComes
    <3>. QED  BY <3>2, <3>3
  <2>2. CASE closed # "shut"
    <3>1. Ends(Flow) = 0
      BY <1>0, <2>2 DEF Streams, StreamEnds
    <3>2. Ends(a) = 0 /\ Ends(b) = 0
      BY <1>4, <3>1
    <3>. QED  BY <1>5, <2>2, <3>2
  <2>. QED  BY <2>1, <2>2
<1>9. Streams'
  <2>1. StreamEnds'
    <3> SUFFICES ASSUME medium # "quic" PROVE StreamEnds'
      BY <1>7 DEF StreamEnds
    <3>1. pc'[Inbox] # "event"
      BY <1>5
    <3>. QED  BY <1>0, <1>1, <1>7, <1>8, <3>1 DEF Streams, StreamEnds, Heard
  <2>2. PeersEnd'
    BY <1>7 DEF PeersEnd
  <2>. QED  BY <1>6, <2>1, <2>2 DEF Streams
<1>10. InboxKeeps'
  <2>1. holds'[Inbox] # {}
    BY <1>0, <1>1 DEF InboxKeeps
  <2>2. pc'[Inbox] \in {"extend", "eof", "unwind"}
    BY <1>5
  <2>. QED  BY <1>0, <1>5, <1>7, <2>1, <2>2 DEF InboxKeeps, Heard
<1>11. Receives
  BY <1>1, <1>5 DEF Receives
<1>12. medium # "quic" => ~ Panicking(Inbox)'
  BY <1>5, <1>8 DEF Panicking
<1>. QED  BY <1>0, <1>9, <1>10, <1>11, <1>12, ReceivesEnds

\* A read fails only after a panic, or when a QUIC connection was closed.
LEMMA ReadFailsEnds ==
    WakeInv /\ DataInv /\ EndInv /\ medium \notin {"ipc", "process"} /\ read_fails => EndInv'
<1> SUFFICES ASSUME WakeInv, DataInv, EndInv, medium \notin {"ipc", "process"}, read_fails PROVE EndInv'
  OBVIOUS
<1>1. /\ Inbox \in Threads /\ pc[Inbox] = "read" /\ leave(Inbox, "unwind")
      /\ closed = "cut" \/ (closed = "shut" /\ stream = <<>>)
  BY Names DEF read_fails, At
<1>2. closed = "cut" => \E u \in Threads : Panicking(u)
  BY TransportAssumption, Names DEF DataInv, CutFailed
<1>3. closed = "shut" /\ stream = <<>> => medium = "quic"
  BY <1>1 DEF EndInv, Streams, Unread, StreamEnds, EndComes, Heard, Panicking
<1>. QED  BY <1>1, <1>2, <1>3, LeavePanics DEF Over

\* The receive thread of a stream goes on to an end.
LEMMA LeaveInbox ==
    ASSUME WakeInv, EndInv, NEW how \in {"last", "accept", "closing"}, leave(Inbox, how),
           \/ medium # "quic" /\ how = "last" /\ pc[Inbox] = "eof"
           \/ medium = "quic" /\ how \in {"accept", "closing"} /\ pc[Inbox] \in {"read", "accept"}
    PROVE  EndInv'
<1>0. net \in Scenarios /\ DOMAIN pc = Threads /\ Inbox \in Threads /\ InboxKeeps /\ Streams
  BY Names DEF WakeInv, Typed, EndInv
<1>1. /\ net' = net /\ UNCHANGED <<queue, holds, panic, todo, seen, stash, writer, stream, closed, alive, valid, staged>>
      /\ pc' = [pc EXCEPT ![Inbox] = IF holds[Inbox] # {} THEN how ELSE "done"]
  BY DEF leave, Goto, worker_vars, recv_vars, send_vars, link_vars
<1>2. /\ pc'[Inbox] = how /\ \A th \in Threads \ {Inbox} : pc'[th] = pc[th]
      /\ medium' = medium /\ Targets' = Targets
  BY <1>0, <1>1, SameNet DEF InboxKeeps, Targets
<1>3. Streams'
  <2>1. \A s \in Senders : pc[Thread(s)] = "done" <=> pc'[Thread(s)] = "done"
    BY <1>2, Names
  <2>2. CASE medium # "quic"
    <3>1. Passes
      BY <1>2, <2>2 DEF Passes, Heard
    <3>. QED  BY <1>0, <1>1, <2>1, <3>1, StreamsStay
  <2>3. CASE medium = "quic"
    <3>1. Flow' = Flow
      BY <1>1 DEF Flow
    <3>. QED  BY <1>0, <1>1, <1>2, <2>3, <3>1 DEF Streams, Unread, StreamEnds, PeersEnd
  <2>. QED  BY <2>2, <2>3
<1>4. InboxKeeps'
  <2>1. \A v \in net.receivers : <<Inbox, Worker(v)>> \in Targets \/ medium = "process"
    BY DEF Targets
  <2>2. medium # "process"
    BY <1>0 DEF InboxKeeps
  <2>3. pc[Inbox] = "eof" => Targets \subseteq todo[Inbox]
    BY <1>0 DEF InboxKeeps
  <2>4. holds[Inbox] # {}
    BY <1>0 DEF InboxKeeps
  <2>. QED  BY <1>1, <1>2, <2>1, <2>2, <2>3, <2>4 DEF InboxKeeps, Heard
<1>5. Receives
  BY <1>1, <1>2 DEF Receives
<1>6. ~ Panicking(Inbox)'
  BY <1>2 DEF Panicking
<1>. QED  BY <1>0, <1>3, <1>4, <1>5, <1>6, ReceivesEnds

\* Nothing comes after the final header, so that the last read finds the end.
LEMMA ReadEofEnds ==
    WakeInv /\ DataInv /\ EndInv /\ medium \notin {"quic", "ipc", "process"} /\ read_eof => EndInv'
<1> SUFFICES ASSUME WakeInv, DataInv, EndInv, medium \notin {"quic", "ipc", "process"}, read_eof PROVE EndInv'
  OBVIOUS
<1>1. pc[Inbox] = "eof"
  BY DEF read_eof, At
<1>2. closed = "shut" /\ stream = <<>>
  BY <1>1 DEF EndInv, Streams, StreamEnds, EndComes, Heard, Panicking
<1>3. leave(Inbox, "last")
  BY <1>2 DEF read_eof
<1>. QED  BY <1>1, <1>3, LeaveInbox

\* What is staged is passed on, to one worker after the other.
LEMMA PassEnds ==
    WakeInv /\ DataInv /\ EndInv /\ medium # "process" /\ pass_along => EndInv'
<1> SUFFICES ASSUME WakeInv, DataInv, EndInv, medium # "process", pass_along PROVE EndInv'
  OBVIOUS
<1>0. /\ net \in Scenarios /\ DOMAIN pc = Threads /\ DOMAIN todo = Threads /\ Inbox \in Threads
      /\ InboxKeeps /\ Streams /\ staged \in [Receivers -> Rows] /\ net.receivers \subseteq Receivers
  BY Names, Cast DEF WakeInv, Typed, EndInv, DataInv, Shape, RowsTyped
<1> DEFINE Q(v) == <<Inbox, Worker(v)>>
<1>1. PICK v \in net.receivers :
          /\ pc[Inbox] \in {"extend", "last"}
          /\ \/ Q(v) \in panic /\ leave(Inbox, "unwind")
             \/ /\ queue' = [queue EXCEPT ![Q(v)] = @ \o staged[v]]
                /\ staged' = [staged EXCEPT ![v] = <<>>]
                /\ todo' = [todo EXCEPT ![Inbox] = @ \ {Q(v)}]
                /\ pc' = [pc EXCEPT ![Inbox] = IF todo[Inbox] # {Q(v)} THEN pc[Inbox]
                                               ELSE IF pc[Inbox] = "extend" THEN "read" ELSE "closing"]
                /\ UNCHANGED <<net, holds, panic, seen, stash, writer, stream, closed, alive, valid>>
  BY DEF pass_along, At, extend, Goto, send_vars, link_vars
<1> DEFINE q == Q(v)
<1>2. CASE q \in panic /\ leave(Inbox, "unwind")
  BY <1>0, <1>1, <1>2, LeavePanics DEF Over
<1>3. CASE /\ queue' = [queue EXCEPT ![q] = @ \o staged[v]]
           /\ staged' = [staged EXCEPT ![v] = <<>>]
           /\ todo' = [todo EXCEPT ![Inbox] = @ \ {q}]
           /\ pc' = [pc EXCEPT ![Inbox] = IF todo[Inbox] # {q} THEN pc[Inbox]
                                          ELSE IF pc[Inbox] = "extend" THEN "read" ELSE "closing"]
           /\ UNCHANGED <<net, holds, panic, seen, stash, writer, stream, closed, alive, valid>>
  <2>1. /\ \A th \in Threads \ {Inbox} : pc'[th] = pc[th]
        /\ pc[Inbox] \in {"extend", "last"}
        /\ pc'[Inbox] = IF todo[Inbox] # {q} THEN pc[Inbox] ELSE IF pc[Inbox] = "extend" THEN "read" ELSE "closing"
        /\ todo'[Inbox] = todo[Inbox] \ {q}
        /\ staged'[v] = <<>> /\ \A u \in net.receivers \ {v} : staged'[u] = staged[u]
        /\ medium' = medium /\ q = <<Inbox, Worker(v)>>
    BY <1>0, <1>1, <1>3, SameNet
  <2>2. Streams'
    <3>1. Passes
      BY <2>1 DEF Passes, Heard
    <3>2. \A s \in Senders : pc[Thread(s)] = "done" <=> pc'[Thread(s)] = "done"
      BY <2>1, Names
    <3>. QED  BY <1>0, <1>3, <3>1, <3>2, StreamsStay
  <2>3. InboxKeeps'
    <3>1. \A u \in net.receivers \ {v} : <<Inbox, Worker(u)>> # q
      BY <2>1, Names
    <3>2. ASSUME pc[Inbox] = "last", NEW u \in net.receivers
          PROVE  staged'[u] = <<>> \/ <<Inbox, Worker(u)>> \in todo'[Inbox]
      <4>1. <<Inbox, Worker(u)>> \in todo[Inbox] \/ staged[u] = <<>>
        BY <1>0, <3>2 DEF InboxKeeps
      <4>. QED  BY <2>1, <3>1, <4>1
    <3>3. pc'[Inbox] = "closing" => todo'[Inbox] = {} /\ pc[Inbox] = "last"
      BY <2>1
    <3>4. holds'[Inbox] # {} /\ pc'[Inbox] \in {"extend", "last", "read", "closing"}
      BY <1>0, <1>3, <2>1 DEF InboxKeeps
    <3>5. pc'[Inbox] = "last" => pc[Inbox] = "last"
      BY <2>1
    <3>. QED  BY <1>3, <2>1, <3>2, <3>3, <3>4, <3>5 DEF InboxKeeps, Heard
  <2>4. Receives
    <3>1. \A p \in Queues : p[1] # Inbox => queue'[p] = queue[p]
      <4>1. q[1] = Inbox /\ DOMAIN queue = Queues
        BY <2>1 DEF WakeInv, Typed
      <4>. QED  BY <1>3, <4>1
    <3>. QED  BY <1>3, <2>1, <3>1 DEF Receives
  <2>5. ~ Panicking(Inbox)'
    BY <2>1 DEF Panicking
  <2>. QED  BY <1>0, <2>2, <2>3, <2>4, <2>5, ReceivesEnds
<1>. QED  BY <1>1, <1>2, <1>3

\* An inbox ends with its last peer, and then it has everything.
LEMMA PeersLast ==
    ASSUME net \in Scenarios, medium = "ipc", PeersEnd, Ends(Flow) \in Nat, alive - Ends(Flow) <= 0
    PROVE  Ended = Sending
<1>1. IsFiniteSet(Sending) /\ Ended \subseteq Sending
  BY Cast, TransportAssumption, FS_Subset DEF Ended
<1>2. IsFiniteSet(Ended) /\ Cardinality(Ended) \in Nat /\ Cardinality(Sending) \in Nat
  BY <1>1, FS_Subset, FS_CardinalityType
<1>3. Cardinality(Ended) >= Cardinality(Sending)
  <2> DEFINE e == Ends(Flow)
             c == Cardinality(Ended)
             n == Cardinality(Sending)
  <2>1. alive \in Int /\ alive + c = n + e /\ e \in Nat /\ alive - e <= 0
    BY DEF PeersEnd
  <2>2. c \in Nat /\ n \in Nat
    BY <1>2
  <2> HIDE DEF e, c, n
  <2>3. c >= n
    BY <2>1, <2>2
  <2>. QED  BY <2>3 DEF c, n
<1>. QED  BY <1>1, <1>2, <1>3, FS_Subset

\* The inbox reads all that its peers have written, and counts the final headers in it.
LEMMA EventEnds ==
    /\ WakeInv /\ DataInv /\ EndInv /\ medium = "ipc" /\ pc[Inbox] = "event" /\ on_event
    /\ todo' = [todo EXCEPT ![Inbox] = Targets]
    /\ UNCHANGED <<net, queue, holds, panic, pending, token, closed, sent>>
    /\ UNCHANGED <<worker_vars, send_vars>>
    => EndInv'
<1> SUFFICES ASSUME WakeInv, DataInv, EndInv, medium = "ipc", pc[Inbox] = "event", on_event,
                    todo' = [todo EXCEPT ![Inbox] = Targets],
                    UNCHANGED <<net, queue, holds, panic, pending, token, closed, sent>>,
                    UNCHANGED <<worker_vars, send_vars>>
             PROVE  EndInv'
  OBVIOUS
<1> DEFINE p == valid \o stream
           c == Carve(p)
<1>0. /\ net \in Scenarios /\ Typed /\ Shape /\ Streams /\ InboxKeeps /\ DOMAIN pc = Threads /\ DOMAIN todo = Threads
      /\ Inbox \in Threads
  BY Names DEF WakeInv, Typed, DataInv, EndInv
<1>1. /\ UNCHANGED <<net, queue, sent, stash, writer, received, closed, bound, to_local, canaries, seen, holds, panic>>
      /\ stream' = <<>> /\ valid' = c.left /\ alive' = alive - Ends(c.messages)
      /\ pc' = [pc EXCEPT ![Inbox] = IF alive' > 0 THEN "extend" ELSE IF c.left = <<>> THEN "last" ELSE "unwind"]
  BY DEF on_event, Goto, worker_vars, send_vars
<1>2. Takes(p, <<>>)
  BY <1>0, <1>1, EventTakes
<1>3. c.messages = Flow /\ c.left = <<>> /\ Flow' = <<>> /\ Flow \in Rows
  <2> HIDE DEF p
  <2>1. PICK a \in Rows, b \in Rows :
            /\ Flow = Join(a, b) /\ Flow' = b /\ Carve(p).messages = a
            /\ b = <<>> /\ Carve(p).left = <<>>
    BY <1>0, <1>2, TakeCuts
  <2>. QED  BY <2>1, JoinFacts
<1> HIDE DEF c, p
<1>4. Ends(Flow) \in Nat /\ Ends(Flow)' = 0
  <2>1. Ends(Flow)' = Ends(Flow')
    BY DEF Ends
  <2>. QED  BY <1>0, <1>3, <2>1, EndsFacts
<1>5. /\ pc'[Inbox] = IF alive' > 0 THEN "extend" ELSE "last"
      /\ todo'[Inbox] = Targets /\ \A th \in Threads \ {Inbox} : pc'[th] = pc[th]
      /\ medium' = medium /\ Sending' = Sending /\ Targets' = Targets
  BY <1>0, <1>1, <1>3, SameNet DEF Targets
<1>6. Ended' = Ended
  <2>1. Sending \subseteq Senders
    BY <1>0, Cast
  <2>. QED  BY <1>5, <2>1, Names DEF Ended
<1>7. alive \in Int /\ alive' = alive - Ends(Flow) /\ alive' \in Int /\ closed = "open"
  <2>1. alive \in Int /\ closed = "open"
    BY <1>0 DEF Streams, PeersEnd
  <2>. QED  BY <1>1, <1>3, <1>4, <2>1
<1>8. alive' + Cardinality(Ended)' = Cardinality(Sending)' + Ends(Flow)'
  <2> DEFINE e == Ends(Flow)
             k == Cardinality(Ended)
             n == Cardinality(Sending)
  <2>1. e' = 0 /\ e \in Nat /\ k' = k /\ n' = n /\ alive \in Int /\ alive' = alive - e
    BY <1>4, <1>5, <1>6, <1>7
  <2>2. alive + k = n + e
    BY <1>0 DEF Streams, PeersEnd
  <2>3. k \in Nat /\ n \in Nat
    <3>1. IsFiniteSet(Sending) /\ Ended \subseteq Sending
      BY <1>0, Cast, TransportAssumption, FS_Subset DEF Ended
    <3>. QED  BY <3>1, FS_Subset, FS_CardinalityType
  <2> HIDE DEF e, k, n
  <2>4. alive' + k' = n' + e'
    BY <2>1, <2>2, <2>3
  <2>. QED  BY <2>4 DEF e, k, n
<1>9. pc'[Inbox] \in Heard => Ended = Sending
  <2> SUFFICES ASSUME pc'[Inbox] \in Heard PROVE Ended = Sending
    OBVIOUS
  <2>1. ~ (alive' > 0)
    BY <1>5 DEF Heard
  <2>2. alive - Ends(Flow) <= 0
    BY <1>7, <2>1
  <2>. QED  BY <1>0, <1>4, <2>2, PeersLast DEF Streams
<1>10. Streams'
  <2>1. Unread'
    BY <1>3 DEF Unread
  <2>2. StreamEnds'
    BY <1>5 DEF StreamEnds
  <2>3. PeersEnd'
    BY <1>1, <1>3, <1>5, <1>6, <1>7, <1>8, <1>9 DEF PeersEnd, Heard
  <2>. QED  BY <2>1, <2>2, <2>3 DEF Streams
<1>11. InboxKeeps'
  <2>1. holds'[Inbox] # {}
    BY <1>0, <1>1 DEF InboxKeeps
  <2>2. pc'[Inbox] \in {"extend", "last"}
    BY <1>5
  <2>3. \A v \in net.receivers : <<Inbox, Worker(v)>> \in Targets
    BY DEF Targets
  <2>. QED  BY <1>1, <1>5, <2>1, <2>2, <2>3 DEF InboxKeeps, Heard
<1>12. Receives
  BY <1>1, <1>5 DEF Receives
<1>13. ~ Panicking(Inbox)'
  BY <1>5 DEF Panicking
<1>. QED  BY <1>0, <1>10, <1>11, <1>12, <1>13, ReceivesEnds

\* The inbox is notified, and looks.
LEMMA NoticeEnds ==
    WakeInv /\ EndInv /\ medium = "ipc" /\ pc[Inbox] = "read" /\ Goto(Inbox, "event")
    /\ UNCHANGED <<net, queue, holds, panic, pending, todo, sent>>
    /\ UNCHANGED <<worker_vars, recv_vars, send_vars, link_vars>>
    => EndInv'
<1> SUFFICES ASSUME WakeInv, EndInv, medium = "ipc", pc[Inbox] = "read", Goto(Inbox, "event"),
                    UNCHANGED <<net, queue, holds, panic, pending, todo, sent>>,
                    UNCHANGED <<worker_vars, recv_vars, send_vars, link_vars>>
             PROVE  EndInv'
  OBVIOUS
<1>0. net \in Scenarios /\ DOMAIN pc = Threads /\ Inbox \in Threads /\ InboxKeeps /\ Streams
  BY Names DEF WakeInv, Typed, EndInv
<1>1. /\ net' = net /\ UNCHANGED <<queue, holds, panic, todo, seen, stash, writer, stream, closed, alive, valid, staged>>
      /\ pc'[Inbox] = "event" /\ \A th \in Threads \ {Inbox} : pc'[th] = pc[th]
      /\ medium' = medium
  BY <1>0, SameNet DEF Goto, worker_vars, recv_vars, send_vars, link_vars
<1>2. Streams'
  <2>1. \A s \in Senders : pc[Thread(s)] = "done" <=> pc'[Thread(s)] = "done"
    BY <1>1, Names
  <2>2. Passes
    BY <1>1 DEF Passes
  <2>. QED  BY <1>0, <1>1, <2>1, <2>2, StreamsStay
<1>3. InboxKeeps'
  BY <1>0, <1>1 DEF InboxKeeps, Heard
<1>4. Receives /\ ~ Panicking(Inbox)'
  BY <1>1 DEF Receives, Panicking
<1>. QED  BY <1>0, <1>2, <1>3, <1>4, ReceivesEnds

\* The steps of send threads.
LEMMA SendLoopsEnd ==
    ASSUME WakeInv, DataInv, EndInv, NEW s \in Senders,
           tcp_send_loop(s) \/ tls_send_loop(s) \/ quic_send_loop(s) \/ ipc_send_loop(s)
    PROVE  EndInv'
<1>1. CASE \/ drain(s) \/ flush(s) \/ write_fails(s) \/ is_complete(s) \/ park(s)
           \/ \E b \in BOOLEAN : write(s, b)
  BY <1>1, DrainEnds, FlushEnds, WriteFailsEnds, CompleteEnds, ParkEnds, WriteEnds
<1>2. CASE medium \in {"tcp", "tls"} /\ finish(s, final_header(s, "shut"))
  BY <1>2, FinalHeaderEnds
<1>3. CASE medium = "ipc" /\ finish(s, final_header(s, "open"))
  BY <1>3, FinalHeaderEnds
<1>4. CASE medium = "quic" /\ finish(s, close_connection)
  BY <1>4, CloseEnds
<1>5. CASE tcp_send_loop(s)
  BY <1>1, <1>2, <1>5, Zenon DEF tcp_send_loop
<1>6. CASE tls_send_loop(s)
  BY <1>1, <1>2, <1>6, Zenon DEF tls_send_loop
<1>7. CASE quic_send_loop(s)
  BY <1>1, <1>4, <1>7, Zenon DEF quic_send_loop
<1>8. CASE ipc_send_loop(s)
  BY <1>1, <1>3, <1>8, Zenon DEF ipc_send_loop
<1>. QED  BY <1>5, <1>6, <1>7, <1>8

\* The steps of receive threads.
LEMMA RecvLoopsEnd ==
    ASSUME WakeInv, DataInv, EndInv, tcp_recv_loop \/ tls_recv_loop \/ quic_recv_loop \/ ipc_receive_loop
    PROVE  EndInv'
<1>1. ASSUME medium \in {"tcp", "tls"},
             (\E n \in 1 .. Len(stream) : read(n)) \/ read_fails \/ read_eof \/ pass_along
      PROVE  EndInv'
  BY <1>1, ReadEnds, ReadFailsEnds, ReadEofEnds, PassEnds
<1>2. CASE quic_recv_loop
  <2>1. CASE (\E n \in 1 .. Len(stream) : read(n)) \/ read_fails \/ pass_along
    BY <1>2, <2>1, ReadEnds, ReadFailsEnds, PassEnds DEF quic_recv_loop
  <2>2. CASE /\ At(Inbox, "read") \/ At(Inbox, "accept")
             /\ leave(Inbox, "accept") \/ leave(Inbox, "closing")
    BY <1>2, <2>2, LeaveInbox DEF quic_recv_loop, At
  <2>. QED  BY <1>2, <2>1, <2>2 DEF quic_recv_loop
<1>3. CASE ipc_receive_loop
  <2>1. medium = "ipc"
    BY <1>3 DEF ipc_receive_loop
  <2>2. CASE pass_along
    BY <2>1, <2>2, PassEnds
  <2>3. CASE pc[Inbox] = "read" /\ Goto(Inbox, "event")
             /\ UNCHANGED <<net, queue, holds, panic, pending, todo, sent>>
             /\ UNCHANGED <<worker_vars, recv_vars, send_vars, link_vars>>
    BY <2>1, <2>3, NoticeEnds
  <2>4. CASE pc[Inbox] = "event" /\ on_event /\ todo' = [todo EXCEPT ![Inbox] = Targets]
             /\ UNCHANGED <<net, queue, holds, panic, pending, token, closed, sent>>
             /\ UNCHANGED <<worker_vars, send_vars>>
    BY <2>1, <2>4, EventEnds
  <2>. QED  BY <1>3, <2>2, <2>3, <2>4 DEF ipc_receive_loop, At
<1>. QED  BY <1>1, <1>2, <1>3 DEF tcp_recv_loop, tls_recv_loop

\* Every step keeps the invariant.
LEMMA EndNext == WakeInv /\ DataInv /\ EndInv /\ [Next]_vars => EndInv'
<1> SUFFICES ASSUME WakeInv, DataInv, EndInv, [Next]_vars PROVE EndInv'
  OBVIOUS
<1>0. net \in Scenarios /\ Shape
  BY DEF WakeInv, Typed, DataInv
<1>1. ASSUME NEW th \in Threads, buzz(th) \/ drop(th) PROVE EndInv'
  BY <1>1, WorkersEnd, DropEnds
<1>2. ASSUME NEW s \in Senders, push(s) \/ sender_ends(s) PROVE EndInv'
  BY <1>0, <1>2, PushEnds, SenderEnds
<1>3. ASSUME NEW s \in Senders, tcp_send_loop(s) \/ tls_send_loop(s) \/ quic_send_loop(s) \/ ipc_send_loop(s)
      PROVE  EndInv'
  BY <1>3, SendLoopsEnd
<1>4. CASE stream_finished \/ sender_process_exits \/ receiver_process_closes
  BY <1>4, CutEnds
<1>5. CASE tcp_recv_loop \/ tls_recv_loop \/ quic_recv_loop \/ ipc_receive_loop
  BY <1>5, RecvLoopsEnd
<1>6. ASSUME NEW v \in Receivers,
             \/ allocate(v) \/ receive(v) \/ await_events(v) \/ receiver_ends(v)
             \/ \E c \in Channels : pull(v, c) \/ drop_puller(v, c)
      PROVE  EndInv'
  BY <1>6, WorkersEnd
<1>7. CASE UNCHANGED vars
  <2>1. PICK w \in Senders \cup Receivers : TRUE
    BY <1>0, Cast
  <2>2. Aside(w)
    BY <1>7 DEF vars, Aside, Panicking
  <2>. QED  BY <1>0, <2>2, AsideEnds
<1>. QED  BY <1>1, <1>2, <1>3, <1>4, <1>5, <1>6, <1>7 DEF Next

\* At the start nothing is on its way, and nobody has ended.
LEMMA EndInit == Init => EndInv
<1> SUFFICES ASSUME Init PROVE EndInv
  OBVIOUS
<1>0. /\ net \in Scenarios /\ panic = {} /\ stream = <<>> /\ valid = <<>> /\ closed = "open"
      /\ alive = Cardinality(Sending) /\ Inbox \in Threads /\ DOMAIN seen = Senders
      /\ Thread(Lead) \in Threads
  BY Names, TransportAssumption DEF Init
<1>1. \A th \in Threads : /\ holds[th] = Handles(th)
                          /\ pc[th] = IF Handles(th) = {} THEN "none"
                                      ELSE IF th = Inbox THEN "read"
                                      ELSE IF th[1] = "send" THEN "drain" ELSE "run"
  BY DEF Init
<1>2. \A th \in Threads : pc[th] \in {"none", "read", "drain", "run"}
  BY <1>1
<1>3. Outlasts
  <2> SUFFICES ASSUME medium # "process", NEW s \in Sending PROVE OutQ(s) \in holds[Worker(s)]
    BY DEF Outlasts
  <2>1. Worker(s) \in Threads
    BY <1>0, Cast, Names
  <2>. QED  BY <1>0, <1>1, <2>1, OneOutlet
<1>4. ASSUME NEW s \in Senders PROVE SendDone(s)
  <2>1. Thread(s) \in Threads /\ Thread(s) # Inbox /\ Thread(s)[1] = "send"
    BY Names
  <2>2. pc[Thread(s)] \in {"none", "drain"} /\ holds[Thread(s)] = Handles(Thread(s))
        /\ (Handles(Thread(s)) = {} => pc[Thread(s)] = "none")
    BY <1>1, <2>1
  <2>3. seen[s] = {}
    BY DEF Init
  <2>. QED  BY <2>2, <2>3 DEF SendDone
<1>5. NoEnds
  <2>1. \A s \in Sending : Outlets(s) \subseteq Queues
    BY DEF Queues
  <2>2. NoEnd(<<>>)
    BY NoEndJoins
  <2>. QED  BY <2>1, <2>2 DEF Init, NoEnds
<1>6. Flow = <<>>
  <2>1. <<>> \in Seq(Units) /\ <<>> \in Rows /\ AllBytes(<<>>) = <<>>
    BY AllBytesFacts, JoinFacts
  <2>2. Join(<<>>, <<>>) = <<>>
    BY <2>1, JoinFacts
  <2>. QED  BY <1>0, <2>1, <2>2, CarveWhole DEF Flow, Join
<1>7. Ends(Flow) = 0
  BY <1>0, <1>6, EndsFacts
<1>8. Streams
  <2>1. Unread
    BY <1>6 DEF Unread
  <2>2. pc[Inbox] \in {"none", "read"} /\ pc[Thread(Lead)] # "done"
    BY <1>0, <1>1, <1>2
  <2>3. StreamEnds
    BY <1>0, <1>7, <2>2 DEF StreamEnds, Heard
  <2>4. PeersEnd
    <3>1. Ended = {}
      <4>1. \A s \in Sending : Thread(s) \in Threads
        BY <1>0, Cast, Names
      <4>. QED  BY <1>2, <4>1 DEF Ended
    <3>2. Cardinality(Sending) \in Nat /\ Cardinality(Ended) = 0
      <4>1. IsFiniteSet(Sending)
        BY <1>0, Cast, TransportAssumption, FS_Subset
      <4>. QED  BY <3>1, <4>1, FS_CardinalityType, FS_EmptySet
    <3>. QED  BY <1>0, <1>7, <2>2, <3>2 DEF PeersEnd, Heard
  <2>. QED  BY <2>1, <2>3, <2>4 DEF Streams
<1>9. InboxKeeps
  <2>1. pc[Inbox] = IF Handles(Inbox) = {} THEN "none" ELSE "read"
    BY <1>0, <1>1
  <2>2. holds[Inbox] = Handles(Inbox)
    BY <1>0, <1>1
  <2>3. medium = "process" => Handles(Inbox) = {}
    <3> SUFFICES ASSUME medium = "process", NEW q \in Handles(Inbox) PROVE FALSE
      OBVIOUS
    <3>1. q \in Queues /\ Inbox \in {q[1], q[2]}
      BY DEF Handles
    <3>2. PICK x, y : q = <<Worker(x), Worker(y)>>
      BY <3>1 DEF Queues, Outlets, Inlets
    <3>. QED  BY <3>1, <3>2, Names
  <2>. QED  BY <2>1, <2>2, <2>3 DEF InboxKeeps, Heard
<1>10. Calm
  BY <1>0, <1>2 DEF Calm, Panicking
<1>. QED  BY <1>0, <1>3, <1>4, <1>5, <1>8, <1>9, <1>10 DEF EndInv, Senders1

\* A send thread of any transport ends only when its senders have let go of their queues and all
\* they pushed is on the connection (is_complete, then the final header and shutdown); the receive
\* thread ends only at that header, or after as many as there are peers (alive), with everything
\* read and staged; and where no worker panics, no thread does, QUIC connections apart.
THEOREM EndInvHolds == Spec => []EndInv
<1>. QED  BY WakeInvHolds, DataInvHolds, EndInit, EndNext, PTL DEF Spec

\* When the receive thread is done, nothing is left before the queues of workers.
LEMMA AllComes ==
    ASSUME WakeInv, DataInv, EndInv, medium # "quic", pc[Inbox] = "done"
    PROVE  AllHandedOver
<1>0. net \in Scenarios /\ Shape /\ Streams /\ InboxKeeps
  BY DEF WakeInv, Typed, DataInv, EndInv
<1>1. medium # "process" /\ pc[Inbox] \in Heard
  BY <1>0 DEF InboxKeeps, Heard
<1>2. ~ Dead /\ valid = <<>> /\ stream = <<>> /\ \A s \in Sending : pc[Thread(Carrier(s))] = "done"
  <2>1. CASE medium = "ipc"
    BY <1>0, <1>1, <2>1 DEF Streams, PeersEnd, Ended, Carrier, Dead
  <2>2. CASE medium # "ipc"
    <3>1. closed = "shut" /\ pc[Thread(Lead)] = "done" /\ EndComes
      BY <1>0, <1>1, <2>2 DEF Streams, StreamEnds
    <3>2. valid = <<>> /\ stream = <<>>
      BY <1>1, <3>1 DEF EndComes, Panicking, Heard
    <3>. QED  BY <2>2, <3>1, <3>2 DEF Carrier, Dead
  <2>. QED  BY <2>1, <2>2
<1>3. Flow = <<>>
  BY <1>0, <1>2 DEF Streams, Unread
<1>4. ASSUME NEW s \in Sending
      PROVE  /\ Over(Worker(s)) /\ queue[OutQ(s)] = <<>>
             /\ stash[Carrier(s)] = <<>> /\ writer[Carrier(s)] = <<>>
  <2>1. Carrier(s) \in Senders /\ ThreadOf(s) = Thread(Carrier(s)) /\ pc[Thread(Carrier(s))] = "done"
    BY <1>0, <1>2, Cast DEF Carrier, ThreadOf
  <2>2. SendDone(Carrier(s))
    BY <2>1 DEF EndInv, Senders1
  <2>3. OutQ(s) \in Handles(Thread(Carrier(s))) /\ OutQ(s)[1] = Worker(s)
    <3>1. OutQ(s) \in Queues
      BY <1>1 DEF OutQ, Queues, Outlets
    <3>2. OutQ(s)[2] = Thread(Carrier(s)) /\ OutQ(s)[1] = Worker(s)
      BY <2>1 DEF OutQ
    <3>. QED  BY <3>1, <3>2 DEF Handles
  <2>4. OutQ(s) \notin holds[Worker(s)] /\ queue[OutQ(s)] = <<>>
    BY <2>1, <2>2, <2>3 DEF SendDone
  <2>. QED  BY <1>1, <2>1, <2>2, <2>4 DEF EndInv, Senders1, Outlasts, SendDone
<1>5. ASSUME NEW s \in Sending, NEW v \in net.receivers, NEW c \in Channels, c <= bound[v] => Open(v, c)
      PROVE  Of(received[v][c] \o (IF c \in DOMAIN to_local[v] THEN to_local[v][c] ELSE <<>>)
                     \o queue[<<Inbox, Worker(v)>>], s, v, c)
             = Mail!Posted(s, v, c)
  <2>1. /\ InStage(s, v, c) = <<>> /\ InFlow(s, v, c) = <<>>
        /\ InWriter(s, v, c) = <<>> /\ InStash(s, v, c) = <<>> /\ InOutlet(s, v, c) = <<>>
    <3>1. staged[v] = <<>>
      BY <1>0 DEF InboxKeeps
    <3>. QED  BY <1>3, <1>4, <3>1, OfJoin DEF InStage, InFlow, InWriter, InStash, InOutlet
  <2> DEFINE r == InHand(s, v, c)
             l == InLocal(s, v, c)
             q == InInlet(s, v, c)
  <2>2. r \in Rows /\ l \in Rows /\ q \in Rows /\ v \in Receivers
    BY <1>0, Cells
  <2>3. Down(s, v, c) = Line(r, l, q, <<>>, <<>>) /\ Up(s, v, c) = Row(<<>>, <<>>, <<>>)
    BY <1>1, <2>1 DEF Down, Up
  <2>4. Join(Down(s, v, c), Up(s, v, c)) = InSent(s, v, c)
    <3>1. Has(v, c)
      BY <1>5 DEF Has, Open
    <3>. QED  BY <1>2, <3>1 DEF DataInv, Kept, Keeps
  <2>5. Join(Join(r, l), q) = InSent(s, v, c)
    <3> HIDE DEF r, l, q
    <3>1. Row(<<>>, <<>>, <<>>) = <<>>
      BY JoinFacts DEF Row
    <3>. QED  BY <2>2, <2>3, <2>4, <3>1, ShortWay
  <2>6. Of(Join(Join(received[v][c], Local(v, c)), queue[InQ(s, v)]), s, v, c) = Join(Join(r, l), q)
    <3>1. received[v][c] \in Rows /\ Local(v, c) \in Rows /\ queue[InQ(s, v)] \in Rows
      BY <1>0, <2>2, Cells DEF Shape, RowsTyped
    <3>2. Join(received[v][c], Local(v, c)) \in Rows
      BY <3>1, JoinFacts
    <3>3. Of(Join(received[v][c], Local(v, c)), s, v, c) = Join(r, l)
      BY <3>1, OfJoin DEF InHand, InLocal
    <3>. QED  BY <3>1, <3>2, <3>3, OfJoin DEF InInlet
  <2>7. InSent(s, v, c) = Mail!Posted(s, v, c)
    BY <1>0, PostedSent
  <2>8. InQ(s, v) = <<Inbox, Worker(v)>>
    BY <1>1 DEF InQ
  <2>. QED  BY <2>5, <2>6, <2>7, <2>8 DEF Join, Local
<1>. QED  BY <1>4, <1>5 DEF AllHandedOver

\* A receive thread that returns (recv_loop after the final header, the ipc loop when no peer is
\* alive) has put every message that was pushed into the queues of its workers; and where no worker
\* panics, no thread does. For QUIC it is not so: its streams are closed with bytes on the way.
THEOREM CleanEndHolds == Spec => []CleanEnd
<1>1. WakeInv /\ DataInv /\ EndInv => CleanEnd
  <2> SUFFICES ASSUME WakeInv, DataInv, EndInv, medium # "quic"
               PROVE  /\ pc[Inbox] = "done" => AllHandedOver
                      /\ net.failing = {} => ~ Failed
    BY DEF CleanEnd
  <2>1. pc[Inbox] = "done" => AllHandedOver
    BY AllComes
  <2>2. net.failing = {} => ~ Failed
    BY DEF EndInv, Calm, Failed
  <2>. QED  BY <2>1, <2>2
<1>. QED  BY <1>1, WakeInvHolds, DataInvHolds, EndInvHolds, PTL

=============================================================================
