------------------------------- MODULE Connect -------------------------------
(***************************************************************************)
(* How the processes of a cluster find each other, wire up their workers   *)
(* and network threads, and end.                                           *)
(*                                                                         *)
(* Processes on one host share memory: each one has an inbox, read by a    *)
(* thread, and an assembly (a table with a seat per process) tells who is  *)
(* ready to receive.  All others are connected pairwise: a process calls   *)
(* the ones with a lower index and is called by those with a higher one.   *)
(* Then a send thread per peer, a receive thread per network peer, and the *)
(* workers hand each other the queues between them, through channels that  *)
(* were made beforehand (promise_futures).  In the end the guards join     *)
(* with all threads.                                                       *)
(***************************************************************************)
EXTENDS Integers, Sequences, FiniteSets, Orders

CONSTANTS
    Layouts,   \* the clusters to consider, see below
    None

(* A layout is the transport, the host of every process (numbered from 0)   *)
(* and the number of workers of a process.  None is no process.             *)
ASSUME ConnectAssumption ==
    \A l \in Layouts :
        /\ l.transport \in {"tcp", "tls", "quic"}
        /\ IsFiniteSet(DOMAIN l.host)
        /\ DOMAIN l.host = 0 .. Cardinality(DOMAIN l.host) - 1
        /\ None \notin DOMAIN l.host
        /\ l.threads \in Nat \ {0}

VARIABLES
    layout,
    phase,      \* phase[p]: where the main thread of p is
    assembly,   \* the hosts whose assembly exists
    inbox,      \* inbox[p]: where the receive thread of p's inbox is
    listening,  \* the processes that accept calls
    backlog,    \* backlog[p]: calls to p that are not accepted yet
    answered,   \* answered[p]: who was accepted by p
    dialed,     \* dialed[p]: the connector's results, the remote ends in order
    slots,      \* slots[p]: the acceptor's results
    link,       \* link[p][i]: the process that p takes for i is this one
    sender,     \* sender[p]: where the send threads of p are, one per peer
    receiver,   \* receiver[p]: where the receive threads are, one per network peer
    worker,     \* worker[p][w]: where worker w is
    channels,   \* channels[p]: the parts of a channel that are not taken yet
    made,       \* made[p]: how often the channel was made
    part        \* part[p][w]: the part that w has taken

vars == <<layout, phase, assembly, inbox, listening, backlog, answered, dialed, slots,
          link, sender, receiver, worker, channels, made, part>>
call_vars == <<listening, backlog, answered, dialed, slots>>
thread_vars == <<sender, receiver, worker, channels, made, part>>

Processes == DOMAIN layout.host
Workers == 0 .. layout.threads - 1
transport == layout.transport

-----------------------------------------------------------------------------
(* What a process knows from the list of addresses.                         *)

ipc_peers(p) == {q \in Processes \ {p} : layout.host[q] = layout.host[p]}
net_peers(p) == {q \in Processes \ {p} : layout.host[q] # layout.host[p]}

accepting(p) == InOrder({q \in net_peers(p) : q < p})
connecting(p) == InOrder({q \in net_peers(p) : q > p})

\* The assembly is created by the process with the lowest index on the host.
create_assembly(p) == \A q \in ipc_peers(p) : p < q

(* promise_futures, for the sends and receives of a process: the promises   *)
(* of sender k and the k-th futures of every worker are two ends.           *)
Remotes(p) == InOrder(Processes \ {p})

Init ==
    /\ layout \in Layouts
    /\ phase = [p \in Processes |-> "start"]
    /\ assembly = {}
    /\ inbox = [p \in Processes |-> "none"]
    /\ listening = {}
    /\ backlog = [p \in Processes |-> <<>>]
    /\ answered = [p \in Processes |-> {}]
    /\ dialed = [p \in Processes |-> <<>>]
    /\ slots = [p \in Processes |-> [i \in 0 .. Len(connecting(p)) - 1 |-> None]]
    /\ link = [p \in Processes |-> <<>>]
    /\ sender = [p \in Processes |-> "none"]
    /\ receiver = [p \in Processes |-> "none"]
    /\ worker = [p \in Processes |-> [w \in Workers |-> "none"]]
    /\ channels = [p \in Processes |-> {}]
    /\ made = [p \in Processes |-> 0]
    /\ part = [p \in Processes |-> [w \in Workers |-> 0]]

Phase(p, from, to) == phase[p] = from /\ phase' = [phase EXCEPT ![p] = to]

-----------------------------------------------------------------------------
(* Processes on the same host.                                              *)

\* A QUIC endpoint is bound before anything else, and answers calls already.
init(p) == IF transport = "quic" THEN listening \cup {p} ELSE listening

(* The services of all processes on the host are opened or created, an      *)
(* inbox and a bell for each.                                               *)
open_services(p) ==
    /\ Phase(p, "start", IF ipc_peers(p) = {} THEN "network" ELSE "assembly")
    /\ listening' = init(p)
    /\ UNCHANGED <<layout, assembly, inbox, backlog, answered, dialed, slots, link>>
    /\ UNCHANGED thread_vars

(* ipc_assembly: one process creates it, the others try again until it is   *)
(* there.  Then the inbox thread is started.                                *)
ipc_assembly(p) ==
    /\ Phase(p, "assembly", "seats")
    /\ \/ create_assembly(p) /\ assembly' = assembly \cup {layout.host[p]}
       \/ ~ create_assembly(p) /\ layout.host[p] \in assembly /\ UNCHANGED assembly
    /\ inbox' = [inbox EXCEPT ![p] = "spawned"]
    /\ UNCHANGED <<layout, link>> /\ UNCHANGED call_vars /\ UNCHANGED thread_vars

\* A mutant of await_seats: only the own seat is awaited.
await_own_seat(p) ==
    /\ Phase(p, "seats", "network")
    /\ inbox[p] \notin {"none", "spawned", "subscribed"}
    /\ UNCHANGED <<layout, assembly, inbox, link>> /\ UNCHANGED call_vars
    /\ UNCHANGED thread_vars

\* All on the host, p itself included, are ready to receive.
await_seats(p) ==
    /\ Phase(p, "seats", "network")
    /\ \A q \in ipc_peers(p) \cup {p} : inbox[q] \notin {"none", "spawned", "subscribed"}
    /\ UNCHANGED <<layout, assembly, inbox, link>> /\ UNCHANGED call_vars
    /\ UNCHANGED thread_vars

(* The inbox thread: it subscribes, takes its seat, gets the queues of its  *)
(* workers, and receives until all its peers have ended.                    *)
Queued(p) == \A w \in Workers : worker[p][w] \notin {"none", "spawned"}

inbox_thread(p) ==
    /\ inbox' = [inbox EXCEPT ![p] =
           CASE @ = "spawned" -> "subscribed"
             [] @ = "subscribed" -> "seated"
             [] @ = "seated" /\ Queued(p) -> "reading"
             [] @ = "reading" /\ (\A q \in ipc_peers(p) : sender[q] = "done") -> "done"
             [] OTHER -> @]
    /\ inbox' # inbox
    /\ UNCHANGED <<layout, phase, assembly, link>> /\ UNCHANGED call_vars
    /\ UNCHANGED thread_vars

-----------------------------------------------------------------------------
(* Processes on other hosts.                                                *)

\* The next one that p calls, if it listens (else p tries again).
Callee(p, q) ==
    /\ phase[p] = "network"
    /\ Len(dialed[p]) < Len(accepting(p)) /\ q = accepting(p)[Len(dialed[p]) + 1]
    /\ q \in listening

Called(p, q) == p \in answered[q] \/ \E i \in DOMAIN backlog[q] : backlog[q][i] = p
call(p, q) == backlog' = [backlog EXCEPT ![q] = Append(@, p)]

\* connect returns as soon as the call is in the backlog.
start_connections_tcp(p) ==
    /\ \E q \in Processes :
          Callee(p, q) /\ call(p, q) /\ dialed' = [dialed EXCEPT ![p] = Append(@, q)]
    /\ UNCHANGED <<layout, phase, assembly, inbox, link, listening, answered, slots>>
    /\ UNCHANGED thread_vars

\* After the call, p waits for the handshake: the other side must have accepted.
handshake(p) ==
    /\ \E q \in Processes :
          /\ Callee(p, q)
          /\ \/ ~ Called(p, q) /\ call(p, q) /\ UNCHANGED dialed
             \/ p \in answered[q] /\ dialed' = [dialed EXCEPT ![p] = Append(@, q)]
                /\ UNCHANGED backlog
    /\ UNCHANGED <<layout, phase, assembly, inbox, link, listening, answered, slots>>
    /\ UNCHANGED thread_vars

start_connections_tls(p) == handshake(p)
start_connections_quic(p) == handshake(p)

\* A mutant of place: connections are kept in the order they come in.
place_in_order(p, identifier) == Cardinality(answered[p])

\* The place of a connection among the results of the acceptor.
place(p, identifier) == identifier - p - 1

(* One call is accepted: the caller says who it is, and the connection is   *)
(* put at its place; there may be none.                                     *)
accept(p) ==
    LET identifier == Head(backlog[p])
        i == place(p, identifier)
    IN  /\ phase[p] = "network" /\ p \in listening
        /\ backlog[p] # <<>> /\ Cardinality(answered[p]) < Len(connecting(p))
        /\ backlog' = [backlog EXCEPT ![p] = Tail(@)]
        /\ answered' = [answered EXCEPT ![p] = @ \cup {identifier}]
        /\ IF i \in DOMAIN slots[p]
           THEN slots' = [slots EXCEPT ![p][i] = identifier] /\ UNCHANGED phase
           ELSE phase' = [phase EXCEPT ![p] = "panicked"] /\ UNCHANGED slots
        /\ UNCHANGED <<layout, assembly, inbox, listening, dialed, link>>
        /\ UNCHANGED thread_vars

\* The listener is bound when the acceptor starts.
bind(p) ==
    /\ phase[p] = "network" /\ p \notin listening
    /\ listening' = listening \cup {p}
    /\ UNCHANGED <<layout, phase, assembly, inbox, backlog, answered, dialed, slots, link>>
    /\ UNCHANGED thread_vars

await_connections_tcp(p) == bind(p) \/ accept(p)
await_connections_tls(p) == bind(p) \/ accept(p)
await_connections_quic(p) == accept(p)

\* The configuration decides whose drivers run, side by side.
try_build_with(p) ==
    \/ transport = "tcp" /\ (start_connections_tcp(p) \/ await_connections_tcp(p))
    \/ transport = "tls" /\ (start_connections_tls(p) \/ await_connections_tls(p))
    \/ transport = "quic" /\ (start_connections_quic(p) \/ await_connections_quic(p))

\* Both drivers have returned.
Connected(p) ==
    /\ Len(dialed[p]) = Len(accepting(p))
    /\ Cardinality(answered[p]) = Len(connecting(p))
    /\ p \in listening

(* What the drivers returned is matched with the addresses, in order, and   *)
(* each connection with the promises of the same number.  The threads for   *)
(* all peers are started, and then the workers.                             *)
spawn_threads(p) ==
    LET connections == dialed[p] \o Among(slots[p], Processes)
        addresses == InOrder(net_peers(p))
    IN  /\ Connected(p)
        /\ IF Len(connections) < Len(addresses)
           THEN Phase(p, "network", "panicked") /\ UNCHANGED <<link, sender, receiver, worker>>
           ELSE /\ Phase(p, "network", "running")
                /\ link' = [link EXCEPT ![p] =
                       [q \in net_peers(p) |->
                           connections[CHOOSE k \in DOMAIN addresses : addresses[k] = q]]]
                /\ sender' = [sender EXCEPT ![p] = "spawned"]
                /\ receiver' = [receiver EXCEPT ![p] = "spawned"]
                /\ worker' = [worker EXCEPT ![p] = [w \in Workers |-> "spawned"]]
        /\ UNCHANGED <<layout, assembly, inbox, channels, made, part>> /\ UNCHANGED call_vars

\* What connect does, from beginning to end.
connect(p) ==
    \/ open_services(p) \/ ipc_assembly(p) \/ await_seats(p) \/ spawn_threads(p)

-----------------------------------------------------------------------------
(* Threads, workers and guards.                                             *)

Ended(p) == \A w \in Workers : worker[p][w] = "ended"

(* The send threads of a process, which differ only in the peer, fulfil     *)
(* their promises to all workers, and send until these have ended.          *)
send_thread(p) ==
    /\ sender' = [sender EXCEPT ![p] =
           CASE @ = "spawned" -> "sending"
             [] @ = "sending" /\ Ended(p) -> "done"
             [] OTHER -> @]
    /\ sender' # sender
    /\ UNCHANGED <<layout, phase, assembly, inbox, link, receiver, worker, channels, made, part>>
    /\ UNCHANGED call_vars

(* The receive threads get the queues of all workers, and read until their  *)
(* streams end.                                                             *)
recv_thread(p) ==
    /\ receiver' = [receiver EXCEPT ![p] =
           CASE @ = "spawned" /\ Queued(p) -> "reading"
             [] @ = "reading" /\ (\A i \in net_peers(p) : sender[link[p][i]] = "done") -> "done"
             [] OTHER -> @]
    /\ receiver' # receiver
    /\ UNCHANGED <<layout, phase, assembly, inbox, link, sender, worker, channels, made, part>>
    /\ UNCHANGED call_vars

\* All workers of p have sent each other their buzzers or queues.
Introduced(p) == \A v \in Workers : worker[p][v] \notin {"none", "spawned", "outlets"}

\* A mutant of build: the outlets are extracted before the promises are fulfilled.
build_outlets_first(p, w) ==
    /\ worker' = [worker EXCEPT ![p][w] =
           CASE @ = "spawned" /\ receiver[p] = "reading" /\ sender[p] # "spawned" -> "outlets"
             [] @ = "outlets" -> "peers"
             [] @ = "peers" /\ Introduced(p) -> "running"
             [] OTHER -> @]
    /\ worker' # worker
    /\ UNCHANGED <<layout, phase, assembly, inbox, link, sender, receiver, channels, made, part>>
    /\ UNCHANGED call_vars

(* build: the promises to the receive threads are fulfilled, then the       *)
(* queues of the send threads are extracted; then the same with the other   *)
(* workers of the process, for queues or for buzzers.                       *)
build(p, w) ==
    /\ worker' = [worker EXCEPT ![p][w] =
           CASE @ = "spawned" -> "outlets"
             [] @ = "outlets" /\ sender[p] # "spawned" -> "peers"
             [] @ = "peers" /\ Introduced(p) -> "running"
             [] OTHER -> @]
    /\ worker' # worker
    /\ UNCHANGED <<layout, phase, assembly, inbox, link, sender, receiver, channels, made, part>>
    /\ UNCHANGED call_vars

\* A mutant of allocate: the first worker forgets the parts of the others.
allocate_own(p, w) ==
    /\ worker[p][w] = "running" /\ part[p][w] = 0
    /\ made' = [made EXCEPT ![p] = @ + 1]
    /\ part' = [part EXCEPT ![p][w] = made'[p]]
    /\ UNCHANGED channels
    /\ UNCHANGED <<layout, phase, assembly, inbox, link, sender, receiver, worker>>
    /\ UNCHANGED call_vars

(* allocate, of a typed channel between the workers of a process: the first *)
(* worker makes it for all, each takes its part, the last one removes it.   *)
allocate(p, w) ==
    /\ worker[p][w] = "running" /\ part[p][w] = 0
    /\ IF channels[p] = {}
       THEN /\ made' = [made EXCEPT ![p] = @ + 1]
            /\ channels' = [channels EXCEPT ![p] = Workers \ {w}]
       ELSE /\ w \in channels[p]
            /\ channels' = [channels EXCEPT ![p] = @ \ {w}]
            /\ UNCHANGED made
    /\ part' = [part EXCEPT ![p][w] = made'[p]]
    /\ UNCHANGED <<layout, phase, assembly, inbox, link, sender, receiver, worker>>
    /\ UNCHANGED call_vars

\* The worker's closure returns.
worker_ends(p, w) ==
    /\ worker[p][w] = "running" /\ part[p][w] # 0
    /\ worker' = [worker EXCEPT ![p][w] = "ended"]
    /\ UNCHANGED <<layout, phase, assembly, inbox, link, sender, receiver, channels, made, part>>
    /\ UNCHANGED call_vars

\* WorkerGuards are dropped: all workers are joined.
join_workers(p) ==
    /\ Phase(p, "running", "joining") /\ Ended(p)
    /\ UNCHANGED <<layout, assembly, inbox, link>> /\ UNCHANGED call_vars /\ UNCHANGED thread_vars

\* The CommsGuard is dropped: the send threads are joined, and then the receive threads.
join_comms(p) ==
    /\ Phase(p, "joining", "joined")
    /\ sender[p] = "done" /\ receiver[p] = "done"
    /\ ipc_peers(p) # {} => inbox[p] = "done"
    /\ UNCHANGED <<layout, assembly, inbox, link>> /\ UNCHANGED call_vars /\ UNCHANGED thread_vars

-----------------------------------------------------------------------------
Over(p) == phase[p] \in {"joined", "panicked"}

\* Nothing is left to do when all processes are over.
Rest == (\A p \in Processes : Over(p)) /\ UNCHANGED vars

Next ==
    \/ \E p \in Processes :
          \/ connect(p) \/ inbox_thread(p) \/ try_build_with(p)
          \/ send_thread(p) \/ recv_thread(p)
          \/ join_workers(p) \/ join_comms(p)
          \/ \E w \in Workers : build(p, w) \/ allocate(p, w) \/ worker_ends(p, w)
    \/ Rest

Spec == Init /\ [][Next]_vars

\* Every process goes on while it can.
FairSpec == Spec /\ WF_vars(Next)

-----------------------------------------------------------------------------
(* Correctness.                                                             *)

(* Every connection is taken for what it is, at both ends: the order of the *)
(* results of the drivers, of the addresses and of the promises agree, in   *)
(* whatever order calls came in.  So the outlet that a worker finds at the  *)
(* place of a process leads to that process.                                *)
Wired ==
    \A p \in Processes : phase[p] \in {"running", "joining", "joined"} =>
        \A i \in net_peers(p) : link[p][i] = i

(* A process sends into an inbox only when its owner has subscribed: the    *)
(* inboxes have no history, so that earlier samples would be lost.          *)
NoEarlySample ==
    \A p \in Processes : \A q \in ipc_peers(p) :
        sender[p] # "none" => inbox[q] \notin {"none", "spawned"}

\* No process panics while it connects, whatever hosts the processes are on.
NoPanic == \A p \in Processes : phase[p] # "panicked"

(* All workers of a process share one typed channel, although each of them  *)
(* may be the one to make it, and none is left behind in the table.         *)
OneChannel ==
    \A p \in Processes :
        /\ \A w \in Workers : part[p][w] \in {0, made[p]}
        /\ made[p] <= 1
        /\ (\A w \in Workers : part[p][w] # 0) => channels[p] = {}

(* All processes get connected, their workers are built and run, and in the *)
(* end the guards of all have joined: nobody waits for a seat, a handshake, *)
(* a promise or a thread for ever.                                          *)
AllJoined == <>(\A p \in Processes : phase[p] = "joined")

=============================================================================
