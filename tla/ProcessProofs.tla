---------------------------- MODULE ProcessProofs ----------------------------
(***************************************************************************)
(* Proofs about the threads of a process, from their start to their sleep. *)
(* Of the set-up (Connect): the connections of a process are taken for     *)
(* what they are (Wired), no sample is sent into an inbox that nobody has  *)
(* subscribed to (NoEarlySample), and the workers of a process share one   *)
(* typed channel (OneChannel), for any number of processes, hosts and      *)
(* workers.  Of the worker loop (Scheduling): no wake-up is lost, for any  *)
(* number of workers, channels, threads, messages and requests, since      *)
(* SchedulingInv is inductive, and implies that a worker that is parked    *)
(* for good has nothing to do.  Of the slab that they write into: what a   *)
(* reader holds never changes (HeldStable), the valid units survive a move *)
(* to another buffer (ValidInOrder), and a buffer is in one place only     *)
(* (OnePlace), for buffers of any size, any number of readers and any      *)
(* pattern of writing, splitting and releasing.                            *)
(***************************************************************************)
EXTENDS Connect, Scheduling, BytesSlab, OrderProofs, SequenceTheorems

-----------------------------------------------------------------------------
(* Types.                                                                   *)

Above(p) == {q \in net_peers(p) : q > p}
Below(p) == {q \in net_peers(p) : q < p}

Phases == {"start", "assembly", "seats", "network", "running", "joining", "joined", "panicked"}
InboxStates == {"none", "spawned", "subscribed", "seated", "reading", "done"}
SenderStates == {"none", "spawned", "sending", "done"}
WorkerStates == {"none", "spawned", "outlets", "peers", "running", "ended"}

TypeOK ==
    /\ layout \in Layouts
    /\ phase \in [Processes -> Phases]
    /\ inbox \in [Processes -> InboxStates]
    /\ sender \in [Processes -> SenderStates]
    /\ listening \subseteq Processes
    /\ DOMAIN backlog = Processes /\ \A p \in Processes : backlog[p] \in Seq(Above(p))
    /\ answered \in [Processes -> SUBSET Processes]
    /\ DOMAIN dialed = Processes /\ \A p \in Processes : dialed[p] \in Seq(Below(p))
    /\ DOMAIN slots = Processes
    /\ \A p \in Processes : DOMAIN slots[p] = 0 .. Cardinality(Above(p)) - 1
    /\ DOMAIN link = Processes
    /\ channels \in [Processes -> SUBSET Workers]
    /\ made \in [Processes -> Nat]
    /\ part \in [Processes -> [Workers -> Nat]]

\* What a layout says: processes are numbered, and there are finitely many.
LEMMA LayoutFacts ==
    ASSUME layout \in Layouts
    PROVE  /\ Processes \in SUBSET Nat
           /\ IsFiniteSet(Processes)
           /\ None \notin Processes
           /\ \A p \in Processes :
                 /\ Above(p) \in SUBSET Int /\ IsFiniteSet(Above(p)) /\ Above(p) \subseteq Processes
                 /\ Below(p) \in SUBSET Int /\ IsFiniteSet(Below(p)) /\ Below(p) \subseteq Processes
                 /\ net_peers(p) \in SUBSET Int /\ IsFiniteSet(net_peers(p))
                 /\ net_peers(p) \subseteq Processes
                 /\ net_peers(p) = Below(p) \cup Above(p)
<1>1. Processes = 0 .. Cardinality(Processes) - 1 /\ IsFiniteSet(Processes) /\ None \notin Processes
  BY ConnectAssumption DEF Processes
<1>2. Cardinality(Processes) \in Nat
  BY <1>1, FS_CardinalityType
<1>3. Processes \in SUBSET Nat
  BY <1>1, <1>2
<1>4. ASSUME NEW p \in Processes
      PROVE  /\ Above(p) \subseteq net_peers(p) /\ Below(p) \subseteq net_peers(p)
             /\ net_peers(p) \subseteq Processes
             /\ net_peers(p) = Below(p) \cup Above(p)
  BY <1>3 DEF Above, Below, net_peers
<1>5. \A T : T \subseteq Processes => IsFiniteSet(T) /\ T \in SUBSET Int
  <2>1. ASSUME NEW T, T \subseteq Processes PROVE IsFiniteSet(T) /\ T \in SUBSET Int
    <3>1. IsFiniteSet(Processes) /\ T \in SUBSET Processes
      BY <1>1, <2>1
    <3>2. IsFiniteSet(T)
      BY <3>1, FS_Subset
    <3>. QED  BY <1>3, <2>1, <3>2
  <2>. QED  BY <2>1
<1>. QED  BY <1>1, <1>3, <1>4, <1>5

\* accepting and connecting are the processes below and above, in order.
LEMMA Drivers ==
    ASSUME layout \in Layouts, NEW p \in Processes
    PROVE  /\ accepting(p) = InOrder(Below(p)) /\ connecting(p) = InOrder(Above(p))
           /\ Enumerates(accepting(p), Below(p)) /\ Enumerates(connecting(p), Above(p))
           /\ accepting(p) \in Seq(Below(p)) /\ connecting(p) \in Seq(Above(p))
           /\ Len(accepting(p)) = Cardinality(Below(p))
           /\ Len(connecting(p)) = Cardinality(Above(p))
           /\ Cardinality(Below(p)) \in Nat /\ Cardinality(Above(p)) \in Nat
<1>1. accepting(p) = InOrder(Below(p)) /\ connecting(p) = InOrder(Above(p))
  BY DEF accepting, connecting, Above, Below
<1>2. /\ Above(p) \in SUBSET Int /\ IsFiniteSet(Above(p))
      /\ Below(p) \in SUBSET Int /\ IsFiniteSet(Below(p))
  BY LayoutFacts
<1>3. /\ Enumerates(InOrder(Below(p)), Below(p)) /\ InOrder(Below(p)) \in Seq(Below(p))
      /\ Len(InOrder(Below(p))) = Cardinality(Below(p)) /\ Cardinality(Below(p)) \in Nat
  BY <1>2, InOrderEnumerates
<1>4. /\ Enumerates(InOrder(Above(p)), Above(p)) /\ InOrder(Above(p)) \in Seq(Above(p))
      /\ Len(InOrder(Above(p))) = Cardinality(Above(p)) /\ Cardinality(Above(p)) \in Nat
  BY <1>2, InOrderEnumerates
<1>. QED  BY <1>1, <1>3, <1>4

\* The layout never changes, nor anything that is derived from it.
LEMMA LayoutStays ==
    ASSUME layout' = layout
    PROVE  /\ Processes' = Processes /\ Workers' = Workers
           /\ \A p : /\ net_peers(p)' = net_peers(p) /\ ipc_peers(p)' = ipc_peers(p)
                     /\ Above(p)' = Above(p) /\ Below(p)' = Below(p)
                     /\ accepting(p)' = accepting(p) /\ connecting(p)' = connecting(p)
BY DEF Processes, Workers, net_peers, ipc_peers, Above, Below, accepting, connecting

\* A process that p calls is one that expects the call.
LEMMA CalleeExpects ==
    ASSUME layout \in Layouts, NEW p \in Processes, NEW q \in Processes, Callee(p, q)
    PROVE  q \in Below(p) /\ p \in Above(q)
<1>1. Len(dialed[p]) < Len(accepting(p)) /\ q = accepting(p)[Len(dialed[p]) + 1]
  BY DEF Callee
<1>2. accepting(p) \in Seq(Below(p))
  BY Drivers
<1>3. q \in Below(p)
  BY <1>1, <1>2
<1>. QED  BY <1>3, LayoutFacts DEF Above, Below, net_peers

-----------------------------------------------------------------------------
(* Every step is a step of one process, whose other part is unchanged.      *)

\* Types hold at the start: nothing is connected, and the slots are empty.
LEMMA TypeInit == Init => TypeOK
<1> SUFFICES ASSUME Init PROVE TypeOK
  OBVIOUS
<1>1. layout \in Layouts
  BY DEF Init
<1>2. \A p \in Processes : slots[p] = [i \in 0 .. Cardinality(Above(p)) - 1 |-> None]
  BY <1>1, Drivers DEF Init
<1>. QED  BY <1>1, <1>2 DEF Init, TypeOK, Phases, InboxStates, SenderStates

\* Types are kept by what connect does, from the services to the threads.
LEMMA TypeConnect ==
    ASSUME TypeOK, NEW p \in Processes, connect(p)
    PROVE  TypeOK'
<1> USE DEF TypeOK
<1>1. layout' = layout
  BY DEF connect, open_services, ipc_assembly, await_seats, spawn_threads, Phase, call_vars
<1>2. /\ Processes' = Processes /\ Workers' = Workers
      /\ \A q : Above(q)' = Above(q) /\ Below(q)' = Below(q)
  BY <1>1, LayoutStays
<1>3. CASE open_services(p)
  BY <1>1, <1>2, <1>3 DEF open_services, Phase, init, thread_vars, Phases
<1>4. CASE ipc_assembly(p)
  BY <1>1, <1>2, <1>4 DEF ipc_assembly, Phase, call_vars, thread_vars, Phases, InboxStates
<1>5. CASE await_seats(p)
  BY <1>1, <1>2, <1>5 DEF await_seats, Phase, call_vars, thread_vars, Phases
<1>6. CASE spawn_threads(p)
  <2>1. /\ phase' \in [Processes -> Phases]
        /\ sender' \in [Processes -> SenderStates]
        /\ DOMAIN link' = Processes
    BY <1>6 DEF spawn_threads, Phase, Phases, SenderStates
  <2>2. UNCHANGED <<layout, assembly, inbox, channels, made, part, listening, backlog,
                    answered, dialed, slots>>
    BY <1>6 DEF spawn_threads, call_vars
  <2>. QED  BY <1>1, <1>2, <2>1, <2>2
<1>. QED  BY <1>3, <1>4, <1>5, <1>6 DEF connect

\* Types are kept by the drivers that call and are called.
LEMMA TypeDrivers ==
    ASSUME TypeOK, NEW p \in Processes, try_build_with(p)
    PROVE  TypeOK'
<1> USE DEF TypeOK
<1>1. layout' = layout /\ UNCHANGED <<assembly, inbox, link>> /\ UNCHANGED thread_vars
  BY DEF try_build_with, start_connections_tcp, await_connections_tcp, start_connections_tls,
         await_connections_tls, start_connections_quic, await_connections_quic, handshake,
         bind, accept
<1>2. /\ Processes' = Processes /\ Workers' = Workers
      /\ \A q : Above(q)' = Above(q) /\ Below(q)' = Below(q)
  BY <1>1, LayoutStays
<1>3. CASE start_connections_tcp(p)
  <2>1. PICK q \in Processes : /\ Callee(p, q) /\ call(p, q)
                               /\ dialed' = [dialed EXCEPT ![p] = Append(@, q)]
    BY <1>3 DEF start_connections_tcp
  <2>2. q \in Below(p) /\ p \in Above(q)
    BY <2>1, CalleeExpects
  <2>. QED  BY <1>1, <1>2, <1>3, <2>1, <2>2 DEF start_connections_tcp, call, thread_vars
<1>4. CASE handshake(p)
  <2>1. PICK q \in Processes :
            /\ Callee(p, q)
            /\ \/ call(p, q) /\ UNCHANGED dialed
               \/ dialed' = [dialed EXCEPT ![p] = Append(@, q)] /\ UNCHANGED backlog
    BY <1>4 DEF handshake
  <2>2. q \in Below(p) /\ p \in Above(q)
    BY <2>1, CalleeExpects
  <2>3. DOMAIN backlog' = Processes /\ \A r \in Processes : backlog'[r] \in Seq(Above(r))
    <3>1. CASE UNCHANGED backlog
      BY <3>1
    <3>2. CASE backlog' = [backlog EXCEPT ![q] = Append(@, p)]
      <4>1. Append(backlog[q], p) \in Seq(Above(q))
        BY <2>2
      <4>. QED  BY <3>2, <4>1
    <3>. QED  BY <2>1, <3>1, <3>2 DEF call
  <2>4. DOMAIN dialed' = Processes /\ \A r \in Processes : dialed'[r] \in Seq(Below(r))
    <3>1. CASE UNCHANGED dialed
      BY <3>1
    <3>2. CASE dialed' = [dialed EXCEPT ![p] = Append(@, q)]
      <4>1. Append(dialed[p], q) \in Seq(Below(p))
        BY <2>2
      <4>. QED  BY <3>2, <4>1
    <3>. QED  BY <2>1, <3>1, <3>2
  <2>. QED  BY <1>1, <1>2, <1>4, <2>3, <2>4 DEF handshake, thread_vars
<1>5. CASE bind(p)
  BY <1>1, <1>2, <1>5 DEF bind, thread_vars
<1>6. CASE accept(p)
  <2>1. /\ Head(backlog[p]) \in Above(p) /\ Tail(backlog[p]) \in Seq(Above(p))
        /\ Above(p) \subseteq Processes
    BY <1>6, LayoutFacts DEF accept
  <2>2. backlog' = [backlog EXCEPT ![p] = Tail(@)]
        /\ answered' = [answered EXCEPT ![p] = @ \cup {Head(backlog[p])}]
    BY <1>6 DEF accept
  <2>3. DOMAIN slots' = Processes /\ \A q \in Processes : DOMAIN slots'[q] = DOMAIN slots[q]
    BY <1>6 DEF accept
  <2>4. phase' \in [Processes -> Phases] /\ UNCHANGED <<listening, dialed>>
    BY <1>6 DEF accept, Phases
  <2>. QED  BY <1>1, <1>2, <2>1, <2>2, <2>3, <2>4, ZenonT(30) DEF thread_vars
<1>. QED  BY <1>3, <1>4, <1>5, <1>6
          DEF try_build_with, await_connections_tcp, start_connections_tls,
              await_connections_tls, start_connections_quic, await_connections_quic

\* Types are kept by the threads, by the workers and by the guards.
LEMMA TypeThreads ==
    ASSUME TypeOK, NEW p \in Processes,
           \/ inbox_thread(p) \/ send_thread(p) \/ recv_thread(p)
           \/ join_workers(p) \/ join_comms(p)
           \/ \E w \in Workers : build(p, w) \/ allocate(p, w) \/ worker_ends(p, w)
    PROVE  TypeOK'
<1> USE DEF TypeOK
<1>1. layout' = layout /\ UNCHANGED <<assembly, link>> /\ UNCHANGED call_vars
  BY DEF inbox_thread, send_thread, recv_thread, join_workers, join_comms, build, allocate,
         worker_ends
<1>2. /\ Processes' = Processes /\ Workers' = Workers
      /\ \A q : Above(q)' = Above(q) /\ Below(q)' = Below(q)
  BY <1>1, LayoutStays
<1>3. CASE inbox_thread(p)
  BY <1>1, <1>2, <1>3 DEF inbox_thread, InboxStates, call_vars, thread_vars
<1>4. CASE send_thread(p)
  BY <1>1, <1>2, <1>4 DEF send_thread, SenderStates, call_vars
<1>5. CASE recv_thread(p)
  BY <1>1, <1>2, <1>5 DEF recv_thread, call_vars
<1>6. CASE join_workers(p) \/ join_comms(p)
  BY <1>1, <1>2, <1>6 DEF join_workers, join_comms, Phase, Phases, call_vars, thread_vars
<1>7. ASSUME NEW w \in Workers, build(p, w) \/ worker_ends(p, w)
      PROVE  TypeOK'
  BY <1>1, <1>2, <1>7 DEF build, worker_ends, call_vars
<1>8. ASSUME NEW w \in Workers, allocate(p, w)
      PROVE  TypeOK'
  <2>1. made' \in [Processes -> Nat]
    BY <1>8 DEF allocate
  <2>2. part' \in [Processes -> [Workers -> Nat]]
    <3>1. part' = [part EXCEPT ![p] = [part[p] EXCEPT ![w] = made'[p]]] /\ made'[p] \in Nat
      BY <1>8, <2>1 DEF allocate
    <3>2. [part[p] EXCEPT ![w] = made'[p]] \in [Workers -> Nat]
      BY <3>1
    <3>. QED  BY <3>1, <3>2
  <2>3. channels' \in [Processes -> SUBSET Workers]
    <3>1. \/ channels' = [channels EXCEPT ![p] = Workers \ {w}]
          \/ channels' = [channels EXCEPT ![p] = channels[p] \ {w}]
      BY <1>8 DEF allocate
    <3>2. Workers \ {w} \in SUBSET Workers /\ channels[p] \ {w} \in SUBSET Workers
      OBVIOUS
    <3>. QED  BY <3>1, <3>2
  <2>4. UNCHANGED <<layout, phase, inbox, link, sender>>
    BY <1>8 DEF allocate
  <2>5. UNCHANGED <<listening, backlog, answered, dialed, slots>>
    BY <1>1 DEF call_vars
  <2>. QED  BY <1>2, <2>1, <2>2, <2>3, <2>4, <2>5
<1>. QED  BY <1>3, <1>4, <1>5, <1>6, <1>7, <1>8

\* Variables hold values of their types in every reachable state, for any
\* cluster: the backlog of a process holds only calls from processes above it,
\* and it has called only processes below it.
THEOREM TypeCorrect == Spec => []TypeOK
<1>1. ASSUME TypeOK, Next PROVE TypeOK'
  <2>1. CASE Rest
    BY <1>1, <2>1, LayoutStays DEF Rest, vars, TypeOK
  <2>. QED  BY <1>1, <2>1, TypeConnect, TypeDrivers, TypeThreads DEF Next
<1>2. ASSUME TypeOK, UNCHANGED vars PROVE TypeOK'
  BY <1>2, LayoutStays DEF vars, TypeOK
<1>. QED  BY <1>1, <1>2, TypeInit, PTL DEF Spec

-----------------------------------------------------------------------------
(* The channel of the workers of a process.                                 *)

(* The table holds the parts of exactly those workers that have none yet,   *)
(* once the first worker has made the channel.                              *)
ChannelInv ==
    \A p \in Processes :
        /\ made[p] \in {0, 1}
        /\ made[p] = 0 => channels[p] = {} /\ \A w \in Workers : part[p][w] = 0
        /\ made[p] = 1 => channels[p] = {w \in Workers : part[p][w] = 0}
        /\ \A w \in Workers : part[p][w] \in {0, made[p]}

\* Making the channel, or taking a part of it, keeps the table in step.
LEMMA ChannelStep ==
    ASSUME TypeOK, ChannelInv, NEW p \in Processes, NEW w \in Workers, allocate(p, w)
    PROVE  ChannelInv'
<1>1. /\ layout' = layout /\ part[p][w] = 0
      /\ part' = [part EXCEPT ![p] = [part[p] EXCEPT ![w] = made'[p]]]
  BY DEF allocate
<1>2. Processes' = Processes /\ Workers' = Workers
  BY <1>1, LayoutStays
<1>3. /\ made \in [Processes -> Nat] /\ channels \in [Processes -> SUBSET Workers]
      /\ part \in [Processes -> [Workers -> Nat]]
  BY DEF TypeOK
<1>4. SUFFICES ASSUME NEW q \in Processes
               PROVE  /\ made'[q] \in {0, 1}
                      /\ made'[q] = 0 => channels'[q] = {} /\ \A v \in Workers : part'[q][v] = 0
                      /\ made'[q] = 1 => channels'[q] = {v \in Workers : part'[q][v] = 0}
                      /\ \A v \in Workers : part'[q][v] \in {0, made'[q]}
  BY <1>2 DEF ChannelInv
<1>5. CASE q # p
  <2>1. made'[q] = made[q] /\ channels'[q] = channels[q] /\ part'[q] = part[q]
    BY <1>1, <1>3, <1>5 DEF allocate
  <2>. QED  BY <2>1 DEF ChannelInv
<1>6. CASE q = p /\ channels[p] = {}
  <2>1. made[p] = 0 /\ \A v \in Workers : part[p][v] = 0
    BY <1>1, <1>6 DEF ChannelInv
  <2>2. made'[p] = 1 /\ channels'[p] = Workers \ {w}
    BY <1>3, <1>6, <2>1 DEF allocate
  <2>3. \A v \in Workers : part'[p][v] = IF v = w THEN 1 ELSE 0
    BY <1>1, <1>3, <2>1, <2>2
  <2>. QED  BY <1>6, <2>2, <2>3
<1>7. CASE q = p /\ channels[p] # {}
  <2>1. made[p] = 1 /\ channels[p] = {v \in Workers : part[p][v] = 0}
    BY <1>7 DEF ChannelInv
  <2>2. made'[p] = 1 /\ channels'[p] = channels[p] \ {w}
    BY <1>3, <1>7, <2>1 DEF allocate
  <2>3. \A v \in Workers : part'[p][v] = IF v = w THEN 1 ELSE part[p][v]
    BY <1>1, <1>3, <2>2
  <2>4. \A v \in Workers : part[p][v] \in {0, 1}
    BY <2>1 DEF ChannelInv
  <2>. QED  BY <1>7, <2>1, <2>2, <2>3, <2>4
<1>. QED  BY <1>5, <1>6, <1>7

\* All workers of a process share one typed channel, and its table entry is
\* gone when the last one has its part: for any number of workers and in
\* whatever order they allocate.
THEOREM OneChannelHolds == Spec => []OneChannel
<1>1. Init => ChannelInv
  BY DEF Init, ChannelInv
<1>2. ASSUME TypeOK, ChannelInv, [Next]_vars PROVE ChannelInv'
  <2>1. CASE \E p \in Processes : \E w \in Workers : allocate(p, w)
    BY <1>2, <2>1, ChannelStep
  <2>2. CASE UNCHANGED <<layout, channels, made, part>>
    BY <1>2, <2>2, LayoutStays DEF ChannelInv
  <2>3. \/ \E p \in Processes : \E w \in Workers : allocate(p, w)
        \/ UNCHANGED <<layout, channels, made, part>>
    <3>1. ASSUME NEW p \in Processes, connect(p) \/ inbox_thread(p)
          PROVE  UNCHANGED <<layout, channels, made, part>>
      BY <3>1 DEF connect, open_services, ipc_assembly, await_seats, spawn_threads, inbox_thread,
                  thread_vars
    <3>2. ASSUME NEW p \in Processes, try_build_with(p)
          PROVE  UNCHANGED <<layout, channels, made, part>>
      BY <3>2 DEF try_build_with, start_connections_tcp, await_connections_tcp,
                  start_connections_tls, await_connections_tls, start_connections_quic,
                  await_connections_quic, handshake, bind, accept, thread_vars
    <3>3. ASSUME NEW p \in Processes,
                 send_thread(p) \/ recv_thread(p) \/ join_workers(p) \/ join_comms(p)
          PROVE  UNCHANGED <<layout, channels, made, part>>
      BY <3>3 DEF send_thread, recv_thread, join_workers, join_comms, thread_vars
    <3>4. ASSUME NEW p \in Processes, NEW w \in Workers, build(p, w) \/ worker_ends(p, w)
          PROVE  UNCHANGED <<layout, channels, made, part>>
      BY <3>4 DEF build, worker_ends
    <3>5. Rest \/ UNCHANGED vars => UNCHANGED <<layout, channels, made, part>>
      BY DEF Rest, vars
    <3>. QED  BY <1>2, <3>1, <3>2, <3>3, <3>4, <3>5 DEF Next
  <2>. QED  BY <2>1, <2>2, <2>3
<1>3. TypeOK /\ ChannelInv => OneChannel
  <2>1. SUFFICES ASSUME TypeOK, ChannelInv, NEW p \in Processes
                 PROVE  /\ \A w \in Workers : part[p][w] \in {0, made[p]}
                        /\ made[p] <= 1
                        /\ (\A w \in Workers : part[p][w] # 0) => channels[p] = {}
    BY DEF OneChannel
  <2>. QED  BY <2>1 DEF ChannelInv
<1>. QED  BY <1>1, <1>2, <1>3, TypeCorrect, PTL DEF Spec

-----------------------------------------------------------------------------
(* Inboxes.                                                                 *)

(* A process that is past its seat knows that all on the host are seated.   *)
(* Nobody goes back, and only a process with its threads sends.             *)
InboxInv ==
    \A p \in Processes :
        /\ phase[p] \in {"start", "assembly"} => inbox[p] = "none"
        /\ phase[p] \in {"network", "running", "joining", "joined", "panicked"} =>
               \A q \in ipc_peers(p) : inbox[q] \notin {"none", "spawned", "subscribed"}
        /\ sender[p] # "none" => phase[p] \in {"running", "joining", "joined"}

\* The start of a process: its peers on the host are seated before it is connected.
LEMMA InboxConnect ==
    ASSUME TypeOK, InboxInv, NEW p \in Processes, connect(p)
    PROVE  InboxInv'
<1>1. layout' = layout
  BY DEF connect, open_services, ipc_assembly, await_seats, spawn_threads, Phase, call_vars
<1>2. Processes' = Processes /\ \A q : ipc_peers(q)' = ipc_peers(q) /\ ipc_peers(q) \subseteq Processes
  BY <1>1, LayoutStays DEF ipc_peers
<1>3. /\ phase \in [Processes -> Phases] /\ inbox \in [Processes -> InboxStates]
      /\ sender \in [Processes -> SenderStates]
  BY DEF TypeOK
<1>4. CASE open_services(p)
  <2>1. /\ phase[p] = "start" /\ UNCHANGED <<inbox, sender>>
        /\ phase' = [phase EXCEPT ![p] = IF ipc_peers(p) = {} THEN "network" ELSE "assembly"]
    BY <1>4 DEF open_services, Phase, thread_vars
  <2>. QED  BY <1>2, <1>3, <2>1 DEF InboxInv
<1>5. CASE ipc_assembly(p)
  <2>1. /\ phase[p] = "assembly" /\ phase' = [phase EXCEPT ![p] = "seats"]
        /\ inbox' = [inbox EXCEPT ![p] = "spawned"] /\ UNCHANGED sender
    BY <1>5 DEF ipc_assembly, Phase, thread_vars
  <2>2. inbox[p] = "none" /\ sender[p] = "none"
    BY <1>3, <2>1 DEF InboxInv
  <2>. QED  BY <1>2, <1>3, <2>1, <2>2 DEF InboxInv
<1>6. CASE await_seats(p)
  <2>1. /\ phase[p] = "seats" /\ phase' = [phase EXCEPT ![p] = "network"]
        /\ UNCHANGED <<inbox, sender>>
        /\ \A q \in ipc_peers(p) : inbox[q] \notin {"none", "spawned", "subscribed"}
    BY <1>6 DEF await_seats, Phase, thread_vars
  <2>. QED  BY <1>2, <1>3, <2>1 DEF InboxInv
<1>7. CASE spawn_threads(p)
  <2>1. /\ phase[p] = "network" /\ UNCHANGED inbox
        /\ \/ phase' = [phase EXCEPT ![p] = "panicked"] /\ UNCHANGED sender
           \/ phase' = [phase EXCEPT ![p] = "running"] /\ sender' = [sender EXCEPT ![p] = "spawned"]
    BY <1>7 DEF spawn_threads, Phase
  <2>. QED  BY <1>2, <1>3, <2>1 DEF InboxInv
<1>. QED  BY <1>4, <1>5, <1>6, <1>7 DEF connect

\* All other steps leave the phase before the network alone, and an inbox that
\* is read stays read.
LEMMA InboxOthers ==
    ASSUME TypeOK, InboxInv, NEW p \in Processes,
           \/ inbox_thread(p) \/ try_build_with(p) \/ send_thread(p) \/ recv_thread(p)
           \/ join_workers(p) \/ join_comms(p)
           \/ \E w \in Workers : build(p, w) \/ allocate(p, w) \/ worker_ends(p, w)
    PROVE  InboxInv'
<1>1. layout' = layout
  BY DEF inbox_thread, send_thread, recv_thread, join_workers, join_comms, build, allocate,
         worker_ends, try_build_with, start_connections_tcp, await_connections_tcp,
         start_connections_tls, await_connections_tls, start_connections_quic,
         await_connections_quic, handshake, bind, accept
<1>2. Processes' = Processes /\ \A q : ipc_peers(q)' = ipc_peers(q) /\ ipc_peers(q) \subseteq Processes
  BY <1>1, LayoutStays DEF ipc_peers
<1>3. /\ phase \in [Processes -> Phases] /\ inbox \in [Processes -> InboxStates]
      /\ sender \in [Processes -> SenderStates]
  BY DEF TypeOK
<1>4. CASE inbox_thread(p)
  <2>1. UNCHANGED <<phase, sender>>
        /\ \A q \in Processes \ {p} : inbox'[q] = inbox[q]
    BY <1>3, <1>4 DEF inbox_thread, thread_vars, InboxStates
  <2>2. /\ inbox[p] # "none"
        /\ inbox[p] \in {"seated", "reading", "done"} => inbox'[p] \in {"reading", "done"}
    <3>1. inbox'[p] # inbox[p]
      <4>1. SUFFICES ASSUME inbox'[p] = inbox[p] PROVE inbox' = inbox
        BY <1>4 DEF inbox_thread
      <4>2. inbox' = [inbox EXCEPT ![p] = inbox'[p]]
        <5>1. \A f : inbox' = [inbox EXCEPT ![p] = f] => inbox' = [inbox EXCEPT ![p] = inbox'[p]]
          BY <1>3
        <5>. QED  BY <1>4, <5>1, Zenon DEF inbox_thread
      <4>. QED  BY <1>3, <4>1, <4>2
    <3>2. /\ inbox[p] = "none" => inbox'[p] = "none"
          /\ inbox[p] = "done" => inbox'[p] = "done"
          /\ inbox[p] = "seated" => inbox'[p] \in {"seated", "reading"}
          /\ inbox[p] = "reading" => inbox'[p] \in {"reading", "done"}
      BY <1>3, <1>4 DEF inbox_thread
    <3>. QED  BY <3>1, <3>2
  <2>3. inbox[p] \notin {"none", "spawned", "subscribed"} <=> inbox[p] \in {"seated", "reading", "done"}
    BY <1>3 DEF InboxStates
  <2>. QED  BY <1>2, <1>3, <2>1, <2>2, <2>3 DEF InboxInv
<1>5. CASE try_build_with(p)
  <2>1. UNCHANGED <<inbox, sender>>
        /\ \/ UNCHANGED phase
           \/ phase[p] = "network" /\ phase' = [phase EXCEPT ![p] = "panicked"]
    BY <1>5 DEF try_build_with, start_connections_tcp, await_connections_tcp,
                  start_connections_tls, await_connections_tls, start_connections_quic,
                  await_connections_quic, handshake, bind, accept, thread_vars
  <2>2. phase[p] = "network" => sender[p] = "none"
    BY <1>3 DEF InboxInv
  <2>. QED  BY <1>2, <1>3, <2>1, <2>2 DEF InboxInv
<1>6. CASE send_thread(p)
  <2>1. /\ UNCHANGED <<phase, inbox>> /\ \A q \in Processes \ {p} : sender'[q] = sender[q]
        /\ sender[p] # "none"
    BY <1>3, <1>6 DEF send_thread, SenderStates
  <2>. QED  BY <1>2, <1>3, <2>1 DEF InboxInv
<1>7. CASE join_workers(p) \/ join_comms(p)
  <2>1. UNCHANGED <<inbox, sender>>
        /\ \/ phase[p] = "running" /\ phase' = [phase EXCEPT ![p] = "joining"]
           \/ phase[p] = "joining" /\ phase' = [phase EXCEPT ![p] = "joined"]
    BY <1>7 DEF join_workers, join_comms, Phase, thread_vars
  <2>. QED  BY <1>2, <1>3, <2>1 DEF InboxInv
<1>8. CASE recv_thread(p) \/ \E w \in Workers : build(p, w) \/ allocate(p, w) \/ worker_ends(p, w)
  <2>1. UNCHANGED <<phase, inbox, sender>>
    BY <1>8 DEF recv_thread, build, allocate, worker_ends
  <2>. QED  BY <1>2, <2>1 DEF InboxInv
<1>. QED  BY <1>4, <1>5, <1>6, <1>7, <1>8

\* Nothing is sent into an inbox whose owner has not subscribed: inboxes have
\* no history, and the seats of the assembly are what makes up for it.
THEOREM NoSampleIsEarly == Spec => []NoEarlySample
<1>1. Init => InboxInv
  BY DEF Init, InboxInv
<1>2. ASSUME TypeOK, InboxInv, [Next]_vars PROVE InboxInv'
  <2>1. CASE Rest \/ UNCHANGED vars
    BY <1>2, <2>1, LayoutStays DEF Rest, vars, InboxInv
  <2>. QED  BY <1>2, <2>1, InboxConnect, InboxOthers DEF Next
<1>3. TypeOK /\ InboxInv => NoEarlySample
  BY DEF InboxInv, NoEarlySample
<1>. QED  BY <1>1, <1>2, <1>3, TypeCorrect, PTL DEF Spec

-----------------------------------------------------------------------------
(* Connections.                                                             *)

(* A process has called those below it in order, and was called by some     *)
(* above it.  Every call it took is in the slot that its index gives, or    *)
(* the process has panicked.                                                *)
CallInv ==
    \A p \in Processes :
        /\ Len(dialed[p]) <= Len(accepting(p))
        /\ \A i \in 1 .. Len(dialed[p]) : dialed[p][i] = accepting(p)[i]
        /\ answered[p] \subseteq Above(p)
        /\ phase[p] # "panicked" =>
               \A x \in answered[p] : /\ x - p - 1 \in DOMAIN slots[p]
                                      /\ slots[p][x - p - 1] = x
        /\ phase[p] \in {"running", "joining", "joined"} =>
               \A i \in net_peers(p) : link[p][i] = i

\* When as many calls were taken as there are processes above, these are the
\* next indices, one after the other, and every slot is filled with its own.
LEMMA AllAnswered ==
    ASSUME TypeOK, CallInv, NEW p \in Processes, phase[p] = "network", Connected(p)
    PROVE  LET m == Cardinality(Above(p))
           IN  /\ Above(p) = p + 1 .. p + m
               /\ \A i \in 0 .. m - 1 : i \in DOMAIN slots[p] /\ slots[p][i] = p + 1 + i
<1> DEFINE m == Cardinality(Above(p))
<1>1. layout \in Layouts /\ DOMAIN slots[p] = 0 .. m - 1
  BY DEF TypeOK
<1>2. /\ IsFiniteSet(Above(p)) /\ Above(p) \in SUBSET Int /\ m \in Nat /\ p \in Nat
      /\ Len(connecting(p)) = m
  BY <1>1, LayoutFacts, Drivers
<1>3. answered[p] = Above(p)
  <2>1. answered[p] \in SUBSET Above(p) /\ Cardinality(answered[p]) = m
    BY <1>2 DEF CallInv, Connected
  <2>. QED  BY <1>2, <2>1, FS_Subset
<1>4. \A x \in Above(p) : x - p - 1 \in 0 .. m - 1 /\ slots[p][x - p - 1] = x
  BY <1>1, <1>3 DEF CallInv
<1>5. Above(p) \subseteq p + 1 .. p + m
  <2>1. ASSUME NEW x \in Above(p) PROVE x \in p + 1 .. p + m
    <3>1. x \in Int /\ x - p - 1 \in 0 .. m - 1
      BY <1>2, <1>4
    <3>. QED  BY <1>2, <3>1
  <2>. QED  BY <2>1
<1>6. Above(p) = p + 1 .. p + m
  <2>1. IsFiniteSet(p + 1 .. p + 1 + m - 1) /\ Cardinality(p + 1 .. p + 1 + m - 1) = m
    <3>1. m \in Nat /\ p + 1 \in Int
      BY <1>2
    <3>. QED  BY <3>1, Sizes, Zenon
  <2>2. p + 1 + m - 1 = p + m
    BY <1>2
  <2>. HIDE DEF m
  <2>3. Above(p) \in SUBSET (p + 1 .. p + m) /\ Cardinality(Above(p)) = m
    BY <1>5 DEF m
  <2>. QED  BY <2>1, <2>2, <2>3, FS_Subset
<1>7. ASSUME NEW i \in 0 .. m - 1
      PROVE  i \in DOMAIN slots[p] /\ slots[p][i] = p + 1 + i
  <2>1. p + 1 + i \in Above(p) /\ (p + 1 + i) - p - 1 = i
    BY <1>2, <1>6
  <2>. QED  BY <1>1, <1>4, <2>1
<1>. QED  BY <1>6, <1>7

\* What the drivers returned is, in order, what the addresses say: the
\* connections that spawn_threads matches with them.
LEMMA DriversAgree ==
    ASSUME TypeOK, CallInv, NEW p \in Processes, phase[p] = "network", Connected(p)
    PROVE  dialed[p] \o Among(slots[p], Processes) = InOrder(net_peers(p))
<1> DEFINE m == Cardinality(Above(p))
           n == Cardinality(Below(p))
           filled == {i \in DOMAIN slots[p] : slots[p][i] \in Processes}
           taken == [k \in 1 .. Cardinality(filled) |-> slots[p][InOrder(filled)[k]]]
<1>1. /\ layout \in Layouts /\ DOMAIN slots[p] = 0 .. m - 1
      /\ dialed[p] \in Seq(Below(p))
  BY DEF TypeOK
<1>2. /\ m \in Nat /\ n \in Nat /\ p \in Nat
      /\ Enumerates(accepting(p), Below(p)) /\ accepting(p) \in Seq(Below(p))
      /\ Len(accepting(p)) = n /\ Below(p) \in SUBSET Int /\ None \notin Processes
      /\ IsFiniteSet(Below(p)) /\ IsFiniteSet(Above(p))
      /\ net_peers(p) = Below(p) \cup Above(p) /\ Above(p) \subseteq Processes
      /\ net_peers(p) \in SUBSET Int /\ IsFiniteSet(net_peers(p))
  BY <1>1, LayoutFacts, Drivers
<1>3. /\ Above(p) = p + 1 .. p + m
      /\ \A i \in 0 .. m - 1 : i \in DOMAIN slots[p] /\ slots[p][i] = p + 1 + i
  BY AllAnswered
<1>4. filled = 0 .. m - 1
  <2>1. ASSUME NEW i \in 0 .. m - 1 PROVE slots[p][i] \in Processes
    <3>1. p + 1 + i \in Above(p)
      BY <1>2, <1>3
    <3>. QED  BY <1>2, <1>3, <3>1
  <2>. QED  BY <1>1, <2>1
<1>5. Cardinality(filled) = m /\ IsFiniteSet(filled) /\ filled \in SUBSET Int
  <2>1. 0 + m - 1 = m - 1
    BY <1>2
  <2>2. IsFiniteSet(0 .. m - 1) /\ Cardinality(0 .. m - 1) = m
    <3>1. m \in Nat /\ 0 \in Int
      BY <1>2
    <3>2. IsFiniteSet(0 .. 0 + m - 1) /\ Cardinality(0 .. 0 + m - 1) = m
      BY <3>1, Sizes, Zenon
    <3>. QED  BY <2>1, <3>2, Zenon
  <2> HIDE DEF filled
  <2>. QED  BY <1>2, <1>4, <2>2
<1>6. \A k \in 1 .. m : InOrder(filled)[k] = k - 1
  <2> DEFINE e == [k \in 1 .. m |-> k - 1]
  <2> HIDE DEF filled
  <2>1. Enumerates(InOrder(filled), filled)
    BY <1>5, InOrderEnumerates
  <2>2. Enumerates(e, filled)
    BY <1>2, <1>4, <1>5 DEF Enumerates, Increasing
  <2>3. InOrder(filled) = e
    <3> HIDE DEF e
    <3>. QED  BY <1>5, <2>1, <2>2, OrderUnique
  <2>. QED  BY <2>3
<1>7. taken = [k \in 1 .. m |-> p + k]
  <2>1. \A k \in 1 .. m : slots[p][InOrder(filled)[k]] = p + k
    <3> HIDE DEF filled
    <3>1. ASSUME NEW k \in 1 .. m PROVE slots[p][InOrder(filled)[k]] = p + k
      <4>1. k - 1 \in 0 .. m - 1 /\ p + 1 + (k - 1) = p + k
        BY <1>2
      <4>. QED  BY <1>3, <1>6, <4>1
    <3>. QED  BY <3>1
  <2> HIDE DEF filled
  <2>. QED  BY <1>5, <2>1
<1>8. dialed[p] = accepting(p)
  <2>1. Len(dialed[p]) = Len(accepting(p))
    BY DEF Connected
  <2>2. \A i \in 1 .. Len(dialed[p]) : dialed[p][i] = accepting(p)[i]
    BY DEF CallInv
  <2>. QED  BY <1>1, <1>2, <2>1, <2>2
<1> DEFINE c == accepting(p) \o [k \in 1 .. m |-> p + k]
<1>9. Cardinality(net_peers(p)) = n + m
  <2>1. Below(p) \cap Above(p) = {}
    BY <1>2 DEF Below, Above
  <2>. QED  BY <1>2, <2>1, Sizes
<1>10. /\ c \in [1 .. n + m -> net_peers(p)]
       /\ \A i \in 1 .. n : c[i] = accepting(p)[i]
       /\ \A i \in n + 1 .. n + m : c[i] = p + (i - n)
  <2>1. [k \in 1 .. m |-> p + k] \in Seq(Above(p)) /\ Len([k \in 1 .. m |-> p + k]) = m
    <3> DEFINE t == [k \in 1 .. m |-> p + k]
    <3>1. ASSUME NEW k \in 1 .. m PROVE p + k \in Above(p)
      BY <1>2, <1>3
    <3>2. t \in [1 .. m -> Above(p)]
      BY <3>1
    <3>3. m \in Nat
      BY <1>2
    <3> HIDE DEF t, m
    <3>4. t \in Seq(Above(p)) /\ Len(t) = m
      BY <3>2, <3>3
    <3>. QED  BY <3>4 DEF t
  <2>2. c \in Seq(net_peers(p)) /\ Len(c) = n + m
    BY <1>2, <2>1
  <2>3. c \in [1 .. n + m -> net_peers(p)]
    <3> HIDE DEF c
    <3>. QED  BY <2>2
  <2>4. \A i \in 1 .. n : c[i] = accepting(p)[i]
    BY <1>2, <2>1
  <2>5. ASSUME NEW i \in n + 1 .. n + m PROVE c[i] = p + (i - n)
    <3>1. i \in Nat /\ i - n \in 1 .. m /\ i > n
      BY <1>2
    <3>2. ASSUME NEW s, NEW t, s \in Seq(Int), t \in Seq(Int), Len(s) = n, Len(t) = m
          PROVE  (s \o t)[i] = t[i - n]
      BY <1>2, <3>1, <3>2
    <3>3. [k \in 1 .. m |-> p + k] \in Seq(Int) /\ accepting(p) \in Seq(Int)
      BY <1>2, <2>1
    <3>4. c[i] = [k \in 1 .. m |-> p + k][i - n]
      BY <1>2, <2>1, <3>2, <3>3
    <3>. QED  BY <3>1, <3>4
  <2>. QED  BY <2>3, <2>4, <2>5
<1>11. Increasing(c)
  <2>1. SUFFICES ASSUME NEW i \in 1 .. n + m, NEW j \in 1 .. n + m, i < j
                 PROVE  c[i] < c[j]
    BY <1>10 DEF Increasing
  <2> HIDE DEF c
  <2>2. CASE j <= n
    <3>1. i \in 1 .. n /\ j \in 1 .. n
      BY <1>2, <2>1, <2>2
    <3>2. accepting(p)[i] < accepting(p)[j]
      BY <1>2, <2>1, <3>1 DEF Enumerates, Increasing
    <3>. QED  BY <1>10, <3>1, <3>2
  <2>3. CASE i <= n /\ j > n
    <3>1. i \in 1 .. n /\ j \in n + 1 .. n + m
      BY <1>2, <2>1, <2>3
    <3>2. accepting(p)[i] \in Below(p)
      BY <1>2, <3>1
    <3>3. accepting(p)[i] < p /\ accepting(p)[i] \in Int
      BY <1>2, <3>2 DEF Below
    <3>. QED  BY <1>2, <1>10, <3>1, <3>3
  <2>4. CASE i > n
    <3>1. i \in n + 1 .. n + m /\ j \in n + 1 .. n + m
      BY <1>2, <2>1, <2>4
    <3>. QED  BY <1>2, <1>10, <2>1, <3>1
  <2>. QED  BY <1>2, <2>1, <2>2, <2>3, <2>4
<1>12. c = InOrder(net_peers(p))
  <2>1. Enumerates(c, net_peers(p))
    BY <1>9, <1>10, <1>11 DEF Enumerates
  <2>2. Enumerates(InOrder(net_peers(p)), net_peers(p))
    BY <1>2, InOrderEnumerates
  <2> HIDE DEF c
  <2>. QED  BY <1>2, <2>1, <2>2, OrderUnique
<1>13. Among(slots[p], Processes) = taken
  BY Zenon DEF Among, Selected
<1>. QED  BY <1>7, <1>8, <1>12, <1>13

\* spawn_threads takes every connection for what it is, and finds one for each address.
LEMMA CallSpawn ==
    ASSUME TypeOK, CallInv, NEW p \in Processes, spawn_threads(p)
    PROVE  CallInv'
<1> DEFINE connections == dialed[p] \o Among(slots[p], Processes)
           addresses == InOrder(net_peers(p))
<1>1. /\ phase[p] = "network" /\ Connected(p) /\ layout' = layout
      /\ UNCHANGED <<answered, dialed, slots>>
      /\ \/ Len(connections) < Len(addresses) /\ phase' = [phase EXCEPT ![p] = "panicked"]
            /\ UNCHANGED link
         \/ phase' = [phase EXCEPT ![p] = "running"]
            /\ link' = [link EXCEPT ![p] =
                   [q \in net_peers(p) |->
                       connections[CHOOSE k \in DOMAIN addresses : addresses[k] = q]]]
  BY Zenon DEF spawn_threads, Phase, call_vars
<1>2. /\ Processes' = Processes
      /\ \A q : /\ net_peers(q)' = net_peers(q) /\ Above(q)' = Above(q)
                /\ accepting(q)' = accepting(q)
  BY <1>1, LayoutStays
<1>3. phase \in [Processes -> Phases] /\ DOMAIN link = Processes /\ layout \in Layouts
  BY DEF TypeOK
<1>4. connections = addresses
  BY <1>1, DriversAgree
<1>5. net_peers(p) \in SUBSET Int /\ IsFiniteSet(net_peers(p))
  BY <1>3, LayoutFacts
<1>6. /\ Enumerates(addresses, net_peers(p)) /\ Len(addresses) \in Nat
      /\ addresses \in Seq(net_peers(p)) /\ Len(addresses) = Cardinality(net_peers(p))
  BY <1>5, InOrderEnumerates
<1> HIDE DEF connections, addresses
<1>7. ASSUME NEW q \in net_peers(p)
      PROVE  connections[CHOOSE k \in DOMAIN addresses : addresses[k] = q] = q
  <2>1. \E k \in DOMAIN addresses : addresses[k] = q
    <3>1. \A x \in net_peers(p) : \E i \in 1 .. Cardinality(net_peers(p)) : addresses[i] = x
      BY <1>5, <1>6, OrderComplete
    <3>2. DOMAIN addresses = 1 .. Cardinality(net_peers(p))
      BY <1>6
    <3>. QED  BY <3>1, <3>2
  <2>. QED  BY <1>4, <2>1
<1>8. /\ phase' = [phase EXCEPT ![p] = "running"]
      /\ link' = [link EXCEPT ![p] =
             [q \in net_peers(p) |->
                 connections[CHOOSE k \in DOMAIN addresses : addresses[k] = q]]]
  BY <1>1, <1>4, <1>6
<1>9. \A i \in net_peers(p) : link'[p][i] = i
  BY <1>3, <1>7, <1>8
<1>10. \A q \in Processes \ {p} : link'[q] = link[q] /\ phase'[q] = phase[q]
  BY <1>3, <1>8
<1>11. UNCHANGED <<answered, dialed, slots>> /\ phase[p] = "network"
  BY <1>1, Zenon
<1>. QED  BY <1>2, <1>9, <1>10, <1>11 DEF CallInv

\* A call goes to the next process below, and is noted in that place.
LEMMA CallOut ==
    ASSUME TypeOK, CallInv, NEW p \in Processes, start_connections_tcp(p) \/ handshake(p)
    PROVE  CallInv'
<1>1. /\ UNCHANGED <<layout, phase, answered, slots, link>>
      /\ \/ UNCHANGED dialed
         \/ \E q \in Processes : Callee(p, q) /\ dialed' = [dialed EXCEPT ![p] = Append(@, q)]
  BY DEF start_connections_tcp, handshake
<1>2. /\ Processes' = Processes
      /\ \A q : /\ net_peers(q)' = net_peers(q) /\ Above(q)' = Above(q)
                /\ accepting(q)' = accepting(q)
  BY <1>1, LayoutStays
<1>3. CASE UNCHANGED dialed
  BY <1>1, <1>2, <1>3 DEF CallInv
<1>4. ASSUME NEW q \in Processes, Callee(p, q), dialed' = [dialed EXCEPT ![p] = Append(@, q)]
      PROVE  CallInv'
  <2>1. /\ DOMAIN dialed = Processes /\ dialed[p] \in Seq(Below(p)) /\ layout \in Layouts
    BY DEF TypeOK
  <2>2. /\ Len(dialed[p]) < Len(accepting(p)) /\ q = accepting(p)[Len(dialed[p]) + 1]
    BY <1>4 DEF Callee
  <2>3. accepting(p) \in Seq(Below(p)) /\ q \in Below(p)
    BY <1>4, <2>1, Drivers, CalleeExpects
  <2>4. dialed'[p] = Append(dialed[p], q) /\ \A r \in Processes \ {p} : dialed'[r] = dialed[r]
    BY <1>4, <2>1
  <2>5. /\ Len(dialed'[p]) <= Len(accepting(p))
        /\ \A i \in 1 .. Len(dialed'[p]) : dialed'[p][i] = accepting(p)[i]
    <3>1. \A i \in 1 .. Len(dialed[p]) : dialed[p][i] = accepting(p)[i]
      BY DEF CallInv
    <3>. QED  BY <2>1, <2>2, <2>3, <2>4, <3>1
  <2>. QED  BY <1>1, <1>2, <2>4, <2>5, SMTT(30) DEF CallInv
<1>. QED  BY <1>1, <1>3, <1>4

\* An accepted call is put in the slot of its index, or there is none and p panics.
LEMMA CallIn ==
    ASSUME TypeOK, CallInv, NEW p \in Processes, accept(p)
    PROVE  CallInv'
<1> DEFINE x == Head(backlog[p])
<1>1. /\ UNCHANGED <<layout, dialed, link>> /\ phase[p] = "network"
      /\ answered' = [answered EXCEPT ![p] = @ \cup {x}]
      /\ \/ x - p - 1 \in DOMAIN slots[p] /\ UNCHANGED phase
            /\ slots' = [slots EXCEPT ![p] = [slots[p] EXCEPT ![x - p - 1] = x]]
         \/ phase' = [phase EXCEPT ![p] = "panicked"] /\ UNCHANGED slots
  BY DEF accept, place
<1>2. /\ Processes' = Processes
      /\ \A q : /\ net_peers(q)' = net_peers(q) /\ Above(q)' = Above(q)
                /\ accepting(q)' = accepting(q)
  BY <1>1, LayoutStays
<1>3. /\ phase \in [Processes -> Phases] /\ layout \in Layouts
      /\ answered \in [Processes -> SUBSET Processes] /\ DOMAIN slots = Processes
  BY DEF TypeOK
<1>4. x \in Above(p)
  BY DEF accept, TypeOK
<1>5. \A y \in Above(p) : y \in Int /\ p \in Int
  BY <1>3, LayoutFacts
<1>6. answered'[p] = answered[p] \cup {x} /\ answered[p] \subseteq Above(p)
      /\ \A q \in Processes \ {p} : answered'[q] = answered[q]
  BY <1>1, <1>3 DEF CallInv
<1> HIDE DEF x
<1>7. CASE x - p - 1 \in DOMAIN slots[p] /\ UNCHANGED phase
           /\ slots' = [slots EXCEPT ![p] = [slots[p] EXCEPT ![x - p - 1] = x]]
  <2>1. \A q \in Processes \ {p} : slots'[q] = slots[q]
    BY <1>3, <1>7
  <2>2. slots'[p] = [slots[p] EXCEPT ![x - p - 1] = x]
    BY <1>3, <1>7
  <2>3. ASSUME NEW y \in answered'[p]
        PROVE  y - p - 1 \in DOMAIN slots'[p] /\ slots'[p][y - p - 1] = y
    <3>1. CASE y = x
      BY <1>7, <2>2, <3>1
    <3>2. CASE y # x
      <4>1. y \in answered[p] /\ y - p - 1 \in DOMAIN slots[p] /\ slots[p][y - p - 1] = y
        BY <1>1, <1>6, <3>2 DEF CallInv
      <4>2. y - p - 1 # x - p - 1
        BY <1>4, <1>5, <1>6, <3>2, <4>1
      <4>. QED  BY <2>2, <4>1, <4>2
    <3>. QED  BY <3>1, <3>2
  <2>. QED  BY <1>1, <1>2, <1>4, <1>6, <1>7, <2>1, <2>3 DEF CallInv
<1>8. CASE phase' = [phase EXCEPT ![p] = "panicked"] /\ UNCHANGED slots
  <2>1. phase'[p] = "panicked" /\ \A q \in Processes \ {p} : phase'[q] = phase[q]
    BY <1>3, <1>8
  <2>. QED  BY <1>1, <1>2, <1>4, <1>6, <1>8, <2>1 DEF CallInv
<1>. QED  BY <1>1, <1>7, <1>8

\* All other steps leave the connections as they are.
LEMMA CallOthers ==
    ASSUME TypeOK, CallInv, NEW p \in Processes,
           \/ open_services(p) \/ ipc_assembly(p) \/ await_seats(p) \/ bind(p)
           \/ inbox_thread(p) \/ send_thread(p) \/ recv_thread(p)
           \/ join_workers(p) \/ join_comms(p)
           \/ \E w \in Workers : build(p, w) \/ allocate(p, w) \/ worker_ends(p, w)
    PROVE  CallInv'
<1>1. UNCHANGED <<layout, answered, dialed, slots, link>>
  BY DEF open_services, ipc_assembly, await_seats, bind, inbox_thread, send_thread, recv_thread,
         join_workers, join_comms, build, allocate, worker_ends, call_vars
<1>2. /\ Processes' = Processes
      /\ \A q : /\ net_peers(q)' = net_peers(q) /\ Above(q)' = Above(q)
                /\ accepting(q)' = accepting(q)
  BY <1>1, LayoutStays
<1>3. phase \in [Processes -> Phases]
  BY DEF TypeOK
<1>4. \/ UNCHANGED phase
      \/ \E s : phase' = [phase EXCEPT ![p] = s] /\ s \in {"assembly", "seats", "network"}
                /\ phase[p] \in {"start", "assembly", "seats"}
      \/ \E s : phase' = [phase EXCEPT ![p] = s] /\ s \in {"joining", "joined"}
                /\ phase[p] \in {"running", "joining"}
  <2>1. CASE open_services(p)
    BY <2>1 DEF open_services, Phase
  <2>2. CASE ipc_assembly(p) \/ await_seats(p)
    BY <2>2 DEF ipc_assembly, await_seats, Phase
  <2>3. CASE join_workers(p) \/ join_comms(p)
    BY <2>3 DEF join_workers, join_comms, Phase
  <2>4. CASE \/ bind(p) \/ inbox_thread(p) \/ send_thread(p) \/ recv_thread(p)
             \/ \E w \in Workers : build(p, w) \/ allocate(p, w) \/ worker_ends(p, w)
    BY <2>4 DEF bind, inbox_thread, send_thread, recv_thread, build, allocate, worker_ends
  <2>. QED  BY <2>1, <2>2, <2>3, <2>4
<1>. QED  BY <1>1, <1>2, <1>3, <1>4 DEF CallInv

\* Every connection is taken for what it is, at both ends, for any number of
\* processes on any hosts and whatever order the calls come in: the acceptor's
\* slots, the list of addresses and the promises are in the same order.
THEOREM WiredHolds == Spec => []Wired
<1>1. Init => CallInv
  <2>1. SUFFICES ASSUME Init PROVE CallInv
    OBVIOUS
  <2>2. \A p \in Processes : Len(accepting(p)) \in Nat
    BY <2>1, Drivers DEF Init
  <2>. QED  BY <2>1, <2>2 DEF Init, CallInv
<1>2. ASSUME TypeOK, CallInv, [Next]_vars PROVE CallInv'
  <2>1. CASE Rest \/ UNCHANGED vars
    BY <1>2, <2>1, LayoutStays DEF Rest, vars, CallInv
  <2>2. ASSUME NEW p \in Processes, try_build_with(p)
        PROVE  start_connections_tcp(p) \/ handshake(p) \/ bind(p) \/ accept(p)
    BY <2>2 DEF try_build_with, await_connections_tcp, start_connections_tls,
                await_connections_tls, start_connections_quic, await_connections_quic
  <2>3. ASSUME NEW p \in Processes, connect(p)
        PROVE  open_services(p) \/ ipc_assembly(p) \/ await_seats(p) \/ spawn_threads(p)
    BY <2>3 DEF connect
  <2>. QED  BY <1>2, <2>1, <2>2, <2>3, CallSpawn, CallOut, CallIn, CallOthers DEF Next
<1>3. CallInv => Wired
  BY DEF CallInv, Wired
<1>. QED  BY <1>1, <1>2, <1>3, TypeCorrect, PTL DEF Spec

-----------------------------------------------------------------------------
(* The worker loop.                                                         *)

\* The invariant holds before anything is built.
LEMMA InitInductive == WorkerInit => SchedulingInv
  BY DEF WorkerInit, SchedulingInv, WorkerTypes, MessagesKnown, RequestsKept, WakeupsKept,
         StepInOrder, OneTarget, Installed, Asleep, EventComing, WakeupComing

-----------------------------------------------------------------------------
(* Every action preserves the invariant, conjunct by conjunct.              *)

\* dataflow_core preserves the invariant.
LEMMA BuildInductive ==
  ASSUME SchedulingInv, NEW w \in Peers, dataflow_core(w)
  PROVE  SchedulingInv'
  <1>1. WorkerTypes'
    BY DEF SchedulingInv, WorkerTypes, Push, Stages, dataflow_core
  <1>2. MessagesKnown'
    BY DEF SchedulingInv, WorkerTypes, MessagesKnown, StepInOrder, Installed, EventComing,
           dataflow_core
  <1>3. RequestsKept'
    BY DEF SchedulingInv, WorkerTypes, RequestsKept, StepInOrder, Installed, dataflow_core
  <1>4. WakeupsKept'
    BY DEF SchedulingInv, WorkerTypes, WakeupsKept, StepInOrder, OneTarget, WakeupComing,
           dataflow_core
  <1>5. StepInOrder' /\ OneTarget'
    BY DEF SchedulingInv, WorkerTypes, StepInOrder, OneTarget, Asleep, dataflow_core
  <1> QED BY <1>1, <1>2, <1>3, <1>4, <1>5 DEF SchedulingInv

\* Dropping a dataflow preserves the invariant: its channels need no wake-up any more.
LEMMA DropInductive ==
  ASSUME SchedulingInv, NEW w \in Peers, drop_dataflow(w)
  PROVE  SchedulingInv'
  <1>1. WorkerTypes'
    BY DEF SchedulingInv, WorkerTypes, Push, Stages, drop_dataflow, InCode
  <1>2. MessagesKnown'
    BY DEF SchedulingInv, WorkerTypes, MessagesKnown, StepInOrder, Installed, EventComing,
           drop_dataflow, InCode
  <1>3. RequestsKept'
    BY DEF SchedulingInv, WorkerTypes, RequestsKept, StepInOrder, Installed, drop_dataflow,
           InCode
  <1>4. WakeupsKept'
    BY DEF SchedulingInv, WorkerTypes, WakeupsKept, StepInOrder, OneTarget, WakeupComing,
           drop_dataflow, InCode
  <1>5. StepInOrder' /\ OneTarget'
    BY DEF SchedulingInv, WorkerTypes, StepInOrder, OneTarget, Asleep, drop_dataflow, InCode
  <1> QED BY <1>1, <1>2, <1>3, <1>4, <1>5 DEF SchedulingInv

\* A push to the same worker preserves the invariant: the event is pushed with the message.
LEMMA PushLocalInductive ==
  ASSUME SchedulingInv, NEW w \in Peers, NEW c \in Channels, PushLocal(w, c)
  PROVE  SchedulingInv'
  <1>1. WorkerTypes'
    <2>1. data' \in [Peers -> [Channels -> Nat]] /\ pushed' \in Nat
      <3>1. CASE dataflow[w] = "removed"
        BY <3>1 DEF SchedulingInv, WorkerTypes, PushLocal, Enqueue
      <3>2. CASE dataflow[w] # "removed"
        BY <3>2 DEF SchedulingInv, WorkerTypes, PushLocal, Enqueue
      <3> QED BY <3>1, <3>2
    <2>2. push' \in [Peers -> SUBSET Push]
      BY DEF SchedulingInv, WorkerTypes, Push, Stages, PushLocal
    <2> QED BY <2>1, <2>2 DEF SchedulingInv, WorkerTypes, PushLocal
  <1>2. MessagesKnown'
    BY DEF SchedulingInv, WorkerTypes, MessagesKnown, StepInOrder, Installed, EventComing,
           PushLocal, InCode, Enqueue
  <1>3. RequestsKept'
    BY DEF SchedulingInv, WorkerTypes, RequestsKept, StepInOrder, Installed, PushLocal,
           InCode, Enqueue
  <1>4. WakeupsKept'
    BY DEF SchedulingInv, WorkerTypes, WakeupsKept, StepInOrder, OneTarget, WakeupComing,
           PushLocal, InCode, Enqueue
  <1>5. StepInOrder' /\ OneTarget'
    BY DEF SchedulingInv, WorkerTypes, StepInOrder, OneTarget, Asleep, PushLocal, InCode, Enqueue
  <1> QED BY <1>1, <1>2, <1>3, <1>4, <1>5 DEF SchedulingInv

\* The data part of a push to another thread comes before its event.
LEMMA PushDataInductive ==
  ASSUME SchedulingInv, NEW w \in Peers, NEW v \in Peers, NEW c \in Channels, PushData(w, v, c)
  PROVE  SchedulingInv'
  <1>1. WorkerTypes'
    <2>1. data' \in [Peers -> [Channels -> Nat]] /\ pushed' \in Nat
      <3>1. CASE dataflow[v] = "removed"
        BY <3>1 DEF SchedulingInv, WorkerTypes, PushData, Enqueue
      <3>2. CASE dataflow[v] # "removed"
        BY <3>2 DEF SchedulingInv, WorkerTypes, PushData, Enqueue
      <3> QED BY <3>1, <3>2
    <2>2. push' \in [Peers -> SUBSET Push]
      BY DEF SchedulingInv, WorkerTypes, Push, Stages, PushData
    <2> QED BY <2>1, <2>2 DEF SchedulingInv, WorkerTypes, PushData
  <1>2. MessagesKnown'
    BY DEF SchedulingInv, WorkerTypes, MessagesKnown, StepInOrder, Installed, EventComing,
           PushData, InCode, Enqueue
  <1>3. RequestsKept'
    BY DEF SchedulingInv, WorkerTypes, RequestsKept, StepInOrder, Installed, PushData,
           InCode, Enqueue
  <1>4. WakeupsKept'
    BY DEF SchedulingInv, WorkerTypes, WakeupsKept, StepInOrder, OneTarget, WakeupComing,
           PushData, InCode, Enqueue
  <1>5. StepInOrder' /\ OneTarget'
    BY DEF SchedulingInv, WorkerTypes, StepInOrder, OneTarget, Asleep, PushData, InCode, Enqueue
  <1> QED BY <1>1, <1>2, <1>3, <1>4, <1>5 DEF SchedulingInv

\* The event part of a push, and the buzz after it, preserve the invariant.
LEMMA SignalInductive ==
  ASSUME SchedulingInv, NEW w \in Peers, Signal(w)
  PROVE  SchedulingInv'
  <1>1. PICK p \in push[w] :
          \/ /\ p.stage = "event"
             /\ counters' = [counters EXCEPT ![p.to] = @ \cup {p.channel}]
             /\ push' = [push EXCEPT ![w] = {[p EXCEPT !.stage = "buzz"]}]
             /\ UNCHANGED token
          \/ /\ p.stage = "buzz"
             /\ token' = [token EXCEPT ![p.to] = TRUE]
             /\ push' = [push EXCEPT ![w] = {}]
             /\ UNCHANGED counters
    BY DEF Signal
  <1>2. push[w] = {p} /\ p \in Push
    BY DEF SchedulingInv, WorkerTypes, StepInOrder
  <1>3. UNCHANGED <<pc, dataflow, data, events, fresh, todo, rx, queue, due, unpark,
                    owed, pushed, requested>>
    BY DEF Signal
  <1>4. p = [to |-> p.to, channel |-> p.channel, stage |-> p.stage]
        /\ p.to \in Peers /\ p.channel \in Channels
    BY <1>2 DEF Push
  <1>5. CASE p.stage = "event"
    <2> DEFINE q == [to |-> p.to, channel |-> p.channel, stage |-> "buzz"]
    <2>1. [p EXCEPT !.stage = "buzz"] = q /\ q \in Push
      BY <1>4 DEF Push, Stages
    <2>2. /\ counters' = [counters EXCEPT ![p.to] = counters[p.to] \cup {p.channel}]
          /\ push' = [push EXCEPT ![w] = {q}]
          /\ token' = token
      BY <1>1, <1>5, <2>1
    <2> HIDE DEF q
    <2>3. WorkerTypes'
      BY <1>3, <1>4, <2>1, <2>2 DEF SchedulingInv, WorkerTypes
    <2>4. \A x \in Peers, c \in Channels :
             EventComing(x, c) => EventComing(x, c)' \/ c \in counters'[x]
      <3> SUFFICES ASSUME NEW x \in Peers, NEW c \in Channels, EventComing(x, c),
                          c \notin counters'[x]
                   PROVE  EventComing(x, c)'
        OBVIOUS
      <3>1. PICK v \in Peers : [to |-> x, channel |-> c, stage |-> "event"] \in push[v]
        BY DEF EventComing
      <3>2. v # w
        <4>1. SUFFICES ASSUME v = w PROVE FALSE
          OBVIOUS
        <4>2. p.to = x /\ p.channel = c
          BY <1>2, <3>1, <4>1
        <4> QED BY <2>2, <4>2 DEF SchedulingInv, WorkerTypes
      <3> QED BY <2>2, <3>1, <3>2 DEF SchedulingInv, WorkerTypes, EventComing
    <2>5. MessagesKnown'
      <3>1. \A x \in Peers : counters[x] \subseteq counters'[x]
        BY <1>4, <2>2 DEF SchedulingInv, WorkerTypes
      <3> QED BY <1>3, <2>4, <3>1 DEF SchedulingInv, MessagesKnown, Installed
    <2>6. WakeupComing(p.to)'
      <3>1. q \in push'[w]
        BY <2>2 DEF SchedulingInv, WorkerTypes
      <3> QED BY <1>4, <3>1 DEF WakeupComing, q
    <2>7. \A x \in Peers : WakeupComing(x) => WakeupComing(x)'
      <3> SUFFICES ASSUME NEW x \in Peers, WakeupComing(x)
                   PROVE  WakeupComing(x)'
        OBVIOUS
      <3>1. ASSUME NEW v \in Peers, NEW c \in Channels,
                   [to |-> x, channel |-> c, stage |-> "buzz"] \in push[v]
            PROVE  [to |-> x, channel |-> c, stage |-> "buzz"] \in push'[v]
        <4>1. v # w
          BY <1>2, <1>5, <3>1
        <4> QED BY <2>2, <3>1, <4>1 DEF SchedulingInv, WorkerTypes
      <3> QED BY <1>3, <2>2, <3>1 DEF WakeupComing
    <2>8. WakeupsKept'
      <3>1. \A x \in Peers : x # p.to => counters'[x] = counters[x]
        BY <1>4, <2>2 DEF SchedulingInv, WorkerTypes
      <3> QED BY <1>3, <2>6, <2>7, <3>1 DEF SchedulingInv, WakeupsKept
    <2>9. RequestsKept'
      BY <1>3 DEF SchedulingInv, RequestsKept, Installed
    <2>10. StepInOrder' /\ OneTarget'
      <3>1. \A x \in Peers : x # w => push'[x] = push[x]
        BY <2>2 DEF SchedulingInv, WorkerTypes
      <3>2. \A x \in Peers : \A r, s \in push'[x] : r = s
        <4>1. \A r, s \in push'[w] : r = s
          BY <2>2 DEF SchedulingInv, WorkerTypes
        <4>2. \A x \in Peers : \A r, s \in push[x] : r = s
          BY DEF SchedulingInv, StepInOrder
        <4> QED BY <3>1, <4>1, <4>2
      <3>3. \A x \in Peers : push'[x] # {} => pc[x] \in {"user", "run"}
        <4>1. \A x \in Peers : push[x] # {} => pc[x] \in {"user", "run"}
          BY DEF SchedulingInv, StepInOrder
        <4>2. push[w] # {}
          BY <1>2
        <4> QED BY <3>1, <4>1, <4>2
      <3> QED BY <1>3, <3>2, <3>3 DEF SchedulingInv, StepInOrder, OneTarget, Asleep
    <2> QED BY <2>3, <2>5, <2>8, <2>9, <2>10 DEF SchedulingInv
  <1>6. CASE p.stage = "buzz"
    <2>1. /\ token' = [token EXCEPT ![p.to] = TRUE]
          /\ push' = [push EXCEPT ![w] = {}]
          /\ counters' = counters
      BY <1>1, <1>6
    <2>2. WorkerTypes'
      BY <1>3, <1>4, <2>1 DEF SchedulingInv, WorkerTypes
    <2>3. \A x \in Peers, c \in Channels : EventComing(x, c) => EventComing(x, c)'
      <3> SUFFICES ASSUME NEW x \in Peers, NEW c \in Channels, NEW v \in Peers,
                          [to |-> x, channel |-> c, stage |-> "event"] \in push[v]
                   PROVE  EventComing(x, c)'
        BY DEF EventComing
      <3>1. v # w
        BY <1>2, <1>6
      <3> QED BY <2>1, <3>1 DEF SchedulingInv, WorkerTypes, EventComing
    <2>4. MessagesKnown'
      BY <1>3, <2>1, <2>3 DEF SchedulingInv, MessagesKnown, Installed
    <2>5. \A x \in Peers : WakeupComing(x) => WakeupComing(x)'
      <3> SUFFICES ASSUME NEW x \in Peers, WakeupComing(x), ~ token'[x]
                   PROVE  WakeupComing(x)'
        BY DEF WakeupComing
      <3>1. x # p.to /\ ~ token[x]
        BY <1>4, <2>1 DEF SchedulingInv, WorkerTypes
      <3>2. ASSUME NEW v \in Peers, NEW c \in Channels,
                   [to |-> x, channel |-> c, stage |-> "buzz"] \in push[v]
            PROVE  [to |-> x, channel |-> c, stage |-> "buzz"] \in push'[v]
        <4>1. v # w
          BY <1>2, <3>1, <3>2
        <4> QED BY <2>1, <3>2, <4>1 DEF SchedulingInv, WorkerTypes
      <3> QED BY <1>3, <3>1, <3>2 DEF WakeupComing
    <2>6. WakeupsKept'
      BY <1>3, <2>1, <2>5 DEF SchedulingInv, WakeupsKept
    <2>7. RequestsKept'
      BY <1>3 DEF SchedulingInv, RequestsKept, Installed
    <2>8. StepInOrder' /\ OneTarget'
      BY <1>3, <2>1 DEF SchedulingInv, WorkerTypes, StepInOrder, OneTarget, Asleep
    <2> QED BY <2>2, <2>4, <2>6, <2>7, <2>8 DEF SchedulingInv
  <1> QED BY <1>1, <1>5, <1>6

\* Activator::activate keeps the request.
LEMMA ActivateInductive ==
  ASSUME SchedulingInv, NEW w \in Peers, NEW o \in Channels, activate(w, o)
  PROVE  SchedulingInv'
  <1>1. WorkerTypes'
    BY DEF SchedulingInv, WorkerTypes, Push, Stages, activate, InCode, Request
  <1>2. MessagesKnown'
    BY DEF SchedulingInv, WorkerTypes, MessagesKnown, StepInOrder, Installed, EventComing,
           activate, InCode, Request
  <1>3. RequestsKept'
    BY DEF SchedulingInv, WorkerTypes, RequestsKept, StepInOrder, Installed, activate,
           InCode, Request
  <1>4. WakeupsKept'
    BY DEF SchedulingInv, WorkerTypes, WakeupsKept, StepInOrder, OneTarget, WakeupComing,
           activate, InCode, Request
  <1>5. StepInOrder' /\ OneTarget'
    BY DEF SchedulingInv, WorkerTypes, StepInOrder, OneTarget, Asleep, activate, InCode, Request
  <1> QED BY <1>1, <1>2, <1>3, <1>4, <1>5 DEF SchedulingInv

\* activate_after keeps the request in the queue of delayed ones.
LEMMA ActivateAfterInductive ==
  ASSUME SchedulingInv, NEW w \in Peers, NEW o \in Channels, activate_after(w, o)
  PROVE  SchedulingInv'
  <1>1. WorkerTypes'
    BY DEF SchedulingInv, WorkerTypes, Push, Stages, activate_after, InCode, Request
  <1>2. MessagesKnown'
    BY DEF SchedulingInv, WorkerTypes, MessagesKnown, StepInOrder, Installed, EventComing,
           activate_after, InCode, Request
  <1>3. RequestsKept'
    BY DEF SchedulingInv, WorkerTypes, RequestsKept, StepInOrder, Installed, activate_after,
           InCode, Request
  <1>4. WakeupsKept'
    BY DEF SchedulingInv, WorkerTypes, WakeupsKept, StepInOrder, OneTarget, WakeupComing,
           activate_after, InCode, Request
  <1>5. StepInOrder' /\ OneTarget'
    BY DEF SchedulingInv, WorkerTypes, StepInOrder, OneTarget, Asleep, activate_after,
           InCode, Request
  <1> QED BY <1>1, <1>2, <1>3, <1>4, <1>5 DEF SchedulingInv

\* SyncActivator::activate keeps the request, and unparks afterwards.
LEMMA ActivateSyncInductive ==
  ASSUME SchedulingInv, NEW t \in Threads, NEW w \in Peers, NEW o \in Channels, activate_sync(t, w, o)
  PROVE  SchedulingInv'
  <1>1. WorkerTypes'
    BY DEF SchedulingInv, WorkerTypes, Push, Stages, activate_sync, Request
  <1>2. MessagesKnown'
    BY DEF SchedulingInv, WorkerTypes, MessagesKnown, StepInOrder, Installed, EventComing,
           activate_sync, Request
  <1>3. RequestsKept'
    BY DEF SchedulingInv, WorkerTypes, RequestsKept, StepInOrder, Installed, activate_sync,
           Request
  <1>4. WakeupsKept'
    <2>1. WakeupComing(w)'
      BY DEF SchedulingInv, WorkerTypes, WakeupComing, activate_sync
    <2>2. \A x \in Peers : WakeupComing(x) => WakeupComing(x)'
      <3>1. push' = push /\ token' = token /\ \A u \in Threads : unpark[u] \subseteq unpark'[u]
        BY DEF SchedulingInv, WorkerTypes, activate_sync
      <3> QED BY <3>1 DEF WakeupComing
    <2>3. /\ pc' = pc /\ counters' = counters
          /\ \A x \in Peers : x # w => rx'[x] = rx[x]
      BY DEF SchedulingInv, WorkerTypes, activate_sync
    <2> QED BY <2>1, <2>2, <2>3 DEF SchedulingInv, WakeupsKept
  <1>5. StepInOrder' /\ OneTarget'
    BY DEF SchedulingInv, WorkerTypes, StepInOrder, OneTarget, Asleep, activate_sync, Request
  <1> QED BY <1>1, <1>2, <1>3, <1>4, <1>5 DEF SchedulingInv

\* An unpark leaves a token for a worker that is not parked yet.
LEMMA UnparkInductive ==
  ASSUME SchedulingInv, NEW t \in Threads, unpark_thread(t)
  PROVE  SchedulingInv'
  <1>1. WorkerTypes'
    BY DEF SchedulingInv, WorkerTypes, Push, Stages, unpark_thread
  <1>2. MessagesKnown'
    BY DEF SchedulingInv, WorkerTypes, MessagesKnown, StepInOrder, Installed, EventComing,
           unpark_thread
  <1>3. RequestsKept'
    BY DEF SchedulingInv, WorkerTypes, RequestsKept, StepInOrder, Installed, unpark_thread
  <1>4. WakeupsKept'
    <2>1. \A x \in Peers : WakeupComing(x) => WakeupComing(x)'
      <3> SUFFICES ASSUME NEW x \in Peers, WakeupComing(x)
                   PROVE  WakeupComing(x)'
        OBVIOUS
      <3>1. x \in unpark[t] => token'[x]
        BY DEF SchedulingInv, WorkerTypes, OneTarget, unpark_thread
      <3>2. token[x] => token'[x]
        BY DEF SchedulingInv, WorkerTypes, unpark_thread
      <3>3. push' = push /\ \A u \in Threads : u # t => unpark'[u] = unpark[u]
        BY DEF SchedulingInv, WorkerTypes, unpark_thread
      <3> QED BY <3>1, <3>2, <3>3 DEF WakeupComing
    <2> QED BY <2>1 DEF SchedulingInv, WakeupsKept, unpark_thread
  <1>5. StepInOrder' /\ OneTarget'
    BY DEF SchedulingInv, WorkerTypes, StepInOrder, OneTarget, Asleep, unpark_thread
  <1> QED BY <1>1, <1>2, <1>3, <1>4, <1>5 DEF SchedulingInv

\* Time passes.
LEMMA TickInductive ==
  ASSUME SchedulingInv, NEW w \in Peers, NEW o \in Channels, Tick(w, o)
  PROVE  SchedulingInv'
  <1>1. WorkerTypes'
    BY DEF SchedulingInv, WorkerTypes, Push, Stages, Tick
  <1>2. MessagesKnown'
    BY DEF SchedulingInv, WorkerTypes, MessagesKnown, StepInOrder, Installed, EventComing, Tick
  <1>3. RequestsKept'
    BY DEF SchedulingInv, WorkerTypes, RequestsKept, StepInOrder, Installed, Tick
  <1>4. WakeupsKept'
    BY DEF SchedulingInv, WorkerTypes, WakeupsKept, StepInOrder, OneTarget, WakeupComing, Tick
  <1>5. StepInOrder' /\ OneTarget'
    BY DEF SchedulingInv, WorkerTypes, StepInOrder, OneTarget, Asleep, Tick
  <1> QED BY <1>1, <1>2, <1>3, <1>4, <1>5 DEF SchedulingInv

\* A step begins by turning events into activations.
LEMMA ReceiveInductive ==
  ASSUME SchedulingInv, NEW w \in Peers, receive(w)
  PROVE  SchedulingInv'
  <1>1. WorkerTypes'
    BY DEF SchedulingInv, WorkerTypes, Push, Stages, receive
  <1>2. MessagesKnown'
    BY DEF SchedulingInv, WorkerTypes, MessagesKnown, StepInOrder, Installed, EventComing,
           receive
  <1>3. RequestsKept'
    BY DEF SchedulingInv, WorkerTypes, RequestsKept, StepInOrder, Installed, receive
  <1>4. WakeupsKept'
    <2>1. \A x \in Peers : WakeupComing(x) => WakeupComing(x)'
      BY DEF WakeupComing, receive
    <2> QED BY <2>1 DEF SchedulingInv, WorkerTypes, WakeupsKept, StepInOrder, receive
  <1>5. StepInOrder' /\ OneTarget'
    BY DEF SchedulingInv, WorkerTypes, StepInOrder, OneTarget, Asleep, receive
  <1> QED BY <1>1, <1>2, <1>3, <1>4, <1>5 DEF SchedulingInv

\* Activations::advance moves requests, and loses none.
LEMMA AdvanceInductive ==
  ASSUME SchedulingInv, NEW w \in Peers, advance(w)
  PROVE  SchedulingInv'
  <1>1. WorkerTypes'
    BY DEF SchedulingInv, WorkerTypes, Push, Stages, advance, Presented, empty_for
  <1>2. MessagesKnown'
    BY DEF SchedulingInv, WorkerTypes, MessagesKnown, StepInOrder, Installed, EventComing,
           advance, Presented, empty_for
  <1>3. RequestsKept'
    <2>1. \A x \in Peers : x # w => /\ rx'[x] = rx[x] /\ fresh'[x] = fresh[x]
                                      /\ todo'[x] = todo[x] /\ queue'[x] = queue[x]
      BY DEF SchedulingInv, WorkerTypes, advance
    <2>2. /\ queue'[w] = queue[w] \ due[w]
          /\ Installed(w) => todo'[w] = fresh[w] \cup rx[w] \cup due[w]
          /\ todo[w] = {}
      BY SMTT(30) DEF SchedulingInv, WorkerTypes, StepInOrder, Installed, advance, Presented
    <2>3. owed' = owed /\ dataflow' = dataflow
      BY DEF advance
    <2> QED BY <2>1, <2>2, <2>3 DEF SchedulingInv, RequestsKept, Installed
  <1>4. WakeupsKept'
    <2>1. \A x \in Peers : WakeupComing(x) => WakeupComing(x)'
      BY DEF WakeupComing, advance
    <2> QED BY <2>1 DEF SchedulingInv, WorkerTypes, WakeupsKept, StepInOrder, advance
  <1>5. StepInOrder' /\ OneTarget'
    BY DEF SchedulingInv, WorkerTypes, StepInOrder, OneTarget, Asleep, advance, Presented,
           empty_for
  <1> QED BY <1>1, <1>2, <1>3, <1>4, <1>5 DEF SchedulingInv

\* A worker parks only when it found nothing to do.
LEMMA AwaitInductive ==
  ASSUME SchedulingInv, NEW w \in Peers, await_events(w)
  PROVE  SchedulingInv'
  <1>1. WorkerTypes'
    BY DEF SchedulingInv, WorkerTypes, Push, Stages, await_events
  <1>2. MessagesKnown'
    BY DEF SchedulingInv, WorkerTypes, MessagesKnown, StepInOrder, Installed, EventComing,
           await_events
  <1>3. RequestsKept'
    BY DEF SchedulingInv, WorkerTypes, RequestsKept, StepInOrder, Installed, await_events
  <1>4. WakeupsKept'
    <2>1. \A x \in Peers : x # w /\ WakeupComing(x) => WakeupComing(x)'
      BY DEF SchedulingInv, WorkerTypes, WakeupComing, await_events
    <2>2. pc'[w] = "user" /\ \A x \in Peers : x # w => pc'[x] = pc[x]
      BY DEF SchedulingInv, WorkerTypes, await_events
    <2>3. counters' = counters /\ rx' = rx
      BY DEF await_events
    <2> QED BY <2>1, <2>2, <2>3 DEF SchedulingInv, WakeupsKept
  <1>5. StepInOrder' /\ OneTarget'
    BY DEF SchedulingInv, WorkerTypes, StepInOrder, OneTarget, Asleep, await_events
  <1> QED BY <1>1, <1>2, <1>3, <1>4, <1>5 DEF SchedulingInv

\* A dataflow that is scheduled takes its requests and messages.
LEMMA ScheduleInductive ==
  ASSUME SchedulingInv, NEW w \in Peers, NEW o \in Channels, schedule(w, o)
  PROVE  SchedulingInv'
  <1>1. WorkerTypes'
    BY DEF SchedulingInv, WorkerTypes, Push, Stages, schedule, pull
  <1>2. MessagesKnown'
    BY DEF SchedulingInv, WorkerTypes, MessagesKnown, StepInOrder, Installed, EventComing,
           schedule, pull
  <1>3. RequestsKept'
    BY DEF SchedulingInv, WorkerTypes, RequestsKept, StepInOrder, Installed, schedule, pull
  <1>4. WakeupsKept'
    BY DEF SchedulingInv, WorkerTypes, WakeupsKept, StepInOrder, OneTarget, WakeupComing,
           schedule
  <1>5. StepInOrder' /\ OneTarget'
    BY DEF SchedulingInv, WorkerTypes, StepInOrder, OneTarget, Asleep, schedule, pull
  <1> QED BY <1>1, <1>2, <1>3, <1>4, <1>5 DEF SchedulingInv

\* The end of a step.
LEMMA StepEndsInductive ==
  ASSUME SchedulingInv, NEW w \in Peers, StepEnds(w)
  PROVE  SchedulingInv'
  <1>1. WorkerTypes'
    BY DEF SchedulingInv, WorkerTypes, Push, Stages, StepEnds
  <1>2. MessagesKnown'
    BY DEF SchedulingInv, WorkerTypes, MessagesKnown, StepInOrder, Installed, EventComing,
           StepEnds
  <1>3. RequestsKept'
    BY DEF SchedulingInv, WorkerTypes, RequestsKept, StepInOrder, Installed, StepEnds
  <1>4. WakeupsKept'
    <2>1. \A x \in Peers : WakeupComing(x) => WakeupComing(x)'
      BY DEF WakeupComing, StepEnds
    <2> QED BY <2>1 DEF SchedulingInv, WorkerTypes, WakeupsKept, StepInOrder, StepEnds
  <1>5. StepInOrder' /\ OneTarget'
    BY DEF SchedulingInv, WorkerTypes, StepInOrder, OneTarget, Asleep, StepEnds
  <1> QED BY <1>1, <1>2, <1>3, <1>4, <1>5 DEF SchedulingInv

-----------------------------------------------------------------------------
\* Every step preserves the invariant.
LEMMA NextInductive == SchedulingInv /\ [WorkerNext]_worker_vars => SchedulingInv'
  <1> SUFFICES ASSUME SchedulingInv, [WorkerNext]_worker_vars PROVE SchedulingInv'
    OBVIOUS
  <1>1. CASE UNCHANGED worker_vars
    <2>1. WorkerTypes'
      BY <1>1 DEF worker_vars, SchedulingInv, WorkerTypes
    <2>2. MessagesKnown' /\ RequestsKept'
      BY <1>1 DEF worker_vars, SchedulingInv, MessagesKnown, RequestsKept, Installed,
                  EventComing
    <2>3. WakeupsKept'
      BY <1>1 DEF worker_vars, SchedulingInv, WakeupsKept, WakeupComing
    <2>4. StepInOrder' /\ OneTarget'
      BY <1>1 DEF worker_vars, SchedulingInv, StepInOrder, OneTarget, Asleep
    <2> QED BY <2>1, <2>2, <2>3, <2>4 DEF SchedulingInv
  <1>2. ASSUME NEW w \in Peers,
               \/ dataflow_core(w) \/ drop_dataflow(w) \/ Signal(w)
               \/ receive(w) \/ advance(w) \/ await_events(w) \/ StepEnds(w)
        PROVE  SchedulingInv'
    BY <1>2, BuildInductive, DropInductive, SignalInductive, ReceiveInductive,
       AdvanceInductive, AwaitInductive, StepEndsInductive
  <1>3. ASSUME NEW w \in Peers, NEW c \in Channels,
               \/ PushLocal(w, c) \/ activate(w, c) \/ activate_after(w, c)
               \/ Tick(w, c) \/ schedule(w, c)
        PROVE  SchedulingInv'
    BY <1>3, PushLocalInductive, ActivateInductive, ActivateAfterInductive,
       TickInductive, ScheduleInductive
  <1>4. ASSUME NEW w \in Peers, NEW v \in Peers, NEW c \in Channels, PushData(w, v, c)
        PROVE  SchedulingInv'
    BY <1>4, PushDataInductive
  <1>5. ASSUME NEW t \in Threads, unpark_thread(t)
        PROVE  SchedulingInv'
    BY <1>5, UnparkInductive
  <1>6. ASSUME NEW t \in Threads, NEW w \in Peers, NEW o \in Channels, activate_sync(t, w, o)
        PROVE  SchedulingInv'
    BY <1>6, ActivateSyncInductive
  <1> QED BY <1>1, <1>2, <1>3, <1>4, <1>5, <1>6 DEF WorkerNext

(* The queues, events and park tokens of step_or_park always account for    *)
(* every message and every requested activation.                            *)
THEOREM SchedulingInvariance == WorkerSpec => []SchedulingInv
  BY InitInductive, NextInductive, PTL DEF WorkerSpec

(* No lost wake-up: a worker that is parked without a limit, and that no    *)
(* thread is about to wake up, has nothing to do.                           *)
THEOREM NoLostWakeup == WorkerSpec => []AsleepMeansIdle
  <1>1. SchedulingInv => AsleepMeansIdle
    <2> SUFFICES ASSUME SchedulingInv, NEW w \in Peers, pc[w] = "parked", Installed(w),
                        ~ WakeupComing(w), ~ \E c \in Channels : EventComing(w, c)
                 PROVE  owed[w] = {} /\ \A c \in Channels : data[w][c] = 0
      BY DEF AsleepMeansIdle
    <2>1. /\ counters[w] = {} /\ rx[w] = {}
          /\ events[w] = {} /\ fresh[w] = {} /\ todo[w] = {} /\ queue[w] = {}
      BY DEF SchedulingInv, WakeupsKept, StepInOrder, Asleep
    <2>2. owed[w] = {}
      BY <2>1 DEF SchedulingInv, RequestsKept
    <2>3. ASSUME NEW c \in Channels PROVE data[w][c] = 0
      <3>1. ~ (data[w][c] > 0)
        BY <2>1 DEF SchedulingInv, MessagesKnown
      <3>2. data[w][c] \in Nat
        BY DEF SchedulingInv, WorkerTypes
      <3> QED BY <3>1, <3>2
    <2> QED BY <2>2, <2>3
  <1> QED BY <1>1, SchedulingInvariance, PTL

-----------------------------------------------------------------------------
(* The bytes slab.  The invariant, of a slab r as ensure_capacity returns   *)
(* it, the slices h that are held and the number w of units written.        *)

Rows == UNION {[0 .. n - 1 -> Nat] : n \in Nat}
Size(m, b) == Cardinality(DOMAIN m[b])
Slice == [buffer : Nat, ptr : Nat, len : Nat, units : Seq(Nat)]

Slab == [memory |-> memory, buffer |-> buffer, ptr |-> ptr, valid |-> valid,
         in_progress |-> in_progress, stash |-> stash, shift |-> shift]

Types(r, h, w) ==
    /\ r.memory \in Seq(Rows)
    /\ r.buffer \in DOMAIN r.memory
    /\ r.ptr \in Nat /\ r.valid \in Nat /\ r.shift \in Nat /\ w \in Nat
    /\ r.in_progress \in Seq(DOMAIN r.memory) /\ r.stash \in Seq(DOMAIN r.memory)
    /\ h \subseteq Slice

\* Everything fits in its buffer, and all buffers that may be used again have one size.
Fits(r, h) ==
    /\ r.ptr + r.valid <= Size(r.memory, r.buffer)
    /\ \A s \in h : /\ s.buffer \in DOMAIN r.memory
                    /\ s.ptr + s.len <= Size(r.memory, s.buffer)
                    /\ Len(s.units) = s.len
    /\ Size(r.memory, r.buffer) = 2^r.shift
    /\ \A i \in DOMAIN r.in_progress : Size(r.memory, r.in_progress[i]) = 2^r.shift
    /\ \A i \in DOMAIN r.stash : Size(r.memory, r.stash[i]) = 2^r.shift

\* Readers hold what was written before the slab's part of the buffer.
Data(r, h, w) ==
    /\ \A i \in 0 .. r.valid - 1 : r.memory[r.buffer][r.ptr + i] = w - r.valid + 1 + i
    /\ \A s \in h : \A i \in 1 .. s.len : r.memory[s.buffer][s.ptr + i - 1] = s.units[i]
    /\ \A s \in h : s.buffer = r.buffer => s.ptr + s.len <= r.ptr

Distinct(q) == \A i, j \in DOMAIN q : q[i] = q[j] => i = j

Places(r, h) ==
    /\ Distinct(r.in_progress) /\ Distinct(r.stash)
    /\ \A i \in DOMAIN r.in_progress : r.in_progress[i] # r.buffer
    /\ \A i \in DOMAIN r.stash : r.stash[i] # r.buffer
    /\ \A i \in DOMAIN r.in_progress, j \in DOMAIN r.stash : r.in_progress[i] # r.stash[j]
    /\ \A i \in DOMAIN r.stash, s \in h : s.buffer # r.stash[i]

Good(r, h, w) == Types(r, h, w) /\ Fits(r, h) /\ Data(r, h, w) /\ Places(r, h)
Inv == Good(Slab, held, written) /\ valid <= written

\* A buffer has as many units as its size says.
LEMMA RowFacts ==
    /\ \A row \in Rows : /\ Cardinality(DOMAIN row) \in Nat
                         /\ row \in [0 .. Cardinality(DOMAIN row) - 1 -> Nat]
    /\ \A n \in Nat : \A row : row \in [0 .. n - 1 -> Nat] => row \in Rows /\ Cardinality(DOMAIN row) = n
<1>1. ASSUME NEW n \in Nat, NEW row \in [0 .. n - 1 -> Nat]
      PROVE  row \in Rows /\ Cardinality(DOMAIN row) = n
  <2>1. Cardinality(0 .. n - 1) = n
    <3>1. 0 + n - 1 = n - 1 /\ 0 \in Int
      OBVIOUS
    <3>2. Cardinality(0 .. 0 + n - 1) = n
      BY <3>1, Sizes, Zenon
    <3>. QED  BY <3>1, <3>2, Zenon
  <2>2. DOMAIN row = 0 .. n - 1
    OBVIOUS
  <2>3. Cardinality(DOMAIN row) = n
    BY <2>1, <2>2, Zenon
  <2>. QED  BY <2>3 DEF Rows
<1>2. ASSUME NEW row \in Rows
      PROVE  /\ Cardinality(DOMAIN row) \in Nat
             /\ row \in [0 .. Cardinality(DOMAIN row) - 1 -> Nat]
  <2>1. PICK n \in Nat : row \in [0 .. n - 1 -> Nat]
    BY DEF Rows
  <2>2. Cardinality(DOMAIN row) = n
    BY <1>1, <2>1
  <2>. QED  BY <2>1, <2>2
<1>. QED  BY <1>1, <1>2

\* The shift is increased until a request fits together with the valid units.
LEMMA GrownFits ==
    ASSUME shift \in Nat, valid \in Nat, NEW c \in Nat
    PROVE  Grown(c) \in Nat /\ Grown(c) >= shift /\ valid + c <= 2^Grown(c)
<1> DEFINE S == {k \in shift .. shift + c + valid : valid + c <= 2^k}
           m == shift + c + valid
<1>1. m \in S
  <2>1. m \in Nat /\ m < 2^m /\ 2^m \in Nat
    BY Powers
  <2>2. \A x \in Nat : m < x => valid + c <= x
    OBVIOUS
  <2>3. valid + c <= 2^m
    <3> HIDE DEF m
    <3>. QED  BY <2>1, <2>2
  <2>. QED  BY <2>1, <2>3
<1>2. IsFiniteSet(S) /\ S \in SUBSET Int
  <2>1. IsFiniteSet(shift .. m) /\ S \in SUBSET (shift .. m)
    BY FS_Interval
  <2> HIDE DEF S
  <2>2. IsFiniteSet(S)
    BY <2>1, FS_Subset
  <2>. QED  BY <2>1, <2>2
<1>3. Grown(c) \in S
  <2>1. \E k \in S : \A x \in S : k <= x
    <3> HIDE DEF S
    <3>. QED  BY <1>1, <1>2, SmallestExists
  <2>2. Grown(c) = CHOOSE k \in S : \A x \in S : k <= x
    BY Zenon DEF Grown, Min
  <2> HIDE DEF S
  <2>. QED  BY <2>1, <2>2
<1>. QED  BY <1>3

-----------------------------------------------------------------------------
(* ensure_capacity.                                                         *)

(* The slab goes on in another buffer: nobody reads the new one, the valid  *)
(* units are there, and those that are retired (ip) or empty (st) were      *)
(* buffers before.                                                          *)
LEMMA MoveGood ==
    ASSUME NEW r, NEW h, NEW w, Good(r, h, w),
           NEW M \in Seq(Rows), NEW new \in DOMAIN M, NEW k \in Nat,
           DOMAIN r.memory \subseteq DOMAIN M,
           \A b \in DOMAIN r.memory \ {new} : M[b] = r.memory[b],
           Size(M, new) = 2^k, r.valid <= 2^k,
           \A i \in 0 .. r.valid - 1 : M[new][i] = r.memory[r.buffer][r.ptr + i],
           \A s \in h : s.buffer # new,
           NEW ip \in Seq(DOMAIN r.memory), NEW st \in Seq(DOMAIN r.memory),
           \A i \in DOMAIN ip : ip[i] # new /\ Size(r.memory, ip[i]) = 2^k,
           \A i \in DOMAIN st : st[i] # new /\ Size(r.memory, st[i]) = 2^k,
           Distinct(ip), Distinct(st),
           \A i \in DOMAIN ip, j \in DOMAIN st : ip[i] # st[j],
           \A i \in DOMAIN st, s \in h : s.buffer # st[i]
    PROVE  Good([memory |-> M, buffer |-> new, ptr |-> 0, valid |-> r.valid,
                 in_progress |-> ip, stash |-> st, shift |-> k], h, w)
<1> DEFINE q == [memory |-> M, buffer |-> new, ptr |-> 0, valid |-> r.valid,
                 in_progress |-> ip, stash |-> st, shift |-> k]
<1>1. /\ q.memory = M /\ q.buffer = new /\ q.ptr = 0 /\ q.valid = r.valid
      /\ q.in_progress = ip /\ q.stash = st /\ q.shift = k
  OBVIOUS
<1> HIDE DEF q
<1>2. Types(r, h, w) /\ Fits(r, h) /\ Data(r, h, w)
  BY DEF Good
<1>3. \A s \in h : s.buffer \in DOMAIN r.memory /\ s \in Slice
  BY <1>2 DEF Fits, Types
<1>4. Types(q, h, w)
  <2>1. ip \in Seq(DOMAIN M) /\ st \in Seq(DOMAIN M)
    OBVIOUS
  <2>. QED  BY <1>1, <1>2, <2>1 DEF Types
<1>5. Fits(q, h)
  <2>1. \A b \in DOMAIN r.memory \ {new} : Size(M, b) = Size(r.memory, b)
    BY DEF Size
  <2>2. \A s \in h : /\ s.buffer \in DOMAIN M /\ s.ptr + s.len <= Size(M, s.buffer)
                     /\ Len(s.units) = s.len
    BY <1>2, <1>3, <2>1 DEF Fits
  <2>3. \A i \in DOMAIN ip : Size(M, ip[i]) = 2^k
    BY <2>1
  <2>4. \A i \in DOMAIN st : Size(M, st[i]) = 2^k
    BY <2>1
  <2>5. 0 + r.valid <= Size(M, new)
    BY <1>2 DEF Types
  <2>. QED  BY <1>1, <2>2, <2>3, <2>4, <2>5 DEF Fits
<1>6. Data(q, h, w)
  <2>1. \A i \in 0 .. r.valid - 1 : M[new][0 + i] = w - r.valid + 1 + i
    <3>1. \A i \in 0 .. r.valid - 1 : 0 + i = i
      BY <1>2 DEF Types
    <3>. QED  BY <1>2, <3>1 DEF Data
  <2>2. \A s \in h : \A i \in 1 .. s.len : M[s.buffer][s.ptr + i - 1] = s.units[i]
    BY <1>2, <1>3 DEF Data
  <2>. QED  BY <1>1, <2>1, <2>2 DEF Data
<1>7. Places(q, h)
  BY <1>1 DEF Places
<1>. QED  BY <1>4, <1>5, <1>6, <1>7 DEF Good, q

\* The smaller of two lengths.
LEMMA MinOfTwo == \A a, b \in Nat : Min({a, b}) \in Nat /\ Min({a, b}) <= b
<1>1. ASSUME NEW a \in Nat, NEW b \in Nat
      PROVE  Min({a, b}) \in Nat /\ Min({a, b}) <= b
  <2>1. CASE a <= b
    BY <2>1 DEF Min
  <2>2. CASE b <= a
    BY <2>2 DEF Min
  <2>. QED  BY <2>1, <2>2
<1>. QED  BY <1>1

\* A part of a row of buffers that are all different.
LEMMA PartOf ==
    \A T, q, n : q \in Seq(T) /\ n \in Nat /\ n <= Len(q) =>
        /\ SubSeq(q, 1, n) \in Seq(T)
        /\ \A i \in DOMAIN SubSeq(q, 1, n) : i \in DOMAIN q /\ SubSeq(q, 1, n)[i] = q[i]
        /\ DOMAIN SubSeq(q, 1, n) = 1 .. n
        /\ Distinct(q) => Distinct(SubSeq(q, 1, n))
<1> SUFFICES ASSUME NEW T, NEW q \in Seq(T), NEW n \in Nat, n <= Len(q)
             PROVE  /\ SubSeq(q, 1, n) \in Seq(T)
                    /\ \A i \in DOMAIN SubSeq(q, 1, n) :
                           i \in DOMAIN q /\ SubSeq(q, 1, n)[i] = q[i]
                    /\ DOMAIN SubSeq(q, 1, n) = 1 .. n
                    /\ Distinct(q) => Distinct(SubSeq(q, 1, n))
  BY Zenon
<1>1. /\ SubSeq(q, 1, n) \in Seq(T) /\ Len(SubSeq(q, 1, n)) = n
      /\ \A i \in 1 .. n : SubSeq(q, 1, n)[i] = q[i]
  OBVIOUS
<1>2. DOMAIN SubSeq(q, 1, n) = 1 .. n
  BY <1>1
<1>3. \A i \in 1 .. n : i \in DOMAIN q
  OBVIOUS
<1>. QED  BY <1>1, <1>2, <1>3 DEF Distinct

(* The buffers that may be used at once (empty) and those that are busy,    *)
(* when the slab needs another one: they are in one place only, and an      *)
(* empty one is of the new size and held by nobody.                         *)
Reusable(r, h, k, empty, busy) ==
    /\ empty \in Seq(DOMAIN r.memory) /\ busy \in Seq(DOMAIN r.memory)
    /\ \A i \in DOMAIN empty : empty[i] # r.buffer /\ Size(r.memory, empty[i]) = 2^k
    /\ \A i \in DOMAIN busy : busy[i] # r.buffer /\ Size(r.memory, busy[i]) = 2^k
    /\ Distinct(empty) /\ Distinct(busy)
    /\ \A i \in DOMAIN busy, j \in DOMAIN empty : busy[i] # empty[j]
    /\ \A i \in DOMAIN empty, s \in h : s.buffer # empty[i]

\* Reclaiming takes only buffers that no reader has a slice of.
LEMMA ReclaimGood ==
    ASSUME NEW r, NEW h, NEW w, Good(r, h, w), NEW U,
           \A b \in U : \A s \in h : s.buffer # b
    PROVE  Reusable(r, h, r.shift, Among(r.in_progress, U),
                    Among(r.in_progress, (DOMAIN r.memory) \ U))
<1> DEFINE q == r.in_progress
           V == (DOMAIN r.memory) \ U
           e == Among(q, U)
           f == Among(q, V)
<1>1. /\ q \in Seq(DOMAIN r.memory) /\ Distinct(q)
      /\ \A i \in DOMAIN q : q[i] # r.buffer /\ Size(r.memory, q[i]) = 2^r.shift
  BY DEF Good, Types, Fits, Places
<1> HIDE DEF q, V
<1>2. /\ e \in Seq(DOMAIN r.memory)
      /\ \A k \in DOMAIN e : e[k] \in U
      /\ \A k \in DOMAIN e : \E i \in DOMAIN q : q[i] = e[k]
      /\ (\A i, j \in DOMAIN q : q[i] = q[j] => i = j)
          => \A k, l \in DOMAIN e : e[k] = e[l] => k = l
  BY <1>1, AmongFacts
<1>3. /\ f \in Seq(DOMAIN r.memory)
      /\ \A k \in DOMAIN f : f[k] \in V
      /\ \A k \in DOMAIN f : \E i \in DOMAIN q : q[i] = f[k]
      /\ (\A i, j \in DOMAIN q : q[i] = q[j] => i = j)
          => \A k, l \in DOMAIN f : f[k] = f[l] => k = l
  BY <1>1, AmongFacts
<1> HIDE DEF e, f
<1>4. Distinct(e) /\ Distinct(f)
  BY <1>1, <1>2, <1>3 DEF Distinct
<1>5. \A i \in DOMAIN e : e[i] # r.buffer /\ Size(r.memory, e[i]) = 2^r.shift
  BY <1>1, <1>2
<1>6. \A i \in DOMAIN f : f[i] # r.buffer /\ Size(r.memory, f[i]) = 2^r.shift
  BY <1>1, <1>3
<1>7. \A i \in DOMAIN f, j \in DOMAIN e : f[i] # e[j]
  BY <1>2, <1>3 DEF V
<1>8. \A i \in DOMAIN e, s \in h : s.buffer # e[i]
  BY <1>2
<1>9. Reusable(r, h, r.shift, e, f)
  BY <1>2, <1>3, <1>4, <1>5, <1>6, <1>7, <1>8 DEF Reusable
<1>. QED  BY <1>9 DEF e, f, q, V

\* ensure_capacity leaves a good slab with room for the request.
LEMMA EnsureGood ==
    ASSUME Inv, NEW c \in Nat
    PROVE  LET slab == ensure_capacity(c)
           IN  /\ Good(slab, held, written) /\ slab.valid = valid
               /\ slab.ptr + slab.valid + c <= Size(slab.memory, slab.buffer)
<1> DEFINE k == Grown(c)
           grows == k # shift
           shared == IF grows THEN <<>> ELSE in_progress
           kept == IF grows THEN <<>> ELSE stash
           unique == {b \in Buffers : try_regenerate(b)}
           reclaim == kept = <<>>
           empty == IF reclaim THEN Among(shared, unique) ELSE kept
           busy == IF reclaim THEN Among(shared, Buffers \ unique) ELSE shared
           blank == empty = <<>>
           new == IF blank THEN Len(memory) + 1 ELSE empty[Len(empty)]
           rest == IF blank THEN <<>> ELSE SubSeq(empty, 1, Len(empty) - 1)
           moved(units) == [i \in DOMAIN units |->
                               IF i < valid THEN memory[buffer][ptr + i] ELSE units[i]]
           M == IF blank THEN Append(memory, moved(Blank(k))) ELSE [memory EXCEPT ![new] = moved(@)]
           ip == IF grows THEN busy ELSE Append(busy, buffer)
           st == IF Limit = NoLimit THEN rest ELSE SubSeq(rest, 1, Min({Limit, Len(rest)}))
           moves == [memory |-> M, buffer |-> new, ptr |-> 0, valid |-> valid,
                     in_progress |-> ip, stash |-> st, shift |-> k]
<1>1. ensure_capacity(c) = IF Room >= c THEN Slab ELSE moves
  BY Zenon DEF ensure_capacity, Slab
<1>2. /\ Slab.memory = memory /\ Slab.buffer = buffer /\ Slab.ptr = ptr /\ Slab.valid = valid
      /\ Slab.in_progress = in_progress /\ Slab.stash = stash /\ Slab.shift = shift
      /\ Good(Slab, held, written)
  BY DEF Slab, Inv
<1>3. Types(Slab, held, written) /\ Fits(Slab, held) /\ Data(Slab, held, written)
      /\ Places(Slab, held)
  BY <1>2 DEF Good
<1>4. /\ memory \in Seq(Rows) /\ buffer \in DOMAIN memory /\ ptr \in Nat /\ valid \in Nat
      /\ shift \in Nat /\ in_progress \in Seq(DOMAIN memory) /\ stash \in Seq(DOMAIN memory)
      /\ Buffers = DOMAIN memory /\ ptr + valid <= Size(memory, buffer)
  BY <1>2, <1>3 DEF Types, Fits, Buffers
<1>5. \A b \in DOMAIN memory : /\ Size(memory, b) \in Nat
                               /\ memory[b] \in [0 .. Size(memory, b) - 1 -> Nat]
  BY <1>4, RowFacts DEF Size
<1>6. k \in Nat /\ k >= shift /\ valid + c <= 2^k /\ 2^k \in Nat
  BY <1>4, GrownFits, Powers
<1> HIDE DEF k
<1>7. CASE Room >= c
  <2>1. ptr + valid + c <= Size(memory, buffer)
    BY <1>4, <1>5, <1>7 DEF Room, Capacity, Size
  <2>. QED  BY <1>1, <1>2, <1>7, <2>1
<1>8. CASE ~ Room >= c
  <2>1. Reusable(Slab, held, k, empty, busy) /\ (grows => empty = <<>> /\ busy = <<>>)
    <3>1. \A b \in unique : \A s \in held : s.buffer # b
      BY DEF try_regenerate
    <3>2. CASE grows
      <4>1. empty = <<>> /\ busy = <<>>
        <5>1. empty = Among(<<>>, unique) /\ busy = Among(<<>>, Buffers \ unique)
          BY <3>2
        <5>2. \A U : Among(<<>>, U) = <<>>
          <6>1. ASSUME NEW U PROVE Among(<<>>, U) = <<>>
            <7>1. <<>> \in Seq({})
              OBVIOUS
            <7>2. Among(<<>>, U) \in Seq({})
              BY <7>1, AmongFacts
            <7>. QED  BY <7>2
          <6>. QED  BY <6>1
        <5>. QED  BY <5>1, <5>2
      <4> HIDE DEF empty, busy
      <4>2. Reusable(Slab, held, k, <<>>, <<>>)
        BY DEF Reusable, Distinct
      <4>. QED  BY <4>1, <4>2
    <3>3. CASE ~ grows /\ stash # <<>>
      <4>1. empty = stash /\ busy = in_progress /\ k = shift
        BY <3>3
      <4> HIDE DEF empty, busy
      <4>. QED  BY <1>2, <1>3, <3>3, <4>1 DEF Reusable, Types, Fits, Places
    <3>4. CASE ~ grows /\ stash = <<>>
      <4>1. /\ empty = Among(in_progress, unique) /\ busy = Among(in_progress, Buffers \ unique)
            /\ k = shift
        BY <3>4
      <4> HIDE DEF unique
      <4>2. Reusable(Slab, held, Slab.shift, Among(Slab.in_progress, unique),
                     Among(Slab.in_progress, (DOMAIN Slab.memory) \ unique))
        BY <1>2, <3>1, ReclaimGood
      <4> HIDE DEF empty, busy
      <4>3. Reusable(Slab, held, k, empty, busy)
        BY <1>2, <1>4, <4>1, <4>2
      <4>. QED  BY <3>4, <4>3
    <3>. QED  BY <3>2, <3>3, <3>4
  <2> HIDE DEF empty, busy
  <2>2. /\ empty \in Seq(DOMAIN memory) /\ busy \in Seq(DOMAIN memory)
        /\ \A i \in DOMAIN empty : empty[i] # buffer /\ Size(memory, empty[i]) = 2^k
        /\ \A i \in DOMAIN busy : busy[i] # buffer /\ Size(memory, busy[i]) = 2^k
        /\ Distinct(empty) /\ Distinct(busy)
        /\ \A i \in DOMAIN busy, j \in DOMAIN empty : busy[i] # empty[j]
        /\ \A i \in DOMAIN empty, s \in held : s.buffer # empty[i]
    BY <1>2, <2>1 DEF Reusable
  <2>3. /\ M \in Seq(Rows) /\ new \in DOMAIN M /\ DOMAIN memory \subseteq DOMAIN M
        /\ \A b \in DOMAIN memory \ {new} : M[b] = memory[b]
        /\ Size(M, new) = 2^k
        /\ \A i \in 0 .. valid - 1 : M[new][i] = memory[buffer][ptr + i]
        /\ \A s \in held : s.buffer # new
        /\ new # buffer /\ \A i \in DOMAIN busy : busy[i] # new
        /\ blank => new \notin DOMAIN memory
    <3>1. \A i \in 0 .. valid - 1 : ptr + i \in 0 .. Size(memory, buffer) - 1
                                    /\ memory[buffer][ptr + i] \in Nat
      <4> DEFINE z == Size(memory, buffer)
                 row == memory[buffer]
      <4>1. z \in Nat /\ row \in [0 .. z - 1 -> Nat] /\ ptr + valid <= z
        BY <1>4, <1>5
      <4> HIDE DEF z, row
      <4>2. \A i \in 0 .. valid - 1 : ptr + i \in 0 .. z - 1
        BY <1>4, <4>1
      <4>3. \A i \in 0 .. valid - 1 : row[ptr + i] \in Nat
        BY <4>1, <4>2
      <4>. QED  BY <4>2, <4>3 DEF z, row
    <3>2. ASSUME NEW n \in Nat, n = 2^k, NEW units \in [0 .. n - 1 -> Nat]
          PROVE  /\ moved(units) \in [0 .. n - 1 -> Nat]
                 /\ \A i \in 0 .. valid - 1 : moved(units)[i] = memory[buffer][ptr + i]
      <4>1. valid <= n
        BY <1>4, <1>6, <3>2
      <4>2. \A i \in 0 .. n - 1 : i < valid => i \in 0 .. valid - 1
        BY <1>4
      <4>3. \A i \in 0 .. valid - 1 : i \in 0 .. n - 1 /\ i < valid
        BY <1>4, <4>1
      <4> DEFINE row == [i \in 0 .. n - 1 |-> IF i < valid THEN memory[buffer][ptr + i] ELSE units[i]]
      <4>4. moved(units) = row
        <5>1. DOMAIN units = 0 .. n - 1
          OBVIOUS
        <5>. QED  BY <5>1, Zenon
      <4>5. row \in [0 .. n - 1 -> Nat]
        BY <3>1, <4>2
      <4>6. \A i \in 0 .. valid - 1 : row[i] = memory[buffer][ptr + i]
        BY <4>3
      <4>. QED  BY <4>4, <4>5, <4>6
    <3>3. CASE blank
      <4> DEFINE row == moved(Blank(k))
      <4>1. Blank(k) \in [0 .. 2^k - 1 -> Nat]
        BY DEF Blank
      <4>2. /\ row \in [0 .. 2^k - 1 -> Nat]
            /\ \A i \in 0 .. valid - 1 : row[i] = memory[buffer][ptr + i]
        BY <1>6, <3>2, <4>1
      <4> HIDE DEF row
      <4>3. row \in Rows /\ Cardinality(DOMAIN row) = 2^k
        BY <1>6, <4>2, RowFacts
      <4>4. M = Append(memory, row) /\ new = Len(memory) + 1
        BY <3>3 DEF row
      <4> HIDE DEF M, new
      <4>5. /\ M \in Seq(Rows) /\ new \in DOMAIN M /\ DOMAIN memory \subseteq DOMAIN M
            /\ \A b \in DOMAIN memory : M[b] = memory[b]
            /\ M[new] = row /\ new \notin DOMAIN memory
        BY <1>4, <4>3, <4>4
      <4>6. \A s \in held : s.buffer \in DOMAIN memory
        BY <1>2, <1>3 DEF Fits
      <4>. QED  BY <1>4, <2>2, <4>2, <4>3, <4>5, <4>6, SMTT(30) DEF Size
    <3>4. CASE ~ blank
      <4>1. new = empty[Len(empty)] /\ Len(empty) \in DOMAIN empty /\ new \in DOMAIN memory
        BY <2>2, <3>4
      <4>2. Size(memory, new) = 2^k /\ new # buffer /\ \A s \in held : s.buffer # new
        BY <2>2, <4>1
      <4> DEFINE row == moved(memory[new])
      <4>3. memory[new] \in [0 .. 2^k - 1 -> Nat]
        BY <1>5, <4>1, <4>2
      <4>4. /\ row \in [0 .. 2^k - 1 -> Nat]
            /\ \A i \in 0 .. valid - 1 : row[i] = memory[buffer][ptr + i]
        BY <1>6, <3>2, <4>3
      <4>5. M = [memory EXCEPT ![new] = row]
        BY <3>4
      <4> HIDE DEF row
      <4>6. row \in Rows /\ Cardinality(DOMAIN row) = 2^k
        BY <1>6, <4>4, RowFacts
      <4> HIDE DEF M, new
      <4>7. /\ M \in Seq(Rows) /\ DOMAIN M = DOMAIN memory
            /\ \A b \in DOMAIN memory \ {new} : M[b] = memory[b]
            /\ M[new] = row
        BY <1>4, <4>1, <4>5, <4>6
      <4>8. \A i \in DOMAIN busy : busy[i] # new
        BY <2>2, <4>1
      <4>. QED  BY <3>4, <4>1, <4>2, <4>4, <4>6, <4>7, <4>8 DEF Size
    <3>. QED  BY <3>3, <3>4
  <2>4. /\ rest \in Seq(DOMAIN memory) /\ Distinct(rest)
        /\ \A i \in DOMAIN rest : rest[i] # new /\ i \in DOMAIN empty /\ rest[i] = empty[i]
    <3>1. CASE blank
      BY <3>1 DEF Distinct
    <3>2. CASE ~ blank
      <4> DEFINE n == Len(empty) - 1
      <4>1. n \in Nat /\ n <= Len(empty) /\ Len(empty) \in DOMAIN empty
        BY <2>2, <3>2
      <4>2. rest = SubSeq(empty, 1, n) /\ new = empty[n + 1]
        BY <2>2, <3>2
      <4> HIDE DEF n, rest, new
      <4>3. /\ rest \in Seq(DOMAIN memory) /\ DOMAIN rest = 1 .. n /\ Distinct(rest)
            /\ \A i \in DOMAIN rest : i \in DOMAIN empty /\ rest[i] = empty[i]
        BY <2>2, <4>1, <4>2, PartOf
      <4>4. \A i \in DOMAIN rest : rest[i] # new
        <5>1. n + 1 \in DOMAIN empty
          BY <4>1 DEF n
        <5> HIDE DEF rest, new
        <5>. QED  BY <2>2, <4>1, <4>2, <4>3, <5>1 DEF Distinct
      <4>. QED  BY <4>3, <4>4
    <3>. QED  BY <3>1, <3>2
  <2> HIDE DEF M, new, rest
  <2>5. /\ st \in Seq(DOMAIN memory) /\ Distinct(st)
        /\ \A i \in DOMAIN st : st[i] # new /\ \E j \in DOMAIN empty : st[i] = empty[j]
    <3>1. CASE Limit = NoLimit
      BY <2>4, <3>1
    <3>2. CASE Limit # NoLimit
      <4> DEFINE n == Min({Limit, Len(rest)})
      <4>1. n \in Nat /\ n <= Len(rest)
        BY <2>4, <3>2, MinOfTwo, SlabAssumption
      <4>2. st = SubSeq(rest, 1, n)
        BY <3>2
      <4> HIDE DEF n, st
      <4>3. /\ st \in Seq(DOMAIN memory) /\ Distinct(st)
            /\ \A i \in DOMAIN st : i \in DOMAIN rest /\ st[i] = rest[i]
        BY <2>4, <4>1, <4>2, PartOf
      <4>. QED  BY <2>4, <4>3
    <3>. QED  BY <3>1, <3>2
  <2>6. /\ ip \in Seq(DOMAIN memory) /\ Distinct(ip)
        /\ \A i \in DOMAIN ip : \/ ip[i] = buffer /\ k = shift
                                \/ \E j \in DOMAIN busy : ip[i] = busy[j]
    <3>1. CASE grows
      BY <2>2, <3>1
    <3>2. CASE ~ grows
      <4>1. ip = Append(busy, buffer) /\ k = shift
        BY <3>2
      <4> HIDE DEF ip
      <4>2. /\ ip \in Seq(DOMAIN memory) /\ Len(ip) = Len(busy) + 1 /\ ip[Len(busy) + 1] = buffer
            /\ \A i \in 1 .. Len(busy) : ip[i] = busy[i]
        BY <1>4, <2>2, <4>1
      <4>. QED  BY <2>2, <4>1, <4>2 DEF Distinct
    <3>. QED  BY <3>1, <3>2
  <2> HIDE DEF st, ip
  <2>7. \A i \in DOMAIN ip : ip[i] # new /\ Size(memory, ip[i]) = 2^k
    <3>1. Size(memory, buffer) = 2^shift
      BY <1>2, <1>3 DEF Fits
    <3>2. ASSUME NEW i \in DOMAIN ip PROVE ip[i] # new /\ Size(memory, ip[i]) = 2^k
      <4>1. CASE ip[i] = buffer /\ k = shift
        BY <2>3, <3>1, <4>1
      <4>2. CASE \E j \in DOMAIN busy : ip[i] = busy[j]
        BY <2>2, <2>3, <4>2
      <4>. QED  BY <2>6, <4>1, <4>2
    <3>. QED  BY <3>2, Zenon
  <2>8. /\ \A i \in DOMAIN st : st[i] # new /\ Size(memory, st[i]) = 2^k
        /\ \A i \in DOMAIN ip, j \in DOMAIN st : ip[i] # st[j]
        /\ \A i \in DOMAIN st, s \in held : s.buffer # st[i]
    BY <2>2, <2>5, <2>6
  <2>9. valid <= 2^k
    BY <1>4, <1>6
  <2>10. Good(moves, held, written)
    <3>1. Good([memory |-> M, buffer |-> new, ptr |-> 0, valid |-> Slab.valid,
                in_progress |-> ip, stash |-> st, shift |-> k], held, written)
      BY <1>2, <1>6, <2>3, <2>5, <2>6, <2>7, <2>8, <2>9, MoveGood, ZenonT(30)
    <3>. QED  BY <1>2, <3>1, Zenon
  <2>11. moves.ptr + moves.valid + c <= Size(moves.memory, moves.buffer)
    <3>1. moves.ptr = 0 /\ moves.valid = valid /\ moves.memory = M /\ moves.buffer = new
      OBVIOUS
    <3> HIDE DEF moves
    <3>. QED  BY <1>4, <1>6, <2>3, <3>1
  <2>12. moves.valid = valid
    OBVIOUS
  <2>13. ensure_capacity(c) = moves
    BY <1>1, <1>8, Zenon
  <2>. QED  BY <2>10, <2>11, <2>12, <2>13, Zenon
<1>. QED  BY <1>7, <1>8

-----------------------------------------------------------------------------
(* The operations.                                                          *)

\* A buffer after n units were written behind the v valid ones from p on.
Overwritten(old, p, v, n, w) ==
    [i \in DOMAIN old |-> IF i - p - v \in 0 .. n - 1 THEN w + 1 + i - p - v ELSE old[i]]

\* What was before the slab's part is left alone, and the valid units go on.
Continues(row, old, p, v, n, w) ==
    /\ \A i \in 0 .. p - 1 : row[i] = old[i]
    /\ \A i \in 0 .. v + n - 1 : row[p + i] = w + n - (v + n) + 1 + i

\* A buffer of z units has room for n more behind its v valid ones.
Writable(old, p, v, n, z, w) ==
    /\ p \in Nat /\ v \in Nat /\ n \in Nat /\ z \in Nat /\ w \in Nat
    /\ old \in [0 .. z - 1 -> Nat] /\ p + v + n <= z
    /\ \A i \in 0 .. v - 1 : old[p + i] = w - v + 1 + i

\* What a buffer looks like after units were written to it.
LEMMA WriteRow ==
    \A p, v, n, z, w, old :
        Writable(old, p, v, n, z, w)
        => /\ Overwritten(old, p, v, n, w) \in [0 .. z - 1 -> Nat]
           /\ Continues(Overwritten(old, p, v, n, w), old, p, v, n, w)
<1> SUFFICES ASSUME NEW p, NEW v, NEW n, NEW z, NEW w, NEW old,
                    Writable(old, p, v, n, z, w)
             PROVE  /\ Overwritten(old, p, v, n, w) \in [0 .. z - 1 -> Nat]
                    /\ Continues(Overwritten(old, p, v, n, w), old, p, v, n, w)
  BY Zenon
<1>a. /\ p \in Nat /\ v \in Nat /\ n \in Nat /\ z \in Nat /\ w \in Nat
      /\ old \in [0 .. z - 1 -> Nat] /\ p + v + n <= z
      /\ \A i \in 0 .. v - 1 : old[p + i] = w - v + 1 + i
  BY Zenon DEF Writable
<1> USE <1>a
<1> DEFINE row == Overwritten(old, p, v, n, w)
<1>0. row = [i \in 0 .. z - 1 |-> IF i - p - v \in 0 .. n - 1 THEN w + 1 + i - p - v ELSE old[i]]
  <2>1. DOMAIN old = 0 .. z - 1
    OBVIOUS
  <2>. QED  BY <2>1, Zenon DEF Overwritten
<1> HIDE DEF row
<1>1. row \in [0 .. z - 1 -> Nat]
  <2>1. \A i \in 0 .. z - 1 : i - p - v \in 0 .. n - 1 => w + 1 + i - p - v \in Nat
    OBVIOUS
  <2>2. \A i \in 0 .. z - 1 : old[i] \in Nat
    OBVIOUS
  <2>. QED  BY <1>0, <2>1, <2>2
<1>2. ASSUME NEW i \in 0 .. p - 1 PROVE row[i] = old[i]
  <2>1. i \in 0 .. z - 1 /\ i - p - v \notin 0 .. n - 1
    OBVIOUS
  <2>. QED  BY <1>0, <2>1
<1>3. ASSUME NEW i \in 0 .. v + n - 1 PROVE row[p + i] = w + n - (v + n) + 1 + i
  <2>1. p + i \in 0 .. z - 1
    OBVIOUS
  <2>2. CASE i < v
    <3>1. i \in 0 .. v - 1 /\ (p + i) - p - v \notin 0 .. n - 1
      BY <2>2
    <3>2. row[p + i] = old[p + i]
      BY <1>0, <2>1, <3>1
    <3>3. old[p + i] = w - v + 1 + i
      BY <3>1
    <3>. QED  BY <3>2, <3>3
  <2>3. CASE ~ i < v
    <3>1. (p + i) - p - v \in 0 .. n - 1 /\ w + 1 + (p + i) - p - v = w + n - (v + n) + 1 + i
      BY <2>3
    <3>2. row[p + i] = w + 1 + (p + i) - p - v
      BY <1>0, <2>1, <3>1
    <3>. QED  BY <3>1, <3>2, Zenon
  <2>. QED  BY <2>2, <2>3
<1>. QED  BY <1>1, <1>2, <1>3 DEF row, Continues

\* The units are written behind the valid ones, where no reader looks.
LEMMA WriteGood ==
    ASSUME NEW r, NEW h, NEW w, Good(r, h, w), NEW n \in Nat,
           r.ptr + r.valid + n <= Size(r.memory, r.buffer), NEW row, NEW q,
           row = Overwritten(r.memory[r.buffer], r.ptr, r.valid, n, w),
           q.memory = [r.memory EXCEPT ![r.buffer] = row],
           q.buffer = r.buffer, q.ptr = r.ptr, q.valid = r.valid + n,
           q.in_progress = r.in_progress, q.stash = r.stash, q.shift = r.shift
    PROVE  Good(q, h, w + n)
<1> DEFINE z == Size(r.memory, r.buffer)
           old == r.memory[r.buffer]
           p == r.ptr
           v == r.valid
<1>1. Types(r, h, w) /\ Fits(r, h) /\ Data(r, h, w) /\ Places(r, h)
  BY DEF Good
<1>2. /\ r.memory \in Seq(Rows) /\ r.buffer \in DOMAIN r.memory
      /\ p \in Nat /\ v \in Nat /\ w \in Nat /\ h \subseteq Slice /\ p + v + n <= z
  BY <1>1 DEF Types
<1>3. old \in Rows
  BY <1>2
<1>4. z \in Nat /\ old \in [0 .. z - 1 -> Nat] /\ DOMAIN old = 0 .. z - 1
  BY <1>3, RowFacts DEF Size
<1>5. row = Overwritten(old, p, v, n, w)
  OBVIOUS
<1>6. \A i \in 0 .. v - 1 : old[p + i] = w - v + 1 + i
  BY <1>1 DEF Data
<1>7. q.ptr = p /\ q.valid = v + n
  OBVIOUS
<1> HIDE DEF z, old, p, v
<1>8. /\ row \in [0 .. z - 1 -> Nat]
      /\ \A i \in 0 .. p - 1 : row[i] = old[i]
      /\ \A i \in 0 .. v + n - 1 : row[p + i] = w + n - (v + n) + 1 + i
  <2>1. /\ Overwritten(old, p, v, n, w) \in [0 .. z - 1 -> Nat]
        /\ Continues(Overwritten(old, p, v, n, w), old, p, v, n, w)
    <3>1. Writable(old, p, v, n, z, w)
      BY <1>2, <1>4, <1>6, Zenon DEF Writable
    <3>. QED  BY <3>1, WriteRow, Zenon
  <2>2. row \in [0 .. z - 1 -> Nat] /\ Continues(row, old, p, v, n, w)
    BY <1>5, <2>1, Zenon
  <2>. QED  BY <2>2, Zenon DEF Continues
<1>9. row \in Rows /\ Cardinality(DOMAIN row) = z
  BY <1>4, <1>8, RowFacts
<1>10. /\ q.memory \in Seq(Rows) /\ DOMAIN q.memory = DOMAIN r.memory /\ q.memory[r.buffer] = row
       /\ \A b \in DOMAIN r.memory : b # r.buffer => q.memory[b] = r.memory[b]
  BY <1>2, <1>9
<1>11. \A b \in DOMAIN r.memory : Size(q.memory, b) = Size(r.memory, b)
  BY <1>9, <1>10 DEF Size, z
<1>12. Types(q, h, w + n)
  <2>1. q.ptr \in Nat /\ q.valid \in Nat /\ w + n \in Nat
    BY <1>2, <1>7
  <2>2. r.shift \in Nat /\ r.in_progress \in Seq(DOMAIN r.memory) /\ r.stash \in Seq(DOMAIN r.memory)
    BY <1>1, Zenon DEF Types
  <2>. QED  BY <1>2, <1>10, <2>1, <2>2, Zenon DEF Types
<1>13. Fits(q, h)
  <2>1. \A s \in h : /\ s.buffer \in DOMAIN q.memory /\ s.ptr + s.len <= Size(q.memory, s.buffer)
                     /\ Len(s.units) = s.len
    BY <1>1, <1>10, <1>11 DEF Fits
  <2>2. q.ptr + q.valid <= Size(q.memory, q.buffer)
    <3>1. p + (v + n) <= z
      BY <1>2, <1>4
    <3>. QED  BY <1>2, <1>7, <1>11, <3>1 DEF z
  <2>3. /\ Size(q.memory, q.buffer) = 2^q.shift
        /\ \A i \in DOMAIN q.in_progress : Size(q.memory, q.in_progress[i]) = 2^q.shift
        /\ \A i \in DOMAIN q.stash : Size(q.memory, q.stash[i]) = 2^q.shift
    <3>1. /\ \A i \in DOMAIN r.in_progress : r.in_progress[i] \in DOMAIN r.memory
          /\ \A i \in DOMAIN r.stash : r.stash[i] \in DOMAIN r.memory
      BY <1>1, SMTT(30) DEF Types
    <3>. QED  BY <1>1, <1>2, <1>11, <3>1 DEF Fits
  <2>. QED  BY <2>1, <2>2, <2>3 DEF Fits
<1>14. Data(q, h, w + n)
  <2>1. \A i \in 0 .. q.valid - 1 : q.memory[q.buffer][q.ptr + i] = (w + n) - q.valid + 1 + i
    <3>1. q.memory[q.buffer] = row
      BY <1>10, Zenon
    <3>2. ASSUME NEW i \in 0 .. q.valid - 1
          PROVE  q.memory[q.buffer][q.ptr + i] = (w + n) - q.valid + 1 + i
      <4>1. i \in 0 .. v + n - 1
        <5>1. i \in 0 .. (v + n) - 1
          BY <1>7, Zenon
        <5>2. (v + n) - 1 = v + n - 1
          BY <1>2
        <5>. QED  BY <5>1, <5>2, Zenon
      <4>2. row[p + i] = (w + n) - (v + n) + 1 + i
        <5>1. row[p + i] = w + n - (v + n) + 1 + i
          BY <1>8, <4>1, Zenon
        <5>2. w + n - (v + n) + 1 + i = (w + n) - (v + n) + 1 + i
          BY <1>2, <4>1
        <5>. QED  BY <5>1, <5>2, Zenon
      <4>3. q.memory[q.buffer][q.ptr + i] = row[p + i]
        BY <1>7, <3>1, Zenon
      <4>4. (w + n) - (v + n) + 1 + i = (w + n) - q.valid + 1 + i
        BY <1>7, Zenon
      <4>. QED  BY <4>2, <4>3, <4>4, Zenon
    <3>. QED  BY <3>2, Zenon
  <2>2. ASSUME NEW s \in h, NEW i \in 1 .. s.len
        PROVE  q.memory[s.buffer][s.ptr + i - 1] = s.units[i]
    <3>1. /\ s.buffer \in DOMAIN r.memory /\ s.ptr \in Nat /\ s.len \in Nat
          /\ r.memory[s.buffer][s.ptr + i - 1] = s.units[i]
          /\ s.buffer = r.buffer => s.ptr + s.len <= p
      BY <1>1, <1>2 DEF Fits, Data, Slice, p
    <3>2. CASE s.buffer # r.buffer
      BY <1>10, <3>1, <3>2
    <3>3. CASE s.buffer = r.buffer
      <4>1. \A a, l \in Nat : a + l <= p => \A x \in 1 .. l : a + x - 1 \in 0 .. p - 1
        BY <1>2
      <4>2. s.ptr + i - 1 \in 0 .. p - 1
        BY <3>1, <3>3, <4>1
      <4>. QED  BY <1>8, <1>10, <3>1, <3>3, <4>2 DEF old
    <3>. QED  BY <3>2, <3>3
  <2>3. \A s \in h : s.buffer = q.buffer => s.ptr + s.len <= q.ptr
    BY <1>1 DEF Data
  <2>. QED  BY <2>1, <2>2, <2>3, Zenon DEF Data
<1>15. Places(q, h)
  BY <1>1 DEF Places
<1>. QED  BY <1>12, <1>13, <1>14, <1>15 DEF Good

(* A slice is within its buffer, holds what it was given, and its buffer is *)
(* not empty; in the slab's own buffer it ends before the slab's part.      *)
Reads(row, p, l, u) ==
    /\ p \in Nat /\ l \in Nat /\ u \in Seq(Nat) /\ Len(u) = l
    /\ \A i \in 1 .. l : row[p + i - 1] = u[i]

SliceGood(r, s) ==
    /\ s \in Slice /\ s.buffer \in DOMAIN r.memory
    /\ s.ptr + s.len <= Size(r.memory, s.buffer)
    /\ Reads(r.memory[s.buffer], s.ptr, s.len, s.units)
    /\ s.buffer = r.buffer => s.ptr + s.len <= r.ptr
    /\ \A i \in DOMAIN r.stash : s.buffer # r.stash[i]

\* Readers may come to hold other slices, as long as each is good.
LEMMA SlicesGood ==
    /\ \A r, h, w, s : Good(r, h, w) /\ s \in h => SliceGood(r, s)
    /\ \A r, h, w, g : Good(r, h, w) /\ (\A s \in g : s \in h \/ SliceGood(r, s)) => Good(r, g, w)
<1>1. ASSUME NEW r, NEW h, NEW w, NEW s \in h, Good(r, h, w)
      PROVE  SliceGood(r, s)
  <2>1. s \in Slice /\ s.ptr \in Nat /\ s.len \in Nat /\ s.units \in Seq(Nat)
    BY <1>1 DEF Good, Types, Slice
  <2>. QED  BY <1>1, <2>1 DEF Good, Fits, Data, Places, SliceGood, Reads
<1>2. ASSUME NEW r, NEW h, NEW w, NEW g, Good(r, h, w), \A s \in g : SliceGood(r, s)
      PROVE  Good(r, g, w)
  <2>1. Types(r, g, w)
    BY <1>2 DEF Good, Types, SliceGood
  <2>2. Fits(r, g)
    BY <1>2 DEF Good, Fits, SliceGood, Reads
  <2>3. Data(r, g, w)
    BY <1>2 DEF Good, Data, SliceGood, Reads
  <2>4. Places(r, g)
    BY <1>2 DEF Good, Places, SliceGood
  <2>. QED  BY <2>1, <2>2, <2>3, <2>4 DEF Good
<1>3. ASSUME NEW r, NEW h, NEW w, NEW g, Good(r, h, w), \A s \in g : s \in h \/ SliceGood(r, s)
      PROVE  Good(r, g, w)
  <2>1. \A s \in g : SliceGood(r, s)
    BY <1>1, <1>3, Zenon
  <2>. QED  BY <1>2, <1>3, <2>1, Zenon
<1>. QED  BY <1>1, <1>3, Zenon

\* The first n valid units go to a reader, and the slab's part starts behind them.
LEMMA ExtractGood ==
    ASSUME NEW r, NEW h, NEW w, Good(r, h, w), NEW n \in 1 .. r.valid, NEW s, NEW q,
           s = [buffer |-> r.buffer, ptr |-> r.ptr, len |-> n,
                units |-> [i \in 1 .. n |-> w - r.valid + i]],
           q.memory = r.memory, q.buffer = r.buffer, q.ptr = r.ptr + n, q.valid = r.valid - n,
           q.in_progress = r.in_progress, q.stash = r.stash, q.shift = r.shift,
           r.valid <= w
    PROVE  Good(q, h \cup {s}, w)
<1> DEFINE p == r.ptr
           v == r.valid
           z == Size(r.memory, r.buffer)
           row == r.memory[r.buffer]
<1>1. Types(r, h, w) /\ Fits(r, h) /\ Data(r, h, w) /\ Places(r, h)
  BY DEF Good
<1>2. /\ p \in Nat /\ v \in Nat /\ w \in Nat /\ h \subseteq Slice /\ n \in 1 .. v /\ v <= w
      /\ z \in Nat /\ p + v <= z
  <2>1. z \in Nat
    <3>1. row \in Rows
      BY <1>1 DEF Types
    <3>. QED  BY <3>1, RowFacts DEF Size
  <2>. QED  BY <1>1, <2>1 DEF Types, Fits
<1>3. \A i \in 0 .. v - 1 : row[p + i] = w - v + 1 + i
  BY <1>1 DEF Data
<1>4. q.ptr = p + n /\ q.valid = v - n
  OBVIOUS
<1>5. /\ s.buffer = r.buffer /\ s.ptr = p /\ s.len = n
      /\ s.units = [i \in 1 .. n |-> w - v + i]
  OBVIOUS
<1> HIDE DEF p, v, z, row
<1>6. Good(q, h, w)
  <2>1. Types(q, h, w)
    <3>1. q.ptr \in Nat /\ q.valid \in Nat
      BY <1>2, <1>4
    <3>. QED  BY <1>1, <3>1, Zenon DEF Types
  <2>2. Fits(q, h)
    <3>1. p + n + (v - n) <= z
      BY <1>2
    <3>2. q.ptr + q.valid <= Size(q.memory, q.buffer)
      BY <1>4, <3>1 DEF z
    <3>. QED  BY <1>1, <3>2, Zenon DEF Fits
  <2>3. Data(q, h, w)
    <3>1. ASSUME NEW i \in 0 .. (v - n) - 1 PROVE row[(p + n) + i] = w - (v - n) + 1 + i
      <4>1. n + i \in 0 .. v - 1 /\ p + (n + i) = (p + n) + i
            /\ w - v + 1 + (n + i) = w - (v - n) + 1 + i
        BY <1>2
      <4>. QED  BY <1>3, <4>1, Zenon
    <3>2. \A i \in 0 .. q.valid - 1 : q.memory[q.buffer][q.ptr + i] = w - q.valid + 1 + i
      BY <1>4, <3>1, Zenon DEF row
    <3>3. ASSUME NEW t \in h, t.buffer = q.buffer PROVE t.ptr + t.len <= q.ptr
      <4>1. t.ptr + t.len <= p /\ t.ptr \in Nat /\ t.len \in Nat
        BY <1>1, <1>2, <3>3 DEF Data, p, Slice
      <4>2. \A a, l \in Nat : a + l <= p => a + l <= p + n
        BY <1>2
      <4>. QED  BY <1>4, <4>1, <4>2, Zenon
    <3>4. \A t \in h : \A i \in 1 .. t.len : q.memory[t.buffer][t.ptr + i - 1] = t.units[i]
      BY <1>1, Zenon DEF Data
    <3>. QED  BY <3>2, <3>3, <3>4, Zenon DEF Data
  <2>4. Places(q, h)
    BY <1>1, Zenon DEF Places
  <2>. QED  BY <2>1, <2>2, <2>3, <2>4 DEF Good
<1>7. SliceGood(q, s)
  <2>1. s.units \in Seq(Nat) /\ Len(s.units) = n
    <3> DEFINE u == [i \in 1 .. n |-> w - v + i]
    <3>1. u \in [1 .. n -> Nat] /\ n \in Nat
      BY <1>2
    <3> HIDE DEF u
    <3>2. u \in Seq(Nat) /\ Len(u) = n
      BY <3>1
    <3>. QED  BY <1>5, <3>2 DEF u
  <2>2. s \in Slice
    <3>1. r.buffer \in Nat
      BY <1>1, SMTT(30) DEF Types
    <3>2. s = [buffer |-> r.buffer, ptr |-> p, len |-> n, units |-> s.units]
      BY <1>5 DEF p
    <3>. QED  BY <1>2, <2>1, <3>1, <3>2 DEF Slice
  <2>3. s.ptr + s.len <= Size(q.memory, s.buffer)
    <3>1. p + n <= z
      BY <1>2
    <3>. QED  BY <1>5, <3>1 DEF z
  <2>4. ASSUME NEW i \in 1 .. s.len PROVE q.memory[s.buffer][s.ptr + i - 1] = s.units[i]
    <3>1. i - 1 \in 0 .. v - 1 /\ p + (i - 1) = p + i - 1 /\ w - v + 1 + (i - 1) = w - v + i
          /\ i \in 1 .. n
      BY <1>2, <1>5
    <3>2. row[p + i - 1] = w - v + i
      BY <1>3, <3>1, Zenon
    <3>3. s.units[i] = w - v + i
      BY <1>5, <3>1
    <3>. QED  BY <1>5, <3>2, <3>3 DEF row
  <2>5. s.ptr + s.len <= q.ptr
    BY <1>2, <1>4, <1>5
  <2>6. s.buffer \in DOMAIN q.memory /\ \A i \in DOMAIN q.stash : s.buffer # q.stash[i]
    BY <1>1, <1>5 DEF Types, Places
  <2>7. s.ptr \in Nat /\ s.len \in Nat
    BY <1>2, <1>5
  <2>. QED  BY <1>5, <2>1, <2>2, <2>3, <2>4, <2>5, <2>6, <2>7, Zenon DEF SliceGood, Reads
<1>8. \A t \in h \cup {s} : t \in h \/ SliceGood(q, t)
  BY <1>7
<1>. QED  BY <1>6, <1>8, SlicesGood, Zenon

\* Parts and concatenations of sequences.
LEMMA SeqFacts ==
    /\ \A s, m, n : m \in Int /\ n \in Int /\ (\A i \in m .. n : s[i] \in Nat) =>
           /\ SubSeq(s, m, n) \in Seq(Nat)
           /\ Len(SubSeq(s, m, n)) = IF m <= n THEN n - m + 1 ELSE 0
           /\ \A i \in 1 .. n - m + 1 : SubSeq(s, m, n)[i] = s[m + i - 1]
    /\ \A u, v : u \in Seq(Nat) /\ v \in Seq(Nat) =>
           /\ u \o v \in Seq(Nat) /\ Len(u \o v) = Len(u) + Len(v)
           /\ \A i \in 1 .. Len(u) + Len(v) :
                  (u \o v)[i] = IF i <= Len(u) THEN u[i] ELSE v[i - Len(u)]
<1>1. ASSUME NEW s, NEW m \in Int, NEW n \in Int, \A i \in m .. n : s[i] \in Nat
      PROVE  /\ SubSeq(s, m, n) \in Seq(Nat)
             /\ Len(SubSeq(s, m, n)) = IF m <= n THEN n - m + 1 ELSE 0
             /\ \A i \in 1 .. n - m + 1 : SubSeq(s, m, n)[i] = s[m + i - 1]
  BY <1>1, SubSeqProperties
<1>2. ASSUME NEW u \in Seq(Nat), NEW v \in Seq(Nat)
      PROVE  /\ u \o v \in Seq(Nat) /\ Len(u \o v) = Len(u) + Len(v)
             /\ \A i \in 1 .. Len(u) + Len(v) :
                    (u \o v)[i] = IF i <= Len(u) THEN u[i] ELSE v[i - Len(u)]
  BY ConcatProperties
<1>. QED  BY <1>1, <1>2, Zenon

\* What is read through the parts of a slice, and through two slices in one.
LEMMA ReadsParts ==
    /\ \A row, p, l, u, n : Reads(row, p, l, u) /\ n \in 1 .. l - 1 =>
           /\ Reads(row, p, n, SubSeq(u, 1, n))
           /\ Reads(row, p + n, l - n, SubSeq(u, n + 1, l))
    /\ \A row, p, l, u, k, v : Reads(row, p, l, u) /\ Reads(row, p + l, k, v) =>
           Reads(row, p, l + k, u \o v)
<1>1. ASSUME NEW row, NEW p, NEW l, NEW u, NEW n, Reads(row, p, l, u), n \in 1 .. l - 1
      PROVE  /\ Reads(row, p, n, SubSeq(u, 1, n))
             /\ Reads(row, p + n, l - n, SubSeq(u, n + 1, l))
  <2> DEFINE x == SubSeq(u, 1, n)
             y == SubSeq(u, n + 1, l)
  <2>1. /\ p \in Nat /\ l \in Nat /\ u \in Seq(Nat) /\ Len(u) = l
        /\ \A i \in 1 .. l : row[p + i - 1] = u[i]
        /\ n \in Nat /\ n < l /\ n >= 1
    BY <1>1 DEF Reads
  <2>2. \A i \in 1 .. l : u[i] \in Nat
    BY <2>1
  <2>3. x \in Seq(Nat) /\ Len(x) = n /\ \A i \in 1 .. n : x[i] = u[i]
    BY <2>1, SMTT(30)
  <2>4. y \in Seq(Nat) /\ Len(y) = l - n /\ \A i \in 1 .. l - n : y[i] = u[n + i]
    <3>1. n + 1 \in Int /\ n + 1 <= l /\ l - (n + 1) + 1 = l - n
      BY <2>1
    <3>2. \A i \in n + 1 .. l : u[i] \in Nat
      BY <2>1, <2>2
    <3>3. /\ y \in Seq(Nat)
          /\ Len(y) = IF n + 1 <= l THEN l - (n + 1) + 1 ELSE 0
          /\ \A i \in 1 .. l - (n + 1) + 1 : y[i] = u[(n + 1) + i - 1]
      <4>1. l \in Int
        BY <2>1
      <4>. QED  BY <3>1, <3>2, <4>1, SeqFacts, Zenon
    <3>4. \A i \in 1 .. l - n : (n + 1) + i - 1 = n + i
      BY <2>1
    <3> HIDE DEF y
    <3>. QED  BY <3>1, <3>3, <3>4
  <2> HIDE DEF x, y
  <2>5. Reads(row, p, n, x)
    <3>1. \A i \in 1 .. n : i \in 1 .. l
      BY <2>1
    <3>. QED  BY <2>1, <2>3, <3>1 DEF Reads
  <2>6. Reads(row, p + n, l - n, y)
    <3>1. ASSUME NEW i \in 1 .. l - n PROVE row[(p + n) + i - 1] = y[i]
      <4>1. n + i \in 1 .. l /\ p + (n + i) - 1 = (p + n) + i - 1
        BY <2>1
      <4>. QED  BY <2>1, <2>4, <4>1
    <3>2. p + n \in Nat /\ l - n \in Nat
      BY <2>1
    <3>. QED  BY <2>4, <3>1, <3>2 DEF Reads
  <2>. QED  BY <2>5, <2>6 DEF x, y
<1>2. ASSUME NEW row, NEW p, NEW l, NEW u, NEW k, NEW v, Reads(row, p, l, u),
             Reads(row, p + l, k, v)
      PROVE  Reads(row, p, l + k, u \o v)
  <2> DEFINE y == u \o v
  <2>1. /\ p \in Nat /\ l \in Nat /\ u \in Seq(Nat) /\ Len(u) = l
        /\ \A i \in 1 .. l : row[p + i - 1] = u[i]
        /\ k \in Nat /\ v \in Seq(Nat) /\ Len(v) = k
        /\ \A i \in 1 .. k : row[(p + l) + i - 1] = v[i]
    BY <1>2 DEF Reads
  <2>2. /\ y \in Seq(Nat) /\ Len(y) = l + k /\ \A i \in 1 .. l : y[i] = u[i]
        /\ \A i \in l + 1 .. l + k : y[i] = v[i - l]
    <3>1. /\ y \in Seq(Nat) /\ Len(y) = Len(u) + Len(v)
          /\ \A i \in 1 .. Len(u) + Len(v) :
                 y[i] = IF i <= Len(u) THEN u[i] ELSE v[i - Len(u)]
      BY <2>1, SeqFacts, Zenon
    <3> HIDE DEF y
    <3>2. \A i \in 1 .. Len(u) : y[i] = u[i]
      BY <2>1, <3>1
    <3>3. ASSUME NEW i \in l + 1 .. l + k PROVE y[i] = v[i - l]
      <4>1. i \in 1 .. Len(u) + Len(v) /\ ~ i <= Len(u)
        BY <2>1
      <4>2. y[i] = v[i - Len(u)]
        BY <3>1, <4>1
      <4>. QED  BY <2>1, <4>2, Zenon
    <3>. QED  BY <2>1, <3>1, <3>2, <3>3, Zenon
  <2> HIDE DEF y
  <2>3. ASSUME NEW i \in 1 .. l + k PROVE row[p + i - 1] = y[i]
    <3>1. CASE i <= l
      BY <2>1, <2>2, <3>1
    <3>2. CASE ~ i <= l
      <4>1. i \in l + 1 .. l + k /\ i - l \in 1 .. k /\ (p + l) + (i - l) - 1 = p + i - 1
        BY <2>1, <3>2
      <4>. QED  BY <2>1, <2>2, <4>1
    <3>. QED  BY <3>1, <3>2
  <2>4. l + k \in Nat
    BY <2>1
  <2>5. Reads(row, p, l + k, y)
    BY <2>1, <2>2, <2>3, <2>4 DEF Reads
  <2>. QED  BY <2>5 DEF y
<1>. QED  BY <1>1, <1>2, Zenon

\* A slice of a part of what a good one covers is good when it reads right.
LEMMA WithinGood ==
    ASSUME NEW r, NEW h, NEW w, Good(r, h, w), NEW s, SliceGood(r, s), NEW a,
           a \in Slice, a.buffer = s.buffer, a.ptr + a.len <= s.ptr + s.len,
           Reads(r.memory[a.buffer], a.ptr, a.len, a.units)
    PROVE  SliceGood(r, a)
<1>1. \A d, x, y \in Nat : x <= y /\ y <= d => x <= d
  OBVIOUS
<1>2. r.ptr \in Nat /\ Size(r.memory, s.buffer) \in Nat
  <2>1. r.memory[s.buffer] \in Rows
    BY DEF Good, Types, SliceGood
  <2>. QED  BY <2>1, RowFacts DEF Good, Types, Size
<1>3. a.ptr + a.len \in Nat /\ s.ptr + s.len \in Nat
  BY DEF SliceGood, Slice
<1>4. a.ptr + a.len <= Size(r.memory, a.buffer)
  BY <1>1, <1>2, <1>3, Zenon DEF SliceGood
<1>5. a.buffer = r.buffer => a.ptr + a.len <= r.ptr
  BY <1>1, <1>2, <1>3, Zenon DEF SliceGood
<1>. QED  BY <1>4, <1>5, Zenon DEF SliceGood

IsSlice(s, f, p, l, u) == s = [buffer |-> f, ptr |-> p, len |-> l, units |-> u]

\* A slice is the record of its parts.
LEMMA SliceIs ==
    \A s, f, p, l, u :
        /\ IsSlice(s, f, p, l, u)
        /\ f \in Nat /\ p \in Nat /\ l \in Nat /\ u \in Seq(Nat)
        => s \in Slice /\ s.buffer = f /\ s.ptr = p /\ s.len = l /\ s.units = u
  BY DEF Slice, IsSlice

\* Both parts of a slice that a reader splits are good.
LEMMA SplitGood ==
    ASSUME NEW r, NEW h, NEW w, Good(r, h, w), NEW s, SliceGood(r, s), NEW n \in 1 .. s.len - 1,
           NEW a, NEW b,
           a = [s EXCEPT !.len = n, !.units = SubSeq(s.units, 1, n)],
           b = [s EXCEPT !.ptr = @ + n, !.len = @ - n, !.units = SubSeq(s.units, n + 1, s.len)]
    PROVE  SliceGood(r, a) /\ SliceGood(r, b)
<1> DEFINE x == SubSeq(s.units, 1, n)
           y == SubSeq(s.units, n + 1, s.len)
           row == r.memory[s.buffer]
<1>1. s \in Slice /\ Reads(row, s.ptr, s.len, s.units)
  BY DEF SliceGood
<1>2. Reads(row, s.ptr, n, x) /\ Reads(row, s.ptr + n, s.len - n, y)
  BY <1>1, ReadsParts, Zenon
<1> HIDE DEF x, y, row
<1>3. x \in Seq(Nat) /\ y \in Seq(Nat) /\ n \in Nat /\ s.ptr + n \in Nat /\ s.len - n \in Nat
  BY <1>2 DEF Reads
<1>4. /\ a.buffer = s.buffer /\ a.ptr = s.ptr /\ a.len = n /\ a.units = x /\ a \in Slice
      /\ b.buffer = s.buffer /\ b.ptr = s.ptr + n /\ b.len = s.len - n /\ b.units = y
      /\ b \in Slice
  <2>1. /\ IsSlice(a, s.buffer, s.ptr, n, x)
        /\ IsSlice(b, s.buffer, s.ptr + n, s.len - n, y)
    BY <1>1 DEF Slice, x, y, IsSlice
  <2>2. s.buffer \in Nat /\ s.ptr \in Nat
    BY <1>1 DEF Slice
  <2>3. \A f, p, l, u : IsSlice(a, f, p, l, u) /\ f \in Nat /\ p \in Nat /\ l \in Nat /\ u \in Seq(Nat)
            => a \in Slice /\ a.buffer = f /\ a.ptr = p /\ a.len = l /\ a.units = u
    BY SliceIs
  <2>4. \A f, p, l, u : IsSlice(b, f, p, l, u) /\ f \in Nat /\ p \in Nat /\ l \in Nat /\ u \in Seq(Nat)
            => b \in Slice /\ b.buffer = f /\ b.ptr = p /\ b.len = l /\ b.units = u
    BY SliceIs
  <2>. QED  BY <1>3, <2>1, <2>2, <2>3, <2>4
<1>5. a.ptr + a.len <= s.ptr + s.len /\ b.ptr + b.len <= s.ptr + s.len
  <2>1. \A p, l \in Nat : n \in 1 .. l - 1 => p + n <= p + l /\ (p + n) + (l - n) <= p + l
    OBVIOUS
  <2>2. s.ptr \in Nat /\ s.len \in Nat
    BY <1>1 DEF Reads
  <2>. QED  BY <1>4, <2>1, <2>2, Zenon
<1>6. Reads(r.memory[a.buffer], a.ptr, a.len, a.units)
      /\ Reads(r.memory[b.buffer], b.ptr, b.len, b.units)
  BY <1>2, <1>4, Zenon DEF row
<1>. QED  BY <1>4, <1>5, <1>6, WithinGood

\* A slice that goes on with the next one of its buffer is good.
LEMMA MergeGood ==
    ASSUME NEW r, NEW h, NEW w, Good(r, h, w), NEW s, SliceGood(r, s), NEW t, SliceGood(r, t),
           adjacent(s, t), NEW a,
           a = [s EXCEPT !.len = @ + t.len, !.units = @ \o t.units]
    PROVE  SliceGood(r, a)
<1> DEFINE y == s.units \o t.units
           row == r.memory[s.buffer]
<1>1. s \in Slice /\ t \in Slice /\ s.buffer = t.buffer /\ s.ptr + s.len = t.ptr
      /\ Reads(row, s.ptr, s.len, s.units) /\ Reads(row, t.ptr, t.len, t.units)
  BY Zenon DEF SliceGood, adjacent
<1>2. Reads(row, s.ptr, s.len + t.len, y)
  BY <1>1, ReadsParts, Zenon
<1> HIDE DEF y, row
<1>3. y \in Seq(Nat) /\ s.len + t.len \in Nat
  BY <1>2 DEF Reads
<1>4. /\ a.buffer = s.buffer /\ a.ptr = s.ptr /\ a.len = s.len + t.len /\ a.units = y
      /\ a \in Slice
  <2>1. IsSlice(a, s.buffer, s.ptr, s.len + t.len, y)
    BY <1>1 DEF Slice, y, IsSlice
  <2>2. s.buffer \in Nat /\ s.ptr \in Nat
    BY <1>1 DEF Slice
  <2>3. \A f, p, l, u : IsSlice(a, f, p, l, u) /\ f \in Nat /\ p \in Nat /\ l \in Nat /\ u \in Seq(Nat)
            => a \in Slice /\ a.buffer = f /\ a.ptr = p /\ a.len = l /\ a.units = u
    BY SliceIs
  <2>. QED  BY <1>3, <2>1, <2>2, <2>3
<1>5. a.ptr + a.len <= t.ptr + t.len
  <2>1. \A p, l, k \in Nat : p + (l + k) <= (p + l) + k
    OBVIOUS
  <2>2. s.ptr \in Nat /\ s.len \in Nat /\ t.len \in Nat
    BY <1>1 DEF Reads
  <2>. QED  BY <1>1, <1>4, <2>1, <2>2, Zenon
<1>6. Reads(r.memory[a.buffer], a.ptr, a.len, a.units)
  BY <1>2, <1>4, Zenon DEF row
<1>. QED  BY <1>1, <1>4, <1>5, <1>6, WithinGood

-----------------------------------------------------------------------------
(* The theorems.                                                            *)

\* The first buffer is empty and nobody reads.
LEMMA InitInv == ASSUME SlabInit PROVE Inv
<1>1. InitialShift \in Nat /\ 2^InitialShift \in Nat /\ Blank(InitialShift) \in Rows
      /\ Cardinality(DOMAIN Blank(InitialShift)) = 2^InitialShift
  <2>1. InitialShift \in Nat
    BY SlabAssumption
  <2>2. 2^InitialShift \in Nat
    BY <2>1, Powers
  <2>3. Blank(InitialShift) \in [0 .. 2^InitialShift - 1 -> Nat]
    BY DEF Blank
  <2>. QED  BY <2>1, <2>2, <2>3, RowFacts
<1> DEFINE b == Blank(InitialShift)
<1>2. /\ memory = <<b>> /\ buffer = 1 /\ ptr = 0 /\ valid = 0 /\ in_progress = <<>> /\ stash = <<>>
      /\ shift = InitialShift /\ held = {} /\ written = 0
  BY DEF SlabInit
<1>3. /\ Slab.memory = memory /\ Slab.buffer = buffer /\ Slab.ptr = ptr /\ Slab.valid = valid
      /\ Slab.in_progress = in_progress /\ Slab.stash = stash /\ Slab.shift = shift
  BY DEF Slab
<1> HIDE DEF b
<1>4. memory \in Seq(Rows) /\ DOMAIN memory = {1} /\ memory[1] = b
  BY <1>1, <1>2 DEF b
<1>5. Types(Slab, held, written)
  BY <1>1, <1>2, <1>3, <1>4 DEF Types
<1>6. Fits(Slab, held)
  BY <1>1, <1>2, <1>3, <1>4 DEF Fits, Size, b
<1>7. Data(Slab, held, written)
  BY <1>2, <1>3 DEF Data
<1>8. Places(Slab, held)
  BY <1>2, <1>3 DEF Places, Distinct
<1>. QED  BY <1>2, <1>5, <1>6, <1>7, <1>8 DEF Inv, Good

\* The invariant is about the slab after a step as it is about the slab before.
LEMMA InvAfter ==
    ASSUME NEW q, Good(q, held', written'), valid' <= written',
           q = [memory |-> memory', buffer |-> buffer', ptr |-> ptr', valid |-> valid',
                in_progress |-> in_progress', stash |-> stash', shift |-> shift']
    PROVE  Inv'
<1>1. q = Slab'
  BY Zenon DEF Slab
<1>2. Good(Slab, held, written)'
  BY <1>1, SMTT(30) DEF Good, Types, Fits, Data, Places, Size, Distinct
<1>. QED  BY <1>2, Zenon DEF Inv

\* reserve and write.
LEMMA WriteInv == ASSUME Inv, NEW n \in Nat, write(n) PROVE Inv'
<1> DEFINE r == ensure_capacity(n)
           row == Overwritten(r.memory[r.buffer], r.ptr, r.valid, n, written)
           q == [memory |-> memory', buffer |-> buffer', ptr |-> ptr', valid |-> valid',
                 in_progress |-> in_progress', stash |-> stash', shift |-> shift']
<1>1. Good(r, held, written) /\ r.valid = valid /\ r.ptr + r.valid + n <= Size(r.memory, r.buffer)
  BY EnsureGood
<1>2. /\ memory' = [r.memory EXCEPT ![r.buffer] =
               [i \in DOMAIN @ |-> IF i - r.ptr - r.valid \in 0 .. n - 1
                                   THEN written + 1 + i - r.ptr - r.valid ELSE @[i]]]
      /\ buffer' = r.buffer /\ ptr' = r.ptr /\ valid' = r.valid + n
      /\ in_progress' = r.in_progress /\ stash' = r.stash /\ shift' = r.shift
      /\ written' = written + n /\ held' = held
  BY Zenon DEF write
<1> HIDE DEF r
<1>3. memory' = [r.memory EXCEPT ![r.buffer] = row]
  BY <1>2, Zenon DEF Overwritten
<1>4. /\ q.memory = memory' /\ q.buffer = buffer' /\ q.ptr = ptr' /\ q.valid = valid'
      /\ q.in_progress = in_progress' /\ q.stash = stash' /\ q.shift = shift'
  OBVIOUS
<1> HIDE DEF q, row
<1>5. /\ q.memory = [r.memory EXCEPT ![r.buffer] = row] /\ q.buffer = r.buffer /\ q.ptr = r.ptr
      /\ q.valid = r.valid + n /\ q.in_progress = r.in_progress /\ q.stash = r.stash
      /\ q.shift = r.shift /\ row = Overwritten(r.memory[r.buffer], r.ptr, r.valid, n, written)
  BY <1>2, <1>3, <1>4, Zenon DEF row
<1>6. Good(q, held, written + n)
  BY <1>1, <1>5, WriteGood
<1>7. valid' <= written'
  <2>1. valid \in Nat /\ written \in Nat /\ valid <= written
    BY DEF Inv, Good, Types, Slab
  <2>. QED  BY <1>1, <1>2, <2>1
<1>8. Good(q, held', written')
  BY <1>2, <1>6, Zenon
<1>. QED  BY <1>7, <1>8, InvAfter DEF q

\* Readers hold other slices, and nothing else changes.
LEMMA HeldInv ==
    ASSUME Inv, \A s \in held' : s \in held \/ SliceGood(Slab, s),
           UNCHANGED <<memory, buffer, ptr, valid, in_progress, stash, shift, written>>
    PROVE  Inv'
<1>1. Good(Slab, held', written)
  BY SlicesGood, Zenon DEF Inv
<1>2. Slab = [memory |-> memory', buffer |-> buffer', ptr |-> ptr', valid |-> valid',
              in_progress |-> in_progress', stash |-> stash', shift |-> shift']
  BY DEF Slab
<1>3. Good(Slab, held', written') /\ valid' <= written'
  BY <1>1 DEF Inv
<1>. QED  BY <1>2, <1>3, InvAfter

\* extract.
LEMMA ExtractInv == ASSUME Inv, NEW n \in Nat, extract(n) PROVE Inv'
<1> DEFINE s == [buffer |-> buffer, ptr |-> ptr, len |-> n,
                 units |-> [i \in 1 .. n |-> written - valid + i]]
           q == [memory |-> memory', buffer |-> buffer', ptr |-> ptr', valid |-> valid',
                 in_progress |-> in_progress', stash |-> stash', shift |-> shift']
<1>1. /\ n \in 1 .. valid /\ held' = held \cup {s} /\ ptr' = ptr + n /\ valid' = valid - n
      /\ memory' = memory /\ buffer' = buffer /\ in_progress' = in_progress /\ stash' = stash
      /\ shift' = shift /\ written' = written
  BY DEF extract
<1>2. /\ Slab.memory = memory /\ Slab.buffer = buffer /\ Slab.ptr = ptr /\ Slab.valid = valid
      /\ Slab.in_progress = in_progress /\ Slab.stash = stash /\ Slab.shift = shift
  BY DEF Slab
<1>3. Good(Slab, held, written) /\ valid <= written /\ valid \in Nat /\ written \in Nat
  BY <1>2 DEF Inv, Good, Types
<1>4. /\ q.memory = Slab.memory /\ q.buffer = Slab.buffer /\ q.ptr = Slab.ptr + n
      /\ q.valid = Slab.valid - n /\ q.in_progress = Slab.in_progress /\ q.stash = Slab.stash
      /\ q.shift = Slab.shift
  BY <1>1, <1>2
<1>5. s = [buffer |-> Slab.buffer, ptr |-> Slab.ptr, len |-> n,
           units |-> [i \in 1 .. n |-> written - Slab.valid + i]]
  BY <1>2, Zenon
<1> HIDE DEF q, s
<1>6. n \in 1 .. Slab.valid /\ Slab.valid <= written
  BY <1>1, <1>2, <1>3
<1> HIDE DEF Slab
<1>7. Good(q, held \cup {s}, written)
  BY <1>3, <1>4, <1>5, <1>6, ExtractGood
<1>8. Good(q, held', written') /\ valid' <= written'
  BY <1>1, <1>3, <1>7
<1>. QED  BY <1>8, InvAfter DEF q

\* The invariant is preserved by every step.
LEMMA NextInv == ASSUME Inv, [SlabNext]_slab_vars PROVE Inv'
<1>1. ASSUME NEW n \in 1 .. MaxReserve, write(n) PROVE Inv'
  BY <1>1, WriteInv
<1>2. ASSUME NEW n \in 1 .. valid, extract(n) PROVE Inv'
  BY <1>2, ExtractInv
<1>3. \A s \in held : SliceGood(Slab, s)
  BY SlicesGood, Zenon DEF Inv
<1>4. ASSUME NEW s \in held, release(s) PROVE Inv'
  BY <1>4, HeldInv DEF release
<1>5. ASSUME NEW s \in held, NEW n \in 1 .. s.len, extract_to(s, n) PROVE Inv'
  <2> DEFINE a == [s EXCEPT !.len = n, !.units = SubSeq(s.units, 1, n)]
             b == [s EXCEPT !.ptr = @ + n, !.len = @ - n, !.units = SubSeq(s.units, n + 1, s.len)]
  <2>1. n \in 1 .. s.len - 1 /\ held' = (held \ {s}) \cup {a, b}
    BY <1>5, Zenon DEF extract_to
  <2>2. SliceGood(Slab, a) /\ SliceGood(Slab, b)
    <3>1. Good(Slab, held, written) /\ SliceGood(Slab, s)
      BY <1>3 DEF Inv
    <3>. QED  BY <2>1, <3>1, SplitGood
  <2> HIDE DEF a, b
  <2>3. \A t \in held' : t \in held \/ SliceGood(Slab, t)
    BY <2>1, <2>2
  <2>4. UNCHANGED <<memory, buffer, ptr, valid, in_progress, stash, shift, written>>
    BY <1>5, Zenon DEF extract_to
  <2>. QED  BY <2>3, <2>4, HeldInv
<1>6. ASSUME NEW s \in held, NEW t \in held, try_merge(s, t) PROVE Inv'
  <2> DEFINE a == [s EXCEPT !.len = @ + t.len, !.units = @ \o t.units]
  <2>1. adjacent(s, t) /\ held' = (held \ {s, t}) \cup {a}
    BY <1>6, Zenon DEF try_merge
  <2>2. SliceGood(Slab, a)
    <3>1. Good(Slab, held, written) /\ SliceGood(Slab, s) /\ SliceGood(Slab, t)
      BY <1>3 DEF Inv
    <3>. QED  BY <2>1, <3>1, MergeGood
  <2> HIDE DEF a
  <2>3. \A x \in held' : x \in held \/ SliceGood(Slab, x)
    BY <2>1, <2>2
  <2>4. UNCHANGED <<memory, buffer, ptr, valid, in_progress, stash, shift, written>>
    BY <1>6, Zenon DEF try_merge
  <2>. QED  BY <2>3, <2>4, HeldInv
<1>7. CASE UNCHANGED slab_vars
  BY <1>7, HeldInv DEF slab_vars
<1>. QED  BY <1>1, <1>2, <1>4, <1>5, <1>6, <1>7 DEF SlabNext

\* The invariant of the slab holds: units and slices are within their buffers,
\* the buffers that can be used again are of one size, and readers are behind the slab's part.
THEOREM InvHolds == SlabSpec => []Inv
<1>1. SlabInit => Inv
  BY InitInv
<1>2. Inv /\ [SlabNext]_slab_vars => Inv'
  BY NextInv
<1>. QED  BY <1>1, <1>2, PTL DEF SlabSpec

\* What a reader holds never changes: a buffer is written to again only when
\* try_regenerate found no other reference, and slices are merged only side by side.
THEOREM HeldStableHolds == SlabSpec => []HeldStable
<1>1. Inv => HeldStable
  <2> SUFFICES ASSUME Inv, NEW s \in held PROVE Contents(s) = s.units
    BY DEF HeldStable
  <2>1. SliceGood(Slab, s) /\ Slab.memory = memory
    BY SlicesGood, Zenon DEF Inv, Slab
  <2>2. /\ s.units \in Seq(Nat) /\ Len(s.units) = s.len
        /\ \A i \in 1 .. s.len : memory[s.buffer][s.ptr + i - 1] = s.units[i]
    BY <2>1, Zenon DEF SliceGood, Reads
  <2> DEFINE u == s.units
             c == Contents(s)
  <2>3. DOMAIN u = 1 .. s.len /\ u = [i \in DOMAIN u |-> u[i]]
    BY <2>2
  <2>4. c = [i \in 1 .. s.len |-> memory[s.buffer][s.ptr + i - 1]]
    BY Zenon DEF Contents
  <2> HIDE DEF c
  <2>5. \A i \in 1 .. s.len : c[i] = u[i]
    BY <2>2, <2>4
  <2>6. c = [i \in 1 .. s.len |-> c[i]]
    BY <2>4
  <2> HIDE DEF u
  <2>. QED  BY <2>3, <2>5, <2>6 DEF c, u
<1>. QED  BY <1>1, InvHolds, PTL

\* The valid units of the slab are the ones written last, in order, wherever
\* ensure_capacity moved them.
THEOREM ValidInOrderHolds == SlabSpec => []ValidInOrder
<1>1. Inv => ValidInOrder
  <2> SUFFICES ASSUME Inv PROVE ValidInOrder
    OBVIOUS
  <2>1. /\ Types(Slab, held, written) /\ Fits(Slab, held) /\ Data(Slab, held, written)
        /\ Slab.memory = memory /\ Slab.buffer = buffer /\ Slab.ptr = ptr /\ Slab.valid = valid
    BY DEF Inv, Good, Slab
  <2>2. /\ memory \in Seq(Rows) /\ buffer \in DOMAIN memory /\ ptr \in Nat /\ valid \in Nat
        /\ ptr + valid <= Capacity(buffer)
        /\ \A i \in 0 .. valid - 1 : memory[buffer][ptr + i] = written - valid + 1 + i
    BY <2>1, Zenon DEF Types, Fits, Data, Capacity, Size
  <2>3. Capacity(buffer) \in Nat
    BY <2>2, RowFacts DEF Capacity
  <2>4. Room >= 0
    BY <2>2, <2>3 DEF Room
  <2>. QED  BY <2>2, <2>4, Zenon DEF ValidInOrder
<1>. QED  BY <1>1, InvHolds, PTL

\* The slab's buffer, the retired and the empty ones are all different, and an
\* empty buffer has the current size and no reader.
THEOREM OnePlaceHolds == SlabSpec => []OnePlace
<1>1. Inv => OnePlace
  <2> SUFFICES ASSUME Inv PROVE OnePlace
    OBVIOUS
  <2> DEFINE a == in_progress
             b == stash
             q == <<buffer>> \o a \o b
  <2>1. /\ Types(Slab, held, written) /\ Fits(Slab, held) /\ Places(Slab, held)
        /\ Slab.memory = memory /\ Slab.buffer = buffer
        /\ Slab.in_progress = a /\ Slab.stash = b /\ Slab.shift = shift
    BY DEF Inv, Good, Slab
  <2>2. buffer \in DOMAIN memory /\ a \in Seq(DOMAIN memory) /\ b \in Seq(DOMAIN memory)
    BY <2>1, Zenon DEF Types
  <2>3. /\ Distinct(a) /\ Distinct(b)
        /\ \A i \in DOMAIN a : a[i] # buffer
        /\ \A i \in DOMAIN b : b[i] # buffer
        /\ \A i \in DOMAIN a, j \in DOMAIN b : a[i] # b[j]
        /\ \A i \in DOMAIN b, s \in held : s.buffer # b[i]
    BY <2>1, Zenon DEF Places
  <2>4. \A i \in DOMAIN b : Capacity(b[i]) = 2^shift
    BY <2>1, Zenon DEF Fits, Capacity, Size
  <2>5. /\ DOMAIN q = 1 .. 1 + Len(a) + Len(b)
        /\ q[1] = buffer
        /\ \A i \in DOMAIN a : q[1 + i] = a[i]
        /\ \A i \in DOMAIN b : q[1 + Len(a) + i] = b[i]
    <3> HIDE DEF a, b
    <3>. QED  BY <2>2
  <2>6. \A x \in DOMAIN q : \/ x = 1
                            \/ \E i \in DOMAIN a : x = 1 + i
                            \/ \E i \in DOMAIN b : x = 1 + Len(a) + i
    <3> SUFFICES ASSUME NEW x \in DOMAIN q, x # 1, ~ \E i \in DOMAIN a : x = 1 + i
                 PROVE  \E i \in DOMAIN b : x = 1 + Len(a) + i
      OBVIOUS
    <3> HIDE DEF a, b, q
    <3>1. x \in 1 .. 1 + Len(a) + Len(b) /\ Len(a) \in Nat /\ Len(b) \in Nat
          /\ DOMAIN a = 1 .. Len(a) /\ DOMAIN b = 1 .. Len(b)
      BY <2>2, <2>5
    <3>2. ~ (x - 1 \in 1 .. Len(a) /\ x = 1 + (x - 1))
      BY <3>1
    <3>3. x - 1 - Len(a) \in 1 .. Len(b) /\ x = 1 + Len(a) + (x - 1 - Len(a))
      BY <3>1, <3>2
    <3>. QED  BY <3>1, <3>3
  <2> HIDE DEF a, b, q
  <2>7. \A x, y \in DOMAIN q : q[x] = q[y] => x = y
    BY <2>2, <2>3, <2>5, <2>6 DEF Distinct
  <2>8. IsInjective(q)
    BY <2>7, Zenon DEF IsInjective
  <2>9. \A c \in Range(b) : Capacity(c) = 2^shift /\ \A s \in held : s.buffer # c
    BY <2>3, <2>4, Zenon DEF Range
  <2>. QED  BY <2>8, <2>9, Zenon DEF OnePlace, q, a, b
<1>. QED  BY <1>1, InvHolds, PTL

=============================================================================
