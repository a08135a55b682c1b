-------------------------- MODULE ProgressTracking --------------------------
(***************************************************************************)
(* What progress tracking promises to the operators of a dataflow, without *)
(* saying how: a worker is told that a pointstamp is finished (its         *)
(* frontier has passed it) only when no capability and no message that     *)
(* could still result in it exists on any worker, and is never told        *)
(* otherwise later.  Module ProgressProtocol is shown to implement this.   *)
(***************************************************************************)
CONSTANTS
    Workers,      \* the worker threads of all processes
    Points,       \* pointstamps: a location of the graph paired with a time
    Leq           \* could-result-in: a set of pairs of pointstamps

VARIABLES
    outstanding,  \* the pointstamps of the live capabilities and messages
    passed        \* passed[w]: the pointstamps that w's frontiers have passed

vars == <<outstanding, passed>>

\* No live object could still result in p.
Finished(p, live) == ~ \E q \in live : <<q, p>> \in Leq

Init ==
    /\ outstanding \in SUBSET Points
    /\ passed = [w \in Workers |-> {p \in Points : Finished(p, outstanding)}]

(* Operators run: objects are retired, and every object that appears is     *)
(* derived from one that existed.                                           *)
Compute ==
    /\ outstanding' \in SUBSET Points
    /\ \A p \in outstanding' : \E q \in outstanding : <<q, p>> \in Leq
    /\ UNCHANGED passed

\* Worker w learns that some more pointstamps are finished.
Advance(w) ==
    /\ passed' = [passed EXCEPT ![w] = passed'[w]]
    /\ passed[w] \subseteq passed'[w]
    /\ passed'[w] \subseteq {p \in Points : Finished(p, outstanding)}
    /\ UNCHANGED outstanding

Next == Compute \/ \E w \in Workers : Advance(w)

Spec == Init /\ [][Next]_vars
=============================================================================
