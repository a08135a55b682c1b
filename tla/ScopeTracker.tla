---------------------------- MODULE ScopeTracker ----------------------------
(***************************************************************************)
(* Counts and frontiers of a scope whose ports are in a row: the edges and *)
(* the operators between them leave the time unchanged.  A batch of        *)
(* changes and the pointstamps of a tracker are functions from some points  *)
(* <<port, time>> to integers other than zero.                             *)
(***************************************************************************)
EXTENDS Integers, Functions

CONSTANTS
    Times,     \* timestamps
    TimeLeq,   \* their order, as a set of pairs
    Below      \* Below[p]: what could result in p, a pair of a port (numbered along the row) and a time

less_equal(s, t) == <<s, t>> \in TimeLeq
less_than(s, t) == less_equal(s, t) /\ s # t

(* ChangeBatch: the sum of an update for p, and of two batches; what sums   *)
(* up to zero is removed.                                                   *)
Nothing == [p \in {} |-> 0]
Count(b, p) == IF p \in DOMAIN b THEN b[p] ELSE 0
Change(p, n) == IF n = 0 THEN Nothing ELSE [q \in {p} |-> n]
Plus(b, c) ==
    LET sum(p) == Count(b, p) + Count(c, p)
    IN  [p \in {q \in DOMAIN b \cup DOMAIN c : sum(q) # 0} |-> sum(p)]

\* The sum of a family of batches, and of a family of families.
Total(batches) ==
    LET sum(p) == SumFunction([i \in DOMAIN batches |-> Count(batches[i], p)])
    IN  [p \in {q \in UNION {DOMAIN batches[i] : i \in DOMAIN batches} : sum(q) # 0} |-> sum(p)]
Totals(families) == Total([i \in DOMAIN families |-> Total(families[i])])

\* The part of a batch at some of the ports.
Restricted(b, ports) == [p \in {q \in DOMAIN b : q[1] \in ports} |-> b[p]]

\* The points that are counted more often than not.
Counted(T) == {p \in DOMAIN T : T[p] > 0}

\* The frontier at a port, for the counts of a tracker.
Implied(T, l, t) == Counted(T) \cap Below[<<l, t>>] # {}
Least(S) == {t \in S : ~ \E s \in S : less_than(s, t)}
Frontier(T, l) == Least({t \in Times : Implied(T, l, t)})

\* The frontier of the counts at the port itself.
Pointstamps(T, l) == Least({p[2] : p \in {q \in Counted(T) : q[1] = l}})

(* PortInformation::is_global; p is counted once for the port itself, and   *)
(* once for the port before it.                                             *)
is_global(T, p) ==
    LET dominated == \E t \in Frontier(T, p[1]) : less_than(t, p[2])
        redundant == p[1] > 1 /\ p[2] \in Pointstamps(T, p[1]) \cap Frontier(T, p[1] - 1)
    IN  ~ dominated /\ ~ redundant

tracking_anything(T) == Counted(T) # {}

\* Updates that others have to hear of, unless all are sent at once.
must_send(T, local) == \E p \in DOMAIN local : local[p] < 0 /\ is_global(T, p)
=============================================================================
