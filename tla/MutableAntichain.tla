-------------------------- MODULE MutableAntichain --------------------------
(***************************************************************************)
(* progress::frontier::MutableAntichain: counts of times, and the minimal  *)
(* times with a positive count, kept up to date by a rebuild that is       *)
(* skipped when an update cannot have changed them.                        *)
(*                                                                         *)
(* An antichain is a record [updates, frontier].  A batch of updates is a  *)
(* function from times to integers, zero where it has no entry, as         *)
(* ChangeBatch leaves it after compaction.                                 *)
(***************************************************************************)
EXTENDS Integers

CONSTANTS
    Times,
    TimeLeq,  \* the partial order of times (PartialOrder), as a set of pairs
    TimeOrd   \* the total order that sorts them (Ord), as a set of pairs

less_equal(s, t) == <<s, t>> \in TimeLeq
less_than(s, t) == less_equal(s, t) /\ s # t

(* Two orders on one type; rebuild relies on the second extending the first *)
(* ("as the times are sorted, we don't need to worry that we might displace *)
(* frontier elements").                                                     *)
Ordered ==
    /\ \A t \in Times : less_equal(t, t)
    /\ \A s, t, u \in Times : less_equal(s, t) /\ less_equal(t, u) => less_equal(s, u)
    /\ \A s, t \in Times : /\ less_equal(s, t) => <<s, t>> \in TimeOrd
                           /\ <<s, t>> \in TimeOrd \/ <<t, s>> \in TimeOrd
                           /\ <<s, t>> \in TimeOrd /\ <<t, s>> \in TimeOrd => s = t

Antichain == [updates : [Times -> Int], frontier : SUBSET Times]
Empty == [updates |-> [t \in Times |-> 0], frontier |-> {}]

Positive(updates) == {t \in Times : updates[t] > 0}

(* Positive times are taken in the sorted order; one is pushed unless a     *)
(* time already pushed is less_equal to it.                                 *)
rebuild(updates) ==
    CHOOSE F \in SUBSET Positive(updates) :
        \A t \in Positive(updates) :
            t \in F <=> ~ \E f \in F : <<f, t>> \in TimeOrd /\ f # t /\ less_equal(f, t)

\* Faulty: an update at a time of the frontier itself is taken for one beyond it.
no_rebuild_at_frontier(m, t, delta) ==
    ~ (\/ \E f \in m.frontier : less_equal(f, t)
       \/ delta < 0 /\ ~ \E f \in m.frontier : less_equal(f, t))

rebuild_required(m, t, delta) ==
    LET beyond_frontier == \E f \in m.frontier : less_than(f, t)
        before_frontier == ~ \E f \in m.frontier : less_equal(f, t)
    IN  ~ (beyond_frontier \/ (delta < 0 /\ before_frontier))

update_iter(m, batch) ==
    LET updates == [t \in Times |-> m.updates[t] + batch[t]]
    IN  [updates |-> updates,
         frontier |-> IF \E t \in Times : batch[t] # 0 /\ rebuild_required(m, t, batch[t])
                      THEN rebuild(updates) ELSE m.frontier]

\* The changes that update_iter drains: what rebuild removed and what it added.
Change(old, new, t) ==
    (IF t \in new.frontier THEN 1 ELSE 0) - (IF t \in old.frontier THEN 1 ELSE 0)

(* frontier() "reveals the minimal elements with positive count".           *)
Exact(m) ==
    m.frontier = {t \in Positive(m.updates) :
                     ~ \E s \in Positive(m.updates) : less_than(s, t)}
=============================================================================
