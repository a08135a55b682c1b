----------------------------- MODULE Notificator -----------------------------
(***************************************************************************)
(* FrontierNotificator and Notificator: an operator asks to be told when   *)
(* no more input can come at a time, and is told in order of time.         *)
(*                                                                         *)
(* A notificator is [pending, available]: the set of times that wait for   *)
(* the frontiers, and the sequence of the times whose turn has come.  A    *)
(* request stands for its capability.  How often a time was requested is   *)
(* left out: an operator is told of a time once or more, and none of this  *)
(* crate asks for the number.                                              *)
(***************************************************************************)
EXTENDS Integers, Sequences, SequencesExt

Idle == [pending |-> {}, available |-> <<>>]

\* A frontier is its only element, or the later time Never that stands for none.
less_equal(frontier, t) == frontier <= t

\* No input can come at t any more.
Passed(fs, t) == \A p \in DOMAIN fs : ~ less_equal(fs[p], t)

\* Notificator::notify_at: made available at once if the frontiers have passed.
notify_at(n, fs, t) ==
    IF Passed(fs, t) THEN [n EXCEPT !.available = Append(@, t)]
    ELSE [n EXCEPT !.pending = @ \cup {t}]

\* FrontierNotificator::make_available
make_available(n, fs) ==
    LET past == {t \in n.pending : Passed(fs, t)}
    IN  [pending |-> n.pending \ past, available |-> n.available \o SetToSeq(past)]

\* The heap gives the times in order, the least one first.
InOrder(times) == SortSeq(times, LAMBDA s, t : s < t)

(* for_each: what is available is handed out; that exhausts it, and then    *)
(* the pending ones are looked at once more.                                *)
for_each(n, fs) ==
    LET more == make_available([n EXCEPT !.available = <<>>], fs)
    IN  [notificator |-> [more EXCEPT !.available = <<>>],
         times |-> InOrder(n.available) \o InOrder(more.available)]

\* The capabilities that the requests hold.
Held(n) == n.pending \cup ToSet(n.available)

=============================================================================
