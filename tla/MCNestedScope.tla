---------------------------- MODULE MCNestedScope ----------------------------
EXTENDS NestedScope

CONSTANTS w1, w2

From(a, p, in, out, time, round) ==
    [a |-> a, p |-> p, sends |-> in, leaves |-> out, time |-> time, round |-> round]

(* A message that enters the nested scope while A's time advances, and one  *)
(* that goes through it; a P that delays what it keeps; the P's of two      *)
(* workers; and A at one worker with P at the other.                        *)
MCStarts == {From({w1}, {}, 1, 0, 1, 0), From({w1}, {}, 1, 1, 0, 0), From({}, {w1}, 0, 1, 0, 1),
             From({}, {w1, w2}, 0, 1, 0, 0), From({w1}, {w2}, 1, 0, 0, 0)}
=============================================================================
