---------------------------- MODULE MCSequencer ----------------------------
(* Two workers, with indexes as the allocator hands them out.               *)
EXTENDS Sequencer

CONSTANTS w1, w2

\* Timers that may show two workers the same time.
MCElapsed == [w \in Peers |-> IF w = w1 THEN {1, 3} ELSE {1, 2, 3}]
MCPushes == [w \in Peers |-> IF w = w1 THEN 2 ELSE 1]

MCIndex == [w \in Peers |-> IF w = w1 THEN 0 ELSE 1]
=============================================================================
