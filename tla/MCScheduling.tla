---------------------------- MODULE MCScheduling ----------------------------
(* Two workers, an exchange channel and a pipeline, and one other thread.   *)
EXTENDS Scheduling

CONSTANTS w1, w2
=============================================================================
