------------------------------ MODULE MCDataflow ------------------------------
EXTENDS Dataflow

One == <<1, 1>>       \* both sources on one worker
Two == <<1, 2>>       \* a worker each
Three == <<1, 2, 3>>  \* a third one

Bench(worker, pact, kind, source, program, records) ==
    [worker |-> worker, pact |-> pact, op |-> kind, source |-> source, program |-> program,
     capacity |-> IF pact = "pipeline" THEN 2 ELSE records + 1, records |-> records,
     last |-> IF kind = "state_machine" \/ "barrier" \in program THEN 2 ELSE 1]

Epochs == {"send", "advance_to", "close"}

MCBenches ==
    {Bench(One, "pipeline", k, "input", Epochs, 2) :
        k \in Stateless \cup {"concat", "inspect", "iterate", "delay", "delay_batch", "accumulate", "state_machine"}}
    \cup {Bench(One, "pipeline", "reclock", "input", Epochs, 3),
          Bench(Two, "exchange", "exchange", "input", Epochs \cup {"late"}, 2),
          Bench(Two, "exchange", "aggregate", "input", Epochs, 3),
          Bench(Two, "pipeline", "capture", "iterator", {}, 2),
          Bench(One, "pipeline", "aggregate", "unordered", {}, 2),
          Bench(Two, "exchange", "exchange", "to_stream", {}, 3),
          Bench(Two, "exchange", "exchange", "iterator", {}, 3),
          Bench(Three, "pipeline", "exchange", "input", {"barrier", "close"}, 0),
          Bench(One, "pipeline", "exchange", "input", {"send_batch", "advance_to", "close"}, 2)}

\* Records of an exchange that are handed over while the Input operator is active.
MCBatches == {Bench(Two, "exchange", "exchange", "input", {"send_batch", "advance_to", "close"}, 1)}

===============================================================================
