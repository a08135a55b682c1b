---------------------------- MODULE MCTransport ----------------------------
EXTENDS Transport

CONSTANTS s1, s2, r1, r2

MCSize == <<1>>

Case(kind, program, receivers, ending, failing, leaving, allocated) ==
    [medium |-> kind, program |-> program, receivers |-> receivers, ending |-> ending,
     failing |-> failing, leaving |-> leaving, allocated |-> allocated]

One == <<<<1, {r1}>>>>
Two == <<<<1, {r1}>>, <<1, {r1}>>>>
ToAll == <<<<1, {r1, r2}>>>>

MCScenarios ==
    { Case("tcp", s1 :> Two, {r1}, {}, {}, {}, 0),
      Case("tcp", s1 :> One, {r1}, {s1}, {s1}, {}, 1),
      Case("tcp", s1 :> ToAll, {r1, r2}, {}, {}, {}, 1),
      Case("tls", s1 :> One @@ s2 :> <<>>, {r1}, {s1, s2}, {s2}, {}, 1),
      Case("quic", s1 :> One, {r1}, {s1}, {}, {r1}, 0),
      Case("quic", s1 :> One, {r1}, {s1}, {s1}, {r1}, 1),
      Case("ipc", s1 :> One @@ s2 :> <<>>, {r1}, {s1, s2}, {}, {}, 1),
      Case("process", s1 :> Two @@ s2 :> <<>>, {r1}, {}, {s1}, {r1}, 0) }
=============================================================================
