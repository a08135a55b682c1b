------------------------------ MODULE MCConnect ------------------------------
EXTENDS Connect

Hosts3(a, b, c) == [p \in 0 .. 2 |-> <<a, b, c>>[p + 1]]
Hosts2(a, b) == [p \in 0 .. 1 |-> <<a, b>>[p + 1]]

Layout(t, h, n) == [transport |-> t, host |-> h, threads |-> n]

\* Each on its own host, two that share a host and come last, all on one host,
\* and processes with two workers.
MCLayouts ==
    { Layout("tcp", Hosts3(1, 2, 3), 1), Layout("quic", Hosts3(1, 2, 3), 1),
      Layout("tls", Hosts3(1, 2, 2), 1), Layout("tcp", Hosts3(1, 1, 1), 1),
      Layout("tcp", Hosts2(1, 2), 2), Layout("tcp", Hosts2(1, 1), 2) }

\* Two that share a host and come before one on another host (with TCP the code
\* says that it does not support this).
MixedLayouts == {Layout("tls", Hosts3(1, 1, 2), 1)}
=============================================================================
