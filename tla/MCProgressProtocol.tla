------------------------- MODULE MCProgressProtocol -------------------------
(***************************************************************************)
(* A small dataflow graph for ProgressProtocol.  A graph is a set of edges *)
(* from an output port to an input port, and a set of internal summaries   *)
(* <<input port, output port, delay>>; results_in is an addition that      *)
(* yields nothing on overflow.                                             *)
(***************************************************************************)
EXTENDS ProgressProtocol

CONSTANT MaxTime

MCTimes == 0 .. MaxTime
MCTimeLeq == {e \in MCTimes \X MCTimes : e[1] <= e[2]}

Hops(edges, summaries) ==
    {<<h[1], h[2]>> : h \in {h \in Points \X Points :
        \/ h[1][2] = h[2][2] /\ <<h[1][1], h[2][1]>> \in edges
        \/ \E s \in summaries : s = <<h[1][1], h[2][1], h[2][2] - h[1][2]>>}}

\* Doubling the length of the paths; four times is enough for 16 pointstamps.
Double(R) == {<<c[1][1], c[2][2]>> : c \in {d \in R \X R : d[1][2] = d[2][1]}}
Closure(hops) ==
    Double(Double(Double(Double(hops \cup
        {e \in Points \X Points : e[1][1] = e[2][1] /\ e[1][2] <= e[2][2]}))))

\* A loop: b's output feeds a, which advances the time by one and feeds b.
LoopOps == {"a", "b"}
LoopLocations == {"a.in", "a.out", "b.in", "b.out"}
LoopSources == {"a.out", "b.out"}
LoopOpOf == [l \in LoopLocations |-> IF l \in {"a.in", "a.out"} THEN "a" ELSE "b"]
LoopHops == Hops({<<"a.out", "b.in">>, <<"b.out", "a.in">>},
                 {<<"b.in", "b.out", 0>>, <<"a.in", "a.out", 1>>})
LoopPaths == Closure(LoopHops)
LoopStep == LoopHops
LoopLeq == LoopPaths

CONSTANTS w1, w2

(* One worker holds a capability, one hop before the time is advanced; the  *)
(* other one has dropped its own, and everyone has heard so.                *)
StartLoop == <<<<w1, <<"b.out", 0>>>>>>
=============================================================================
