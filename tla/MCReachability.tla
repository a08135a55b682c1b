--------------------------- MODULE MCReachability ---------------------------
(***************************************************************************)
(* A scope with one input and one output around a loop: operator a takes   *)
(* the input as it is and the feedback one inner time later; its output    *)
(* goes back and leaves the scope.                                         *)
(* Times are pairs <<outer, inner>> (Product): compared by both parts, but *)
(* sorted lexicographically.                                               *)
(***************************************************************************)
EXTENDS Reachability, Sequences, SequencesExt

\* A relation, with its elements enumerated once.
AsPairs(R) == {<<e[1], e[2]>> : e \in R}

Pairs == {<<0, 0>>, <<0, 1>>, <<1, 0>>}
ProductLeq == AsPairs({e \in Pairs \X Pairs : e[1][1] <= e[2][1] /\ e[1][2] <= e[2][2]})
ProductOrd == AsPairs({e \in Pairs \X Pairs :
                 e[1][1] < e[2][1] \/ (e[1][1] = e[2][1] /\ e[1][2] <= e[2][2])})
OuterNats == {0, 1}
NatLeq == AsPairs({e \in OuterNats \X OuterNats : e[1] <= e[2]})
FirstPart == [t \in Pairs |-> t[1]]

\* Nodes in order of their index, inputs before outputs: child zero, then a.
LocationSeq == <<"out", "in", "a.1", "a.2", "a.out">>
Ports == {LocationSeq[i] : i \in DOMAIN LocationSeq}
PortOrd == {<<LocationSeq[e[1]], LocationSeq[e[2]]>> :
                e \in {d \in (1 .. 5) \X (1 .. 5) : d[1] <= d[2]}}

Edges == {<<"in", "a.1">>, <<"a.out", "a.2">>, <<"a.out", "out">>}
Internal == {<<"a.1", "a.out", 0>>, <<"a.2", "a.out", 1>>}

PortTimes == Ports \X Pairs
Hops ==
    AsPairs({h \in PortTimes \X PortTimes :
        \/ h[1][2] = h[2][2] /\ <<h[1][1], h[2][1]>> \in Edges
        \/ \E s \in Internal : /\ <<h[1][1], h[2][1]>> = <<s[1], s[2]>>
                               /\ h[2][2] = <<h[1][2][1], h[1][2][2] + s[3]>>})
Double(R) == {<<c[1][1], c[2][2]>> : c \in {d \in R \X R : d[1][2] = d[2][1]}}
Reflexive == {e \in PortTimes \X PortTimes :
                 e[1][1] = e[2][1] /\ <<e[1][2], e[2][2]>> \in ProductLeq}
Paths == Double(Double(Double(Double(Hops \cup Reflexive))))

(* The structures that progress tracking is built from, for small inputs;   *)
(* ChangeBatch compacts when it has more than two updates.                  *)
Basics == INSTANCE Structures WITH Maximum <- 2, Bound <- 2, MaxLen <- 3

AsProduct(t) == [outer |-> t[1], inner |-> t[2]]

(* ChangeBatch, Antichain, CapabilitySet, Product with its summaries and    *)
(* Builder::is_acyclic compute what their references say; and the frontier  *)
(* that a MutableAntichain keeps is the Antichain of its positive times,    *)
(* inserted in any order.                                                   *)
StructuresExact ==
    /\ Basics!Exact
    /\ \A l \in Ports : \A ts \in SetToSeqs(Chain!Positive(implications[l].updates)) :
          ToSet(Basics!antichain_extend(<<>>, [k \in DOMAIN ts |-> AsProduct(ts[k])]).elements) =
              {AsProduct(t) : t \in implications[l].frontier}

MCTimes == Pairs
MCTimeLeq == ProductLeq
MCTimeOrd == ProductOrd
MCOuterTimes == OuterNats
MCOuterLeq == NatLeq
MCToOuter == FirstPart
MCLocations == Ports
MCLocationOrd == PortOrd
MCStep == Hops
MCLeq == Paths
=============================================================================
