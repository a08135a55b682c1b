----------------------------- MODULE Structures -----------------------------
(***************************************************************************)
(* The data structures of progress tracking: ChangeBatch, Antichain,       *)
(* CapabilitySet, Product and tuple timestamps with their path summaries,  *)
(* and the test of a dataflow graph for cycles; each as the code computes  *)
(* it, and the reference that it is compared with for all inputs of the    *)
(* given sizes.                                                            *)
(*                                                                         *)
(* A collection in memory is a sequence; an Option is a set of at most one *)
(* element; a product time is [outer, inner].                              *)
(***************************************************************************)
EXTENDS Integers, Sequences, FiniteSets, SequencesExt, Relation

CONSTANTS
    Maximum,  \* the largest number of the timestamp's integer type
    Bound,    \* ChangeBatch compacts when it is longer (32)
    MaxLen    \* bound: the length of the sequences tried

Nats == 0 .. Maximum
Products == [outer : Nats, inner : Nats]

-----------------------------------------------------------------------------
\* Timestamps and path summaries.

checked_add(a, b) == IF a + b > Maximum THEN {} ELSE {a + b}

product_less_equal(s, t) == s.outer <= t.outer /\ s.inner <= t.inner
product_less_than(s, t) == product_less_equal(s, t) /\ s # t
tuple_less_equal(s, t) == s.outer < t.outer \/ (s.outer = t.outer /\ s.inner <= t.inner)

\* Ord, by which times are sorted: derived for Product, and lexicographic.
cmp(s, t) == s.outer < t.outer \/ (s.outer = t.outer /\ s.inner < t.inner)

product_results_in(s, t) ==
    {[outer |-> o, inner |-> i] : o \in checked_add(s.outer, t.outer), i \in checked_add(s.inner, t.inner)}

product_followed_by(s, r) ==
    {[outer |-> o, inner |-> i] : o \in checked_add(s.outer, r.outer), i \in checked_add(s.inner, r.inner)}

product_to_inner(t) == [outer |-> t, inner |-> 0]
product_to_outer(t) == t.outer
summarize(s) == s.outer

\* Going on along r from every result.
Then(r, ts) == UNION {product_results_in(r, t) : t \in ts}

NoneOrLater(Leq(_, _), ss, ts) == ts = {} \/ \E s \in ss, t \in ts : Leq(s, t)

(* results_in is monotone in both arguments, for both orders; a composed    *)
(* summary acts as its parts do one after the other, None included; a       *)
(* nested scope's summary acts on the outer time as summarize says.         *)
SummariesExact ==
    /\ \A t, u, s \in Products :
          /\ product_less_equal(t, u) =>
                /\ NoneOrLater(product_less_equal, product_results_in(s, t), product_results_in(s, u))
                /\ NoneOrLater(product_less_equal, product_results_in(t, s), product_results_in(u, s))
          /\ UNION {product_results_in(f, t) : f \in product_followed_by(s, u)} = Then(u, product_results_in(s, t))
          /\ product_less_equal(t, u) => t = u \/ cmp(t, u)
          /\ tuple_less_equal(t, u) <=> t = u \/ cmp(t, u)
    /\ \A t \in Nats, s \in Products :
          /\ product_to_outer(product_to_inner(t)) = t
          /\ \A r \in product_results_in(s, product_to_inner(t)) : checked_add(summarize(s), t) = {product_to_outer(r)}

-----------------------------------------------------------------------------
\* ChangeBatch: [updates, clean], the length of the prefix known to be compact.

NewBatch == [updates |-> <<>>, clean |-> 0]

\* A mutant of compact: a key keeps its place when its updates cancel.
compact_keeps(b) ==
    LET n == Len(b.updates)
        sorted == SortSeq(b.updates, LAMBDA x, y : x[1] < y[1])
        summed == FoldLeft(LAMBDA us, i : IF us[i][1] = us[i + 1][1]
                                          THEN [us EXCEPT ![i + 1] = <<@[1], @[2] + us[i][2]>>, ![i] = <<@[1], 0>>]
                                          ELSE us,
                           sorted, [i \in 1 .. n - 1 |-> i])
    IN  IF b.clean < n /\ n > 1 THEN [updates |-> summed, clean |-> n] ELSE [b EXCEPT !.clean = n]

\* Sorted by key, neighbours of one key added into the last of them, zeros removed.
compact(b) ==
    LET n == Len(b.updates)
        sorted == SortSeq(b.updates, LAMBDA x, y : x[1] < y[1])
        summed == FoldLeft(LAMBDA us, i : IF us[i][1] = us[i + 1][1]
                                          THEN [us EXCEPT ![i + 1] = <<@[1], @[2] + us[i][2]>>, ![i] = <<@[1], 0>>]
                                          ELSE us,
                           sorted, [i \in 1 .. n - 1 |-> i])
        kept == SelectSeq(summed, LAMBDA x : x[2] # 0)
    IN  IF b.clean < n /\ n > 1 THEN [updates |-> kept, clean |-> Len(kept)] ELSE [b EXCEPT !.clean = n]

maintain_bounds(b) ==
    IF Len(b.updates) > Bound /\ Len(b.updates) \div 2 >= b.clean THEN compact(b) ELSE b

update(b, key, value) == maintain_bounds([b EXCEPT !.updates = Append(@, <<key, value>>)])

extend(b, us) == maintain_bounds([b EXCEPT !.updates = @ \o us])

\* The answer of is_empty, which compacts unless more than half is known to be compact.
is_empty(b) == b.clean <= Len(b.updates) \div 2 /\ compact(b).updates = <<>>

\* drain_into: [self, other] afterwards
drain_into(b, other) ==
    IF other.updates = <<>> THEN [self |-> other, other |-> b]
    ELSE [self |-> NewBatch, other |-> extend(other, b.updates)]

Total(us, key) == FoldLeft(LAMBDA n, u : IF u[1] = key THEN n + u[2] ELSE n, 0, us)
Changes == UNION {[1 .. n -> {0, 1} \X {-1, 0, 1}] : n \in 0 .. MaxLen}
Batch(us) == FoldLeft(LAMBDA b, u : update(b, u[1], u[2]), NewBatch, us)

(* Whatever is appended, moved and compacted, the sums by key stay; a       *)
(* compact batch is sorted, has every key once and no zero.  "true iff all  *)
(* keys have value zero" holds of is_empty but for a batch of one update    *)
(* of zero, which compact leaves alone.                                     *)
BatchesExact ==
    \A us \in Changes :
        LET b == Batch(us)
            c == compact(b)
        IN  /\ \A k \in {0, 1} : Total(b.updates, k) = Total(us, k) /\ Total(c.updates, k) = Total(us, k)
            /\ \A i \in 2 .. Len(c.updates) : c.updates[i - 1][1] < c.updates[i][1]
            /\ Len(us) # 1 => \A i \in DOMAIN c.updates : c.updates[i][2] # 0
            /\ (is_empty(b) <=> \A k \in {0, 1} : Total(us, k) = 0) \/ (Len(us) = 1 /\ us[1][2] = 0)
            /\ \A o \in {<<>>, <<<<0, 1>>>>, <<<<1, -1>>, <<0, 1>>>>} :
                  LET d == drain_into(b, Batch(o))
                  IN  /\ d.self = NewBatch
                      /\ \A k \in {0, 1} : Total(d.other.updates, k) = Total(us, k) + Total(o, k)

-----------------------------------------------------------------------------
\* Antichain and CapabilitySet: sequences of elements.

\* insert: [added, elements] afterwards; insert_ref, insert_with and CapabilitySet::insert alike.
insert(A, e) ==
    IF \E i \in DOMAIN A : product_less_equal(A[i], e)
    THEN [added |-> FALSE, elements |-> A]
    ELSE [added |-> TRUE, elements |-> Append(SelectSeq(A, LAMBDA x : ~ product_less_equal(e, x)), e)]

\* Antichain::extend, from_iter, and From<Vec>
antichain_extend(A, es) ==
    FoldLeft(LAMBDA a, e : LET r == insert(a.elements, e)
                           IN  [added |-> r.added \/ a.added, elements |-> r.elements],
             [added |-> FALSE, elements |-> A], es)

antichain_less_than(A, t) == \E i \in DOMAIN A : product_less_than(A[i], t)
antichain_less_equal(A, t) == \E i \in DOMAIN A : product_less_equal(A[i], t)

\* PartialOrder for Antichain
precedes(A, B) == \A j \in DOMAIN B : \E i \in DOMAIN A : product_less_equal(A[i], B[j])

\* PartialEq for Antichain: the elements in any order
eq(A, B) == Len(A) = Len(B) /\ (A = B \/ \A i \in DOMAIN A : \E j \in DOMAIN B : A[i] = B[j])

\* The first capability that is early enough is delayed.
try_delayed(C, t) == IF \E i \in DOMAIN C : product_less_equal(C[i], t) THEN {t} ELSE {}

\* try_downgrade: new capabilities behind the old ones, which go when all are made.
try_downgrade(C, frontier) ==
    LET made == FoldLeft(LAMBDA a, t : IF a.ok /\ try_delayed(a.elements, t) # {}
                                       THEN [a EXCEPT !.elements = Append(@, t)] ELSE [a EXCEPT !.ok = FALSE],
                         [ok |-> TRUE, elements |-> C], frontier)
    IN  IF made.ok THEN [made EXCEPT !.elements = SubSeq(@, Len(C) + 1, Len(@))] ELSE made

Small == [outer : {0, 1}, inner : {0, 1}]
Lists == UNION {[1 .. n -> Small] : n \in 0 .. MaxLen}
Minimal(S) == {t \in S : ~ \E u \in S : product_less_than(u, t)}
Above(S) == {t \in Small : \E u \in S : product_less_equal(u, t)}

(* An antichain holds each minimal element of what was inserted once,       *)
(* answers for it as the set does, and its order and equality are those of  *)
(* the sets of times it is in advance of; a capability set can be           *)
(* downgraded exactly to the times at or after its own.                     *)
AntichainsExact ==
    /\ \A es \in Lists :
          LET a == antichain_extend(<<>>, es)
          IN  /\ ToSet(a.elements) = Minimal(ToSet(es)) /\ Cardinality(ToSet(a.elements)) = Len(a.elements)
              /\ a.added <=> es # <<>>
              /\ \A t \in Small : /\ antichain_less_equal(a.elements, t) <=> t \in Above(ToSet(es))
                                  /\ antichain_less_than(a.elements, t) <=> \E u \in ToSet(es) : product_less_than(u, t)
    /\ \A es, fs \in {l \in Lists : Len(l) < MaxLen} :
          LET A == antichain_extend(<<>>, es).elements
              B == antichain_extend(<<>>, fs).elements
              d == try_downgrade(A, B)
          IN  /\ precedes(A, B) <=> Above(ToSet(fs)) \subseteq Above(ToSet(es))
              /\ eq(A, B) <=> Above(ToSet(fs)) = Above(ToSet(es))
              /\ d.ok <=> precedes(A, B)
              /\ d.ok => d.elements = B

-----------------------------------------------------------------------------
(* Builder::is_acyclic, for nodes of one input and one output each: edges   *)
(* from outputs to inputs, and the summaries of a node, 0 the default.      *)

Nodes == 1 .. 2
Places == {"target", "source"} \X Nodes

\* The pairs along which a time does not change.
Default(edges, summary) ==
    {<<<<"source", e[1]>>, <<"target", e[2]>>>> : e \in edges}
    \cup {<<<<"target", n>>, <<"source", n>>>> : n \in {m \in Nodes : 0 \in summary[m]}}

\* One round of the worklist: what no remaining place leads to is removed.
Reduced(D, places) == {p \in places : \E q \in places : <<q, p>> \in D}

is_acyclic(edges, summary) ==
    LET D == Default(edges, summary)
        left[n \in 0 .. Cardinality(Places)] == IF n = 0 THEN Places ELSE Reduced(D, left[n - 1])
    IN  left[Cardinality(Places)] = {}

\* It finds a cycle exactly if some place can be reached from itself.
CyclesExact ==
    \A edges \in SUBSET (Nodes \X Nodes) : \A summary \in [Nodes -> {{}, {0}, {1}}] :
        LET D == Default(edges, summary)
            closed == TransitiveClosure([p \in Places \X Places |-> p \in D], Places)
        IN  is_acyclic(edges, summary) <=> \A p \in Places : ~ closed[p, p]

-----------------------------------------------------------------------------
(* Every structure computes what its reference says, for all small inputs.  *)
Exact ==
    /\ SummariesExact
    /\ BatchesExact
    /\ AntichainsExact
    /\ CyclesExact

=============================================================================
