------------------------ MODULE SynchronizationProofs ------------------------
(***************************************************************************)
(* Proofs about the two means by which workers synchronize.                *)
(*                                                                         *)
(* The Sequencer releases elements by time and completely                  *)
(* (ReleasedByTime), and each sender's in the order in which they were     *)
(* pushed (SenderOrder), for any number of workers and elements, any       *)
(* timers, coarse ones included, and any frontiers that keep the promise   *)
(* of progress tracking.                                                   *)
(*                                                                         *)
(* Nobody passes a Barrier before everyone has reached it (BarrierHolds),  *)
(* for any number of workers and handles, any number of rounds, and the    *)
(* same promise.                                                           *)
(***************************************************************************)
EXTENDS Sequencer, Dataflow, FiniteSetTheorems, WellFoundedInduction, TLAPS

-----------------------------------------------------------------------------
(* The invariant.                                                           *)

Entry == [key : Nat \X Nat \X Nat, elem : Peers \X Nat]
Sender(e) == e.elem[1]
Number(e) == e.elem[2]
Lane(e) == e.key[2]
Place(e) == e.key[3]

\* What worker w has, or is about to receive.
Here(w) ==
    ToSet(recv[w]) \cup ToSet(recvd[w]) \cup UNION {ToSet(stream[s][w]) : s \in Peers}

Types ==
    /\ pushes \in [Peers -> Nat] /\ alive \in [Peers -> BOOLEAN]
    /\ counter \in [Peers -> Nat]
    /\ proposals \in [Peers -> Seq(Peers \X Nat)]
    /\ capability \in [Peers -> 0 .. Gone] /\ frontier \in [Peers -> 0 .. Gone]
    /\ stream \in [Peers -> [Peers -> Seq(Entry)]]
    /\ recvd \in [Peers -> Seq(Entry)] /\ recv \in [Peers -> Seq(Entry)]

\* Of one sender, e was pushed before f.
Ahead(e, f) == Sender(e) = Sender(f) => Number(e) < Number(f)

Rising(row) == \A i, j \in DOMAIN row : i < j => Ahead(row[i], row[j])
ByTime(row) == \A i, j \in DOMAIN row : i < j => TimeOf(row[i]) <= TimeOf(row[j])

\* No frontier passes what is alive, and what was released is behind it.
Honest ==
    \A w, v \in Peers :
        /\ frontier[w] <= capability[v]
        /\ \A s \in Peers : \A e \in ToSet(stream[s][v]) : frontier[w] <= TimeOf(e)

Past ==
    \A w \in Peers :
        /\ ByTime(recv[w])
        /\ \A e \in ToSet(recv[w]) :
              /\ TimeOf(e) < frontier[w]
              /\ \A f \in ToSet(recvd[w]) : TimeOf(e) < TimeOf(f)

\* What any worker has, everyone who keeps the Sequencer has, with the same time.
Copies ==
    \A w \in Peers : alive[w] =>
        \A v \in Peers : \A e \in Here(v) :
            \E f \in Here(w) : f.elem = e.elem /\ TimeOf(f) = TimeOf(e)

\* Proposed elements are numbered in the order of their pushes.
Proposed ==
    \A w \in Peers :
        /\ \A i \in DOMAIN proposals[w] : proposals[w][i][1] = w /\ proposals[w][i][2] <= pushes[w]
        /\ \A i, j \in DOMAIN proposals[w] : i < j => proposals[w][i][2] < proposals[w][j][2]

\* Entries come from their senders' past.
Issued ==
    \A w \in Peers : \A e \in Here(w) :
        /\ Lane(e) = Index[w] /\ Place(e) < counter[Sender(e)]
        /\ TimeOf(e) <= capability[Sender(e)] /\ Number(e) <= pushes[Sender(e)]
        /\ \A i \in DOMAIN proposals[Sender(e)] : Number(e) < proposals[Sender(e)][i][2]

\* Keys are in the order of pushes.
Keyed(S) ==
    \A e, f \in S : Sender(e) = Sender(f) /\ Number(e) < Number(f) =>
        TimeOf(e) <= TimeOf(f) /\ Place(e) < Place(f)

\* On its way from channel to log no entry overtakes another one of its sender.
Lined ==
    \A w \in Peers :
        /\ Rising(recv[w]) /\ Rising(recvd[w])
        /\ \A e \in ToSet(recv[w]), f \in ToSet(recvd[w]) : Ahead(e, f)
        /\ \A s \in Peers :
              /\ Rising(stream[s][w])
              /\ \A f \in ToSet(stream[s][w]) :
                    /\ Sender(f) = s
                    /\ \A e \in ToSet(recv[w]) \cup ToSet(recvd[w]) : Ahead(e, f)

Inv ==
    /\ Types /\ Honest /\ Past /\ Copies /\ Proposed /\ Issued
    /\ (\A w \in Peers : Keyed(Here(w))) /\ Lined

-----------------------------------------------------------------------------
(* Sequences.                                                               *)

\* The elements of two sequences in a row, and where they are.
LEMMA Concatenated ==
    \A S : \A s, t \in Seq(S) :
        /\ s \o t \in Seq(S) /\ ToSet(s \o t) = ToSet(s) \cup ToSet(t)
        /\ \A i \in DOMAIN (s \o t) :
              \/ i \in DOMAIN s /\ (s \o t)[i] = s[i]
              \/ /\ i \in Nat /\ i > Len(s) /\ i - Len(s) \in DOMAIN t
                 /\ (s \o t)[i] = t[i - Len(s)]
<1> SUFFICES ASSUME NEW S, NEW s \in Seq(S), NEW t \in Seq(S)
             PROVE  /\ s \o t \in Seq(S) /\ ToSet(s \o t) = ToSet(s) \cup ToSet(t)
                    /\ \A i \in DOMAIN (s \o t) :
                          \/ i \in DOMAIN s /\ (s \o t)[i] = s[i]
                          \/ /\ i \in Nat /\ i > Len(s) /\ i - Len(s) \in DOMAIN t
                             /\ (s \o t)[i] = t[i - Len(s)]
  OBVIOUS
<1> DEFINE u == s \o t
<1>1. u \in Seq(S) /\ Len(u) = Len(s) + Len(t) /\ Len(s) \in Nat /\ Len(t) \in Nat
  OBVIOUS
<1>2. /\ \A i \in DOMAIN s : i \in DOMAIN u /\ u[i] = s[i]
      /\ \A i \in DOMAIN t : i + Len(s) \in DOMAIN u /\ u[i + Len(s)] = t[i]
  OBVIOUS
<1>3. \A i \in DOMAIN u : \/ i \in DOMAIN s /\ u[i] = s[i]
                          \/ /\ i \in Nat /\ i > Len(s) /\ i - Len(s) \in DOMAIN t
                             /\ u[i] = t[i - Len(s)]
  OBVIOUS
<1> HIDE DEF u
<1>4. ToSet(u) = ToSet(s) \cup ToSet(t)
  BY <1>2, <1>3 DEF ToSet
<1>. QED  BY <1>1, <1>3, <1>4 DEF u

\* The first c elements of a sequence, and the others.
LEMMA Parts ==
    \A S : \A s \in Seq(S) : \A c \in 0 .. Len(s) :
        /\ SubSeq(s, 1, c) \in Seq(S) /\ DOMAIN SubSeq(s, 1, c) = 1 .. c
        /\ \A i \in 1 .. c : SubSeq(s, 1, c)[i] = s[i]
        /\ SubSeq(s, c + 1, Len(s)) \in Seq(S)
        /\ DOMAIN SubSeq(s, c + 1, Len(s)) = 1 .. Len(s) - c
        /\ \A i \in 1 .. Len(s) - c : SubSeq(s, c + 1, Len(s))[i] = s[c + i]
        /\ ToSet(s) = ToSet(SubSeq(s, 1, c)) \cup ToSet(SubSeq(s, c + 1, Len(s)))
<1> SUFFICES ASSUME NEW S, NEW s \in Seq(S), NEW c \in 0 .. Len(s)
             PROVE  /\ SubSeq(s, 1, c) \in Seq(S) /\ DOMAIN SubSeq(s, 1, c) = 1 .. c
                    /\ \A i \in 1 .. c : SubSeq(s, 1, c)[i] = s[i]
                    /\ SubSeq(s, c + 1, Len(s)) \in Seq(S)
                    /\ DOMAIN SubSeq(s, c + 1, Len(s)) = 1 .. Len(s) - c
                    /\ \A i \in 1 .. Len(s) - c : SubSeq(s, c + 1, Len(s))[i] = s[c + i]
                    /\ ToSet(s) = ToSet(SubSeq(s, 1, c)) \cup ToSet(SubSeq(s, c + 1, Len(s)))
  OBVIOUS
<1> DEFINE a == SubSeq(s, 1, c)
           b == SubSeq(s, c + 1, Len(s))
<1>1. Len(s) \in Nat /\ DOMAIN s = 1 .. Len(s)
  OBVIOUS
<1>2. a \in Seq(S) /\ DOMAIN a = 1 .. c /\ \A i \in 1 .. c : a[i] = s[i]
  BY <1>1
<1>3. b \in Seq(S) /\ DOMAIN b = 1 .. Len(s) - c /\ \A i \in 1 .. Len(s) - c : b[i] = s[c + i]
  BY <1>1
<1> HIDE DEF a, b
<1>4. ASSUME NEW i \in DOMAIN s PROVE s[i] \in ToSet(a) \cup ToSet(b)
  <2>1. CASE i <= c
    BY <1>1, <1>2, <2>1 DEF ToSet
  <2>2. CASE i > c
    <3>1. i - c \in 1 .. Len(s) - c /\ c + (i - c) = i
      BY <1>1, <2>2
    <3>2. b[i - c] = s[i]
      BY <1>3, <3>1
    <3>. QED  BY <1>3, <3>1, <3>2 DEF ToSet
  <2>. QED  BY <1>1, <2>1, <2>2
<1>5. ASSUME NEW i \in 1 .. c PROVE i \in DOMAIN s /\ a[i] = s[i]
  BY <1>1, <1>2
<1>6. ASSUME NEW i \in 1 .. Len(s) - c PROVE c + i \in DOMAIN s /\ b[i] = s[c + i]
  BY <1>1, <1>3
<1>7. ToSet(s) = ToSet(a) \cup ToSet(b)
  BY <1>2, <1>3, <1>4, <1>5, <1>6 DEF ToSet
<1>. QED  BY <1>2, <1>3, <1>7 DEF a, b

(* A set of indices that has all the smaller ones with each is an interval, *)
(* whose end is how many they are: counting what is ready finds where it    *)
(* ends.                                                                    *)
LEMMA CountedBy ==
    \A n \in Nat : \A D \in SUBSET (1 .. n) :
        (\A k \in D : \A j \in 1 .. k : j \in D)
        => Cardinality(D) \in 0 .. n /\ D = 1 .. Cardinality(D)
<1> SUFFICES ASSUME NEW n \in Nat, NEW D \in SUBSET (1 .. n),
                    \A k \in D : \A j \in 1 .. k : j \in D
             PROVE  Cardinality(D) \in 0 .. n /\ D = 1 .. Cardinality(D)
  OBVIOUS
<1> DEFINE c == Cardinality(D)
<1>1. /\ \A m \in Nat : IsFiniteSet(1 .. m) /\ Cardinality(1 .. m) = m
  <2>1. ASSUME NEW m \in Nat PROVE IsFiniteSet(1 .. m) /\ Cardinality(1 .. m) = m
    <3>1. IsFiniteSet(1 .. m) /\ Cardinality(1 .. m) = IF 1 > m THEN 0 ELSE m - 1 + 1
      BY FS_Interval
    <3>. QED  BY <3>1
  <2>. QED  BY <2>1
<1>2. IsFiniteSet(D) /\ c \in Nat /\ c <= n
  <2>1. IsFiniteSet(D) /\ c <= Cardinality(1 .. n)
    BY <1>1, FS_Subset
  <2>2. c \in Nat
    BY <2>1, FS_CardinalityType
  <2>. QED  BY <1>1, <2>1, <2>2
<1> HIDE DEF c
<1>3. ASSUME NEW k \in D PROVE k <= c
  <2>1. k \in Nat /\ 1 .. k \in SUBSET D
    OBVIOUS
  <2>2. Cardinality(1 .. k) <= c
    BY <1>2, <2>1, FS_Subset DEF c
  <2>. QED  BY <1>1, <2>1, <2>2
<1>4. D \in SUBSET (1 .. c)
  BY <1>2, <1>3
<1>5. D = 1 .. c
  BY <1>1, <1>2, <1>4, FS_Subset DEF c
<1>. QED  BY <1>2, <1>5 DEF c

-----------------------------------------------------------------------------
(* Rows of entries.                                                         *)

\* The parts of an entry.
LEMMA EntryFacts ==
    /\ \A e \in Entry : /\ TimeOf(e) \in Nat /\ Lane(e) \in Nat /\ Place(e) \in Nat
                        /\ Sender(e) \in Peers /\ Number(e) \in Nat
    /\ \A t, l, p, n \in Nat : \A s \in Peers : \A e :
          e = [key |-> <<t, l, p>>, elem |-> <<s, n>>] =>
              /\ e \in Entry
              /\ TimeOf(e) = t /\ Lane(e) = l /\ Place(e) = p /\ Sender(e) = s /\ Number(e) = n
  BY DEF Entry, TimeOf, Lane, Place, Sender, Number

\* Rows that rise one after the other.
LEMMA RisingConcatenated ==
    \A s, t \in Seq(Entry) :
        Rising(s) /\ Rising(t) /\ (\A e \in ToSet(s), f \in ToSet(t) : Ahead(e, f))
        => Rising(s \o t)
<1> SUFFICES ASSUME NEW s \in Seq(Entry), NEW t \in Seq(Entry), Rising(s), Rising(t),
                    \A e \in ToSet(s), f \in ToSet(t) : Ahead(e, f),
                    NEW i \in DOMAIN (s \o t), NEW j \in DOMAIN (s \o t), i < j
             PROVE  Ahead((s \o t)[i], (s \o t)[j])
  BY DEF Rising
<1> DEFINE u == s \o t
<1>1. \A k \in DOMAIN u : \/ k \in DOMAIN s /\ u[k] = s[k]
                          \/ /\ k \in Nat /\ k > Len(s) /\ k - Len(s) \in DOMAIN t
                             /\ u[k] = t[k - Len(s)]
  BY Concatenated
<1>2. DOMAIN s = 1 .. Len(s) /\ Len(s) \in Nat /\ DOMAIN t = 1 .. Len(t) /\ Len(t) \in Nat
  OBVIOUS
<1> HIDE DEF u
<1>3. CASE i \in DOMAIN s /\ u[i] = s[i] /\ j \in DOMAIN s /\ u[j] = s[j]
  BY <1>3 DEF Rising, u
<1>4. CASE /\ i \in DOMAIN s /\ u[i] = s[i]
           /\ j - Len(s) \in DOMAIN t /\ u[j] = t[j - Len(s)]
  BY <1>4 DEF ToSet, u
<1>5. CASE /\ i \in Nat /\ j \in Nat
           /\ i - Len(s) \in DOMAIN t /\ u[i] = t[i - Len(s)]
           /\ j - Len(s) \in DOMAIN t /\ u[j] = t[j - Len(s)]
  <2>1. i - Len(s) < j - Len(s)
    BY <1>2, <1>5
  <2>. QED  BY <1>5, <2>1 DEF Rising, u
<1>6. ~ (i > Len(s) /\ j \in DOMAIN s) \/ i \in DOMAIN s
  BY <1>2, i < j
<1>. QED  BY <1>1, <1>3, <1>4, <1>5, <1>6 DEF u

(* Sorting brings a row in the order of times, loses nothing, and lets no   *)
(* entry overtake another one of its sender, since keys are in the order of *)
(* pushes.                                                                  *)
LEMMA Sorted ==
    \A row \in Seq(Entry) : \A q \in Sortings(row) :
        LET sorted == [k \in DOMAIN row |-> row[q[k]]]
        IN  Rising(row) /\ Keyed(ToSet(row)) /\ (\A e, f \in ToSet(row) : Lane(e) = Lane(f))
            => /\ sorted \in Seq(Entry) /\ ToSet(sorted) = ToSet(row)
               /\ ByTime(sorted) /\ Rising(sorted)
<1> SUFFICES ASSUME NEW row \in Seq(Entry), NEW q \in Sortings(row),
                    Rising(row), Keyed(ToSet(row)),
                    \A e, f \in ToSet(row) : Lane(e) = Lane(f)
             PROVE  LET sorted == [k \in DOMAIN row |-> row[q[k]]]
                    IN  /\ sorted \in Seq(Entry) /\ ToSet(sorted) = ToSet(row)
                        /\ ByTime(sorted) /\ Rising(sorted)
  OBVIOUS
<1> DEFINE n == Len(row)
           sorted == [k \in DOMAIN row |-> row[q[k]]]
<1>1. n \in Nat /\ DOMAIN row = 1 .. n /\ \A i \in 1 .. n : row[i] \in Entry
  OBVIOUS
<1>2. /\ q \in [1 .. n -> 1 .. n]
      /\ \A i, j \in 1 .. n : q[i] = q[j] => i = j
      /\ \A j \in 1 .. n : \E i \in 1 .. n : q[i] = j
  BY <1>1 DEF Sortings, Bijection, Injection, Surjection, IsInjective
<1>3. \A i, j \in 1 .. n : i < j => KeyLeq(row[q[i]].key, row[q[j]].key)
  BY <1>1 DEF Sortings, Before
<1> HIDE DEF n
<1>4. sorted \in Seq(Entry) /\ DOMAIN sorted = 1 .. n
      /\ \A i \in 1 .. n : sorted[i] = row[q[i]] /\ q[i] \in 1 .. n
  <2>1. \A i \in 1 .. n : q[i] \in 1 .. n
    BY <1>2
  <2>2. \A i \in 1 .. n : row[q[i]] \in Entry
    BY <1>1, <2>1
  <2>3. sorted \in [1 .. n -> Entry] /\ \A i \in 1 .. n : sorted[i] = row[q[i]]
    BY <1>1, <2>2, Zenon
  <2> HIDE DEF sorted
  <2>. QED  BY <1>1, <2>1, <2>3
<1> HIDE DEF sorted
<1>5. ToSet(sorted) = ToSet(row)
  <2>1. ToSet(sorted) \subseteq ToSet(row)
    BY <1>1, <1>4 DEF ToSet
  <2>2. ASSUME NEW j \in 1 .. n PROVE row[j] \in ToSet(sorted)
    <3>1. PICK i \in 1 .. n : q[i] = j
      BY <1>2
    <3>. QED  BY <1>4, <3>1 DEF ToSet
  <2>. QED  BY <1>1, <2>1, <2>2 DEF ToSet
<1>6. ASSUME NEW a \in Entry, NEW b \in Entry, KeyLeq(a.key, b.key)
      PROVE  /\ TimeOf(a) <= TimeOf(b)
             /\ TimeOf(b) <= TimeOf(a) /\ Lane(a) = Lane(b) => Place(a) <= Place(b)
  <2>1. \/ TimeOf(a) < TimeOf(b)
        \/ /\ TimeOf(a) = TimeOf(b)
           /\ Lane(a) < Lane(b) \/ (Lane(a) = Lane(b) /\ Place(a) <= Place(b))
    BY <1>6, Zenon DEF KeyLeq, TimeOf, Lane, Place
  <2>2. /\ TimeOf(a) \in Nat /\ Lane(a) \in Nat /\ Place(a) \in Nat
        /\ TimeOf(b) \in Nat /\ Lane(b) \in Nat /\ Place(b) \in Nat
    BY EntryFacts
  <2>. QED  BY <2>1, <2>2
<1>7. ByTime(sorted)
  <2>1. ASSUME NEW i \in 1 .. n, NEW j \in 1 .. n, i < j
        PROVE  TimeOf(sorted[i]) <= TimeOf(sorted[j])
    BY <1>1, <1>3, <1>4, <1>6, <2>1
  <2>. QED  BY <1>4, <2>1 DEF ByTime
<1>8. Rising(sorted)
  <2>1. ASSUME NEW i \in 1 .. n, NEW j \in 1 .. n, i < j,
               Sender(sorted[i]) = Sender(sorted[j])
        PROVE  Number(sorted[i]) < Number(sorted[j])
    <3> DEFINE a == row[q[i]]
               b == row[q[j]]
    <3>1. /\ a \in Entry /\ b \in Entry /\ q[i] \in 1 .. n /\ q[j] \in 1 .. n
          /\ a \in ToSet(row) /\ b \in ToSet(row) /\ Sender(a) = Sender(b)
      BY <1>1, <1>4, <2>1 DEF ToSet
    <3>2. CASE q[i] < q[j]
      BY <1>1, <1>4, <3>1, <3>2 DEF Rising, Ahead
    <3>3. CASE q[j] < q[i]
      <4>1. Number(b) < Number(a)
        BY <1>1, <3>1, <3>3 DEF Rising, Ahead
      <4>2. TimeOf(b) <= TimeOf(a) /\ Place(b) < Place(a)
        BY <3>1, <4>1 DEF Keyed
      <4>3. Place(a) <= Place(b)
        BY <1>3, <1>6, <2>1, <3>1, <4>2
      <4>4. Place(a) \in Nat /\ Place(b) \in Nat
        BY <3>1, EntryFacts
      <4>. QED  BY <4>2, <4>3, <4>4
    <3>4. q[i] \in Int /\ q[j] \in Int /\ q[i] # q[j]
      <4>1. i # j
        BY <1>1, <2>1
      <4>. QED  BY <1>1, <1>2, <3>1, <4>1
    <3>. QED  BY <3>2, <3>3, <3>4
  <2>. QED  BY <1>4, <2>1 DEF Rising, Ahead
<1>. QED  BY <1>4, <1>5, <1>7, <1>8 DEF sorted

\* There are finitely many elements.
LEMMA MaxEntriesNat == MaxEntries \in Nat
<1> DEFINE g == [w \in Peers |-> {w} \X (1 .. MaxPushes[w])]
           F == {{w} \X (1 .. MaxPushes[w]) : w \in Peers}
<1>1. g \in Surjection(Peers, F)
  <2>1. \A w \in Peers : g[w] \in F
    OBVIOUS
  <2>2. \A T \in F : \E w \in Peers : g[w] = T
    OBVIOUS
  <2>3. DOMAIN g = Peers /\ g = [w \in Peers |-> g[w]]
    OBVIOUS
  <2> HIDE DEF g, F
  <2>. QED  BY <2>1, <2>2, <2>3 DEF Surjection
<1>2. IsFiniteSet(Peers)
  BY SequencerAssumption
<1>3. IsFiniteSet(F)
  <2> HIDE DEF g, F
  <2>. QED  BY <1>1, <1>2, FS_Surjection
<1>4. ASSUME NEW T \in F PROVE IsFiniteSet(T)
  <2>1. PICK w \in Peers : T = {w} \X (1 .. MaxPushes[w])
    OBVIOUS
  <2>2. MaxPushes[w] \in Int
    BY SequencerAssumption
  <2>3. IsFiniteSet({w}) /\ IsFiniteSet(1 .. MaxPushes[w])
    <3>1. IsFiniteSet({w})
      BY FS_Singleton, Zenon
    <3>2. IsFiniteSet(1 .. MaxPushes[w])
      <4>1. 1 \in Int
        OBVIOUS
      <4>. QED  BY <2>2, <4>1, FS_Interval, Zenon
    <3>. QED  BY <3>1, <3>2
  <2>4. IsFiniteSet({w} \X (1 .. MaxPushes[w]))
    BY <2>3, FS_Product, Zenon
  <2>. QED  BY <2>1, <2>4
<1>5. IsFiniteSet(UNION F)
  <2> HIDE DEF F
  <2>. QED  BY <1>3, <1>4, FS_UNION
<1>. QED  BY <1>5, FS_CardinalityType, Zenon DEF MaxEntries, Elements

\* What is taken of the channels of a sink, up to a place in each.
Places(upto) == {x \in Peers \X (1 .. MaxEntries) : x[2] <= upto[x[1]]}
Take(C, w, p) == [k \in DOMAIN p |-> C[p[k][1]][w][p[k][2]]]

(* A sink reads what it takes of the channels: all of it, and each sender's *)
(* entries in the order sent.                                               *)
LEMMA Taken ==
    \A C \in [Peers -> [Peers -> Seq(Entry)]] : \A w \in Peers :
    \A upto \in [Peers -> 0 .. MaxEntries] :
    \A p \in Readings(Places(upto)) :
        LET taken == Take(C, w, p)
        IN  (\A s \in Peers : /\ upto[s] <= Len(C[s][w]) /\ Rising(C[s][w])
                                /\ \A f \in ToSet(C[s][w]) : Sender(f) = s)
            => /\ taken \in Seq(Entry) /\ Rising(taken)
               /\ ToSet(taken) = UNION {ToSet(SubSeq(C[s][w], 1, upto[s])) : s \in Peers}
<1> SUFFICES ASSUME NEW C \in [Peers -> [Peers -> Seq(Entry)]], NEW w \in Peers,
                    NEW upto \in [Peers -> 0 .. MaxEntries],
                    NEW p \in Readings(Places(upto)),
                    \A s \in Peers : /\ upto[s] <= Len(C[s][w]) /\ Rising(C[s][w])
                                       /\ \A f \in ToSet(C[s][w]) : Sender(f) = s
             PROVE  LET taken == Take(C, w, p)
                    IN  /\ taken \in Seq(Entry) /\ Rising(taken)
                        /\ ToSet(taken) = UNION {ToSet(SubSeq(C[s][w], 1, upto[s])) : s \in Peers}
  OBVIOUS
<1> DEFINE P == Places(upto)
           n == Cardinality(P)
           taken == Take(C, w, p)
<1>1. n \in Nat
  <2>1. IsFiniteSet(Peers) /\ IsFiniteSet(1 .. MaxEntries)
    BY SequencerAssumption, MaxEntriesNat, FS_Interval
  <2>2. IsFiniteSet(Peers \X (1 .. MaxEntries))
    BY <2>1, FS_Product, Zenon
  <2>3. P \in SUBSET (Peers \X (1 .. MaxEntries))
    BY DEF Places
  <2> HIDE DEF P
  <2>4. IsFiniteSet(P)
    BY <2>2, <2>3, FS_Subset
  <2>. QED  BY <2>4, FS_CardinalityType
<1>2. /\ p \in [1 .. n -> P]
      /\ \A x \in P : \E i \in 1 .. n : p[i] = x
      /\ \A i, j \in 1 .. n : i < j /\ p[i][1] = p[j][1] => p[i][2] < p[j][2]
  <2> HIDE DEF P
  <2>1. p \in Bijection(1 .. n, P)
    BY DEF Readings, P
  <2>2. p \in [1 .. n -> P] /\ \A x \in P : \E i \in 1 .. n : p[i] = x
    BY <2>1 DEF Bijection, Injection, Surjection
  <2>3. \A i, j \in DOMAIN p : i < j /\ p[i][1] = p[j][1] => p[i][2] < p[j][2]
    BY DEF Readings
  <2>. QED  BY <2>2, <2>3
<1>3. \A s \in Peers : /\ DOMAIN C[s][w] = 1 .. Len(C[s][w]) /\ Len(C[s][w]) \in Nat
                         /\ upto[s] \in 0 .. Len(C[s][w]) /\ upto[s] \in 0 .. MaxEntries
                         /\ \A i \in 1 .. Len(C[s][w]) : C[s][w][i] \in Entry
  BY MaxEntriesNat
<1>4. \A x \in P : x[1] \in Peers /\ x[2] \in 1 .. upto[x[1]] /\ x = <<x[1], x[2]>>
  BY <1>3, MaxEntriesNat DEF Places
<1>5. \A s \in Peers : \A i \in 1 .. upto[s] : <<s, i>> \in P
  BY <1>3, MaxEntriesNat DEF Places
<1> HIDE DEF P, n

<1>6. ASSUME NEW k \in 1 .. n
      PROVE  /\ p[k] \in P /\ p[k][1] \in Peers /\ p[k][2] \in 1 .. upto[p[k][1]]
             /\ p[k][2] \in 1 .. Len(C[p[k][1]][w])
             /\ C[p[k][1]][w][p[k][2]] \in Entry
             /\ Sender(C[p[k][1]][w][p[k][2]]) = p[k][1]
  <2>1. p[k] \in P
    BY <1>2
  <2>2. p[k][1] \in Peers /\ p[k][2] \in 1 .. upto[p[k][1]]
    BY <1>4, <2>1
  <2>3. PICK s \in Peers : s = p[k][1]
    BY <2>2
  <2>4. p[k][2] \in 1 .. Len(C[s][w])
    BY <1>3, <2>2, <2>3
  <2>5. C[s][w][p[k][2]] \in Entry /\ C[s][w][p[k][2]] \in ToSet(C[s][w])
    BY <1>3, <2>4 DEF ToSet
  <2>6. Sender(C[s][w][p[k][2]]) = s
    BY <2>5
  <2>. QED  BY <2>1, <2>2, <2>3, <2>4, <2>5, <2>6
<1>7. /\ taken \in Seq(Entry) /\ DOMAIN taken = 1 .. n
      /\ \A k \in 1 .. n : taken[k] = C[p[k][1]][w][p[k][2]]
  <2>1. DOMAIN p = 1 .. n
    BY <1>2
  <2>2. taken \in [1 .. n -> Entry] /\ \A k \in 1 .. n : taken[k] = C[p[k][1]][w][p[k][2]]
    BY <1>6, <2>1 DEF Take
  <2> HIDE DEF taken
  <2>. QED  BY <1>1, <2>2
<1> HIDE DEF taken
<1>8. Rising(taken)
  <2>1. ASSUME NEW i \in 1 .. n, NEW j \in 1 .. n, i < j, Sender(taken[i]) = Sender(taken[j])
        PROVE  Number(taken[i]) < Number(taken[j])
    <3>1. p[i][1] = p[j][1]
      <4>1. Sender(taken[i]) = p[i][1]
        BY <1>6, <1>7
      <4>2. Sender(taken[j]) = p[j][1]
        BY <1>6, <1>7
      <4>. QED  BY <2>1, <4>1, <4>2
    <3>2. PICK s \in Peers : s = p[i][1] /\ s = p[j][1]
      BY <1>6, <3>1
    <3>3. p[i][2] < p[j][2] /\ p[i][2] \in DOMAIN C[s][w] /\ p[j][2] \in DOMAIN C[s][w]
      BY <1>2, <1>3, <1>6, <2>1, <3>1, <3>2
    <3>4. Ahead(C[s][w][p[i][2]], C[s][w][p[j][2]])
      BY <3>3 DEF Rising
    <3>. QED  BY <1>7, <2>1, <3>2, <3>4 DEF Ahead
  <2>. QED  BY <1>7, <2>1 DEF Rising, Ahead
<1>9. ToSet(taken) = UNION {ToSet(SubSeq(C[s][w], 1, upto[s])) : s \in Peers}
  <2>1. \A s \in Peers : /\ DOMAIN SubSeq(C[s][w], 1, upto[s]) = 1 .. upto[s]
                           /\ \A i \in 1 .. upto[s] : SubSeq(C[s][w], 1, upto[s])[i] = C[s][w][i]
    BY <1>3, Parts
  <2>2. ASSUME NEW k \in 1 .. n
        PROVE  \E s \in Peers : taken[k] \in ToSet(SubSeq(C[s][w], 1, upto[s]))
    <3>1. PICK s \in Peers : s = p[k][1]
      BY <1>6
    <3>2. p[k][2] \in 1 .. upto[s] /\ taken[k] = C[s][w][p[k][2]]
      BY <1>6, <1>7, <3>1
    <3>3. p[k][2] \in DOMAIN SubSeq(C[s][w], 1, upto[s])
          /\ SubSeq(C[s][w], 1, upto[s])[p[k][2]] = taken[k]
      BY <2>1, <3>2
    <3>. QED  BY <3>3 DEF ToSet
  <2>3. ASSUME NEW s \in Peers, NEW i \in 1 .. upto[s]
        PROVE  C[s][w][i] \in ToSet(taken)
    <3>1. PICK k \in 1 .. n : p[k] = <<s, i>>
      BY <1>2, <1>5
    <3>2. taken[k] = C[s][w][i]
      BY <1>7, <3>1
    <3>. QED  BY <1>7, <3>2 DEF ToSet
  <2>4. \A s \in Peers : \A e \in ToSet(SubSeq(C[s][w], 1, upto[s])) : e \in ToSet(taken)
    <3>1. SUFFICES ASSUME NEW s \in Peers, NEW e \in ToSet(SubSeq(C[s][w], 1, upto[s]))
                   PROVE  e \in ToSet(taken)
      OBVIOUS
    <3>2. PICK i \in 1 .. upto[s] : e = C[s][w][i]
      BY <2>1 DEF ToSet
    <3>. QED  BY <2>3, <3>2
  <2>5. \A e \in ToSet(taken) : \E s \in Peers : e \in ToSet(SubSeq(C[s][w], 1, upto[s]))
    <3>1. SUFFICES ASSUME NEW e \in ToSet(taken)
                   PROVE  \E s \in Peers : e \in ToSet(SubSeq(C[s][w], 1, upto[s]))
      OBVIOUS
    <3>2. PICK k \in 1 .. n : e = taken[k]
      BY <1>7 DEF ToSet
    <3>3. PICK s \in Peers : taken[k] \in ToSet(SubSeq(C[s][w], 1, upto[s]))
      BY <2>2
    <3>. QED  BY <3>2, <3>3, Zenon
  <2> DEFINE part(s) == ToSet(SubSeq(C[s][w], 1, upto[s]))
  <2>6. \A s \in Peers : \A e \in part(s) : e \in ToSet(taken)
    BY <2>4
  <2>7. \A e \in ToSet(taken) : \E s \in Peers : e \in part(s)
    BY <2>5
  <2> HIDE DEF part
  <2>8. ToSet(taken) = UNION {part(s) : s \in Peers}
    BY <2>6, <2>7
  <2>. QED  BY <2>8 DEF part
<1>. QED  BY <1>7, <1>8, <1>9 DEF taken

\* Parts of a row that rises.
LEMMA Divided ==
    \A s \in Seq(Entry) : \A c \in 0 .. Len(s) :
        LET a == SubSeq(s, 1, c)
            b == SubSeq(s, c + 1, Len(s))
        IN  Rising(s) => /\ a \in Seq(Entry) /\ b \in Seq(Entry)
                         /\ ToSet(s) = ToSet(a) \cup ToSet(b)
                         /\ Rising(a) /\ Rising(b)
                         /\ \A e \in ToSet(a), f \in ToSet(b) : Ahead(e, f)
<1> SUFFICES ASSUME NEW s \in Seq(Entry), NEW c \in 0 .. Len(s), Rising(s)
             PROVE  LET a == SubSeq(s, 1, c)
                        b == SubSeq(s, c + 1, Len(s))
                    IN  /\ a \in Seq(Entry) /\ b \in Seq(Entry)
                        /\ ToSet(s) = ToSet(a) \cup ToSet(b)
                        /\ Rising(a) /\ Rising(b)
                        /\ \A e \in ToSet(a), f \in ToSet(b) : Ahead(e, f)
  OBVIOUS
<1> DEFINE a == SubSeq(s, 1, c)
           b == SubSeq(s, c + 1, Len(s))
<1>1. Len(s) \in Nat /\ DOMAIN s = 1 .. Len(s)
  OBVIOUS
<1>2. /\ a \in Seq(Entry) /\ DOMAIN a = 1 .. c /\ \A i \in 1 .. c : a[i] = s[i]
      /\ b \in Seq(Entry) /\ DOMAIN b = 1 .. Len(s) - c
      /\ \A i \in 1 .. Len(s) - c : b[i] = s[c + i]
      /\ ToSet(s) = ToSet(a) \cup ToSet(b)
  BY Parts
<1> HIDE DEF a, b
<1>3. Rising(a)
  BY <1>1, <1>2 DEF Rising
<1>4. ASSUME NEW i \in 1 .. Len(s) - c, NEW j \in 1 .. Len(s) - c, i < j
      PROVE  Ahead(b[i], b[j])
  <2>1. c + i \in DOMAIN s /\ c + j \in DOMAIN s /\ c + i < c + j
    BY <1>1, <1>4
  <2>2. Ahead(s[c + i], s[c + j])
    BY <2>1 DEF Rising
  <2>. QED  BY <1>2, <2>2
<1>5. ASSUME NEW i \in 1 .. c, NEW j \in 1 .. Len(s) - c PROVE Ahead(a[i], b[j])
  <2>1. i \in DOMAIN s /\ c + j \in DOMAIN s /\ i < c + j
    BY <1>1
  <2>2. Ahead(s[i], s[c + j])
    BY <2>1 DEF Rising
  <2>. QED  BY <1>2, <2>2
<1>6. Rising(b)
  BY <1>2, <1>4 DEF Rising
<1>7. \A e \in ToSet(a), f \in ToSet(b) : Ahead(e, f)
  <2>1. SUFFICES ASSUME NEW e \in ToSet(a), NEW f \in ToSet(b) PROVE Ahead(e, f)
    OBVIOUS
  <2>2. PICK i \in 1 .. c : e = a[i]
    BY <1>2 DEF ToSet
  <2>3. PICK j \in 1 .. Len(s) - c : f = b[j]
    BY <1>2 DEF ToSet
  <2>. QED  BY <1>5, <2>2, <2>3
<1>. QED  BY <1>2, <1>3, <1>6, <1>7 DEF a, b

\* The number of entries that are ready divides a sorted row.
LEMMA ReadyFirst ==
    \A s \in Seq(Entry) : \A f \in Nat :
        LET c == Cardinality({k \in DOMAIN s : TimeOf(s[k]) < f})
            a == SubSeq(s, 1, c)
            b == SubSeq(s, c + 1, Len(s))
        IN  ByTime(s) => /\ c \in 0 .. Len(s) /\ ByTime(a)
                         /\ \A e \in ToSet(a) : TimeOf(e) < f
                         /\ \A e \in ToSet(b) : f <= TimeOf(e)
<1> SUFFICES ASSUME NEW s \in Seq(Entry), NEW f \in Nat, ByTime(s)
             PROVE  LET c == Cardinality({k \in DOMAIN s : TimeOf(s[k]) < f})
                        a == SubSeq(s, 1, c)
                        b == SubSeq(s, c + 1, Len(s))
                    IN  /\ c \in 0 .. Len(s) /\ ByTime(a)
                        /\ \A e \in ToSet(a) : TimeOf(e) < f
                        /\ \A e \in ToSet(b) : f <= TimeOf(e)
  OBVIOUS
<1> DEFINE D == {k \in DOMAIN s : TimeOf(s[k]) < f}
           c == Cardinality(D)
           a == SubSeq(s, 1, c)
           b == SubSeq(s, c + 1, Len(s))
<1>1. Len(s) \in Nat /\ DOMAIN s = 1 .. Len(s) /\ \A i \in DOMAIN s : TimeOf(s[i]) \in Nat
  BY EntryFacts
<1>2. D \in SUBSET (1 .. Len(s)) /\ \A k \in D : \A j \in 1 .. k : j \in D
  <2>1. SUFFICES ASSUME NEW k \in D, NEW j \in 1 .. k PROVE j \in D
    BY <1>1
  <2>2. j \in DOMAIN s /\ (j < k \/ j = k)
    BY <1>1
  <2>3. TimeOf(s[j]) <= TimeOf(s[k])
    BY <1>1, <2>2 DEF ByTime
  <2>. QED  BY <1>1, <2>2, <2>3
<1> HIDE DEF D
<1>3. c \in 0 .. Len(s) /\ D = 1 .. c
  BY <1>1, <1>2, CountedBy
<1> HIDE DEF c
<1>4. /\ DOMAIN a = 1 .. c /\ \A i \in 1 .. c : a[i] = s[i]
      /\ DOMAIN b = 1 .. Len(s) - c /\ \A i \in 1 .. Len(s) - c : b[i] = s[c + i]
  BY <1>3, Parts
<1> HIDE DEF a, b
<1>5. ByTime(a)
  BY <1>1, <1>3, <1>4 DEF ByTime
<1>6. \A i \in 1 .. c : TimeOf(a[i]) < f
  BY <1>3, <1>4 DEF D
<1>7. ASSUME NEW i \in 1 .. Len(s) - c PROVE f <= TimeOf(b[i])
  <2>1. c + i \in DOMAIN s /\ c + i \notin 1 .. c
    BY <1>1, <1>3
  <2>2. ~ (TimeOf(s[c + i]) < f)
    BY <1>3, <2>1 DEF D
  <2>. QED  BY <1>1, <1>4, <2>1, <2>2
<1>. QED  BY <1>3, <1>4, <1>5, <1>6, <1>7 DEF a, b, c, D, ToSet

\* Rows in the order of times, one after the other.
LEMMA ByTimeConcatenated ==
    \A s, t \in Seq(Entry) :
        ByTime(s) /\ ByTime(t) /\ (\A e \in ToSet(s), f \in ToSet(t) : TimeOf(e) <= TimeOf(f))
        => ByTime(s \o t)
<1> SUFFICES ASSUME NEW s \in Seq(Entry), NEW t \in Seq(Entry), ByTime(s), ByTime(t),
                    \A e \in ToSet(s), f \in ToSet(t) : TimeOf(e) <= TimeOf(f),
                    NEW i \in DOMAIN (s \o t), NEW j \in DOMAIN (s \o t), i < j
             PROVE  TimeOf((s \o t)[i]) <= TimeOf((s \o t)[j])
  BY DEF ByTime
<1> DEFINE u == s \o t
<1>1. \A k \in DOMAIN u : \/ k \in DOMAIN s /\ u[k] = s[k]
                          \/ /\ k \in Nat /\ k > Len(s) /\ k - Len(s) \in DOMAIN t
                             /\ u[k] = t[k - Len(s)]
  BY Concatenated
<1>2. DOMAIN s = 1 .. Len(s) /\ Len(s) \in Nat /\ DOMAIN t = 1 .. Len(t) /\ Len(t) \in Nat
  OBVIOUS
<1> HIDE DEF u
<1>3. CASE i \in DOMAIN s /\ u[i] = s[i] /\ j \in DOMAIN s /\ u[j] = s[j]
  BY <1>3 DEF ByTime, u
<1>4. CASE /\ i \in DOMAIN s /\ u[i] = s[i]
           /\ j - Len(s) \in DOMAIN t /\ u[j] = t[j - Len(s)]
  BY <1>4 DEF ToSet, u
<1>5. CASE /\ i \in Nat /\ j \in Nat
           /\ i - Len(s) \in DOMAIN t /\ u[i] = t[i - Len(s)]
           /\ j - Len(s) \in DOMAIN t /\ u[j] = t[j - Len(s)]
  <2>1. i - Len(s) < j - Len(s)
    BY <1>2, <1>5
  <2>. QED  BY <1>5, <2>1 DEF ByTime, u
<1>6. ~ (i > Len(s) /\ j \in DOMAIN s) \/ i \in DOMAIN s
  BY <1>2, i < j
<1>. QED  BY <1>1, <1>3, <1>4, <1>5, <1>6 DEF u

(* What a run of the sink does to what its worker has: entries only move on *)
(* from the channels to the kept ones and to the log, none overtakes one    *)
(* of the same sender, and those released are the ones behind the frontier. *)
LEMMA OutputInv ==
    ASSUME Inv, NEW w \in Peers, SequenceOutput(w)
    PROVE  /\ recv' \in [Peers -> Seq(Entry)] /\ recvd' \in [Peers -> Seq(Entry)]
           /\ stream' \in [Peers -> [Peers -> Seq(Entry)]]
           /\ \A v \in Peers : v # w =>
                 /\ recv'[v] = recv[v] /\ recvd'[v] = recvd[v]
                 /\ \A s \in Peers : stream'[s][v] = stream[s][v]
           /\ ByTime(recv'[w]) /\ Rising(recv'[w]) /\ Rising(recvd'[w])
           /\ \A e \in ToSet(recv'[w]) :
                 /\ TimeOf(e) < frontier[w]
                 /\ \A f \in ToSet(recvd'[w]) : frontier[w] <= TimeOf(f) /\ Ahead(e, f)
           /\ \A s \in Peers :
                 /\ ToSet(stream'[s][w]) \subseteq ToSet(stream[s][w])
                 /\ Rising(stream'[s][w])
                 /\ \A f \in ToSet(stream'[s][w]) :
                    \A e \in ToSet(recv'[w]) \cup ToSet(recvd'[w]) : Ahead(e, f)
           /\ Here(w)' \subseteq Here(w) /\ (alive[w] => Here(w)' = Here(w))
<1>1. PICK upto \in [Peers -> 0 .. MaxEntries] :
        /\ \A s \in Peers : upto[s] <= Len(stream[s][w])
        /\ stream' = [s \in Peers |-> [stream[s] EXCEPT ![w] =
                          SubSeq(@, upto[s] + 1, Len(@))]]
        /\ \E p \in Readings(Places(upto)) :
              LET row == recvd[w] \o Take(stream, w, p)
              IN  \E q \in Sortings(row) : Release(w, [k \in DOMAIN row |-> row[q[k]]])
  BY DEF SequenceOutput, Places, Take
<1>1a. \A s \in Peers : upto[s] <= Len(stream[s][w])
  BY <1>1
<1>2. PICK p \in Readings(Places(upto)) :
        LET row == recvd[w] \o Take(stream, w, p)
        IN  \E q \in Sortings(row) : Release(w, [k \in DOMAIN row |-> row[q[k]]])
  BY <1>1
<1> DEFINE taken == Take(stream, w, p)
           row == recvd[w] \o taken
<1>3. PICK q \in Sortings(row) : Release(w, [k \in DOMAIN row |-> row[q[k]]])
  BY <1>2
<1> DEFINE sorted == [k \in DOMAIN row |-> row[q[k]]]
           c == Cardinality({k \in DOMAIN sorted : TimeOf(sorted[k]) < frontier[w]})
           a == SubSeq(sorted, 1, c)
           b == SubSeq(sorted, c + 1, Len(sorted))
           first(s) == SubSeq(stream[s][w], 1, upto[s])
           rest(s) == SubSeq(stream[s][w], upto[s] + 1, Len(stream[s][w]))
<1>4. /\ recvd' = [recvd EXCEPT ![w] = b]
      /\ recv' = [recv EXCEPT ![w] = IF alive[w] THEN @ \o a ELSE @]
  BY <1>3 DEF Release, ready
<1>5. stream' = [s \in Peers |-> [stream[s] EXCEPT ![w] = rest(s)]]
  BY <1>1
<1>6. /\ stream \in [Peers -> [Peers -> Seq(Entry)]]
      /\ recvd \in [Peers -> Seq(Entry)] /\ recv \in [Peers -> Seq(Entry)]
      /\ frontier[w] \in Nat /\ alive[w] \in BOOLEAN
  <2>1. MaxClock \in Nat
    BY SequencerAssumption
  <2>. QED  BY <2>1 DEF Inv, Types, Gone
<1>6a. frontier[w] \in Nat
  BY <1>6
<1>7. \A s \in Peers : /\ stream[s][w] \in Seq(Entry)
                         /\ upto[s] \in 0 .. Len(stream[s][w])
                         /\ Rising(stream[s][w])
                         /\ \A f \in ToSet(stream[s][w]) :
                               /\ Sender(f) = s
                               /\ \A e \in ToSet(recv[w]) \cup ToSet(recvd[w]) : Ahead(e, f)
  <2>1. SUFFICES ASSUME NEW s \in Peers
                 PROVE  /\ stream[s][w] \in Seq(Entry)
                        /\ upto[s] \in 0 .. Len(stream[s][w])
                        /\ Rising(stream[s][w])
                        /\ \A f \in ToSet(stream[s][w]) :
                              /\ Sender(f) = s
                              /\ \A e \in ToSet(recv[w]) \cup ToSet(recvd[w]) : Ahead(e, f)
    OBVIOUS
  <2>2. stream[s][w] \in Seq(Entry) /\ upto[s] \in 0 .. MaxEntries
    BY <1>6
  <2>3. upto[s] \in 0 .. Len(stream[s][w])
    BY <1>1a, <2>2, MaxEntriesNat
  <2>. QED  BY <2>2, <2>3 DEF Inv, Lined
<1>8. /\ taken \in Seq(Entry) /\ Rising(taken)
      /\ ToSet(taken) = UNION {ToSet(first(s)) : s \in Peers}
  <2>1. \A s \in Peers : /\ upto[s] <= Len(stream[s][w]) /\ Rising(stream[s][w])
                           /\ \A f \in ToSet(stream[s][w]) : Sender(f) = s
    BY <1>1a, <1>7
  <2>. QED  BY <1>6, <2>1, Taken, Zenon
<1>9. \A s \in Peers : /\ first(s) \in Seq(Entry) /\ rest(s) \in Seq(Entry)
                         /\ ToSet(stream[s][w]) = ToSet(first(s)) \cup ToSet(rest(s))
                         /\ Rising(rest(s))
                         /\ \A e \in ToSet(first(s)), f \in ToSet(rest(s)) : Ahead(e, f)
  BY <1>7, Divided
<1> HIDE DEF first, rest, taken

<1>10. ASSUME NEW e \in ToSet(taken)
       PROVE  \E s \in Peers : e \in ToSet(first(s)) /\ e \in ToSet(stream[s][w]) /\ Sender(e) = s
  <2>1. PICK s \in Peers : e \in ToSet(first(s))
    BY <1>8
  <2>2. e \in ToSet(stream[s][w])
    BY <1>9, <2>1
  <2>. QED  BY <1>7, <2>1, <2>2
<1>11. row \in Seq(Entry) /\ ToSet(row) = ToSet(recvd[w]) \cup ToSet(taken)
  <2>1. recvd[w] \in Seq(Entry)
    BY <1>6
  <2>. QED  BY <1>8, <2>1, Concatenated
<1>12. Rising(row)
  <2>1. recvd[w] \in Seq(Entry) /\ Rising(recvd[w])
    BY <1>6 DEF Inv, Lined
  <2>2. ASSUME NEW e \in ToSet(recvd[w]), NEW f \in ToSet(taken) PROVE Ahead(e, f)
    BY <1>7, <1>10
  <2>. QED  BY <1>8, <2>1, <2>2, RisingConcatenated
<1> HIDE DEF row
<1>13. ToSet(row) \subseteq Here(w)
  BY <1>10, <1>11 DEF Here
<1>14. Keyed(ToSet(row)) /\ \A e, f \in ToSet(row) : Lane(e) = Lane(f)
  <2>1. Keyed(ToSet(row))
    BY <1>13 DEF Inv, Keyed
  <2>2. \A e \in ToSet(row) : Lane(e) = Index[w]
    BY <1>13 DEF Inv, Issued
  <2>. QED  BY <2>1, <2>2
<1>15. /\ sorted \in Seq(Entry) /\ ToSet(sorted) = ToSet(row)
       /\ ByTime(sorted) /\ Rising(sorted)
  BY <1>11, <1>12, <1>14, Sorted
<1> HIDE DEF sorted
<1>16. /\ c \in 0 .. Len(sorted) /\ ByTime(a)
       /\ \A e \in ToSet(a) : TimeOf(e) < frontier[w]
       /\ \A e \in ToSet(b) : frontier[w] <= TimeOf(e)
  BY <1>6, <1>15, ReadyFirst
<1> HIDE DEF c
<1>17. /\ a \in Seq(Entry) /\ b \in Seq(Entry) /\ ToSet(row) = ToSet(a) \cup ToSet(b)
       /\ Rising(a) /\ Rising(b)
       /\ \A e \in ToSet(a), f \in ToSet(b) : Ahead(e, f)
  BY <1>15, <1>16, Divided
<1> HIDE DEF a, b
<1> DEFINE log == IF alive[w] THEN recv[w] \o a ELSE recv[w]
<1>18. /\ log \in Seq(Entry)
       /\ ToSet(log) = ToSet(recv[w]) \cup (IF alive[w] THEN ToSet(a) ELSE {})
  <2>1. recv[w] \in Seq(Entry)
    BY <1>6
  <2>2. recv[w] \o a \in Seq(Entry) /\ ToSet(recv[w] \o a) = ToSet(recv[w]) \cup ToSet(a)
    BY <1>17, <2>1, Concatenated
  <2>. QED  BY <2>1, <2>2
<1>19. /\ recvd' \in [Peers -> Seq(Entry)] /\ recvd'[w] = b
       /\ \A v \in Peers : v # w => recvd'[v] = recvd[v]
  BY <1>4, <1>6, <1>17
<1>20. /\ recv' \in [Peers -> Seq(Entry)] /\ recv'[w] = log
       /\ \A v \in Peers : v # w => recv'[v] = recv[v]
  <2>1. recv' = [recv EXCEPT ![w] = log]
    BY <1>4, <1>6
  <2> HIDE DEF log
  <2>. QED  BY <1>6, <1>18, <2>1
<1>21. /\ stream' \in [Peers -> [Peers -> Seq(Entry)]]
       /\ \A s \in Peers : /\ stream'[s][w] = rest(s)
                             /\ \A v \in Peers : v # w => stream'[s][v] = stream[s][v]
  BY <1>5, <1>6, <1>9
<1>21a. \A e \in ToSet(recv[w]) \cup ToSet(row) : TimeOf(e) \in Nat
  <2>1. \A s \in Seq(Entry) : \A e \in ToSet(s) : TimeOf(e) \in Nat
    BY EntryFacts DEF ToSet
  <2>2. recv[w] \in Seq(Entry) /\ row \in Seq(Entry)
    BY <1>6, <1>11
  <2>. QED  BY <2>1, <2>2
<1>22. ASSUME NEW e \in ToSet(recv[w]), NEW f \in ToSet(row) PROVE TimeOf(e) <= TimeOf(f) /\ Ahead(e, f)
  <2>1. CASE f \in ToSet(recvd[w])
    <3>1. TimeOf(e) < TimeOf(f) /\ Ahead(e, f)
      BY <2>1 DEF Inv, Past, Lined
    <3>2. TimeOf(e) \in Nat /\ TimeOf(f) \in Nat
      BY <1>21a
    <3>. QED  BY <3>1, <3>2
  <2>2. CASE f \in ToSet(taken)
    <3>1. PICK s \in Peers : f \in ToSet(stream[s][w])
      BY <1>10, <2>2
    <3>2. Ahead(e, f)
      BY <1>7, <3>1
    <3>3. frontier[w] <= TimeOf(f)
      BY <3>1 DEF Inv, Honest
    <3>4. TimeOf(e) < frontier[w]
      BY DEF Inv, Past
    <3>5. TimeOf(e) \in Nat /\ TimeOf(f) \in Nat
      BY <1>21a
    <3>. QED  BY <1>6a, <3>2, <3>3, <3>4, <3>5
  <2>. QED  BY <1>11, <2>1, <2>2
<1>23. ByTime(log) /\ Rising(log)
  <2>1. recv[w] \in Seq(Entry) /\ ByTime(recv[w]) /\ Rising(recv[w])
    BY <1>6 DEF Inv, Past, Lined
  <2>2. \A e \in ToSet(recv[w]), f \in ToSet(a) : TimeOf(e) <= TimeOf(f) /\ Ahead(e, f)
    BY <1>17, <1>22
  <2>3. ByTime(recv[w] \o a)
    BY <1>16, <1>17, <2>1, <2>2, ByTimeConcatenated
  <2>4. Rising(recv[w] \o a)
    BY <1>17, <2>1, <2>2, RisingConcatenated
  <2>. QED  BY <2>1, <2>3, <2>4
<1> HIDE DEF log
<1>24. ASSUME NEW e \in ToSet(log)
       PROVE  /\ TimeOf(e) < frontier[w]
              /\ \A f \in ToSet(b) : frontier[w] <= TimeOf(f) /\ Ahead(e, f)
  <2>1. CASE e \in ToSet(recv[w])
    <3>1. TimeOf(e) < frontier[w]
      BY <2>1 DEF Inv, Past
    <3>. QED  BY <1>16, <1>17, <1>22, <2>1, <3>1
  <2>2. CASE e \in ToSet(a)
    BY <1>16, <1>17, <2>2
  <2>. QED  BY <1>18, <2>1, <2>2
<1>25. ASSUME NEW s \in Peers, NEW f \in ToSet(rest(s)),
              NEW e \in ToSet(log) \cup ToSet(b)
       PROVE  Ahead(e, f)
  <2>1. f \in ToSet(stream[s][w]) /\ Sender(f) = s
    BY <1>7, <1>9
  <2>2. CASE e \in ToSet(recv[w]) \cup ToSet(recvd[w])
    BY <1>7, <2>1, <2>2
  <2>3. CASE e \in ToSet(taken)
    <3>1. PICK z \in Peers : e \in ToSet(first(z)) /\ Sender(e) = z
      BY <1>10, <2>3
    <3>2. CASE z = s
      BY <1>9, <3>1, <3>2
    <3>3. CASE z # s
      BY <2>1, <3>1, <3>3 DEF Ahead
    <3>. QED  BY <3>2, <3>3
  <2>. QED  BY <1>11, <1>17, <1>18, <2>2, <2>3
<1>26. /\ \A s \in Peers : ToSet(rest(s)) \subseteq ToSet(stream[s][w])
       /\ ToSet(log) \subseteq Here(w) /\ ToSet(b) \subseteq Here(w)
  BY <1>9, <1>13, <1>17, <1>18 DEF Here
<1>27. Here(w)' = ToSet(log) \cup ToSet(b) \cup UNION {ToSet(rest(s)) : s \in Peers}
  BY <1>19, <1>20, <1>21 DEF Here
<1>28. Here(w)' \subseteq Here(w)
  BY <1>26, <1>27 DEF Here
<1>29. ASSUME alive[w], NEW e \in Here(w) PROVE e \in Here(w)'
  <2>1. CASE e \in ToSet(recv[w]) \cup ToSet(row)
    BY <1>17, <1>18, <1>27, <1>29, <2>1
  <2>2. ASSUME NEW s \in Peers, e \in ToSet(stream[s][w]) PROVE e \in Here(w)'
    <3>1. CASE e \in ToSet(first(s))
      BY <1>8, <1>11, <2>1, <3>1
    <3>2. CASE e \in ToSet(rest(s))
      BY <1>27, <3>2
    <3>. QED  BY <1>9, <2>2, <3>1, <3>2
  <2>. QED  BY <1>11, <1>29, <2>1, <2>2 DEF Here
<1>. QED
  BY <1>9, <1>19, <1>20, <1>21, <1>23, <1>24, <1>25, <1>26, <1>28, <1>29, <1>17

\* A run of the sink keeps the invariant.
LEMMA OutputStep ==
    ASSUME Inv, NEW w \in Peers, SequenceOutput(w)
    PROVE  Inv'
<1> USE DEF Inv
<1>1. /\ recv' \in [Peers -> Seq(Entry)] /\ recvd' \in [Peers -> Seq(Entry)]
      /\ stream' \in [Peers -> [Peers -> Seq(Entry)]]
  BY OutputInv
<1>2. ASSUME NEW v \in Peers, v # w
      PROVE  /\ recv'[v] = recv[v] /\ recvd'[v] = recvd[v]
             /\ \A s \in Peers : stream'[s][v] = stream[s][v]
  BY <1>2, OutputInv
<1>3. ByTime(recv'[w]) /\ Rising(recv'[w]) /\ Rising(recvd'[w])
  BY OutputInv
<1>4. \A e \in ToSet(recv'[w]) :
        /\ TimeOf(e) < frontier[w]
        /\ \A f \in ToSet(recvd'[w]) : frontier[w] <= TimeOf(f) /\ Ahead(e, f)
  BY OutputInv
<1>5. ASSUME NEW s \in Peers
      PROVE  /\ ToSet(stream'[s][w]) \subseteq ToSet(stream[s][w])
             /\ Rising(stream'[s][w])
             /\ \A f \in ToSet(stream'[s][w]) :
                \A e \in ToSet(recv'[w]) \cup ToSet(recvd'[w]) : Ahead(e, f)
  BY OutputInv
<1>6. Here(w)' \subseteq Here(w) /\ (alive[w] => Here(w)' = Here(w))
  BY OutputInv
<1>7. UNCHANGED <<pushes, alive, proposals, counter, capability, frontier>>
  BY DEF SequenceOutput
<1>8. ASSUME NEW v \in Peers, v # w PROVE Here(v)' = Here(v)
  BY <1>2, <1>8 DEF Here
<1>9. \A v \in Peers : Here(v)' \subseteq Here(v) /\ (alive[v] => Here(v)' = Here(v))
  BY <1>6, <1>8
<1>10. \A s, v \in Peers : ToSet(stream'[s][v]) \subseteq ToSet(stream[s][v])
  BY <1>2, <1>5
<1>11. Types'
  BY <1>1, <1>7 DEF Types
<1>12. Honest'
  BY <1>7, <1>10 DEF Honest
<1>13. Past'
  <2>1. ASSUME NEW v \in Peers, v # w
        PROVE  /\ ByTime(recv'[v])
               /\ \A e \in ToSet(recv'[v]) :
                     /\ TimeOf(e) < frontier[v]
                     /\ \A f \in ToSet(recvd'[v]) : TimeOf(e) < TimeOf(f)
    BY <1>2, <2>1 DEF Past
  <2>2. ASSUME NEW e \in ToSet(recv'[w]), NEW f \in ToSet(recvd'[w])
        PROVE  TimeOf(e) < TimeOf(f)
    <3>1. TimeOf(e) < frontier[w] /\ frontier[w] <= TimeOf(f)
      BY <1>4
    <3>2. \A s \in Seq(Entry) : \A x \in ToSet(s) : TimeOf(x) \in Nat
      BY EntryFacts DEF ToSet
    <3>3. TimeOf(e) \in Nat /\ TimeOf(f) \in Nat
      BY <1>1, <3>2
    <3>4. frontier[w] \in 0 .. Gone /\ Gone \in Nat
      BY SequencerAssumption DEF Types, Gone
    <3>. QED  BY <3>1, <3>3, <3>4
  <2>. QED  BY <1>3, <1>4, <1>7, <2>1, <2>2 DEF Past
<1>14. Copies'
  <2>1. SUFFICES ASSUME NEW x \in Peers, alive'[x], NEW v \in Peers, NEW e \in Here(v)'
                 PROVE  \E f \in Here(x)' : f.elem = e.elem /\ TimeOf(f) = TimeOf(e)
    BY DEF Copies
  <2>2. alive[x] /\ e \in Here(v) /\ Here(x)' = Here(x)
    BY <1>7, <1>9, <2>1
  <2>. QED  BY <2>2 DEF Copies
<1>15. Proposed'
  BY <1>7 DEF Proposed
<1>16. Issued'
  BY <1>7, <1>9 DEF Issued
<1>17. \A v \in Peers : Keyed(Here(v))'
  BY <1>9 DEF Keyed
<1>18. Lined'
  <2>1. ASSUME NEW v \in Peers, v # w
        PROVE  /\ Rising(recv'[v]) /\ Rising(recvd'[v])
               /\ \A e \in ToSet(recv'[v]), f \in ToSet(recvd'[v]) : Ahead(e, f)
               /\ \A s \in Peers :
                     /\ Rising(stream'[s][v])
                     /\ \A f \in ToSet(stream'[s][v]) :
                           /\ Sender(f) = s
                           /\ \A e \in ToSet(recv'[v]) \cup ToSet(recvd'[v]) : Ahead(e, f)
    BY <1>2, <2>1 DEF Lined
  <2>2. \A s \in Peers : \A f \in ToSet(stream'[s][w]) : Sender(f) = s
    BY <1>10 DEF Lined
  <2>. QED  BY <1>3, <1>4, <1>5, <2>1, <2>2 DEF Lined
<1>. QED  BY <1>11, <1>12, <1>13, <1>14, <1>15, <1>16, <1>17, <1>18

\* What a worker has are entries.
LEMMA HereEntries == Types => \A w \in Peers : Here(w) \subseteq Entry
<1> SUFFICES ASSUME Types, NEW w \in Peers, NEW e \in Here(w) PROVE e \in Entry
  OBVIOUS
<1>1. \A s \in Seq(Entry) : \A x \in ToSet(s) : x \in Entry
  BY DEF ToSet
<1>2. /\ recv[w] \in Seq(Entry) /\ recvd[w] \in Seq(Entry)
      /\ \A s \in Peers : stream[s][w] \in Seq(Entry)
  BY DEF Types
<1>3. \/ e \in ToSet(recv[w]) \/ e \in ToSet(recvd[w])
      \/ \E s \in Peers : e \in ToSet(stream[s][w])
  BY DEF Here
<1>. QED  BY <1>1, <1>2, <1>3

\* What the actions that move no entry leave as it is.
LEMMA Kept ==
    ASSUME Inv, UNCHANGED <<stream, recvd, recv>>,
           UNCHANGED counter,
           \A w \in Peers : alive'[w] => alive[w],
           \A w \in Peers : capability[w] <= capability'[w],
           Types', Honest', Past', Proposed',
           \A w \in Peers : \A e \in Here(w) :
              /\ Number(e) <= pushes'[Sender(e)]
              /\ \A i \in DOMAIN proposals'[Sender(e)] : Number(e) < proposals'[Sender(e)][i][2]
    PROVE  Inv'
<1> USE DEF Inv
<1>1. \A w \in Peers : Here(w)' = Here(w)
  BY DEF Here
<1>2. Copies'
  BY <1>1 DEF Copies
<1>3. \A w \in Peers : Keyed(Here(w))'
  BY <1>1 DEF Keyed
<1>4. Lined'
  BY DEF Lined
<1>5. Issued'
  <2>1. SUFFICES ASSUME NEW w \in Peers, NEW e \in Here(w)
                 PROVE  /\ Lane(e) = Index[w] /\ Place(e) < counter[Sender(e)]
                        /\ TimeOf(e) <= capability'[Sender(e)]
    BY <1>1 DEF Issued
  <2>2. Sender(e) \in Peers /\ TimeOf(e) \in Nat
    BY HereEntries, EntryFacts
  <2>3. capability[Sender(e)] \in Int /\ capability'[Sender(e)] \in Int
    BY <2>2, SequencerAssumption DEF Types, Gone
  <2>4. /\ Lane(e) = Index[w] /\ Place(e) < counter[Sender(e)]
        /\ TimeOf(e) <= capability[Sender(e)]
    BY DEF Issued
  <2>. QED  BY <2>2, <2>3, <2>4
<1>. QED  BY <1>2, <1>3, <1>4, <1>5

\* Times, and the end of all times.
LEMMA ClockFacts == MaxClock \in Nat /\ Gone = MaxClock + 1 /\ Gone \in Nat
  BY SequencerAssumption DEF Gone

\* A push keeps the invariant.
LEMMA PushStep == ASSUME Inv, NEW w \in Peers, push(w) PROVE Inv'
<1> USE DEF Inv
<1>1. /\ pushes' = [pushes EXCEPT ![w] = @ + 1]
      /\ proposals' = [proposals EXCEPT ![w] = Append(@, <<w, pushes[w] + 1>>)]
      /\ UNCHANGED <<alive, counter, capability, stream, recvd, recv, frontier>>
  BY DEF push
<1>2. pushes[w] \in Nat /\ proposals[w] \in Seq(Peers \X Nat)
  BY DEF Types
<1> DEFINE row == Append(proposals[w], <<w, pushes[w] + 1>>)
<1>3. /\ row \in Seq(Peers \X Nat) /\ Len(proposals[w]) \in Nat /\ DOMAIN row = 1 .. Len(proposals[w]) + 1
      /\ DOMAIN proposals[w] = 1 .. Len(proposals[w])
      /\ \A i \in DOMAIN proposals[w] : row[i] = proposals[w][i] /\ proposals[w][i][2] \in Nat
      /\ row[Len(proposals[w]) + 1] = <<w, pushes[w] + 1>>
  BY <1>2, SMTT(30)
<1>3a. row[Len(proposals[w]) + 1][1] = w /\ row[Len(proposals[w]) + 1][2] = pushes[w] + 1
  BY <1>3
<1> HIDE DEF row
<1>4. /\ proposals' \in [Peers -> Seq(Peers \X Nat)] /\ proposals'[w] = row
      /\ \A v \in Peers : v # w => proposals'[v] = proposals[v]
  BY <1>1, <1>3 DEF Types, row
<1>5. /\ pushes' \in [Peers -> Nat] /\ pushes'[w] = pushes[w] + 1
      /\ \A v \in Peers : v # w => pushes'[v] = pushes[v]
  BY <1>1 DEF Types
<1>6. Types'
  BY <1>1, <1>4, <1>5 DEF Types
<1>7. Honest' /\ Past'
  BY <1>1 DEF Honest, Past
<1>8. /\ \A i \in DOMAIN row : row[i][1] = w /\ row[i][2] <= pushes[w] + 1
      /\ \A i, j \in DOMAIN row : i < j => row[i][2] < row[j][2]
  <2>1. \A i \in DOMAIN proposals[w] : proposals[w][i][1] = w /\ proposals[w][i][2] <= pushes[w]
    BY DEF Proposed
  <2>2. \A i, j \in DOMAIN proposals[w] : i < j => proposals[w][i][2] < proposals[w][j][2]
    BY DEF Proposed
  <2>3. \A i \in DOMAIN row : i \in DOMAIN proposals[w] \/ i = Len(proposals[w]) + 1
    BY <1>3
  <2>4. ASSUME NEW i \in DOMAIN row PROVE row[i][1] = w /\ row[i][2] <= pushes[w] + 1
    <3>1. CASE i \in DOMAIN proposals[w]
      <4>1. row[i][1] = w /\ row[i][2] <= pushes[w] /\ row[i][2] \in Nat
        BY <1>3, <2>1, <3>1
      <4>. QED  BY <1>2, <4>1
    <3>2. CASE i = Len(proposals[w]) + 1
      BY <1>2, <1>3a, <3>2
    <3>. QED  BY <2>3, <3>1, <3>2
  <2>5. ASSUME NEW i \in DOMAIN row, NEW j \in DOMAIN row, i < j
        PROVE  row[i][2] < row[j][2]
    <3>1. i \in DOMAIN proposals[w]
      BY <1>3, <2>5
    <3>2. CASE j \in DOMAIN proposals[w]
      BY <1>3, <2>2, <2>5, <3>1, <3>2
    <3>3. CASE j = Len(proposals[w]) + 1
      <4>1. row[i][2] <= pushes[w] /\ row[i][2] \in Nat
        BY <1>3, <2>1, <3>1
      <4>. QED  BY <1>2, <1>3a, <3>3, <4>1
    <3>. QED  BY <2>3, <3>2, <3>3
  <2>. QED  BY <2>4, <2>5
<1>9. Proposed'
  BY <1>4, <1>5, <1>8, ZenonT(30) DEF Proposed
<1>10. ASSUME NEW v \in Peers, NEW e \in Here(v)
       PROVE  /\ Number(e) <= pushes'[Sender(e)]
              /\ \A i \in DOMAIN proposals'[Sender(e)] : Number(e) < proposals'[Sender(e)][i][2]
  <2>1. /\ Number(e) <= pushes[Sender(e)]
        /\ \A i \in DOMAIN proposals[Sender(e)] : Number(e) < proposals[Sender(e)][i][2]
    BY DEF Issued
  <2>2. Sender(e) \in Peers /\ Number(e) \in Nat
    BY HereEntries, EntryFacts
  <2>3. CASE Sender(e) = w
    <3>1. ASSUME NEW i \in DOMAIN row PROVE Number(e) < row[i][2]
      <4>1. CASE i \in DOMAIN proposals[w]
        BY <1>3, <2>1, <2>3, <4>1
      <4>2. CASE i = Len(proposals[w]) + 1
        <5>1. Number(e) <= pushes[w]
          BY <2>1, <2>3
        <5>. QED  BY <1>2, <1>3a, <2>2, <4>2, <5>1
      <4>. QED  BY <1>3, <4>1, <4>2, SMTT(30)
    <3>2. Number(e) <= pushes'[w]
      <4>1. Number(e) <= pushes[w] /\ pushes'[w] = pushes[w] + 1
        BY <1>5, <2>1, <2>3
      <4>. QED  BY <1>2, <2>2, <4>1
    <3>. QED  BY <1>4, <2>3, <3>1, <3>2
  <2>4. CASE Sender(e) # w
    BY <1>4, <1>5, <2>1, <2>2, <2>4
  <2>. QED  BY <2>3, <2>4
<1>11. \A v \in Peers : alive'[v] => alive[v]
  BY <1>1
<1>12. \A v \in Peers : capability[v] <= capability'[v]
  BY <1>1, ClockFacts DEF Types
<1>. QED  BY <1>1, <1>6, <1>7, <1>9, <1>10, <1>11, <1>12, Kept

\* Dropping a Sequencer keeps the invariant: its queue is lost, not reordered.
LEMMA DropStep == ASSUME Inv, NEW w \in Peers, drop(w) PROVE Inv'
<1> USE DEF Inv
<1>1. /\ alive' = [alive EXCEPT ![w] = FALSE] /\ proposals' = [proposals EXCEPT ![w] = <<>>]
      /\ UNCHANGED <<pushes, counter, capability, stream, recvd, recv, frontier>>
  BY DEF drop
<1>2. /\ proposals' \in [Peers -> Seq(Peers \X Nat)] /\ DOMAIN proposals'[w] = {}
      /\ \A v \in Peers : v # w => proposals'[v] = proposals[v]
  <2>1. <<>> \in Seq(Peers \X Nat) /\ DOMAIN <<>> = {}
    OBVIOUS
  <2>. QED  BY <1>1, <2>1 DEF Types
<1>3. /\ alive' \in [Peers -> BOOLEAN] /\ \A v \in Peers : alive'[v] => alive[v]
  BY <1>1 DEF Types
<1>4. Types'
  BY <1>1, <1>2, <1>3 DEF Types
<1>5. Honest' /\ Past'
  BY <1>1 DEF Honest, Past
<1>6. Proposed'
  BY <1>1, <1>2 DEF Proposed
<1>7. ASSUME NEW v \in Peers, NEW e \in Here(v)
      PROVE  /\ Number(e) <= pushes'[Sender(e)]
             /\ \A i \in DOMAIN proposals'[Sender(e)] : Number(e) < proposals'[Sender(e)][i][2]
  <2>1. /\ Number(e) <= pushes[Sender(e)]
        /\ \A i \in DOMAIN proposals[Sender(e)] : Number(e) < proposals[Sender(e)][i][2]
    BY DEF Issued
  <2>2. Sender(e) \in Peers
    BY HereEntries, EntryFacts
  <2>. QED  BY <1>1, <1>2, <2>1, <2>2
<1>8. \A v \in Peers : capability[v] <= capability'[v]
  BY <1>1, ClockFacts DEF Types
<1>. QED  BY <1>1, <1>3, <1>4, <1>5, <1>6, <1>7, <1>8, Kept

\* Giving up the capability keeps the invariant: no time is beyond its end.
LEMMA EndStep == ASSUME Inv, NEW w \in Peers, SequenceInputEnds(w) PROVE Inv'
<1> USE DEF Inv
<1>1. /\ capability' = [capability EXCEPT ![w] = Gone]
      /\ UNCHANGED <<pushes, alive, proposals, counter, stream, recvd, recv, frontier>>
  BY DEF SequenceInputEnds
<1>2. /\ capability' \in [Peers -> 0 .. Gone] /\ capability'[w] = Gone
      /\ \A v \in Peers : v # w => capability'[v] = capability[v]
  BY <1>1, ClockFacts DEF Types
<1>3. \A v \in Peers : capability[v] <= capability'[v] /\ capability[v] \in 0 .. Gone
                         /\ frontier[v] \in 0 .. Gone
  <2>1. \A v \in Peers : capability[v] \in 0 .. Gone /\ frontier[v] \in 0 .. Gone
    BY DEF Types
  <2>2. SUFFICES ASSUME NEW v \in Peers PROVE capability[v] <= capability'[v]
    BY <2>1
  <2>3. capability'[v] = Gone \/ capability'[v] = capability[v]
    BY <1>2
  <2>4. capability[v] \in 0 .. Gone
    BY <2>1
  <2>. QED  BY <2>3, <2>4, ClockFacts
<1>4. Types'
  BY <1>1, <1>2 DEF Types
<1>5. Honest'
  <2>1. \A v, x \in Peers : frontier[v] <= capability'[x]
    BY <1>2, <1>3, ClockFacts DEF Honest
  <2>. QED  BY <1>1, <2>1 DEF Honest
<1>6. Past' /\ Proposed'
  BY <1>1 DEF Past, Proposed
<1>7. \A v \in Peers : \A e \in Here(v) :
         /\ Number(e) <= pushes'[Sender(e)]
         /\ \A i \in DOMAIN proposals'[Sender(e)] : Number(e) < proposals'[Sender(e)][i][2]
  BY <1>1 DEF Issued
<1>. QED  BY <1>1, <1>3, <1>4, <1>5, <1>6, <1>7, Kept

\* Learning of progress keeps the invariant, for a frontier that no one may still send before.
LEMMA AdvanceStep == ASSUME Inv, NEW w \in Peers, Advance(w) PROVE Inv'
<1> USE DEF Inv
<1>1. PICK f \in frontier[w] + 1 .. Gone :
         NoneBefore(f) /\ frontier' = [frontier EXCEPT ![w] = f]
  BY DEF Advance
<1>2. UNCHANGED <<pushes, alive, proposals, counter, capability, stream, recvd, recv>>
  BY DEF Advance
<1>3. f \in 0 .. Gone /\ frontier[w] \in 0 .. Gone /\ frontier[w] < f
  BY ClockFacts DEF Types
<1>4. /\ frontier' \in [Peers -> 0 .. Gone] /\ frontier'[w] = f
      /\ \A v \in Peers : v # w => frontier'[v] = frontier[v]
  BY <1>1, <1>3 DEF Types
<1>5. Types'
  BY <1>2, <1>4 DEF Types
<1>6. \A v \in Peers : f <= capability[v]
  BY <1>1 DEF NoneBefore, Outstanding
<1>7. \A s, v \in Peers : \A e \in ToSet(stream[s][v]) : f <= TimeOf(e)
  <2>1. SUFFICES ASSUME NEW s \in Peers, NEW v \in Peers, NEW e \in ToSet(stream[s][v])
                 PROVE  f <= TimeOf(e)
    OBVIOUS
  <2> DEFINE passing == UNION {ToSet(stream[x][y]) : x, y \in Peers}
  <2>2. e \in passing
    OBVIOUS
  <2>3. \A x \in passing : TimeOf(x) \in Outstanding
    BY DEF Outstanding
  <2>. QED  BY <1>1, <2>2, <2>3 DEF NoneBefore
<1>8. Honest'
  BY <1>2, <1>4, <1>6, <1>7 DEF Honest
<1>9. Past'
  <2>1. \A e \in ToSet(recv[w]) : TimeOf(e) < f
    <3>1. \A e \in ToSet(recv[w]) : TimeOf(e) < frontier[w] /\ TimeOf(e) \in Nat
      <4>1. \A e \in ToSet(recv[w]) : e \in Here(w)
        BY DEF Here
      <4>. QED  BY <4>1, HereEntries, EntryFacts DEF Past
    <3>. QED  BY <1>3, <3>1, ClockFacts
  <2>. QED  BY <1>2, <1>4, <2>1 DEF Past
<1>10. Proposed'
  BY <1>2 DEF Proposed
<1>11. \A v \in Peers : \A e \in Here(v) :
         /\ Number(e) <= pushes'[Sender(e)]
         /\ \A i \in DOMAIN proposals'[Sender(e)] : Number(e) < proposals'[Sender(e)][i][2]
  BY <1>2 DEF Issued
<1>12. \A v \in Peers : capability[v] <= capability'[v]
  BY <1>2, ClockFacts DEF Types
<1>. QED  BY <1>2, <1>5, <1>8, <1>9, <1>10, <1>11, <1>12, Kept

\* Sending keeps the invariant: all workers get the same entries, behind what was sent before.
LEMMA InputStep == ASSUME Inv, NEW w \in Peers, SequenceInput(w) PROVE Inv'
<1> USE DEF Inv
<1> DEFINE n == Len(proposals[w])
<1>1. PICK time \in LaterTimes(w) :
        /\ capability' = [capability EXCEPT ![w] = time]
        /\ stream' = [stream EXCEPT ![w] = [d \in Peers |->
               @[d] \o [i \in 1 .. Len(proposals[w]) |->
                           [key |-> <<time, Index[d], counter[w] + i - 1>>,
                            elem |-> proposals[w][i]]]]]
  BY DEF SequenceInput, Sendable
<1>2. /\ counter' = [counter EXCEPT ![w] = @ + n] /\ proposals' = [proposals EXCEPT ![w] = <<>>]
      /\ UNCHANGED <<pushes, alive, recvd, recv, frontier>>
  BY DEF SequenceInput
<1> DEFINE fresh(d) == [i \in 1 .. n |-> [key |-> <<time, Index[d], counter[w] + i - 1>>,
                                          elem |-> proposals[w][i]]]
<1>3. stream' = [stream EXCEPT ![w] = [d \in Peers |-> @[d] \o fresh(d)]]
  BY <1>1
<1>4. time \in 0 .. Gone /\ time \in Nat /\ capability[w] <= time
  <2>1. Elapsed[w] \in SUBSET (1 .. MaxClock)
    BY SequencerAssumption
  <2>2. capability[w] \in 0 .. Gone
    BY DEF Types
  <2>3. time \in 1 .. MaxClock /\ (time > capability[w] \/ time = capability[w])
    BY <2>1 DEF LaterTimes
  <2>. QED  BY <2>2, <2>3, ClockFacts
<1>5. /\ n \in Nat /\ counter[w] \in Nat /\ pushes[w] \in Nat
      /\ proposals[w] \in Seq(Peers \X Nat) /\ DOMAIN proposals[w] = 1 .. n
  BY DEF Types
<1>6. ASSUME NEW i \in 1 .. n
      PROVE  /\ proposals[w][i] = <<w, proposals[w][i][2]>> /\ proposals[w][i][2] \in Nat
             /\ proposals[w][i][2] <= pushes[w]
  <2>1. proposals[w][i] \in Peers \X Nat
    BY <1>5
  <2>. QED  BY <1>5, <2>1 DEF Proposed
<1>7. \A i, j \in 1 .. n : i < j => proposals[w][i][2] < proposals[w][j][2]
  BY <1>5 DEF Proposed
<1> HIDE DEF n
<1>8. ASSUME NEW d \in Peers
      PROVE  /\ DOMAIN fresh(d) = 1 .. n /\ fresh(d) \in Seq(Entry)
             /\ \A i \in 1 .. n :
                   /\ fresh(d)[i].elem = proposals[w][i] /\ TimeOf(fresh(d)[i]) = time
                   /\ Lane(fresh(d)[i]) = Index[d] /\ Place(fresh(d)[i]) = counter[w] + i - 1
                   /\ Sender(fresh(d)[i]) = w /\ Number(fresh(d)[i]) = proposals[w][i][2]
  <2>1. Index[d] \in Nat
    BY SequencerAssumption
  <2>2. ASSUME NEW i \in 1 .. n
        PROVE  /\ fresh(d)[i] \in Entry
               /\ fresh(d)[i].elem = proposals[w][i] /\ TimeOf(fresh(d)[i]) = time
               /\ Lane(fresh(d)[i]) = Index[d] /\ Place(fresh(d)[i]) = counter[w] + i - 1
               /\ Sender(fresh(d)[i]) = w /\ Number(fresh(d)[i]) = proposals[w][i][2]
    <3> DEFINE x == [key |-> <<time, Index[d], counter[w] + i - 1>>, elem |-> proposals[w][i]]
    <3>1. fresh(d)[i] = x
      OBVIOUS
    <3>2. counter[w] + i - 1 \in Nat /\ proposals[w][i][2] \in Nat /\ proposals[w][i] = <<w, proposals[w][i][2]>>
      BY <1>5, <1>6
    <3>3. x = [key |-> <<time, Index[d], counter[w] + i - 1>>, elem |-> <<w, proposals[w][i][2]>>]
      BY <3>2
    <3>4. x.elem = proposals[w][i]
      OBVIOUS
    <3> HIDE DEF x
    <3>5. /\ x \in Entry
          /\ TimeOf(x) = time /\ Lane(x) = Index[d] /\ Place(x) = counter[w] + i - 1
          /\ Sender(x) = w /\ Number(x) = proposals[w][i][2]
      <4>1. PICK l \in Nat : l = Index[d]
        BY <2>1
      <4>2. PICK k \in Nat : k = counter[w] + i - 1
        BY <3>2
      <4>3. PICK m \in Nat : m = proposals[w][i][2]
        BY <3>2
      <4>4. x = [key |-> <<time, l, k>>, elem |-> <<w, m>>]
        BY <3>3, <4>1, <4>2, <4>3
      <4>5. x \in Entry /\ TimeOf(x) = time /\ Lane(x) = l /\ Place(x) = k /\ Sender(x) = w /\ Number(x) = m
        BY <1>4, <4>4 DEF Entry, TimeOf, Lane, Place, Sender, Number
      <4>. QED  BY <4>1, <4>2, <4>3, <4>5
    <3>. QED  BY <3>1, <3>4, <3>5
  <2>3. DOMAIN fresh(d) = 1 .. n /\ fresh(d) = [i \in 1 .. n |-> fresh(d)[i]]
    OBVIOUS
  <2> HIDE DEF fresh
  <2>4. fresh(d) \in [1 .. n -> Entry]
    BY <2>2, <2>3
  <2>5. fresh(d) \in Seq(Entry)
    BY <1>5, <2>4
  <2>. QED  BY <2>2, <2>3, <2>5
<1> HIDE DEF fresh
<1>9. /\ stream' \in [Peers -> [Peers -> Seq(Entry)]]
      /\ \A d \in Peers :
            /\ stream'[w][d] = stream[w][d] \o fresh(d)
            /\ \A s \in Peers : s # w => stream'[s][d] = stream[s][d]
  <2>1. stream \in [Peers -> [Peers -> Seq(Entry)]]
    BY DEF Types
  <2>2. \A d \in Peers : stream[w][d] \o fresh(d) \in Seq(Entry)
    BY <1>8, <2>1, Concatenated
  <2>3. [d \in Peers |-> stream[w][d] \o fresh(d)] \in [Peers -> Seq(Entry)]
    BY <2>2
  <2> DEFINE passing == [d \in Peers |-> stream[w][d] \o fresh(d)]
  <2>4. passing \in [Peers -> Seq(Entry)] /\ \A d \in Peers : passing[d] = stream[w][d] \o fresh(d)
    BY <2>3
  <2>5. stream' = [stream EXCEPT ![w] = passing]
    BY <1>3
  <2> HIDE DEF passing
  <2>6. /\ stream' \in [Peers -> [Peers -> Seq(Entry)]] /\ stream'[w] = passing
        /\ \A s \in Peers : s # w => stream'[s] = stream[s]
    BY <2>1, <2>4, <2>5
  <2>. QED  BY <2>4, <2>6
<1>10. \A d \in Peers : ToSet(stream'[w][d]) = ToSet(stream[w][d]) \cup ToSet(fresh(d))
  <2>1. SUFFICES ASSUME NEW d \in Peers
                 PROVE  ToSet(stream'[w][d]) = ToSet(stream[w][d]) \cup ToSet(fresh(d))
    OBVIOUS
  <2>2. stream[w][d] \in Seq(Entry) /\ fresh(d) \in Seq(Entry)
    BY <1>8 DEF Types
  <2>3. stream'[w][d] = stream[w][d] \o fresh(d)
    BY <1>9
  <2>4. ToSet(stream[w][d] \o fresh(d)) = ToSet(stream[w][d]) \cup ToSet(fresh(d))
    BY <2>2, Concatenated
  <2>. QED  BY <2>3, <2>4, Zenon
<1>11. \A d \in Peers : Here(d)' = Here(d) \cup ToSet(fresh(d))
  <2>1. SUFFICES ASSUME NEW d \in Peers PROVE Here(d)' = Here(d) \cup ToSet(fresh(d))
    OBVIOUS
  <2> DEFINE before(s) == ToSet(stream[s][d])
             after(s) == ToSet(stream'[s][d])
  <2>2. \A s \in Peers : after(s) = IF s = w THEN before(s) \cup ToSet(fresh(d)) ELSE before(s)
    BY <1>9, <1>10
  <2>3. /\ Here(d) = ToSet(recv[d]) \cup ToSet(recvd[d]) \cup UNION {before(s) : s \in Peers}
        /\ Here(d)' = ToSet(recv[d]) \cup ToSet(recvd[d]) \cup UNION {after(s) : s \in Peers}
    BY <1>2 DEF Here
  <2> HIDE DEF before, after
  <2>. QED  BY <2>2, <2>3
<1>12. ASSUME NEW d \in Peers, NEW e \in ToSet(fresh(d))
       PROVE  \E i \in 1 .. n : e = fresh(d)[i]
  BY <1>8 DEF ToSet
<1>13. ASSUME NEW d \in Peers, NEW e \in Here(d)
       PROVE  /\ TimeOf(e) \in Nat /\ Place(e) \in Nat /\ Number(e) \in Nat /\ Sender(e) \in Peers
              /\ Lane(e) = Index[d] /\ Place(e) < counter[Sender(e)]
              /\ TimeOf(e) <= capability[Sender(e)] /\ Number(e) <= pushes[Sender(e)]
              /\ \A i \in DOMAIN proposals[Sender(e)] : Number(e) < proposals[Sender(e)][i][2]
  BY HereEntries, EntryFacts DEF Issued
<1>14. /\ capability' \in [Peers -> 0 .. Gone] /\ capability'[w] = time
       /\ \A v \in Peers : v # w => capability'[v] = capability[v]
  BY <1>1, <1>4 DEF Types
<1>15. /\ proposals' \in [Peers -> Seq(Peers \X Nat)] /\ DOMAIN proposals'[w] = {}
       /\ \A v \in Peers : v # w => proposals'[v] = proposals[v]
  <2>1. <<>> \in Seq(Peers \X Nat) /\ DOMAIN <<>> = {}
    OBVIOUS
  <2>. QED  BY <1>2, <2>1 DEF Types
<1>16. /\ counter' \in [Peers -> Nat] /\ counter'[w] = counter[w] + n
       /\ \A v \in Peers : v # w => counter'[v] = counter[v]
  BY <1>2, <1>5 DEF Types
<1>17. Types'
  BY <1>2, <1>9, <1>14, <1>15, <1>16 DEF Types
<1>18. Past' /\ Proposed'
  BY <1>2, <1>15 DEF Past, Proposed
<1>19. Honest'
  <2>1. \A x \in Peers : frontier[x] <= time
    <3>1. SUFFICES ASSUME NEW x \in Peers PROVE frontier[x] <= time
      OBVIOUS
    <3>2. frontier[x] <= capability[w]
      BY DEF Honest
    <3>3. frontier[x] \in 0 .. Gone /\ capability[w] \in 0 .. Gone
      BY DEF Types
    <3>. QED  BY <1>4, <3>2, <3>3, ClockFacts
  <2>2. \A x, v \in Peers : frontier[x] <= capability'[v]
    BY <1>14, <2>1 DEF Honest
  <2>3. \A x, s, d \in Peers : \A e \in ToSet(stream'[s][d]) : frontier[x] <= TimeOf(e)
    <3>1. SUFFICES ASSUME NEW x \in Peers, NEW s \in Peers, NEW d \in Peers,
                          NEW e \in ToSet(stream'[s][d])
                   PROVE  frontier[x] <= TimeOf(e)
      OBVIOUS
    <3>2. CASE e \in ToSet(stream[s][d])
      BY <3>2 DEF Honest
    <3>3. CASE e \in ToSet(fresh(d))
      BY <1>8, <1>12, <2>1, <3>3
    <3>. QED  BY <1>9, <1>10, <3>2, <3>3
  <2>. QED  BY <1>2, <2>2, <2>3 DEF Honest
<1>20. Copies'
  <2>1. SUFFICES ASSUME NEW x \in Peers, alive[x], NEW v \in Peers, NEW e \in Here(v)'
                 PROVE  \E f \in Here(x)' : f.elem = e.elem /\ TimeOf(f) = TimeOf(e)
    BY <1>2 DEF Copies
  <2>2. CASE e \in Here(v)
    BY <1>11, <2>1, <2>2 DEF Copies
  <2>3. CASE e \in ToSet(fresh(v))
    <3>1. PICK i \in 1 .. n : e = fresh(v)[i]
      BY <1>12, <2>3
    <3>2. fresh(x)[i] \in ToSet(fresh(x))
      BY <1>8 DEF ToSet
    <3>3. fresh(x)[i].elem = e.elem /\ TimeOf(fresh(x)[i]) = TimeOf(e)
      BY <1>8, <3>1
    <3>. QED  BY <1>11, <3>2, <3>3
  <2>. QED  BY <1>11, <2>2, <2>3
<1>21. Issued'
  <2>1. SUFFICES ASSUME NEW d \in Peers, NEW e \in Here(d)'
                 PROVE  /\ Lane(e) = Index[d] /\ Place(e) < counter'[Sender(e)]
                        /\ TimeOf(e) <= capability'[Sender(e)]
                        /\ Number(e) <= pushes[Sender(e)]
                        /\ \A i \in DOMAIN proposals'[Sender(e)] : Number(e) < proposals'[Sender(e)][i][2]
    BY <1>2 DEF Issued
  <2>2. CASE e \in Here(d)
    <3>1. CASE Sender(e) = w
      <4>1. /\ TimeOf(e) \in Nat /\ Place(e) \in Nat /\ Lane(e) = Index[d]
            /\ Place(e) < counter[w] /\ TimeOf(e) <= capability[w] /\ Number(e) <= pushes[w]
        BY <1>13, <2>2, <3>1
      <4>2. Place(e) < counter[w] + n
        BY <1>5, <4>1
      <4>3. TimeOf(e) <= time
        <5>1. capability[w] \in 0 .. Gone
          BY DEF Types
        <5>. QED  BY <1>4, <4>1, <5>1, ClockFacts
      <4>. QED  BY <1>14, <1>15, <1>16, <3>1, <4>1, <4>2, <4>3
    <3>2. CASE Sender(e) # w
      BY <1>13, <1>14, <1>15, <1>16, <2>2, <3>2
    <3>. QED  BY <3>1, <3>2
  <2>3. CASE e \in ToSet(fresh(d))
    <3>1. PICK i \in 1 .. n : e = fresh(d)[i]
      BY <1>12, <2>3
    <3>2. /\ TimeOf(e) = time /\ Lane(e) = Index[d] /\ Place(e) = counter[w] + i - 1
          /\ Sender(e) = w /\ Number(e) <= pushes[w]
      BY <1>6, <1>8, <3>1
    <3>3. Place(e) < counter[w] + n
      BY <1>5, <3>2
    <3>. QED  BY <1>4, <1>14, <1>15, <1>16, <3>2, <3>3
  <2>. QED  BY <1>11, <2>2, <2>3

<1>22. ASSUME NEW d \in Peers, NEW e \in Here(d), NEW f \in ToSet(fresh(d)), Sender(e) = Sender(f)
       PROVE  /\ Number(e) < Number(f) /\ ~ (Number(f) < Number(e))
              /\ TimeOf(e) <= TimeOf(f) /\ Place(e) < Place(f)
  <2>1. PICK i \in 1 .. n : f = fresh(d)[i]
    BY <1>12
  <2>2. TimeOf(f) = time /\ Place(f) = counter[w] + i - 1 /\ Sender(f) = w /\ Number(f) = proposals[w][i][2]
    BY <1>8, <2>1
  <2>3. /\ TimeOf(e) \in Nat /\ Place(e) \in Nat /\ Number(e) \in Nat
        /\ Place(e) < counter[w] /\ TimeOf(e) <= capability[w] /\ Number(e) < proposals[w][i][2]
    BY <1>5, <1>13, <1>22, <2>2
  <2>4. capability[w] \in 0 .. Gone
    BY DEF Types
  <2>5. proposals[w][i][2] \in Nat
    BY <1>6
  <2>6. TimeOf(e) <= time
    BY <1>4, <2>3, <2>4, ClockFacts
  <2>7. Place(e) < counter[w] + i - 1
    BY <1>5, <2>3
  <2>8. Number(e) < Number(f) /\ ~ (Number(f) < Number(e))
    BY <2>2, <2>3, <2>5
  <2>. QED  BY <2>2, <2>6, <2>7, <2>8
<1>23. ASSUME NEW d \in Peers, NEW i \in 1 .. n, NEW j \in 1 .. n
       PROVE  /\ i < j => Number(fresh(d)[i]) < Number(fresh(d)[j])
              /\ Number(fresh(d)[i]) < Number(fresh(d)[j]) => i < j
  <2>1. Number(fresh(d)[i]) = proposals[w][i][2] /\ Number(fresh(d)[j]) = proposals[w][j][2]
    BY <1>8
  <2>2. proposals[w][i][2] \in Nat /\ proposals[w][j][2] \in Nat
    BY <1>6
  <2>3. /\ i < j => proposals[w][i][2] < proposals[w][j][2]
        /\ j < i => proposals[w][j][2] < proposals[w][i][2]
    BY <1>7
  <2>4. i \in Nat /\ j \in Nat
    OBVIOUS
  <2>. QED  BY <2>1, <2>2, <2>3, <2>4
<1>24. ASSUME NEW d \in Peers PROVE Keyed(Here(d))'
  <2>1. SUFFICES ASSUME NEW e \in Here(d)', NEW f \in Here(d)', Sender(e) = Sender(f),
                        Number(e) < Number(f)
                 PROVE  TimeOf(e) <= TimeOf(f) /\ Place(e) < Place(f)
    BY DEF Keyed
  <2>2. CASE e \in Here(d) /\ f \in Here(d)
    BY <2>1, <2>2 DEF Keyed
  <2>3. CASE e \in Here(d) /\ f \in ToSet(fresh(d))
    BY <1>22, <2>1, <2>3
  <2>4. CASE e \in ToSet(fresh(d)) /\ f \in Here(d)
    BY <1>22, <2>1, <2>4
  <2>5. CASE e \in ToSet(fresh(d)) /\ f \in ToSet(fresh(d))
    <3>1. PICK i \in 1 .. n : e = fresh(d)[i]
      BY <1>12, <2>5
    <3>2. PICK j \in 1 .. n : f = fresh(d)[j]
      BY <1>12, <2>5
    <3>3. i < j
      BY <1>23, <2>1, <3>1, <3>2
    <3>4. /\ TimeOf(e) = time /\ TimeOf(f) = time
          /\ Place(e) = counter[w] + i - 1 /\ Place(f) = counter[w] + j - 1
      BY <1>8, <3>1, <3>2
    <3>. QED  BY <1>4, <1>5, <3>3, <3>4
  <2>. QED  BY <1>11, <2>2, <2>3, <2>4, <2>5
<1>25. ASSUME NEW d \in Peers
       PROVE  Rising(stream'[w][d]) /\ \A f \in ToSet(stream'[w][d]) : Sender(f) = w
  <2>1. stream[w][d] \in Seq(Entry)
    BY DEF Types
  <2>2. Rising(stream[w][d]) /\ \A f \in ToSet(stream[w][d]) : Sender(f) = w
    BY DEF Lined
  <2>3. Rising(fresh(d))
    <3>1. DOMAIN fresh(d) = 1 .. n
      BY <1>8
    <3>2. \A i, j \in 1 .. n : i < j => Number(fresh(d)[i]) < Number(fresh(d)[j])
      BY <1>23
    <3>. QED  BY <3>1, <3>2 DEF Rising, Ahead
  <2>4. \A e \in ToSet(stream[w][d]), f \in ToSet(fresh(d)) : Ahead(e, f)
    <3>1. ToSet(stream[w][d]) \subseteq Here(d)
      BY DEF Here
    <3>. QED  BY <1>22, <3>1 DEF Ahead
  <2>5. Rising(stream[w][d] \o fresh(d))
    BY <1>8, <2>1, <2>2, <2>3, <2>4, RisingConcatenated
  <2>6. \A f \in ToSet(fresh(d)) : Sender(f) = w
    BY <1>8, <1>12
  <2>. QED  BY <1>9, <1>10, <2>2, <2>5, <2>6
<1>26. ASSUME NEW d \in Peers, NEW s \in Peers
       PROVE  /\ Rising(stream'[s][d])
              /\ \A f \in ToSet(stream'[s][d]) :
                    /\ Sender(f) = s
                    /\ \A e \in ToSet(recv[d]) \cup ToSet(recvd[d]) : Ahead(e, f)
  <2>1. \A f \in ToSet(stream[s][d]) : \A e \in ToSet(recv[d]) \cup ToSet(recvd[d]) : Ahead(e, f)
    BY DEF Lined
  <2>2. CASE s # w
    BY <1>9, <2>1, <2>2 DEF Lined
  <2>3. CASE s = w
    <3>1. \A f \in ToSet(fresh(d)) : \A e \in ToSet(recv[d]) \cup ToSet(recvd[d]) : Ahead(e, f)
      <4>1. ToSet(recv[d]) \cup ToSet(recvd[d]) \subseteq Here(d)
        BY DEF Here
      <4>. QED  BY <1>22, <4>1 DEF Ahead
    <3>. QED  BY <1>10, <1>25, <2>1, <2>3, <3>1
  <2>. QED  BY <2>2, <2>3
<1>27. Lined'
  <2>1. \A d \in Peers : /\ Rising(recv[d]) /\ Rising(recvd[d])
                           /\ \A e \in ToSet(recv[d]), f \in ToSet(recvd[d]) : Ahead(e, f)
    BY DEF Lined
  <2>. QED  BY <1>2, <1>26, <2>1 DEF Lined
<1>. QED  BY <1>17, <1>18, <1>19, <1>20, <1>21, <1>24, <1>27

\* The invariant holds at first, when no one has anything.
LEMMA InitInv == SequencerInit => Inv
<1> SUFFICES ASSUME SequencerInit PROVE Inv
  OBVIOUS
<1>1. <<>> \in Seq(Entry) /\ <<>> \in Seq(Peers \X Nat) /\ DOMAIN <<>> = {} /\ ToSet(<<>>) = {}
  BY DEF ToSet
<1>2. Types
  BY <1>1, ClockFacts DEF SequencerInit, Types
<1>3. \A w \in Peers : recv[w] = <<>> /\ recvd[w] = <<>> /\ \A s \in Peers : stream[s][w] = <<>>
  BY DEF SequencerInit
<1>4. \A w \in Peers : Here(w) = {}
  BY <1>1, <1>3 DEF Here
<1>5. Honest
  BY <1>1, <1>3 DEF SequencerInit, Honest
<1>6. Past
  BY <1>1, <1>3 DEF Past, ByTime
<1>7. Proposed
  BY <1>1 DEF SequencerInit, Proposed
<1>8. Copies /\ Issued /\ \A w \in Peers : Keyed(Here(w))
  BY <1>4 DEF Copies, Issued, Keyed
<1>9. Lined
  BY <1>1, <1>3 DEF Lined, Rising
<1>. QED  BY <1>2, <1>5, <1>6, <1>7, <1>8, <1>9 DEF Inv

\* A step that changes nothing keeps the invariant.
LEMMA StutterStep == ASSUME Inv, UNCHANGED sequencer_vars PROVE Inv'
<1> USE DEF Inv, sequencer_vars
<1>1. \A w \in Peers : Here(w)' = Here(w)
  BY DEF Here
<1>2. Types' /\ Honest' /\ Past' /\ Proposed'
  BY DEF Types, Honest, Past, Proposed
<1>3. Copies' /\ Issued' /\ \A w \in Peers : Keyed(Here(w))'
  BY <1>1 DEF Copies, Issued, Keyed
<1>4. Lined'
  BY DEF Lined
<1>. QED  BY <1>2, <1>3, <1>4

-----------------------------------------------------------------------------
(* The invariant holds in every reachable state: of any number of workers   *)
(* that push, drop, send and release in any order, under any frontiers that *)
(* pass no time which is still alive.                                       *)
THEOREM InvHolds == SequencerSpec => []Inv
<1>1. Inv /\ [SequencerNext]_sequencer_vars => Inv'
  <2>1. SUFFICES ASSUME Inv, [SequencerNext]_sequencer_vars PROVE Inv'
    OBVIOUS
  <2>2. ASSUME NEW w \in Peers, push(w) PROVE Inv'
    BY <2>1, <2>2, PushStep
  <2>3. ASSUME NEW w \in Peers, drop(w) PROVE Inv'
    BY <2>1, <2>3, DropStep
  <2>4. ASSUME NEW w \in Peers, SequenceInput(w) PROVE Inv'
    BY <2>1, <2>4, InputStep
  <2>5. ASSUME NEW w \in Peers, SequenceInputEnds(w) PROVE Inv'
    BY <2>1, <2>5, EndStep
  <2>6. ASSUME NEW w \in Peers, SequenceOutput(w) PROVE Inv'
    BY <2>1, <2>6, OutputStep
  <2>7. ASSUME NEW w \in Peers, Advance(w) PROVE Inv'
    BY <2>1, <2>7, AdvanceStep
  <2>8. CASE UNCHANGED sequencer_vars
    BY <2>1, <2>8, StutterStep
  <2>. QED  BY <2>1, <2>2, <2>3, <2>4, <2>5, <2>6, <2>7, <2>8 DEF SequencerNext
<1>. QED  BY InitInv, <1>1, PTL DEF SequencerSpec

(* Elements are released in the order of their times and completely: what a *)
(* worker that keeps its Sequencer has released is followed by no element   *)
(* of an earlier time, sent by anyone, now or later.                        *)
THEOREM ReleasedByTimeHolds == SequencerSpec => []ReleasedByTime
<1>1. Inv => ReleasedByTime
  <2> SUFFICES ASSUME Inv, NEW w \in Peers, alive[w], NEW i \in DOMAIN recv[w]
               PROVE  /\ \A j \in 1 .. i : TimeOf(recv[w][j]) <= TimeOf(recv[w][i])
                      /\ \A e \in Everywhere : TimeOf(e) < TimeOf(recv[w][i]) =>
                            \E j \in 1 .. i : recv[w][j].elem = e.elem
                      /\ \A v \in Peers : capability[v] > TimeOf(recv[w][i])
    BY DEF ReleasedByTime
  <2> USE DEF Inv
  <2> DEFINE last == recv[w][i]
  <2>1. /\ DOMAIN recv[w] = 1 .. Len(recv[w]) /\ Len(recv[w]) \in Nat
        /\ \A j \in DOMAIN recv[w] : recv[w][j] \in Entry /\ recv[w][j] \in ToSet(recv[w])
    BY DEF Types, ToSet
  <2>2. \A j \in DOMAIN recv[w] : TimeOf(recv[w][j]) \in Nat
    BY <2>1, EntryFacts
  <2>3. \A j \in 1 .. i : j \in DOMAIN recv[w] /\ (j < i \/ j = i)
    BY <2>1
  <2>4. \A j \in 1 .. i : TimeOf(recv[w][j]) <= TimeOf(last)
    BY <2>2, <2>3 DEF Past, ByTime
  <2>5. TimeOf(last) < frontier[w] /\ frontier[w] \in 0 .. Gone /\ TimeOf(last) \in Nat
    BY <2>1, <2>2 DEF Past, Types
  <2>6. ASSUME NEW v \in Peers PROVE capability[v] > TimeOf(last)
    <3>1. frontier[w] <= capability[v] /\ capability[v] \in 0 .. Gone
      BY DEF Honest, Types
    <3>. QED  BY <2>5, <3>1, ClockFacts
  <2>7. ASSUME NEW e \in Everywhere, TimeOf(e) < TimeOf(last)
        PROVE  \E j \in 1 .. i : recv[w][j].elem = e.elem
    <3>1. PICK v \in Peers : e \in Here(v)
      BY DEF Everywhere, Here
    <3>2. PICK f \in Here(w) : f.elem = e.elem /\ TimeOf(f) = TimeOf(e)
      BY <3>1 DEF Copies
    <3>3. TimeOf(f) \in Nat /\ TimeOf(f) < TimeOf(last)
      BY <2>7, <3>2, HereEntries, EntryFacts
    <3>4. f \notin ToSet(recvd[w])
      <4>1. f \in ToSet(recvd[w]) => TimeOf(last) < TimeOf(f)
        BY <2>1 DEF Past
      <4>. QED  BY <2>5, <3>3, <4>1
    <3>5. \A s \in Peers : f \notin ToSet(stream[s][w])
      <4>1. \A s \in Peers : f \in ToSet(stream[s][w]) => frontier[w] <= TimeOf(f)
        BY DEF Honest
      <4>. QED  BY <2>5, <3>3, <4>1, ClockFacts
    <3>6. f \in ToSet(recv[w])
      BY <3>4, <3>5 DEF Here
    <3>7. PICK j \in DOMAIN recv[w] : f = recv[w][j]
      BY <3>6 DEF ToSet
    <3>8. ~ (i < j)
      <4>1. i < j => TimeOf(last) <= TimeOf(f)
        BY <3>7 DEF Past, ByTime
      <4>. QED  BY <2>5, <3>3, <4>1
    <3>9. j \in 1 .. i
      BY <2>1, <3>8
    <3>. QED  BY <3>2, <3>7, <3>9
  <2>. QED  BY <2>4, <2>6, <2>7
<1>. QED  BY InvHolds, <1>1, PTL

(* The log has the elements of one worker in the order in which they were   *)
(* pushed, and none of them twice.                                          *)
THEOREM SenderOrderHolds == SequencerSpec => []SenderOrder
<1>1. Inv => SenderOrder
  BY DEF Inv, Lined, Rising, Ahead, Sender, Number, SenderOrder
<1>. QED  BY InvHolds, <1>1, PTL

-----------------------------------------------------------------------------
(* Barrier.                                                                 *)

\* What a handle holds: a time, or nothing when it is closed.
Holdings == {{t} : t \in Times} \cup {{}}

\* A barrier's dataflow has no records.
Recordless ==
    /\ builder = [i \in Sources |-> <<>>] /\ produced = [i \in Sources |-> Zero]
    /\ channel = [w \in Workers |-> [p \in Ports |-> <<>>]]
    /\ op = [w \in Workers |-> Fresh]

(* Nobody who does not wait is ahead of his probe, probes are not ahead of  *)
(* what was reported, nor that of what is held.                             *)
BarrierInv ==
    /\ bench \in Benches
    /\ "barrier" \in bench.program =>
         /\ Recordless
         /\ caps \in [Sources -> Holdings] /\ reported \in [Sources -> Holdings]
         /\ shown \in [Workers -> 0 .. Never]
         /\ \A i \in Sources :
               /\ Earliest(reported[i]) <= Earliest(caps[i])
               /\ \A w \in Workers : shown[w] <= Earliest(reported[i])
               /\ ~ waiting[i] /\ Open(i) => Now(i) <= shown[bench.worker[i]]
         /\ waiting \in [Sources -> BOOLEAN]

\* The least of some numbers.
LEMMA Leasts ==
    ASSUME NEW S \in SUBSET Nat, NEW x \in S
    PROVE  Min(S) \in S /\ \A y \in S : Min(S) <= y
<1> DEFINE R == StrictSubsetOrdering(Nat)
           T == {0 .. n : n \in S}
<1>0. \A n \in S : IsFiniteSet(0 .. n) /\ 0 .. n \subseteq Nat
  BY FS_Interval
<1>1. T \subseteq FiniteSubsetsOf(Nat) /\ T # {}
  BY <1>0 DEF FiniteSubsetsOf
<1>2. PICK c \in T : \A d \in T : <<d, c>> \notin R
  <2>1. IsWellFoundedOn(R, FiniteSubsetsOf(Nat))
    BY FS_StrictSubsetOrderingWellFounded
  <2> QED  BY <1>1, <2>1, WFMin
<1>3. PICK m \in S : c = 0 .. m
  OBVIOUS
<1>4. ASSUME NEW k \in S, k < m  PROVE FALSE
  <2>1. 0 .. k \in T
    OBVIOUS
  <2>2. 0 .. k \subseteq 0 .. m /\ 0 .. k # 0 .. m
    BY <1>4
  <2>3. <<0 .. k, 0 .. m>> \in R
    BY <2>2 DEF StrictSubsetOrdering
  <2> QED
    BY <1>2, <1>3, <2>1, <2>3
<1>5. \A y \in S : m <= y
  BY <1>4
<1> QED
  BY <1>5 DEF Min

\* A frontier is a time or Never, and not later than any of the times it is of.
LEMMA Earliests ==
    ASSUME NEW S \in SUBSET Nat
    PROVE  /\ Earliest(S) \in Nat /\ Earliest(S) <= Never /\ \A y \in S : Earliest(S) <= y
           /\ \A f \in Nat : f <= Never /\ (\A y \in S : f <= y) => f <= Earliest(S)
<1>1. S \cup {Never} \in SUBSET Nat /\ Never \in S \cup {Never}
  BY DataflowAssumption
<1>2. Min(S \cup {Never}) \in S \cup {Never} /\ \A y \in S \cup {Never} : Min(S \cup {Never}) <= y
  BY <1>1, Leasts
<1> QED
  BY <1>1, <1>2 DEF Earliest

\* What a handle holds.
LEMMA HoldingFacts ==
    ASSUME NEW h \in Holdings
    PROVE  /\ h \in SUBSET Nat
           /\ h # {} => h = {Min(h)} /\ Min(h) \in Times /\ Earliest(h) = Min(h)
           /\ h = {} => Earliest(h) = Never
<1>0. Never \in Nat /\ \A t \in Times : t \in Nat /\ t < Never
  BY DataflowAssumption DEF Times
<1>1. CASE h = {}
  <2>1. Min({Never}) = Never
    BY <1>0 DEF Min
  <2> QED
    BY <1>1, <2>1 DEF Earliest
<1>2. CASE h # {}
  <2>1. PICK t \in Times : h = {t}
    BY <1>2 DEF Holdings
  <2>2. Min(h) = t
    BY <1>0, <2>1 DEF Min
  <2>3. Min({t, Never}) = t
    BY <1>0, <2>1 DEF Min
  <2>4. h \cup {Never} = {t, Never}
    BY <2>1
  <2> QED
    BY <1>0, <1>2, <2>1, <2>2, <2>3, <2>4 DEF Earliest
<1> QED
  BY <1>1, <1>2

\* The types and the bench of a barrier, from the invariant.
LEMMA BarrierFacts ==
    ASSUME BarrierInv, "barrier" \in bench.program
    PROVE  /\ bench.source = "input" /\ bench.op = "exchange" /\ bench.program \subseteq {"barrier", "close"}
           /\ bench.last \in Nat /\ bench.last + 1 < Never /\ Never \in Nat
           /\ Ports = {1} /\ \A i \in Sources : Port(i) = 1 /\ bench.worker[i] \in Workers
           /\ \A i \in Sources : reported[i] \in Holdings /\ caps[i] \in Holdings
<1>1. OnlyBarrier(bench) /\ bench.last \in Nat /\ bench.last + 1 < Never /\ Never \in Nat
  BY DataflowAssumption DEF BarrierInv
<1>2. \A i \in Sources : reported[i] \in Holdings /\ caps[i] \in Holdings
  BY DEF BarrierInv
<1> QED
  BY <1>1, <1>2 DEF OnlyBarrier, Ports, Port, Workers

\* An operator that has done nothing retains nothing.
LEMMA FreshRetains == Retained(Fresh) = {}
<1>1. Held(Idle) = {}
  BY DEF Held, Idle, ToSet
<1>2. Fresh.notificator = Idle /\ Fresh.entry = <<>> /\ Fresh.back = <<>>
  BY DEF Fresh
<1> QED
  BY <1>1, <1>2 DEF Retained

\* The frontier of the probes is not past what is reported.
LEMMA OutputBehind ==
    ASSUME BarrierInv, "barrier" \in bench.program, NEW i \in Sources
    PROVE  Output \in Nat /\ Output <= Never /\ Output <= Earliest(reported[i])
<1>0. /\ bench.op = "exchange" /\ Ports = {1} /\ \A j \in Sources : Port(j) = 1
      /\ \A j \in Sources : reported[j] \in SUBSET Nat
  BY BarrierFacts, HoldingFacts
<1>1. Times \subseteq Nat
  BY DataflowAssumption DEF Times
<1> DEFINE R == (UNION {reported[j] : j \in {j \in Sources : Port(j) = 1}}) \cup Counted(arriving[1])
           S == {Input(p) : p \in Ports} \cup Counted(leaving) \cup UNION {Retained(op[w]) : w \in Workers}
<1>2. R \in SUBSET Nat /\ reported[i] \subseteq R /\ Input(1) = Earliest(R)
  <2>1. Counted(arriving[1]) \in SUBSET Nat
    BY <1>1 DEF Counted
  <2>2. i \in {j \in Sources : Port(j) = 1}
    BY <1>0
  <2>3. Input(1) = Earliest(R)
    BY DEF Input
  <2>4. UNION {reported[j] : j \in {j \in Sources : Port(j) = 1}} \in SUBSET Nat
    BY <1>0
  <2> QED
    BY <2>1, <2>2, <2>3, <2>4
<1> HIDE DEF R
<1>3. Input(1) \in Nat /\ Input(1) <= Never /\ \A y \in reported[i] : Input(1) <= y
  BY <1>2, Earliests
<1>4. Input(1) <= Earliest(reported[i]) /\ Earliest(reported[i]) \in Nat
  BY <1>0, <1>3, Earliests
<1>5. \A w \in Workers : Retained(op[w]) = {}
  BY FreshRetains DEF BarrierInv, Recordless
<1>6. S \in SUBSET Nat /\ Input(1) \in S
  BY <1>0, <1>1, <1>3, <1>5 DEF Counted
<1>7. Output = Earliest(S)
  BY <1>0 DEF Output
<1> HIDE DEF S
<1>8. Output \in Nat /\ Output <= Never /\ Output <= Input(1)
  BY <1>6, <1>7, Earliests
<1> QED
  BY <1>3, <1>4, <1>8

\* An epoch without records is closed without a push.
LEMMA EmptyEpoch ==
    ASSUME BarrierInv, "barrier" \in bench.program, NEW i \in Sources, close_epoch(i)
    PROVE  builder' = builder /\ produced' = produced /\ channel' = channel
<1>1. builder[i] = <<>> /\ produced[i] = Zero /\ channel = [w \in Workers |-> [p \in Ports |-> <<>>]]
  BY DEF BarrierInv, Recordless
<1>2. Count(i, Now(i), Len(builder[i])) = Zero
  <2>1. Len(builder[i]) = 0
    BY <1>1
  <2>2. [Zero EXCEPT ![Now(i)] = Zero[Now(i)] + 0] = Zero
    BY DEF Zero
  <2> QED
    BY <1>1, <2>1, <2>2 DEF Count
<1>3. done(Flushed(i, Pusher(i)), Zero) = Pusher(i)
  BY <1>1 DEF done, Flushed
<1>4. Deliver(i, Pusher(i)) /\ builder' = [builder EXCEPT ![i] = <<>>] /\ produced' = [produced EXCEPT ![i] = Zero]
  BY <1>2, <1>3 DEF close_epoch
<1>5. builder' = builder /\ produced' = produced
  BY <1>1, <1>4 DEF BarrierInv, Recordless
<1>6. Pusher(i).out = [w \in Workers |-> <<>>]
  BY DEF Pusher
<1>7. channel' = [w \in Workers |-> [p \in Ports |->
                     IF p = Port(i) THEN channel[w][p] \o Pusher(i).out[w] ELSE channel[w][p]]]
  BY <1>4 DEF Deliver
<1>8. \A w \in Workers : \A p \in Ports : channel[w][p] \o Pusher(i).out[w] = <<>>
  BY <1>1, <1>6
<1>9. channel' = [w \in Workers |-> [p \in Ports |-> <<>>]]
  BY <1>1, <1>7, <1>8
<1> QED
  BY <1>1, <1>5, <1>9

\* A handle goes to a later time, or is closed; its program waits or is over.
LEMMA Leaps ==
    ASSUME BarrierInv, "barrier" \in bench.program, NEW i \in Sources, NEW h \in Holdings,
           Earliest(caps[i]) <= Earliest(h),
           caps' = [caps EXCEPT ![i] = h], waiting' \in [Sources -> BOOLEAN],
           \A j \in Sources \ {i} : waiting'[j] = waiting[j],
           waiting'[i] = TRUE \/ h = {},
           UNCHANGED <<bench, reported, builder, produced, channel, op, shown>>
    PROVE  BarrierInv'
<1>1. caps' \in [Sources -> Holdings] /\ caps'[i] = h /\ \A j \in Sources \ {i} : caps'[j] = caps[j]
  BY DEF BarrierInv
<1>2. \A j \in Sources : Earliest(reported[j]) <= Earliest(caps'[j])
  <2>1. \A j \in Sources : Earliest(reported[j]) \in Nat /\ Earliest(caps[j]) \in Nat /\ Earliest(h) \in Nat
    BY BarrierFacts, HoldingFacts, Earliests
  <2> QED
    BY <1>1, <2>1 DEF BarrierInv
<1>3. \A j \in Sources : ~ waiting'[j] /\ caps'[j] # {} => Min(caps'[j]) <= shown[bench.worker[j]]
  BY <1>1 DEF BarrierInv, Open, Now
<1>4. Recordless'
  BY DEF BarrierInv, Recordless, Workers, Sources, Ports
<1> QED
  BY <1>1, <1>2, <1>3, <1>4 DEF BarrierInv, Open, Now, Workers, Sources

\* What user code does with its barrier.
LEMMA UserBarrier ==
    ASSUME BarrierInv, "barrier" \in bench.program, User
    PROVE  BarrierInv'
<1>0. /\ bench.source = "input" /\ bench.program \subseteq {"barrier", "close"}
      /\ bench.last \in Nat /\ bench.last + 1 < Never /\ Never \in Nat
      /\ \A i \in Sources : caps[i] \in Holdings
  BY BarrierFacts
<1>1. PICK i \in Sources : close(i) \/ barrier_wait(i)
  BY <1>0 DEF User, send, send_batch, advance_to, session, drop_capability, delayed, Program
<1>2. CASE close(i)
  <2>1. caps' = [caps EXCEPT ![i] = {}] /\ close_epoch(i) /\ waiting' = waiting
        /\ UNCHANGED <<bench, reported, op, shown>>
    BY <1>2 DEF close, probe_vars
  <2>2. builder' = builder /\ produced' = produced /\ channel' = channel
    BY <2>1, EmptyEpoch
  <2>3. {} \in Holdings /\ Earliest({}) = Never
    BY HoldingFacts DEF Holdings
  <2>4. Earliest(caps[i]) <= Earliest({})
    BY <1>0, <2>3, HoldingFacts, Earliests
  <2>5. waiting' \in [Sources -> BOOLEAN]
    BY <2>1 DEF BarrierInv
  <2> QED
    BY <2>1, <2>2, <2>3, <2>4, <2>5, Leaps
<1>3. CASE barrier_wait(i)
  <2>1. /\ caps' = [caps EXCEPT ![i] = {Now(i) + 1}] /\ close_epoch(i) /\ waiting' = [waiting EXCEPT ![i] = TRUE]
        /\ UNCHANGED <<bench, reported, op, shown>> /\ Now(i) < bench.last /\ caps[i] # {}
    BY <1>3 DEF barrier_wait, probe_vars, Program, Open
  <2>2. builder' = builder /\ produced' = produced /\ channel' = channel
    BY <2>1, EmptyEpoch
  <2>3. Now(i) \in Times /\ Now(i) \in Nat /\ Earliest(caps[i]) = Now(i)
    BY <1>0, <2>1, HoldingFacts, DataflowAssumption DEF Now, Times
  <2>4. Now(i) + 1 \in Times
    BY <1>0, <2>1, <2>3 DEF Times
  <2>5. {Now(i) + 1} \in Holdings /\ Min({Now(i) + 1}) = Now(i) + 1
    BY <2>3, <2>4 DEF Holdings, Min
  <2>6. Earliest({Now(i) + 1}) = Now(i) + 1
    BY <2>5, HoldingFacts
  <2>7. Earliest(caps[i]) <= Earliest({Now(i) + 1})
    BY <2>3, <2>6
  <2>8. waiting' \in [Sources -> BOOLEAN] /\ waiting'[i] = TRUE /\ \A j \in Sources \ {i} : waiting'[j] = waiting[j]
    BY <2>1 DEF BarrierInv
  <2> QED
    BY <2>1, <2>2, <2>5, <2>7, <2>8, Leaps
<1> QED
  BY <1>1, <1>2, <1>3

\* What the workers do with it.
LEMMA StepsBarrier ==
    ASSUME BarrierInv, "barrier" \in bench.program, Steps
    PROVE  BarrierInv'
<1>0. /\ bench.source = "input" /\ bench.op = "exchange" /\ bench.program \subseteq {"barrier", "close"}
      /\ Never \in Nat /\ \A i \in Sources : caps[i] \in Holdings /\ bench.worker[i] \in Workers
  BY BarrierFacts
<1>1. \A w \in Workers : ~ schedule(w) /\ ~ feedback(w) /\ ~ body(w) /\ ~ capture(w)
  <2>1. \A w \in Workers : ~ Waiting(w) /\ op[w].entry = <<>> /\ op[w].back = <<>>
    BY DEF BarrierInv, Recordless, Waiting, Fresh
  <2>2. \A w \in Workers : Frontiers(w) = {front[w]}
    BY <1>0 DEF Frontiers, Notifying
  <2> QED
    BY <1>0, <2>1, <2>2 DEF schedule, feedback, body, capture
<1>2. \/ \E i \in Sources : input_schedule(i) \/ barrier_passed(i)
      \/ \E w \in Workers : probe(w)
  BY <1>0, <1>1 DEF Steps, to_stream, iterator_source, replay
<1>3. ASSUME NEW i \in Sources, input_schedule(i)
      PROVE  BarrierInv'
  <2>1. /\ reported' = [reported EXCEPT ![i] = caps[i]] /\ produced' = [produced EXCEPT ![i] = Zero]
        /\ UNCHANGED <<bench, caps, builder, waiting, channel, op, shown>>
    BY <1>3 DEF input_schedule, probe_vars
  <2>2. /\ reported' \in [Sources -> Holdings] /\ reported'[i] = caps[i]
        /\ \A j \in Sources \ {i} : reported'[j] = reported[j]
    BY <1>0, <2>1 DEF BarrierInv
  <2>3. \A j \in Sources : \A w \in Workers :
            /\ Earliest(reported[j]) \in Nat /\ Earliest(caps[j]) \in Nat /\ shown[w] \in Nat
            /\ shown[w] <= Earliest(reported[j]) /\ Earliest(reported[j]) <= Earliest(caps[j])
    BY <1>0, BarrierFacts, HoldingFacts, Earliests DEF BarrierInv
  <2>4. \A j \in Sources : /\ Earliest(reported'[j]) <= Earliest(caps[j])
                           /\ \A w \in Workers : shown[w] <= Earliest(reported'[j])
    <3> SUFFICES ASSUME NEW j \in Sources
                 PROVE  /\ Earliest(reported'[j]) <= Earliest(caps[j])
                        /\ \A w \in Workers : shown[w] <= Earliest(reported'[j])
      OBVIOUS
    <3>1. CASE j = i
      <4> DEFINE e == Earliest(reported[i])
                 c == Earliest(caps[i])
      <4>1. e \in Nat /\ c \in Nat /\ e <= c /\ \A w \in Workers : shown[w] \in Nat /\ shown[w] <= e
        BY <2>3, <1>0
      <4>2. Earliest(reported'[j]) = c /\ Earliest(caps[j]) = c
        BY <2>2, <3>1
      <4> HIDE DEF e, c
      <4>3. c <= c /\ \A w \in Workers : shown[w] <= c
        BY <4>1
      <4> QED
        BY <4>2, <4>3
    <3>2. CASE j # i
      <4> DEFINE e == Earliest(reported[j])
                 c == Earliest(caps[j])
      <4>1. e <= c /\ \A w \in Workers : shown[w] <= e
        BY <1>0, <2>3
      <4>2. reported'[j] = reported[j]
        BY <2>2, <3>2
      <4> HIDE DEF e, c
      <4>3. Earliest(reported'[j]) = e
        BY <4>2 DEF e
      <4> QED
        BY <4>1, <4>3 DEF c
    <3> QED
      BY <3>1, <3>2
  <2>5. Recordless'
    <3>1. produced' = produced
      BY <2>1 DEF BarrierInv, Recordless
    <3> QED
      BY <2>1, <3>1 DEF BarrierInv, Recordless, Workers, Sources, Ports
  <2> QED
    BY <2>1, <2>2, <2>4, <2>5 DEF BarrierInv, Open, Now, Workers, Sources
<1>4. ASSUME NEW i \in Sources, barrier_passed(i)
      PROVE  BarrierInv'
  <2>1. /\ waiting' = [waiting EXCEPT ![i] = FALSE] /\ reached(i)
        /\ UNCHANGED <<bench, caps, reported, builder, produced, channel, op, shown>>
    BY <1>4 DEF barrier_passed, probe_vars, op_vars
  <2>2. waiting' \in [Sources -> BOOLEAN] /\ \A j \in Sources \ {i} : waiting'[j] = waiting[j]
    BY <2>1 DEF BarrierInv
  <2>3. Open(i) => Now(i) <= shown[bench.worker[i]]
    <3>1. ASSUME Open(i) PROVE Now(i) \in Nat
      BY <1>0, <3>1, HoldingFacts, DataflowAssumption DEF Open, Now, Times
    <3>2. shown[bench.worker[i]] \in Nat
      BY <1>0 DEF BarrierInv
    <3> QED
      BY <2>1, <3>1, <3>2 DEF reached
  <2>4. Recordless'
    BY <2>1 DEF BarrierInv, Recordless, Workers, Sources, Ports
  <2> QED
    BY <2>1, <2>2, <2>3, <2>4 DEF BarrierInv, Open, Now, Workers, Sources
<1>5. ASSUME NEW w \in Workers, probe(w)
      PROVE  BarrierInv'
  <2>1. PICK f \in shown[w] .. Output : shown' = [shown EXCEPT ![w] = f]
    BY <1>5 DEF probe
  <2>2. UNCHANGED <<bench, caps, reported, builder, produced, waiting, channel, op>>
    BY <1>5 DEF probe, source_vars, op_vars
  <2>3. PICK i \in Sources : bench.worker[i] = w
    BY DEF Workers
  <2>4. shown[w] \in 0 .. Never /\ Output \in Nat /\ Output <= Never
    BY <2>3, OutputBehind DEF BarrierInv
  <2>5. f \in 0 .. Never /\ shown[w] <= f /\ f <= Output
    BY <1>0, <2>4
  <2>6. shown' \in [Workers -> 0 .. Never] /\ shown'[w] = f /\ \A v \in Workers \ {w} : shown'[v] = shown[v]
    BY <2>1, <2>5 DEF BarrierInv
  <2>7. \A j \in Sources : f <= Earliest(reported[j])
    <3> SUFFICES ASSUME NEW j \in Sources PROVE f <= Earliest(reported[j])
      OBVIOUS
    <3>1. Output <= Earliest(reported[j])
      BY OutputBehind
    <3>2. Earliest(reported[j]) \in Nat
      BY BarrierFacts, HoldingFacts, Earliests
    <3> QED
      BY <2>4, <2>5, <3>1, <3>2
  <2>8. \A j \in Sources : \A v \in Workers : shown'[v] <= Earliest(reported[j])
    BY <2>6, <2>7 DEF BarrierInv
  <2>9. \A j \in Sources : ~ waiting[j] /\ Open(j) => Now(j) <= shown'[bench.worker[j]]
    <3> SUFFICES ASSUME NEW j \in Sources, ~ waiting[j], Open(j) PROVE Now(j) <= shown'[bench.worker[j]]
      OBVIOUS
    <3>1. Now(j) \in Nat /\ Now(j) <= shown[bench.worker[j]]
      BY <1>0, HoldingFacts, DataflowAssumption DEF BarrierInv, Open, Now, Times
    <3>2. CASE bench.worker[j] = w
      BY <1>0, <2>4, <2>5, <2>6, <3>1, <3>2
    <3>3. CASE bench.worker[j] # w
      BY <1>0, <2>6, <3>1, <3>3
    <3> QED
      BY <3>2, <3>3
  <2>10. Recordless'
    BY <2>2 DEF BarrierInv, Recordless, Workers, Sources, Ports
  <2> QED
    BY <2>2, <2>6, <2>8, <2>9, <2>10 DEF BarrierInv, Open, Now, Workers, Sources
<1> QED
  BY <1>2, <1>3, <1>4, <1>5

\* At first everybody holds the time zero, and the probe shows it.
LEMMA InitBarrier == ASSUME Init PROVE BarrierInv
<1>1. bench \in Benches
  BY DEF Init
<1>2. SUFFICES ASSUME "barrier" \in bench.program
               PROVE  /\ Recordless /\ caps \in [Sources -> Holdings] /\ reported \in [Sources -> Holdings]
                      /\ shown \in [Workers -> 0 .. Never] /\ waiting \in [Sources -> BOOLEAN]
                      /\ \A i \in Sources :
                            /\ Earliest(reported[i]) <= Earliest(caps[i])
                            /\ \A w \in Workers : shown[w] <= Earliest(reported[i])
                            /\ Now(i) <= shown[bench.worker[i]]
  BY <1>1 DEF BarrierInv
<1>3. OnlyBarrier(bench) /\ Never \in Nat /\ Never > 1
  BY <1>1, <1>2, DataflowAssumption
<1>4. caps = [i \in Sources |-> {0}] /\ reported = [i \in Sources |-> {0}]
  BY <1>3 DEF Init, OnlyBarrier
<1>5. {0} \in Holdings /\ Min({0}) = 0
  BY <1>3 DEF Holdings, Times, Min
<1>6. Earliest({0}) = 0
  BY <1>5, HoldingFacts
<1>7. shown = [w \in Workers |-> 0] /\ waiting = [i \in Sources |-> FALSE]
  BY DEF Init
<1>8. \A i \in Sources : bench.worker[i] \in Workers
  BY DEF Workers
<1>9. Recordless
  BY DEF Init, Recordless
<1>10. caps \in [Sources -> Holdings] /\ reported \in [Sources -> Holdings]
       /\ \A i \in Sources : caps[i] = {0} /\ reported[i] = {0}
  BY <1>4, <1>5
<1> QED
  BY <1>3, <1>5, <1>6, <1>7, <1>8, <1>9, <1>10 DEF Now

\* Whatever happens keeps the invariant.
LEMMA NextBarrier == ASSUME BarrierInv, [Next]_vars PROVE BarrierInv'
<1>1. bench' = bench
  BY DEF Next, User, Steps, vars, send, send_batch, close, barrier_wait, advance_to, session, drop_capability, delayed,
         input_schedule, barrier_passed, to_stream, iterator_source, schedule, feedback, body, probe, capture, replay
<1>2. CASE "barrier" \notin bench.program
  BY <1>1, <1>2 DEF BarrierInv
<1>3. CASE "barrier" \in bench.program /\ vars' = vars
  <2>1. UNCHANGED <<bench, caps, reported, builder, produced, waiting, channel, op, shown>>
    BY <1>3 DEF vars, source_vars, op_vars, probe_vars
  <2>2. Recordless'
    BY <1>3, <2>1 DEF BarrierInv, Recordless, Workers, Sources, Ports
  <2> QED
    BY <2>1, <2>2 DEF BarrierInv, Open, Now, Workers, Sources
<1>4. CASE "barrier" \in bench.program /\ Next
  BY <1>4, UserBarrier, StepsBarrier DEF Next
<1> QED
  BY <1>2, <1>3, <1>4

(* A worker that has come out of Barrier::wait, or not gone in yet, is not  *)
(* ahead of any other: everybody has reached the barrier (BarrierHolds).    *)
THEOREM BarrierHoldsTrue == Spec => []BarrierHolds
<1>1. BarrierInv => BarrierHolds
  <2> SUFFICES ASSUME BarrierInv, NEW i \in Sources, NEW j \in Sources,
                      "barrier" \in bench.program, ~ waiting[i], Open(i)
               PROVE  Earliest(caps[i]) <= Earliest(caps[j])
    BY DEF BarrierHolds
  <2>1. caps[i] \in Holdings /\ caps[j] \in Holdings /\ reported[j] \in Holdings /\ bench.worker[i] \in Workers
    BY BarrierFacts
  <2>2. Earliest(caps[i]) = Now(i)
    BY <2>1, HoldingFacts DEF Open, Now
  <2>3. Earliest(caps[i]) \in Nat /\ Earliest(reported[j]) \in Nat /\ Earliest(caps[j]) \in Nat
    BY <2>1, HoldingFacts, Earliests
  <2>4. /\ Now(i) <= shown[bench.worker[i]] /\ shown[bench.worker[i]] <= Earliest(reported[j])
        /\ Earliest(reported[j]) <= Earliest(caps[j]) /\ shown[bench.worker[i]] \in Nat
    BY <2>1 DEF BarrierInv
  <2> QED
    BY <2>2, <2>3, <2>4
<1> QED
  BY <1>1, InitBarrier, NextBarrier, PTL DEF Spec

==============================================================================
