------------------------------ MODULE BytesSlab ------------------------------
(***************************************************************************)
(* BytesSlab and Bytes: memory that one thread writes while others read    *)
(* parts of it without a lock, and that is used again when all readers     *)
(* have let go of it.                                                      *)
(*                                                                         *)
(* A buffer is a row of units; the n-th unit written overall holds n.  The *)
(* slab owns the buffer it writes to, the buffers in_progress (retired,    *)
(* perhaps still shared) and those in the stash (empty, to be used again). *)
(* A reader holds slices of buffers: [buffer, ptr, len], and the units it  *)
(* got them for.                                                           *)
(***************************************************************************)
EXTENDS Integers, Sequences, FiniteSets, FiniteSetsExt, Functions, Orders

CONSTANTS
    InitialShift,  \* the first buffer has 2^InitialShift units
    Limit,         \* BytesRefill.limit: empty buffers kept, or NoLimit
    NoLimit,
    MaxBuffers,    \* bound: buffers allocated
    MaxReserve,    \* bound: units written at once
    MaxWritten,    \* bound: units written
    MaxHeld        \* bound: slices held at a time

ASSUME SlabAssumption ==
    /\ InitialShift \in Nat
    /\ Limit \in Nat \/ Limit = NoLimit
    /\ MaxBuffers \in Nat /\ MaxReserve \in Nat /\ MaxWritten \in Nat /\ MaxHeld \in Nat

VARIABLES
    memory,       \* memory[b]: the units of buffer b, from 0 on
    buffer,       \* the buffer that is written to
    ptr,          \* where the slab's part of it starts
    valid,        \* the units from there on that are valid
    in_progress, stash, shift,
    held,         \* the slices that readers hold
    written       \* units written so far

slab_vars == <<memory, buffer, ptr, valid, in_progress, stash, shift, held, written>>

Buffers == DOMAIN memory
Capacity(b) == Cardinality(DOMAIN memory[b])

\* What is read through a slice.
Contents(s) == [i \in 1 .. s.len |-> memory[s.buffer][s.ptr + i - 1]]

Blank(k) == [i \in 0 .. 2^k - 1 |-> 0]

SlabInit ==
    /\ memory = <<Blank(InitialShift)>>
    /\ buffer = 1 /\ ptr = 0 /\ valid = 0
    /\ in_progress = <<>> /\ stash = <<>> /\ shift = InitialShift
    /\ held = {} /\ written = 0

\* empty().len()
Room == Capacity(buffer) - ptr - valid

\* A mutant of try_regenerate: a buffer is unique when the newest slice of it is gone.
regenerates_early(b) == ~ \E s \in held : s.buffer = b /\ s.ptr + s.len = Capacity(b)

(* try_regenerate: the slab's reference is the only one.                    *)
try_regenerate(b) == ~ \E s \in held : s.buffer = b

\* The shift after it was increased as far as needed.
Grown(capacity) == Min({k \in shift .. shift + capacity + valid : valid + capacity <= 2^k})

\* A mutant of ensure_capacity: valid units are left behind.
ensure_capacity_empty(capacity) ==
    IF Room >= capacity
    THEN [memory |-> memory, buffer |-> buffer, ptr |-> ptr, valid |-> valid,
          in_progress |-> in_progress, stash |-> stash, shift |-> shift]
    ELSE [memory |-> Append(memory, Blank(Grown(capacity))), buffer |-> Len(memory) + 1, ptr |-> 0,
          valid |-> valid, in_progress |-> Append(in_progress, buffer), stash |-> stash,
          shift |-> Grown(capacity)]

(* ensure_capacity: unless there is room, buffers are reclaimed if there is *)
(* no empty one (all others are forgotten if they have become too small);   *)
(* the valid units move to an empty or a new buffer, and the old one is in  *)
(* progress.                                                                *)
ensure_capacity(capacity) ==
    LET k == Grown(capacity)
        grows == k # shift
        shared == IF grows THEN <<>> ELSE in_progress
        kept == IF grows THEN <<>> ELSE stash
        unique == {b \in Buffers : try_regenerate(b)}
        reclaim == kept = <<>>
        empty == IF reclaim THEN Among(shared, unique) ELSE kept
        busy == IF reclaim THEN Among(shared, Buffers \ unique) ELSE shared
        fresh == empty = <<>>
        new == IF fresh THEN Len(memory) + 1 ELSE empty[Len(empty)]
        rest == IF fresh THEN <<>> ELSE SubSeq(empty, 1, Len(empty) - 1)
        moved(units) == [i \in DOMAIN units |->
                            IF i < valid THEN memory[buffer][ptr + i] ELSE units[i]]
    IN  IF Room >= capacity
        THEN [memory |-> memory, buffer |-> buffer, ptr |-> ptr, valid |-> valid,
              in_progress |-> in_progress, stash |-> stash, shift |-> shift]
        ELSE [memory |-> IF fresh THEN Append(memory, moved(Blank(k)))
                         ELSE [memory EXCEPT ![new] = moved(@)],
              buffer |-> new, ptr |-> 0, valid |-> valid,
              in_progress |-> IF grows THEN busy ELSE Append(busy, buffer),
              stash |-> IF Limit = NoLimit THEN rest
                        ELSE SubSeq(rest, 1, Min({Limit, Len(rest)})),
              shift |-> k]

\* reserve, and n units are written and made valid
write(n) ==
    LET slab == ensure_capacity(n)
    IN  /\ written + n <= MaxWritten
        /\ Len(slab.memory) <= MaxBuffers
        /\ memory' = [slab.memory EXCEPT ![slab.buffer] =
               [i \in DOMAIN @ |-> IF i - slab.ptr - slab.valid \in 0 .. n - 1
                                   THEN written + 1 + i - slab.ptr - slab.valid ELSE @[i]]]
        /\ buffer' = slab.buffer /\ ptr' = slab.ptr /\ valid' = slab.valid + n
        /\ in_progress' = slab.in_progress /\ stash' = slab.stash /\ shift' = slab.shift
        /\ written' = written + n
        /\ UNCHANGED held

\* extract: the first n valid units go to a reader.
extract(n) ==
    /\ n \in 1 .. valid /\ Cardinality(held) < MaxHeld
    /\ held' = held \cup {[buffer |-> buffer, ptr |-> ptr, len |-> n,
                           units |-> [i \in 1 .. n |-> written - valid + i]]}
    /\ ptr' = ptr + n /\ valid' = valid - n
    /\ UNCHANGED <<memory, buffer, in_progress, stash, shift, written>>

\* Bytes::extract_to: a reader splits a slice.
extract_to(s, n) ==
    /\ s \in held /\ n \in 1 .. s.len - 1 /\ Cardinality(held) < MaxHeld
    /\ held' = (held \ {s})
           \cup {[s EXCEPT !.len = n, !.units = SubSeq(s.units, 1, n)],
                 [s EXCEPT !.ptr = @ + n, !.len = @ - n, !.units = SubSeq(s.units, n + 1, s.len)]}
    /\ UNCHANGED <<memory, buffer, ptr, valid, in_progress, stash, shift, written>>

\* A mutant of adjacent: the allocation is not compared.
adjacent_anywhere(s, t) == s.ptr + s.len = t.ptr

adjacent(s, t) == s.buffer = t.buffer /\ s.ptr + s.len = t.ptr

\* try_merge, as MergeQueue::extend does with the slices it is given
try_merge(s, t) ==
    /\ s \in held /\ t \in held /\ s # t /\ adjacent(s, t)
    /\ held' = (held \ {s, t}) \cup {[s EXCEPT !.len = @ + t.len, !.units = @ \o t.units]}
    /\ UNCHANGED <<memory, buffer, ptr, valid, in_progress, stash, shift, written>>

\* The reader is done with a slice.
release(s) ==
    /\ s \in held
    /\ held' = held \ {s}
    /\ UNCHANGED <<memory, buffer, ptr, valid, in_progress, stash, shift, written>>

SlabNext ==
    \/ \E n \in 1 .. MaxReserve : write(n)
    \/ \E n \in 1 .. valid : extract(n)
    \/ \E s \in held : release(s) \/ \E n \in 1 .. s.len : extract_to(s, n)
    \/ \E s, t \in held : try_merge(s, t)

SlabSpec == SlabInit /\ [][SlabNext]_slab_vars

-----------------------------------------------------------------------------
(* Correctness.                                                             *)

(* What a reader holds never changes: buffers are written to again only     *)
(* when no slice of them is left, and slices are merged only when they are  *)
(* next to each other.                                                      *)
HeldStable == \A s \in held : Contents(s) = s.units

(* The valid units of the slab are the ones written last, in order: none is *)
(* lost or doubled when they move to another buffer, and they fit in there. *)
ValidInOrder ==
    /\ Room >= 0
    /\ \A i \in 0 .. valid - 1 : memory[buffer][ptr + i] = written - valid + 1 + i

(* A buffer is in one place only: the slab writes to it, or it is retired,  *)
(* or it is empty; and an empty one is of the current size and shared with  *)
(* nobody.                                                                  *)
OnePlace ==
    /\ IsInjective(<<buffer>> \o in_progress \o stash)
    /\ \A b \in Range(stash) : Capacity(b) = 2^shift /\ \A s \in held : s.buffer # b

=============================================================================
