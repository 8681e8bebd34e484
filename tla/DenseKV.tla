------------------------------- MODULE DenseKV -------------------------------
(* VirtualMemoryDense of the Parler speech engine: a fixed tensor of rows,  *)
(* one row ("slot") per request of the decoding batch.  A cache is a record *)
(*     slotOf   pid_to_slot: the slot of every request it holds             *)
(*     free     _free_slots, which the code keeps sorted                    *)
(*     rows     whose keys and values a slot's row of the tensor contains   *)
(*     len      _host_seq_lens (seq_lens and attn_mask move with it)        *)
(* and each operator below is one method, from a cache to a cache.          *)
EXTENDS Naturals, FiniteSets

CONSTANTS
    Req,        \* requests, by pid
    Nobody,     \* the owner of a row never written
    MaxBatch    \* max_batch_size

ASSUME CacheAssumption ==
    /\ IsFiniteSet(Req)
    /\ Nobody \notin Req
    /\ MaxBatch \in Nat \ {0}

Slot == 0 .. MaxBatch - 1

Held(c) == DOMAIN c.slotOf

CacheType(c, max) ==
    /\ c = [slotOf |-> c.slotOf, free |-> c.free, rows |-> c.rows, len |-> c.len]
    /\ Held(c) \subseteq Req
    /\ c.slotOf \in [Held(c) -> Slot]
    /\ c.free \subseteq Slot
    /\ c.rows \in [Slot -> Req \union {Nobody}]
    /\ c.len \in [Slot -> 0 .. max]

EmptyCache == [slotOf |-> [p \in {} |-> 0],
               free   |-> Slot,
               rows   |-> [s \in Slot |-> Nobody],
               len    |-> [s \in Slot |-> 0]]

----------------------------------------------------------------------------
\* A slip: the length is not checked.
PrefillUnchecked(c, p, n, max) == p \in Held(c) \/ c.free = {}

\* prefill raises before it takes a slot ...
PrefillRaises(c, p, n, max) == p \in Held(c) \/ n > max \/ c.free = {}

\* ... or writes the n positions of p to the lowest free slot.
LowestFree(c) == CHOOSE t \in c.free : \A u \in c.free : t <= u

Prefill(c, p, n) ==
    LET s == LowestFree(c)
    IN  [slotOf |-> [q \in Held(c) \union {p} |-> IF q = p THEN s ELSE c.slotOf[q]],
         free   |-> c.free \ {s},
         rows   |-> [c.rows EXCEPT ![s] = p],
         len    |-> [c.len EXCEPT ![s] = n]]

\* free(compact=False) of each of P: their rows are masked but not erased.
Release(c, P) ==
    [slotOf |-> [q \in Held(c) \ P |-> c.slotOf[q]],
     free   |-> c.free \union {c.slotOf[p] : p \in P},
     rows   |-> c.rows,
     len    |-> [s \in Slot |-> IF \E p \in P : c.slotOf[p] = s THEN 0 ELSE c.len[s]]]

\* The slots in use are 0 .. n-1, as a captured CUDA graph needs them.
Contiguous(c) == {c.slotOf[p] : p \in Held(c)} = 0 .. Cardinality(Held(c)) - 1

\* The place of p among P in the order of the slots.
Place(slotOf, P, p) == Cardinality({q \in P : slotOf[q] < slotOf[p]})

\* Where p's row goes: it keeps its place.
Rank(c, p) == Place(c.slotOf, Held(c), p)

\* A slip: the map is repacked and the rows are not.
CompactMapOnly(c) ==
    LET n == Cardinality(Held(c))
    IN  [c EXCEPT !.slotOf = [p \in Held(c) |-> Rank(c, p)],
                  !.free = n .. MaxBatch - 1]

\* compact: repack the rows into slots 0 .. n-1.
Compact(c) ==
    LET n == Cardinality(Held(c))
        from(s) == c.slotOf[CHOOSE p \in Held(c) : Rank(c, p) = s]
    IN  IF Held(c) = {}
        THEN [c EXCEPT !.free = Slot, !.len = [s \in Slot |-> 0]]
        ELSE IF Contiguous(c) THEN c
        ELSE [slotOf |-> [p \in Held(c) |-> Rank(c, p)],
              free   |-> n .. MaxBatch - 1,
              rows   |-> [s \in Slot |-> IF s < n THEN c.rows[from(s)] ELSE c.rows[s]],
              len    |-> [s \in Slot |-> IF s < n THEN c.len[from(s)] ELSE 0]]

\* One decoding step of the cache that grows: every live sequence by one.
Grow(c) ==
    [c EXCEPT !.len = [s \in Slot |-> IF \E p \in Held(c) : c.slotOf[p] = s
                                      THEN @[s] + 1 ELSE @[s]]]

----------------------------------------------------------------------------
(* compact as the loop runs it: in place, one row after another, in the     *)
(* order of the old slots.                                                  *)
MoveKeepsOld(c, p, new) ==     \* a slip: the old row keeps its length
    [c EXCEPT !.slotOf[p] = new,
              !.rows[new] = c.rows[c.slotOf[p]],
              !.len[new] = c.len[c.slotOf[p]]]

Move(c, p, new) ==
    LET old == c.slotOf[p]
    IN  IF new = old THEN c
        ELSE [c EXCEPT !.slotOf[p] = new,
                       !.rows[new] = c.rows[old],
                       !.len = [@ EXCEPT ![new] = c.len[old], ![old] = 0]]

CompactLoop(c) ==
    LET n == Cardinality(Held(c))
        nth(k) == CHOOSE p \in Held(c) : Rank(c, p) = k
        after[k \in 0 .. n] == IF k = 0 THEN c ELSE Move(after[k - 1], nth(k - 1), k - 1)
    IN  IF Held(c) = {} \/ Contiguous(c) THEN Compact(c)
        ELSE [after[n] EXCEPT !.free = n .. MaxBatch - 1]
=============================================================================
