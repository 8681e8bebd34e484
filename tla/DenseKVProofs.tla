---------------------------- MODULE DenseKVProofs ----------------------------
(* What the methods of a KV cache preserve, for every set of requests and   *)
(* every number of slots.                                                   *)
EXTENDS DenseKV, FiniteSetTheorems, WellFoundedInduction, TLAPS

\* The row of every request a cache holds is its own, and the free slots are
\* the others, masked to length 0: what survives a release.
Own(c, max) ==
    /\ CacheType(c, max)
    /\ c.free = Slot \ {c.slotOf[p] : p \in Held(c)}
    /\ \A p \in Held(c) : c.rows[c.slotOf[p]] = p
    /\ \A s \in c.free : c.len[s] = 0

\* What holds between the steps of the batch.
Sound(c, max) == Own(c, max) /\ Contiguous(c)

----------------------------------------------------------------------------
(* Ranks *)

\* Counting the elements with a smaller key numbers a finite set from 0 on,
\* without a gap: what sorted and enumerate do in compact and _ordered_pids.
LEMMA Ranking ==
    ASSUME NEW P, IsFiniteSet(P), NEW f,
           \A p \in P : f[p] \in Nat,
           \A p, q \in P : f[p] = f[q] => p = q
    PROVE  /\ Cardinality(P) \in Nat
           /\ \A p \in P : Place(f, P, p) \in 0 .. Cardinality(P) - 1
           /\ \A p, q \in P : f[p] < f[q] <=> Place(f, P, p) < Place(f, P, q)
           /\ \A p, q \in P : Place(f, P, p) = Place(f, P, q) => p = q
           /\ \A k \in 0 .. Cardinality(P) - 1 : \E p \in P : Place(f, P, p) = k
<1> DEFINE Below(p) == {q \in P : f[q] < f[p]}
           n == Cardinality(P)
           R == [p \in P |-> Cardinality(Below(p))]
<1>a. R = [p \in P |-> R[p]] /\ \A p \in P : R[p] = Cardinality(Below(p))
  OBVIOUS
<1> HIDE DEF R
<1>1. n \in Nat
  BY FS_CardinalityType
<1>2. \A p \in P : R[p] \in 0 .. n - 1
  <2> SUFFICES ASSUME NEW p \in P PROVE R[p] \in 0 .. n - 1
    OBVIOUS
  <2>1. p \notin Below(p)
    OBVIOUS
  <2>2. IsFiniteSet(P \ {p}) /\ Cardinality(P \ {p}) = n - 1
    BY FS_RemoveElement
  <2>3. Below(p) \in SUBSET (P \ {p})
    BY <2>1
  <2>4. IsFiniteSet(Below(p)) /\ Cardinality(Below(p)) <= n - 1
    BY <2>2, <2>3, FS_Subset
  <2>5. Cardinality(Below(p)) \in Nat
    BY <2>4, FS_CardinalityType
  <2>6. QED BY <1>a, <1>1, <2>4, <2>5
<1>3. ASSUME NEW p \in P, NEW q \in P, f[p] < f[q]
      PROVE  R[p] < R[q]
  <2>1. IsFiniteSet(Below(q))
    BY FS_Subset
  <2>2. Below(p) \in SUBSET Below(q)
    BY <1>3
  <2>3. p \in Below(q) /\ p \notin Below(p)
    BY <1>3
  <2>4. Cardinality(Below(p)) <= Cardinality(Below(q))
        /\ Cardinality(Below(p)) # Cardinality(Below(q))
    BY <2>1, <2>2, <2>3, FS_Subset
  <2>5. QED BY <2>4, <1>a, <1>1, <1>2
<1>4. \A p, q \in P : R[p] = R[q] => p = q
  <2> SUFFICES ASSUME NEW p \in P, NEW q \in P, R[p] = R[q] PROVE p = q
    OBVIOUS
  <2>0. R[p] \in Nat /\ R[q] \in Nat
    BY <1>1, <1>2
  <2>1. ~(f[p] < f[q]) /\ ~(f[q] < f[p])
    BY <2>0, <1>3
  <2>2. f[p] = f[q]
    BY <2>1
  <2>3. QED BY <2>2
<1>5. IsFiniteSet(0 .. n - 1) /\ Cardinality(0 .. n - 1) = n
  BY <1>1, FS_Interval
<1>6. R \in Injection(P, 0 .. n - 1)
  BY <1>a, <1>2, <1>4 DEF Injection, IsInjective
<1>7. R \in Surjection(P, 0 .. n - 1)
  BY <1>5, <1>6, FS_Injection
<1>8. \A k \in 0 .. n - 1 : \E p \in P : R[p] = k
  BY <1>7 DEF Surjection
<1>9. ASSUME NEW p \in P, NEW q \in P
      PROVE  f[p] < f[q] <=> R[p] < R[q]
  <2>1. R[p] \in Nat /\ R[q] \in Nat /\ f[p] \in Nat /\ f[q] \in Nat
    BY <1>1, <1>2
  <2>2. f[p] = f[q] => R[p] = R[q]
    OBVIOUS
  <2>3. (f[p] < f[q] => R[p] < R[q]) /\ (f[q] < f[p] => R[q] < R[p])
    BY <1>3
  <2>4. QED BY <2>1, <2>2, <2>3
<1> HIDE DEF n, Below
<1>10. QED BY <1>a, <1>1, <1>2, <1>4, <1>8, <1>9 DEF n, Below, Place
----------------------------------------------------------------------------
(* The methods *)

\* Requests in one cache have different slots, and their number is a natural.
LEMMA OwnFacts ==
    ASSUME NEW c, NEW max \in Nat, Own(c, max)
    PROVE  /\ IsFiniteSet(Held(c)) /\ Cardinality(Held(c)) \in Nat
           /\ Held(c) \subseteq Req
           /\ \A p \in Held(c) : c.slotOf[p] \in Slot /\ c.slotOf[p] \in Nat
           /\ \A p, q \in Held(c) : c.slotOf[p] = c.slotOf[q] => p = q
<1>1. Held(c) \in SUBSET Req
  BY DEF Own, CacheType
<1>2. IsFiniteSet(Held(c)) /\ Cardinality(Held(c)) \in Nat
  BY <1>1, CacheAssumption, FS_Subset, FS_CardinalityType
<1>3. \A p \in Held(c) : c.slotOf[p] \in Slot /\ c.slotOf[p] \in Nat
  BY CacheAssumption DEF Own, CacheType, Slot
<1>4. QED BY <1>1, <1>2, <1>3 DEF Own

\* The order of the slots numbers the requests of a cache; a request comes no
\* later in it than its slot, and there are no more of them than slots.
LEMMA RankFacts ==
    ASSUME NEW c, NEW max \in Nat, Own(c, max)
    PROVE  LET n == Cardinality(Held(c))
           IN  /\ n \in Nat /\ n <= MaxBatch
               /\ \A p \in Held(c) : /\ Rank(c, p) \in 0 .. n - 1
                                     /\ Rank(c, p) <= c.slotOf[p]
               /\ \A p, q \in Held(c) :
                     /\ Rank(c, p) < Rank(c, q) => c.slotOf[p] < c.slotOf[q]
                     /\ Rank(c, p) = Rank(c, q) => p = q
               /\ \A k \in 0 .. n - 1 : \E p \in Held(c) : Rank(c, p) = k
<1> DEFINE P == Held(c)
           f == c.slotOf
           n == Cardinality(P)
<1>1. /\ IsFiniteSet(P) /\ n \in Nat
      /\ \A p \in P : f[p] \in Slot /\ f[p] \in Nat
      /\ \A p, q \in P : f[p] = f[q] => p = q
  BY OwnFacts
<1>2. f \in [P -> Slot]
  BY DEF Own, CacheType
<1>3. \A p \in P : Rank(c, p) = Place(f, P, p)
  BY DEF Rank
<1> HIDE DEF P, f
<1>4. /\ \A p \in P : Place(f, P, p) \in 0 .. n - 1
      /\ \A p, q \in P : f[p] < f[q] <=> Place(f, P, p) < Place(f, P, q)
      /\ \A p, q \in P : Place(f, P, p) = Place(f, P, q) => p = q
      /\ \A k \in 0 .. n - 1 : \E p \in P : Place(f, P, p) = k
  BY <1>1, Ranking
<1>5. n <= MaxBatch
  <2>1. f \in Injection(P, Slot)
    BY <1>1, <1>2 DEF Injection, IsInjective
  <2>2. IsFiniteSet(Slot) /\ Cardinality(Slot) = MaxBatch
    BY CacheAssumption, FS_Interval DEF Slot
  <2>3. QED BY <2>1, <2>2, FS_Injection
<1>6. ASSUME NEW p \in P PROVE Place(f, P, p) <= f[p]
  <2> DEFINE B == {q \in P : f[q] < f[p]}
             g == [q \in B |-> f[q]]
  <2>1. PICK j \in Nat : j = f[p]
    BY <1>1
  <2>2. g \in [B -> 0 .. j - 1]
    BY <1>1, <2>1
  <2>3. \A q, r \in B : g[q] = g[r] => q = r
    BY <1>1
  <2>4. g \in Injection(B, 0 .. j - 1)
    BY <2>2, <2>3 DEF Injection, IsInjective
  <2>5. IsFiniteSet(0 .. j - 1) /\ Cardinality(0 .. j - 1) = j
    BY FS_Interval
  <2> HIDE DEF g
  <2>6. Cardinality(B) <= j
    BY <2>4, <2>5, FS_Injection
  <2>7. QED BY <2>1, <2>6 DEF Place
<1>7. QED BY <1>1, <1>3, <1>4, <1>5, <1>6 DEF P, f

\* A new cache holds nothing.
LEMMA EmptyFacts ==
    ASSUME NEW max \in Nat
    PROVE  Sound(EmptyCache, max) /\ Held(EmptyCache) = {}
<1>1. Held(EmptyCache) = {}
  BY DEF EmptyCache, Held
<1>2. CacheType(EmptyCache, max)
  BY CacheAssumption DEF CacheType, EmptyCache, Held, Slot
<1>3. Own(EmptyCache, max)
  BY <1>1, <1>2 DEF Own, EmptyCache
<1>4. Cardinality(Held(EmptyCache)) = 0
  BY <1>1, FS_EmptySet
<1>5. Contiguous(EmptyCache)
  BY <1>1, <1>4 DEF Contiguous
<1>6. QED BY <1>1, <1>3, <1>5 DEF Sound

\* In a contiguous cache the free slots are those from the number held on, and
\* the lowest of them is taken.
LEMMA PrefillFacts ==
    ASSUME NEW c, NEW max \in Nat, Sound(c, max), NEW p \in Req, NEW n \in Nat,
           ~PrefillRaises(c, p, n, max)
    PROVE  LET d == Prefill(c, p, n)
           IN  /\ Sound(d, max)
               /\ Held(d) = Held(c) \union {p}
               /\ d.slotOf[p] = Cardinality(Held(c))
               /\ d.len[d.slotOf[p]] = n
               /\ \A q \in Held(c) : d.slotOf[q] = c.slotOf[q]
                                     /\ d.len[d.slotOf[q]] = c.len[c.slotOf[q]]
<1> DEFINE k == Cardinality(Held(c))
           d == Prefill(c, p, n)
<1>1. k \in Nat /\ IsFiniteSet(Held(c)) /\ Held(c) \subseteq Req
  BY OwnFacts DEF Sound
<1>2. p \notin Held(c) /\ n <= max /\ c.free # {}
  BY DEF PrefillRaises
<1>3. c.free = Slot \ (0 .. k - 1)
  BY DEF Sound, Own, Contiguous
<1>4. k \in Slot /\ c.free = k .. MaxBatch - 1
  BY <1>1, <1>2, <1>3, CacheAssumption DEF Slot
<1> HIDE DEF k
<1>5. LowestFree(c) = k
  <2>1. k \in c.free /\ \A u \in c.free : k <= u
    BY <1>1, <1>4, CacheAssumption DEF Slot
  <2>2. LowestFree(c) \in c.free /\ \A u \in c.free : LowestFree(c) <= u
    BY <2>1 DEF LowestFree
  <2>3. LowestFree(c) \in Nat
    BY <2>2, <1>1, <1>4, CacheAssumption
  <2>4. QED BY <2>1, <2>2, <2>3, <1>1
<1>6. d = [slotOf |-> [q \in Held(c) \union {p} |-> IF q = p THEN k ELSE c.slotOf[q]],
           free   |-> c.free \ {k},
           rows   |-> [c.rows EXCEPT ![k] = p],
           len    |-> [c.len EXCEPT ![k] = n]]
  BY <1>5 DEF Prefill
<1> HIDE DEF d
<1>7. Held(d) = Held(c) \union {p}
  BY <1>6 DEF Held
<1>8. CacheType(c, max) /\ c.slotOf \in [Held(c) -> Slot]
      /\ c.rows \in [Slot -> Req \union {Nobody}] /\ c.len \in [Slot -> 0 .. max]
  BY DEF Sound, Own, CacheType
<1>9. CacheType(d, max)
  <2>1. d.slotOf \in [Held(d) -> Slot]
    BY <1>4, <1>6, <1>7, <1>8
  <2>2. d.free \subseteq Slot
    BY <1>6, <1>3
  <2>3. d.rows \in [Slot -> Req \union {Nobody}]
    BY <1>6, <1>8
  <2>4. d.len \in [Slot -> 0 .. max]
    <3>1. n \in 0 .. max
      BY <1>2
    <3>2. d.len = [c.len EXCEPT ![k] = n]
      BY <1>6
    <3>3. QED BY <1>8, <3>1, <3>2
  <2>5. d = [slotOf |-> d.slotOf, free |-> d.free, rows |-> d.rows, len |-> d.len]
    BY <1>6
  <2>6. QED BY <1>1, <1>7, <2>1, <2>2, <2>3, <2>4, <2>5 DEF CacheType
<1>10. \A q \in Held(c) : c.slotOf[q] \in 0 .. k - 1 /\ c.slotOf[q] # k /\ c.slotOf[q] \in Slot
  BY <1>1, <1>8 DEF Sound, Contiguous, k
<1>11. d.slotOf[p] = k /\ d.len[k] = n /\ d.rows[k] = p
  BY <1>4, <1>6, <1>8
<1>12. \A q \in Held(c) : /\ d.slotOf[q] = c.slotOf[q]
                          /\ d.len[c.slotOf[q]] = c.len[c.slotOf[q]]
                          /\ d.rows[c.slotOf[q]] = c.rows[c.slotOf[q]]
  BY <1>2, <1>6, <1>8, <1>10
<1>13. {d.slotOf[q] : q \in Held(d)} = 0 .. k
  <2>1. {d.slotOf[q] : q \in Held(d)} = {c.slotOf[q] : q \in Held(c)} \union {k}
    BY <1>7, <1>11, <1>12
  <2>2. {c.slotOf[q] : q \in Held(c)} = 0 .. k - 1
    BY DEF Sound, Contiguous, k
  <2>3. QED BY <1>1, <2>1, <2>2
<1>14. Cardinality(Held(d)) = k + 1
  BY <1>1, <1>2, <1>7, FS_AddElement DEF k
<1>15. Contiguous(d)
  BY <1>1, <1>13, <1>14 DEF Contiguous
<1>16. d.free = Slot \ {d.slotOf[q] : q \in Held(d)}
  <2>1. d.free = (Slot \ (0 .. k - 1)) \ {k}
    BY <1>3, <1>6
  <2>2. (0 .. k - 1) \union {k} = 0 .. k
    BY <1>1
  <2>3. QED BY <1>13, <2>1, <2>2
<1>17. \A q \in Held(d) : d.rows[d.slotOf[q]] = q
  BY <1>7, <1>11, <1>12 DEF Sound, Own
<1>18. \A s \in d.free : d.len[s] = 0
  <2>1. \A s \in d.free : s \in c.free /\ s # k /\ s \in Slot
    BY <1>3, <1>6
  <2>2. \A s \in c.free : c.len[s] = 0
    BY DEF Sound, Own
  <2>3. QED BY <1>6, <1>8, <2>1, <2>2
<1>19. QED
  BY <1>7, <1>9, <1>11, <1>12, <1>15, <1>16, <1>17, <1>18 DEF Sound, Own, k, d

\* A release leaves the rows of the others alone, with holes between them.
LEMMA ReleaseFacts ==
    ASSUME NEW c, NEW max \in Nat, Own(c, max), NEW P, P \subseteq Held(c)
    PROVE  LET d == Release(c, P)
           IN  /\ Own(d, max)
               /\ Held(d) = Held(c) \ P
               /\ \A q \in Held(d) : d.slotOf[q] = c.slotOf[q]
                                     /\ d.len[d.slotOf[q]] = c.len[c.slotOf[q]]
<1> DEFINE d == Release(c, P)
           newLen == [s \in Slot |-> IF \E p \in P : c.slotOf[p] = s THEN 0 ELSE c.len[s]]
<1>1. /\ c = [slotOf |-> c.slotOf, free |-> c.free, rows |-> c.rows, len |-> c.len]
      /\ Held(c) \subseteq Req
      /\ c.slotOf \in [Held(c) -> Slot]
      /\ c.free \subseteq Slot
      /\ c.rows \in [Slot -> Req \union {Nobody}]
      /\ c.len \in [Slot -> 0 .. max]
  BY DEF Own, CacheType
<1>2. \A p, q \in Held(c) : c.slotOf[p] = c.slotOf[q] => p = q
  BY OwnFacts
<1>3. d = [slotOf |-> [q \in Held(c) \ P |-> c.slotOf[q]],
           free   |-> c.free \union {c.slotOf[p] : p \in P},
           rows   |-> c.rows,
           len    |-> newLen]
  BY <1>1 DEF Release
<1> HIDE DEF d
<1>4. Held(d) = Held(c) \ P
  BY <1>3 DEF Held
<1>5. \A q \in Held(d) : d.slotOf[q] = c.slotOf[q]
  BY <1>3, <1>4
<1>6. \A q \in Held(d) : d.len[d.slotOf[q]] = c.len[c.slotOf[q]]
  BY <1>1, <1>2, <1>3, <1>4, <1>5
<1>7. CacheType(d, max)
  <2>1. d.slotOf \in [Held(d) -> Slot]
    BY <1>1, <1>3, <1>4
  <2>2. d.len \in [Slot -> 0 .. max]
    <3>1. newLen \in [Slot -> 0 .. max]
      BY <1>1
    <3>2. QED BY <1>3, <3>1
  <2>3. d.free \subseteq Slot
    BY <1>1, <1>3
  <2>4. d = [slotOf |-> d.slotOf, free |-> d.free, rows |-> d.rows, len |-> d.len]
    BY <1>3
  <2>5. d.rows \in [Slot -> Req \union {Nobody}]
    BY <1>1, <1>3
  <2>6. QED BY <1>1, <1>4, <2>1, <2>2, <2>3, <2>4, <2>5 DEF CacheType
<1>8. d.free = Slot \ {d.slotOf[q] : q \in Held(d)}
  <2>1. {d.slotOf[q] : q \in Held(d)} = {c.slotOf[q] : q \in Held(c) \ P}
    BY <1>4, <1>5
  <2>2. {c.slotOf[q] : q \in Held(c)}
          = {c.slotOf[q] : q \in Held(c) \ P} \union {c.slotOf[p] : p \in P}
    OBVIOUS
  <2>3. {c.slotOf[q] : q \in Held(c) \ P} \intersect {c.slotOf[p] : p \in P} = {}
    BY <1>2
  <2>4. {c.slotOf[p] : p \in P} \subseteq Slot
    BY <1>1
  <2>5. c.free = Slot \ {c.slotOf[q] : q \in Held(c)}
    BY DEF Own
  <2>6. d.free = c.free \union {c.slotOf[p] : p \in P}
    BY <1>3
  <2>7. QED BY <2>1, <2>2, <2>3, <2>4, <2>5, <2>6
<1>9. \A q \in Held(d) : d.rows[d.slotOf[q]] = q
  BY <1>3, <1>4, <1>5 DEF Own
<1>10. \A s \in d.free : d.len[s] = 0
  BY <1>1, <1>3 DEF Own
<1>11. QED BY <1>4, <1>5, <1>6, <1>7, <1>8, <1>9, <1>10 DEF Own, d

\* Compaction makes the slots contiguous again and moves every request's row,
\* and its length, with it.
LEMMA CompactFacts ==
    ASSUME NEW c, NEW max \in Nat, Own(c, max)
    PROVE  LET d == Compact(c)
           IN  /\ Sound(d, max)
               /\ Held(d) = Held(c)
               /\ \A q \in Held(c) : d.len[d.slotOf[q]] = c.len[c.slotOf[q]]
<1> DEFINE d == Compact(c)
           n == Cardinality(Held(c))
<1>1. /\ c = [slotOf |-> c.slotOf, free |-> c.free, rows |-> c.rows, len |-> c.len]
      /\ Held(c) \subseteq Req
      /\ c.slotOf \in [Held(c) -> Slot]
      /\ c.free \subseteq Slot
      /\ c.rows \in [Slot -> Req \union {Nobody}]
      /\ c.len \in [Slot -> 0 .. max]
  BY DEF Own, CacheType
<1>2. /\ IsFiniteSet(Held(c)) /\ n \in Nat
      /\ \A p \in Held(c) : c.slotOf[p] \in Nat
      /\ \A p, q \in Held(c) : c.slotOf[p] = c.slotOf[q] => p = q
  BY OwnFacts
<1>3. CASE Held(c) = {}
  <2>1. d = [slotOf |-> c.slotOf, free |-> Slot, rows |-> c.rows, len |-> [s \in Slot |-> 0]]
    BY <1>1, <1>3 DEF Compact
  <2> HIDE DEF d
  <2>2. Held(d) = {}
    BY <1>3, <2>1 DEF Held
  <2>3. CacheType(d, max)
    <3>1. d.slotOf \in [Held(d) -> Slot]
      BY <1>1, <1>3, <2>1, <2>2
    <3>2. d.len \in [Slot -> 0 .. max]
      BY <2>1
    <3>3. d.rows \in [Slot -> Req \union {Nobody}] /\ d.free \subseteq Slot
      BY <1>1, <2>1
    <3>4. d = [slotOf |-> d.slotOf, free |-> d.free, rows |-> d.rows, len |-> d.len]
      BY <2>1
    <3>5. QED BY <2>2, <3>1, <3>2, <3>3, <3>4 DEF CacheType
  <2>4. Cardinality(Held(d)) = 0
    BY <2>2, FS_EmptySet
  <2>5. Contiguous(d)
    BY <2>2, <2>4 DEF Contiguous
  <2>6. Own(d, max)
    BY <1>3, <2>1, <2>2, <2>3 DEF Own
  <2>7. QED BY <1>3, <2>2, <2>5, <2>6 DEF Sound, d
<1>4. CASE Held(c) # {} /\ Contiguous(c)
  BY <1>4 DEF Compact, Sound
<1>5. CASE Held(c) # {} /\ ~Contiguous(c)
  <2> DEFINE R(p) == Rank(c, p)
             from(s) == c.slotOf[CHOOSE p \in Held(c) : Rank(c, p) = s]
             newRows == [s \in Slot |-> IF s < n THEN c.rows[from(s)] ELSE c.rows[s]]
             newLen == [s \in Slot |-> IF s < n THEN c.len[from(s)] ELSE 0]
  <2>1. /\ \A p \in Held(c) : R(p) \in 0 .. n - 1
        /\ \A p, q \in Held(c) : R(p) = R(q) => p = q
        /\ \A k \in 0 .. n - 1 : \E p \in Held(c) : R(p) = k
    BY RankFacts
  <2>2. d = [slotOf |-> [p \in Held(c) |-> Rank(c, p)], free |-> n .. MaxBatch - 1,
             rows |-> newRows, len |-> newLen]
    BY <1>5 DEF Compact
  <2> HIDE DEF d
  <2>3. n <= MaxBatch
    BY RankFacts
  <2>4. 0 .. n - 1 \subseteq Slot
    BY <1>2, <2>3, CacheAssumption DEF Slot
  <2>5. \A p \in Held(c) : (CHOOSE q \in Held(c) : Rank(c, q) = R(p)) = p
    BY <2>1
  <2>6. \A p \in Held(c) : from(R(p)) = c.slotOf[p]
    BY <2>5
  <2> HIDE DEF R, from
  <2>7. \A s \in 0 .. n - 1 : from(s) \in Slot
    <3> SUFFICES ASSUME NEW s \in 0 .. n - 1 PROVE from(s) \in Slot
      OBVIOUS
    <3>1. PICK p \in Held(c) : R(p) = s
      BY <2>1
    <3>2. from(s) = c.slotOf[p]
      BY <2>6, <3>1
    <3>3. QED BY <1>1, <3>2
  <2>8. Held(d) = Held(c) /\ \A p \in Held(c) : d.slotOf[p] = R(p)
    BY <2>2 DEF Held, R
  <2>9. \A p \in Held(c) : /\ d.rows[R(p)] = c.rows[c.slotOf[p]]
                           /\ d.len[R(p)] = c.len[c.slotOf[p]]
    <3> SUFFICES ASSUME NEW p \in Held(c)
                 PROVE  /\ d.rows[R(p)] = c.rows[c.slotOf[p]]
                        /\ d.len[R(p)] = c.len[c.slotOf[p]]
      OBVIOUS
    <3>1. R(p) \in 0 .. n - 1 /\ R(p) \in Slot /\ R(p) < n
      BY <1>2, <2>1, <2>4
    <3>2. d.rows[R(p)] = c.rows[from(R(p))] /\ d.len[R(p)] = c.len[from(R(p))]
      BY <2>2, <3>1
    <3>3. QED BY <2>6, <3>2
  <2>10. {d.slotOf[p] : p \in Held(d)} = 0 .. n - 1
    <3>1. \A p \in Held(d) : d.slotOf[p] \in 0 .. n - 1
      BY <2>1, <2>8
    <3>2. \A k \in 0 .. n - 1 : \E p \in Held(d) : d.slotOf[p] = k
      BY <2>1, <2>8
    <3>3. QED BY <3>1, <3>2
  <2>11. Contiguous(d)
    BY <2>8, <2>10 DEF Contiguous
  <2>12. d.free = Slot \ {d.slotOf[p] : p \in Held(d)}
    <3>1. n .. MaxBatch - 1 = Slot \ (0 .. n - 1)
      BY <1>2, <2>3, CacheAssumption DEF Slot
    <3>2. d.free = n .. MaxBatch - 1
      BY <2>2
    <3>3. QED BY <2>10, <3>1, <3>2
  <2>13. CacheType(d, max)
    <3>1. d.slotOf \in [Held(d) -> Slot]
      <4>1. d.slotOf = [p \in Held(c) |-> R(p)]
        BY <2>2 DEF R
      <4>2. \A p \in Held(c) : R(p) \in Slot
        BY <2>1, <2>4
      <4>3. QED BY <2>8, <4>1, <4>2
    <3>2. d.free \subseteq Slot
      BY <2>12
    <3>3. d.rows \in [Slot -> Req \union {Nobody}]
      <4>1. \A s \in Slot : newRows[s] \in Req \union {Nobody}
        BY <1>1, <1>2, <2>7, CacheAssumption DEF Slot
      <4>2. QED BY <2>2, <4>1
    <3>4. d.len \in [Slot -> 0 .. max]
      <4>1. \A s \in Slot : newLen[s] \in 0 .. max
        BY <1>1, <1>2, <2>7, CacheAssumption DEF Slot
      <4>2. QED BY <2>2, <4>1
    <3>5. d = [slotOf |-> d.slotOf, free |-> d.free, rows |-> d.rows, len |-> d.len]
      BY <2>2
    <3>6. QED BY <1>1, <2>8, <3>1, <3>2, <3>3, <3>4, <3>5 DEF CacheType
  <2>14. \A p \in Held(d) : d.rows[d.slotOf[p]] = p
    BY <2>8, <2>9 DEF Own
  <2>15. \A s \in d.free : d.len[s] = 0
    BY <1>2, <2>2, <2>12, CacheAssumption DEF Slot
  <2>16. QED BY <2>8, <2>9, <2>11, <2>12, <2>13, <2>14, <2>15 DEF Sound, Own, d
<1>6. QED BY <1>3, <1>4, <1>5

\* Undoing a prefill gives back the slot it took, and nothing else moves.
LEMMA UndoFacts ==
    ASSUME NEW c, NEW max \in Nat, Sound(c, max), NEW p \in Req, NEW n \in Nat,
           ~PrefillRaises(c, p, n, max)
    PROVE  LET d == Compact(Release(Prefill(c, p, n), {p}))
           IN  /\ Sound(d, max)
               /\ d.slotOf = c.slotOf /\ d.free = c.free
               /\ \A q \in Held(c) : d.len[d.slotOf[q]] = c.len[c.slotOf[q]]
<1> DEFINE e == Prefill(c, p, n)
           f == Release(e, {p})
           d == Compact(f)
<1>1. /\ Sound(e, max) /\ Held(e) = Held(c) \union {p}
      /\ \A q \in Held(c) : e.slotOf[q] = c.slotOf[q]
                            /\ e.len[e.slotOf[q]] = c.len[c.slotOf[q]]
  BY PrefillFacts
<1> HIDE DEF e
<1>2. p \notin Held(c)
  BY DEF PrefillRaises
<1>3. /\ Own(f, max) /\ Held(f) = Held(c)
      /\ \A q \in Held(c) : f.slotOf[q] = c.slotOf[q]
                            /\ f.len[f.slotOf[q]] = c.len[c.slotOf[q]]
  <2>1. Own(e, max) /\ {p} \subseteq Held(e)
    BY <1>1 DEF Sound
  <2>2. /\ Own(f, max) /\ Held(f) = Held(e) \ {p}
        /\ \A q \in Held(f) : f.slotOf[q] = e.slotOf[q]
                              /\ f.len[f.slotOf[q]] = e.len[e.slotOf[q]]
    BY <2>1, ReleaseFacts
  <2>3. Held(f) = Held(c)
    BY <1>1, <1>2, <2>2
  <2>4. QED BY <1>1, <2>2, <2>3
<1> HIDE DEF f
<1>4. f.slotOf = c.slotOf
  <2>1. f.slotOf = [q \in Held(f) |-> f.slotOf[q]] /\ c.slotOf = [q \in Held(c) |-> c.slotOf[q]]
    BY <1>3 DEF Sound, Own, CacheType
  <2>2. QED BY <1>3, <2>1
<1>5. Contiguous(f)
  BY <1>4 DEF Contiguous, Held, Sound
<1>6. f.free = c.free
  BY <1>3, <1>4 DEF Sound, Own
<1>7. /\ Sound(d, max) /\ \A q \in Held(c) : d.len[d.slotOf[q]] = f.len[f.slotOf[q]]
  BY <1>3, CompactFacts
<1>8. d.slotOf = f.slotOf
  <2>1. CASE Held(f) = {}
    <3>1. f = [slotOf |-> f.slotOf, free |-> f.free, rows |-> f.rows, len |-> f.len]
      BY <1>3 DEF Own, CacheType
    <3>2. QED BY <2>1, <3>1 DEF Compact
  <2>2. CASE Held(f) # {}
    BY <1>5, <2>2 DEF Compact
  <2>3. QED BY <2>1, <2>2
<1>9. d.free = f.free
  <2>1. Held(d) = Held(f)
    BY <1>8 DEF Held
  <2>2. QED BY <1>3, <1>7, <1>8, <2>1 DEF Sound, Own
<1>10. QED BY <1>3, <1>4, <1>6, <1>7, <1>8, <1>9 DEF d, f, e

----------------------------------------------------------------------------
(* The loop of compact *)

\* A set of numbers has a least one.
LEMMA LeastElement ==
    ASSUME NEW T, T \subseteq Nat, T # {}
    PROVE  \E m \in T : \A k \in T : m <= k
<1>1. PICK m \in T : \A k \in T : ~(<<k, m>> \in OpToRel(<, Nat))
  BY NatLessThanWellFounded, WFMin
<1>2. ASSUME NEW k \in T PROVE m <= k
  <2>1. ~(k < m) BY <1>1 DEF OpToRel
  <2>2. QED BY <2>1
<1>3. QED BY <1>2

\* The cache when the loop has moved k rows: those lie in slots 0 .. k-1, and
\* the slots they come from are masked unless another of them lies there.
Moved(c, k) ==
    LET from(s) == c.slotOf[CHOOSE p \in Held(c) : Rank(c, p) = s]
    IN  [slotOf |-> [p \in Held(c) |-> IF Rank(c, p) < k THEN Rank(c, p) ELSE c.slotOf[p]],
         free   |-> c.free,
         rows   |-> [s \in Slot |-> IF s < k THEN c.rows[from(s)] ELSE c.rows[s]],
         len    |-> [s \in Slot |->
                       IF s < k THEN c.len[from(s)]
                       ELSE IF \E p \in Held(c) : Rank(c, p) < k /\ c.slotOf[p] = s THEN 0
                       ELSE c.len[s]]]

\* One turn of the loop: the row it moves has not been written over.
LEMMA MoveOne ==
    ASSUME NEW c, NEW max \in Nat, Own(c, max), NEW p \in Held(c)
    PROVE  Move(Moved(c, Rank(c, p)), p, Rank(c, p)) = Moved(c, Rank(c, p) + 1)
<1> DEFINE k == Rank(c, p)
           old == c.slotOf[p]
           from(s) == c.slotOf[CHOOSE q \in Held(c) : Rank(c, q) = s]
           d == Moved(c, k)
           e == Moved(c, k + 1)
<1>1. /\ k \in Nat /\ k <= old
      /\ \A q \in Held(c) : Rank(c, q) \in Nat
      /\ \A q \in Held(c) : Rank(c, q) < k => c.slotOf[q] < old
      /\ \A q \in Held(c) : Rank(c, q) = k => q = p
  BY RankFacts
<1>2. /\ old \in Slot /\ old \in Nat /\ k \in Slot /\ Slot \subseteq Nat
      /\ \A q \in Held(c) : c.slotOf[q] \in Nat
  BY <1>1, OwnFacts, CacheAssumption DEF Slot
<1>3. from(k) = old
  BY <1>1
<1> HIDE DEF k, old, from
<1>4. /\ d.slotOf = [q \in Held(c) |-> IF Rank(c, q) < k THEN Rank(c, q) ELSE c.slotOf[q]]
      /\ d.free = c.free
      /\ d.rows = [s \in Slot |-> IF s < k THEN c.rows[from(s)] ELSE c.rows[s]]
      /\ d.len = [s \in Slot |->
                    IF s < k THEN c.len[from(s)]
                    ELSE IF \E q \in Held(c) : Rank(c, q) < k /\ c.slotOf[q] = s THEN 0
                    ELSE c.len[s]]
      /\ d = [slotOf |-> d.slotOf, free |-> d.free, rows |-> d.rows, len |-> d.len]
  BY DEF Moved, from
<1>5. /\ e.slotOf = [q \in Held(c) |-> IF Rank(c, q) < k + 1 THEN Rank(c, q)
                                        ELSE c.slotOf[q]]
      /\ e.free = c.free
      /\ e.rows = [s \in Slot |-> IF s < k + 1 THEN c.rows[from(s)] ELSE c.rows[s]]
      /\ e.len = [s \in Slot |->
                    IF s < k + 1 THEN c.len[from(s)]
                    ELSE IF \E q \in Held(c) : Rank(c, q) < k + 1 /\ c.slotOf[q] = s THEN 0
                    ELSE c.len[s]]
      /\ e = [slotOf |-> e.slotOf, free |-> e.free, rows |-> e.rows, len |-> e.len]
  BY DEF Moved, from
<1> HIDE DEF d, e
<1>6. \A q \in Held(c) : Rank(c, q) < k + 1 <=> Rank(c, q) < k \/ q = p
  BY <1>1 DEF k
<1>7. d.slotOf[p] = old /\ d.rows[old] = c.rows[old] /\ d.len[old] = c.len[old]
  BY <1>1, <1>2, <1>4 DEF k, old
<1>8. e.slotOf = [d.slotOf EXCEPT ![p] = k]
  BY <1>4, <1>5, <1>6 DEF k
<1>9. e.rows = [d.rows EXCEPT ![k] = c.rows[old]]
  BY <1>1, <1>2, <1>3, <1>4, <1>5
<1>10. CASE k = old
  <2>1. e.slotOf = d.slotOf
    BY <1>4, <1>7, <1>8, <1>10
  <2>2. e.rows = d.rows
    BY <1>4, <1>7, <1>9, <1>10
  <2>3. ASSUME NEW s \in Slot PROVE e.len[s] = d.len[s]
    <3>1. CASE s < k
      BY <1>1, <1>2, <1>4, <1>5, <3>1
    <3>2. CASE s = k
      BY <1>1, <1>2, <1>3, <1>5, <1>7, <1>10, <3>2
    <3>3. CASE s > k
      <4>1. \A q \in Held(c) : Rank(c, q) < k + 1 /\ c.slotOf[q] = s
                               <=> Rank(c, q) < k /\ c.slotOf[q] = s
        BY <1>2, <1>6, <1>10, <3>3 DEF old
      <4>2. ~(s < k) /\ ~(s < k + 1)
        BY <1>1, <1>2, <3>3
      <4>3. QED BY <1>4, <1>5, <4>1, <4>2
    <3>4. QED BY <1>1, <1>2, <3>1, <3>2, <3>3
  <2>4. e.len = d.len
    BY <1>4, <1>5, <2>3
  <2>5. e = d
    BY <1>4, <1>5, <2>1, <2>2, <2>4
  <2>6. QED BY <1>7, <1>10, <2>5 DEF Move, d, e, k
<1>11. CASE k # old
  <2>1. ASSUME NEW s \in Slot
        PROVE  e.len[s] = [d.len EXCEPT ![k] = c.len[old], ![old] = 0][s]
    <3>1. CASE s < k
      BY <1>1, <1>2, <1>4, <1>5, <3>1
    <3>2. CASE s = k
      BY <1>1, <1>2, <1>3, <1>4, <1>5, <1>11, <3>2
    <3>3. CASE s = old
      <4>1. ~(s < k + 1)
        BY <1>1, <1>2, <1>11, <3>3
      <4>2. \E q \in Held(c) : Rank(c, q) < k + 1 /\ c.slotOf[q] = s
        BY <1>6, <3>3 DEF old
      <4>3. QED BY <1>2, <1>4, <1>5, <3>3, <4>1, <4>2
    <3>4. CASE s > k /\ s # old
      <4>1. \A q \in Held(c) : Rank(c, q) < k + 1 /\ c.slotOf[q] = s
                               <=> Rank(c, q) < k /\ c.slotOf[q] = s
        BY <1>6, <3>4 DEF old
      <4>2. ~(s < k) /\ ~(s < k + 1) /\ s # k
        BY <1>1, <1>2, <3>4
      <4>3. QED BY <1>4, <1>5, <3>4, <4>1, <4>2
    <3>5. QED BY <1>1, <1>2, <3>1, <3>2, <3>3, <3>4
  <2>2. e.len = [d.len EXCEPT ![k] = c.len[old], ![old] = 0]
    BY <1>4, <1>5, <2>1
  <2>3. Move(d, p, k) = [slotOf |-> [d.slotOf EXCEPT ![p] = k], free |-> d.free,
                         rows |-> [d.rows EXCEPT ![k] = c.rows[old]],
                         len |-> [d.len EXCEPT ![k] = c.len[old], ![old] = 0]]
    BY <1>4, <1>7, <1>11 DEF Move
  <2>4. Move(d, p, k) = e
    BY <1>4, <1>5, <1>8, <1>9, <2>2, <2>3
  <2>5. QED BY <2>4 DEF d, e, k
<1>12. QED BY <1>10, <1>11

\* The loop gives what moving all the rows at once would.
LEMMA LoopFacts ==
    ASSUME NEW c, NEW max \in Nat, Own(c, max)
    PROVE  CompactLoop(c) = Compact(c)
<1> DEFINE n == Cardinality(Held(c))
           nth(k) == CHOOSE p \in Held(c) : Rank(c, p) = k
           after[k \in 0 .. n] == IF k = 0 THEN c ELSE Move(after[k - 1], nth(k - 1), k - 1)
           eq(g) == g = [k \in 0 .. n |-> IF k = 0 THEN c
                                          ELSE Move(g[k - 1], nth(k - 1), k - 1)]
           G == [k \in 0 .. n |-> Moved(c, k)]
<1>1. CASE Held(c) = {} \/ Contiguous(c)
  BY <1>1 DEF CompactLoop
<1>2. CASE Held(c) # {} /\ ~Contiguous(c)
  <2>1. CompactLoop(c) = [after[n] EXCEPT !.free = n .. MaxBatch - 1]
    BY <1>2 DEF CompactLoop
  <2>2. after = CHOOSE g : eq(g)
    OBVIOUS
  <2>3. /\ n \in Nat /\ n <= MaxBatch
        /\ \A p \in Held(c) : Rank(c, p) \in 0 .. n - 1
        /\ \A k \in 0 .. n - 1 : nth(k) \in Held(c) /\ Rank(c, nth(k)) = k
    BY RankFacts
  <2>4. /\ c = [slotOf |-> c.slotOf, free |-> c.free, rows |-> c.rows, len |-> c.len]
        /\ c.slotOf \in [Held(c) -> Slot]
        /\ c.rows \in [Slot -> Req \union {Nobody}]
        /\ c.len \in [Slot -> 0 .. max]
    BY DEF Own, CacheType
  <2>5. Moved(c, 0) = c
    <3>1. \A p \in Held(c) : ~(Rank(c, p) < 0)
      BY <2>3
    <3>2. \A s \in Slot : ~(s < 0)
      BY DEF Slot
    <3>3. QED BY <2>4, <3>1, <3>2 DEF Moved
  <2>6. \A k \in 0 .. n - 1 : Move(Moved(c, k), nth(k), k) = Moved(c, k + 1)
    BY <2>3, MoveOne
  <2> HIDE DEF n, nth
  <2>7. ASSUME NEW k \in 0 .. n, k # 0
        PROVE  k - 1 \in 0 .. n /\ Moved(c, k) = Move(Moved(c, k - 1), nth(k - 1), k - 1)
    <3>1. k - 1 \in 0 .. n - 1 /\ k - 1 \in 0 .. n /\ (k - 1) + 1 = k
      BY <2>3, <2>7
    <3>2. QED BY <2>6, <3>1
  <2>8. eq(G)
    <3>1. ASSUME NEW k \in 0 .. n
          PROVE  G[k] = IF k = 0 THEN c ELSE Move(G[k - 1], nth(k - 1), k - 1)
      BY <2>5, <2>7
    <3>2. QED BY <3>1
  <2>9. eq(after)
    <3> HIDE DEF eq, after
    <3>1. QED BY <2>2, <2>8
  <2> HIDE DEF after, G
  <2>10. after[n] = Moved(c, n)
    <3> DEFINE T == {k \in 0 .. n : after[k] # Moved(c, k)}
    <3>1. SUFFICES ASSUME T # {} PROVE FALSE
      BY <2>3
    <3>2. T \subseteq Nat
      BY <2>3
    <3> HIDE DEF T
    <3>3. PICK k \in T : \A j \in T : k <= j
      BY <3>1, <3>2, LeastElement
    <3> USE DEF T
    <3>4. k # 0
      BY <2>3, <2>5, <2>9
    <3>5. k - 1 \in 0 .. n /\ k - 1 \notin T
      BY <2>3, <3>3, <3>4
    <3>6. after[k - 1] = Moved(c, k - 1)
      BY <3>5
    <3>7. after[k] = Move(after[k - 1], nth(k - 1), k - 1)
      BY <2>9, <3>4
    <3>8. QED BY <2>7, <3>4, <3>6, <3>7
  <2>11. [Moved(c, n) EXCEPT !.free = n .. MaxBatch - 1] = Compact(c)
    <3> DEFINE from(s) == c.slotOf[CHOOSE p \in Held(c) : Rank(c, p) = s]
               d == Moved(c, n)
               e == Compact(c)
    <3>1. /\ d = [slotOf |-> d.slotOf, free |-> d.free, rows |-> d.rows, len |-> d.len]
          /\ d.slotOf = [p \in Held(c) |-> IF Rank(c, p) < n THEN Rank(c, p) ELSE c.slotOf[p]]
          /\ d.rows = [s \in Slot |-> IF s < n THEN c.rows[from(s)] ELSE c.rows[s]]
          /\ d.len = [s \in Slot |->
                        IF s < n THEN c.len[from(s)]
                        ELSE IF \E p \in Held(c) : Rank(c, p) < n /\ c.slotOf[p] = s THEN 0
                        ELSE c.len[s]]
      BY DEF Moved
    <3>2. e = [slotOf |-> [p \in Held(c) |-> Rank(c, p)], free |-> n .. MaxBatch - 1,
               rows |-> [s \in Slot |-> IF s < n THEN c.rows[from(s)] ELSE c.rows[s]],
               len |-> [s \in Slot |-> IF s < n THEN c.len[from(s)] ELSE 0]]
      BY <1>2 DEF Compact, n
    <3> HIDE DEF d, e, from
    <3>3. \A p \in Held(c) : Rank(c, p) < n
      BY <2>3
    <3>4. d.slotOf = [p \in Held(c) |-> Rank(c, p)]
      BY <3>1, <3>3
    <3>5. ASSUME NEW s \in Slot
          PROVE  d.len[s] = IF s < n THEN c.len[from(s)] ELSE 0
      <4>1. CASE s \in c.free
        <5>1. c.len[s] = 0
          BY <4>1 DEF Own
        <5>2. QED BY <3>1, <5>1
      <4>2. CASE \E p \in Held(c) : c.slotOf[p] = s
        BY <3>1, <3>3, <4>2
      <4>3. QED BY <4>1, <4>2 DEF Own
    <3>6. d.len = [s \in Slot |-> IF s < n THEN c.len[from(s)] ELSE 0]
      BY <3>1, <3>5
    <3>7. QED BY <3>1, <3>2, <3>4, <3>6 DEF d, e
  <2>12. QED BY <2>1, <2>10, <2>11
<1>3. QED BY <1>1, <1>2
=============================================================================
