----------------------------- MODULE ParlerProofs -----------------------------
(* Proofs about ParlerEngine, for every set of requests, every size of the  *)
(* batch and of the caches, and every mix of failures and hang-ups.         *)
EXTENDS ParlerEngine, DenseKVProofs

\* The inductive invariant of the batch: each cache is sound, they hold the
\* running requests, and they hold them in the same slots.
BatchInv ==
    /\ Sound(selfKV, SelfMax) /\ Sound(crossKV, CrossMax)
    /\ Held(selfKV) = running
    /\ crossKV.slotOf = selfKV.slotOf

IInv == TypeOK /\ BatchInv

----------------------------------------------------------------------------
(* Two caches that agree go on agreeing *)

\* Where compaction puts a row depends on the slots alone, which differ neither
\* in length nor in content between the two caches.
LEMMA CompactAgrees ==
    ASSUME NEW c, NEW d, NEW m \in Nat, NEW n \in Nat, Own(c, m), Own(d, n),
           c.slotOf = d.slotOf
    PROVE  Compact(c).slotOf = Compact(d).slotOf
<1>1. Held(c) = Held(d) /\ (Contiguous(c) <=> Contiguous(d))
  BY DEF Held, Contiguous
<1>2. /\ c = [slotOf |-> c.slotOf, free |-> c.free, rows |-> c.rows, len |-> c.len]
      /\ d = [slotOf |-> d.slotOf, free |-> d.free, rows |-> d.rows, len |-> d.len]
  BY DEF Own, CacheType
<1>3. CASE Held(c) = {}
  BY <1>1, <1>2, <1>3 DEF Compact
<1>4. CASE Held(c) # {} /\ Contiguous(c)
  BY <1>1, <1>4 DEF Compact
<1>5. CASE Held(c) # {} /\ ~Contiguous(c)
  <2>1. Compact(c).slotOf = [p \in Held(c) |-> Rank(c, p)]
    BY <1>5 DEF Compact
  <2>2. Compact(d).slotOf = [p \in Held(d) |-> Rank(d, p)]
    BY <1>1, <1>5 DEF Compact
  <2>3. \A p \in Held(c) : Rank(c, p) = Rank(d, p)
    BY <1>1 DEF Rank
  <2>4. QED BY <1>1, <2>1, <2>2, <2>3
<1>6. QED BY <1>3, <1>4, <1>5

\* Requests P leave both caches.
LEMMA EvictAgrees ==
    ASSUME NEW c, NEW d, NEW m \in Nat, NEW n \in Nat, Own(c, m), Own(d, n),
           c.slotOf = d.slotOf, NEW P, P \subseteq Held(c)
    PROVE  LET e == Compact(Release(c, P))
               f == Compact(Release(d, P))
           IN  /\ Sound(e, m) /\ Sound(f, n)
               /\ Held(e) = Held(c) \ P
               /\ e.slotOf = f.slotOf
               /\ \A q \in Held(e) : e.len[e.slotOf[q]] = c.len[c.slotOf[q]]
<1> DEFINE c1 == Release(c, P)
           d1 == Release(d, P)
<1>1. Held(d) = Held(c)
  BY DEF Held
<1>2. /\ Own(c1, m) /\ Held(c1) = Held(c) \ P
      /\ \A q \in Held(c1) : c1.slotOf[q] = c.slotOf[q]
                             /\ c1.len[c1.slotOf[q]] = c.len[c.slotOf[q]]
  BY ReleaseFacts
<1>3. Own(d1, n)
  BY <1>1, ReleaseFacts
<1>4. c1.slotOf = d1.slotOf
  BY <1>1 DEF Release
<1> HIDE DEF c1, d1
<1>5. Compact(c1).slotOf = Compact(d1).slotOf
  BY <1>2, <1>3, <1>4, CompactAgrees
<1>6. /\ Sound(Compact(c1), m) /\ Held(Compact(c1)) = Held(c1)
      /\ \A q \in Held(c1) : Compact(c1).len[Compact(c1).slotOf[q]] = c1.len[c1.slotOf[q]]
  BY <1>2, CompactFacts
<1>7. Sound(Compact(d1), n)
  BY <1>3, CompactFacts
<1>8. QED BY <1>2, <1>5, <1>6, <1>7 DEF c1, d1

\* The invariant as the properties state it: the free slots agree as well.
LEMMA BatchFacts ==
    ASSUME TypeOK, BatchInv
    PROVE  CachesAgree /\ RowsAreOwn
<1>1. Held(crossKV) = running
  BY DEF BatchInv, Held
<1>2. crossKV.free = selfKV.free
  BY <1>1 DEF BatchInv, Sound, Own
<1>3. QED BY <1>1, <1>2 DEF CachesAgree, RowsAreOwn, BatchInv, Sound, Own, Contiguous
----------------------------------------------------------------------------
(* Steps that leave the batch alone *)

\* BatchInv speaks of the batch only.
LEMMA BatchUnchanged ==
    ASSUME BatchInv, UNCHANGED batchVars
    PROVE  BatchInv'
BY DEF BatchInv, batchVars, Sound, Own, CacheType, Contiguous, Held

\* A step is described by the caches and the batch it leaves.
LEMMA BatchOf ==
    ASSUME NEW a, NEW b, NEW R, Sound(a, SelfMax), Sound(b, CrossMax),
           Held(a) = R, b.slotOf = a.slotOf,
           selfKV' = a, crossKV' = b, running' = R
    PROVE  BatchInv'
BY DEF BatchInv

\* What the worker puts on a caller's queue.
LEMMA MessagesTyped ==
    /\ Error \in Message /\ Done \in Message
    /\ \A m, n \in Nat : Audio(m, n) \in Message
BY DEF Error, Done, Audio, Message

\* The routes touch the queues only.
LEMMA RouteInv ==
    ASSUME IInv, NEW r \in Req, Route(r)
    PROVE  IInv'
<1>1. BatchInv'
  BY BatchUnchanged DEF IInv, Route, Post, Hear, Leave
<1>c. CacheType(selfKV, SelfMax)' /\ CacheType(crossKV, CrossMax)'
  BY <1>1 DEF BatchInv, Sound, Own
<1>2. CASE Post(r)
  <2>1. Append(prefillQ, r) \in Seq(Req)
    BY DEF IInv, TypeOK
  <2>2. caller' \in [Req -> {"idle", "waiting", "done", "error", "left"}]
    BY <1>2 DEF IInv, TypeOK, Post
  <2>3. UNCHANGED <<heard, out, cancelQ, pc, pendingOut, stepCount, finished,
                    running, tokens, yielded, finals, rr>>
    BY <1>2 DEF Post, batchVars, audioVars
  <2>4. prefillQ' \in Seq(Req)
    BY <1>2, <2>1 DEF Post
  <2>5. QED BY <1>1, <1>c, <2>2, <2>3, <2>4 DEF IInv, TypeOK
<1>3. CASE Leave(r)
  <2>1. Append(cancelQ, r) \in Seq(Req)
    BY DEF IInv, TypeOK
  <2>2. caller' \in [Req -> {"idle", "waiting", "done", "error", "left"}]
    BY <1>3 DEF IInv, TypeOK, Leave
  <2>3. UNCHANGED <<heard, out, prefillQ, pc, pendingOut, stepCount, finished,
                    running, tokens, yielded, finals, rr>>
    BY <1>3 DEF Leave, batchVars, audioVars
  <2>4. cancelQ' \in Seq(Req)
    BY <1>3, <2>1 DEF Leave
  <2>5. QED BY <1>1, <1>c, <2>2, <2>3, <2>4 DEF IInv, TypeOK
<1>4. CASE Hear(r)
  <2>1. out[r] \in Seq(Message) /\ out[r] # <<>>
    BY <1>4 DEF IInv, TypeOK, Hear
  <2>2. Head(out[r]) \in Message /\ Tail(out[r]) \in Seq(Message)
    BY <2>1
  <2>3. Head(out[r]).kind \in {"audio", "done", "error"} /\ Head(out[r]).to \in Nat
    BY <2>2 DEF Message
  <2>4. heard' \in [Req -> Nat]
    BY <1>4, <2>3 DEF IInv, TypeOK, Hear
  <2>5. caller' \in [Req -> {"idle", "waiting", "done", "error", "left"}]
    BY <1>4, <2>3 DEF IInv, TypeOK, Hear
  <2>6. cancelQ' \in Seq(Req)
    <3>1. Append(cancelQ, r) \in Seq(Req)
      BY DEF IInv, TypeOK
    <3>2. QED BY <1>4, <3>1 DEF IInv, TypeOK, Hear
  <2>7. out' \in [Req -> Seq(Message)]
    BY <1>4, <2>2 DEF IInv, TypeOK, Hear
  <2>8. UNCHANGED <<prefillQ, pc, pendingOut, stepCount, finished,
                    running, tokens, yielded, finals, rr>>
    BY <1>4 DEF Hear, batchVars, audioVars
  <2>9. QED BY <1>1, <1>c, <2>4, <2>5, <2>6, <2>7, <2>8 DEF IInv, TypeOK
<1>5. QED BY <1>2, <1>3, <1>4 DEF Route

\* Finding a queue empty changes nothing but the place of the loop.
LEMMA QuietInv ==
    ASSUME IInv, AdmitDone \/ CancelDone
    PROVE  IInv'
<1>1. BatchInv'
  BY BatchUnchanged DEF IInv, AdmitDone, CancelDone
<1>2. TypeOK'
  BY DEF IInv, TypeOK, AdmitDone, CancelDone, routeVars, queueVars, batchVars, audioVars
<1>3. QED BY <1>1, <1>2 DEF IInv

----------------------------------------------------------------------------
(* Admission and cancellation *)

\* Popping a key from a dictionary leaves a dictionary of requests.
LEMMA PopTyped ==
    ASSUME NEW q \in Seq(Req), NEW r
    PROVE  Pop(q, r) \in Seq(Req)
<1>1. CASE \E i \in DOMAIN q : q[i] = r
  <2> DEFINE i == CHOOSE j \in DOMAIN q : q[j] = r
  <2>1. i \in DOMAIN q
    BY <1>1
  <2>2. i \in 1 .. Len(q) /\ Len(q) \in Nat
    BY <2>1
  <2> HIDE DEF i
  <2>3. SubSeq(q, 1, i - 1) \in Seq(Req) /\ SubSeq(q, i + 1, Len(q)) \in Seq(Req)
    BY <2>2
  <2>4. SubSeq(q, 1, i - 1) \o SubSeq(q, i + 1, Len(q)) \in Seq(Req)
    BY <2>3
  <2>5. QED BY <1>1, <2>4 DEF Pop, i
<1>2. CASE ~ \E i \in DOMAIN q : q[i] = r
  BY <1>2 DEF Pop
<1>3. QED BY <1>1, <1>2

\* abort_prefill puts both caches back, whichever of them had taken the request.
LEMMA AbortInv ==
    ASSUME IInv, NEW r \in Req, r \notin running,
           NEW self, NEW cross, NEW n \in Nat, NEW m \in Nat,
           \/ self = selfKV
           \/ self = Prefill(selfKV, r, n) /\ ~PrefillRaises(selfKV, r, n, SelfMax),
           \/ cross = crossKV
           \/ cross = Prefill(crossKV, r, m) /\ ~PrefillRaises(crossKV, r, m, CrossMax),
           Abort(r, self, cross)
    PROVE  /\ BatchInv'
           /\ running' = running
           /\ \A q \in running : selfKV'.len[selfKV'.slotOf[q]] = selfKV.len[selfKV.slotOf[q]]
<1>1. SelfMax \in Nat /\ CrossMax \in Nat
  BY LengthAssumption
<1>2. Held(crossKV) = running /\ Held(selfKV) = running
  BY DEF IInv, BatchInv, Held
<1>3. /\ Sound(selfKV', SelfMax) /\ selfKV'.slotOf = selfKV.slotOf
      /\ \A q \in running : selfKV'.len[selfKV'.slotOf[q]] = selfKV.len[selfKV.slotOf[q]]
  <2>1. CASE self = selfKV
    BY <1>2, <2>1 DEF Abort, IInv, BatchInv
  <2>2. CASE self = Prefill(selfKV, r, n) /\ ~PrefillRaises(selfKV, r, n, SelfMax)
    <3>1. r \in Held(self)
      BY <1>1, <2>2, PrefillFacts DEF IInv, BatchInv
    <3>2. selfKV' = Compact(Release(Prefill(selfKV, r, n), {r}))
      BY <2>2, <3>1 DEF Abort
    <3>3. Sound(selfKV, SelfMax) /\ ~PrefillRaises(selfKV, r, n, SelfMax) /\ SelfMax \in Nat
      BY <1>1, <2>2 DEF IInv, BatchInv
    <3> DEFINE e == Compact(Release(Prefill(selfKV, r, n), {r}))
    <3>4. /\ Sound(e, SelfMax) /\ e.slotOf = selfKV.slotOf
          /\ \A q \in Held(selfKV) : e.len[e.slotOf[q]] = selfKV.len[selfKV.slotOf[q]]
      BY <3>3, UndoFacts
    <3> HIDE DEF e
    <3>5. selfKV' = e
      BY <3>2 DEF e
    <3>6. QED BY <1>2, <3>4, <3>5
  <2>3. QED BY <2>1, <2>2
<1>4. Sound(crossKV', CrossMax) /\ crossKV'.slotOf = crossKV.slotOf
  <2>1. CASE cross = crossKV
    BY <1>2, <2>1 DEF Abort, IInv, BatchInv
  <2>2. CASE cross = Prefill(crossKV, r, m) /\ ~PrefillRaises(crossKV, r, m, CrossMax)
    <3>1. r \in Held(cross)
      BY <1>1, <2>2, PrefillFacts DEF IInv, BatchInv
    <3>2. crossKV' = Compact(Release(Prefill(crossKV, r, m), {r}))
      BY <2>2, <3>1 DEF Abort
    <3>3. Sound(crossKV, CrossMax) /\ ~PrefillRaises(crossKV, r, m, CrossMax) /\ CrossMax \in Nat
      BY <1>1, <2>2 DEF IInv, BatchInv
    <3> DEFINE e == Compact(Release(Prefill(crossKV, r, m), {r}))
    <3>4. /\ Sound(e, CrossMax) /\ e.slotOf = crossKV.slotOf
          /\ \A q \in Held(crossKV) : e.len[e.slotOf[q]] = crossKV.len[crossKV.slotOf[q]]
      BY <3>3, UndoFacts
    <3> HIDE DEF e
    <3>5. crossKV' = e
      BY <3>2 DEF e
    <3>6. QED BY <1>2, <3>4, <3>5
  <2>3. QED BY <2>1, <2>2
<1>5. running' = running
  BY DEF Abort
<1>6. Held(selfKV') = running'
  BY <1>2, <1>3, <1>5 DEF Held
<1>7. BatchInv'
  BY <1>3, <1>4, <1>6 DEF IInv, BatchInv, Sound, Own, CacheType, Contiguous, Held
<1>8. QED BY <1>3, <1>5, <1>7

\* Admission: a prefill that succeeds in both caches, or one that is undone.
LEMMA AdmitInv ==
    ASSUME IInv, Admit
    PROVE  IInv'
<1> DEFINE r == Head(prefillQ)
<1>1. r \in Req /\ Tail(prefillQ) \in Seq(Req)
  BY DEF IInv, TypeOK, Admit
<1>2. SelfMax \in Nat /\ CrossMax \in Nat
  BY LengthAssumption
<1>3. PICK n \in PromptLens, m \in DescLens :
        LET noSelf  == PrefillRaises(selfKV, r, n, SelfMax)
            noCross == PrefillRaises(crossKV, r, m, CrossMax)
            self1   == Prefill(selfKV, r, n)
            cross1  == Prefill(crossKV, r, m)
        IN  \/ "encode" \in Trouble /\ Abort(r, selfKV, crossKV)
            \/ noSelf /\ Abort(r, selfKV, crossKV)
            \/ ~noSelf /\ noCross /\ Abort(r, self1, crossKV)
            \/ ~noSelf /\ ~noCross /\ "sample" \in Trouble /\ Abort(r, self1, cross1)
            \/ /\ ~noSelf /\ ~noCross
               /\ running' = running \union {r}
               /\ pendingOut' = pendingOut \union {r}
               /\ tokens' = [tokens EXCEPT ![r] = 2]
               /\ selfKV' = self1 /\ crossKV' = cross1
               /\ UNCHANGED <<out, finals>>
  BY DEF Admit
<1>4. n \in Nat /\ m \in Nat
  BY LengthAssumption
<1> DEFINE self1 == Prefill(selfKV, r, n)
           cross1 == Prefill(crossKV, r, m)
           noSelf == PrefillRaises(selfKV, r, n, SelfMax)
           noCross == PrefillRaises(crossKV, r, m, CrossMax)
<1> HIDE DEF r
<1>5. ASSUME NEW self, NEW cross, Abort(r, self, cross)
      PROVE  /\ out' \in [Req -> Seq(Message)] /\ finals' \in Seq(Req)
             /\ pendingOut' \subseteq Req /\ running' \subseteq Req
             /\ tokens' \in [Req -> Nat]
  <2>1. Append(out[r], Error) \in Seq(Message)
    BY <1>1, MessagesTyped DEF IInv, TypeOK
  <2>2. out' \in [Req -> Seq(Message)]
    BY <1>5, <2>1 DEF IInv, TypeOK, Abort, Put
  <2>3. finals' \in Seq(Req)
    BY <1>5, PopTyped DEF IInv, TypeOK, Abort
  <2>4. QED BY <1>5, <2>2, <2>3 DEF IInv, TypeOK, Abort
<1>6. /\ BatchInv'
      /\ out' \in [Req -> Seq(Message)] /\ finals' \in Seq(Req)
      /\ pendingOut' \subseteq Req /\ running' \subseteq Req
      /\ tokens' \in [Req -> Nat]
  <2>a. Held(selfKV) = running /\ Held(crossKV) = running
    BY DEF IInv, BatchInv, Held
  <2>1. CASE Abort(r, selfKV, crossKV)
    <3>1. CASE r \notin running
      BY <1>1, <1>4, <1>5, <2>1, <3>1, AbortInv
    <3>2. CASE r \in running
      <4>1. /\ selfKV' = Compact(Release(selfKV, {r}))
            /\ crossKV' = Compact(Release(crossKV, {r}))
            /\ running' = running \ {r}
        BY <2>a, <2>1, <3>2 DEF Abort
      <4>2. {r} \subseteq Held(selfKV) /\ Own(selfKV, SelfMax) /\ Own(crossKV, CrossMax)
            /\ selfKV.slotOf = crossKV.slotOf
        BY <2>a, <3>2 DEF IInv, BatchInv, Sound
      <4>3. BatchInv'
        BY <1>2, <2>a, <4>1, <4>2, EvictAgrees, BatchOf
      <4>4. QED BY <1>5, <2>1, <4>3
    <3>3. QED BY <3>1, <3>2
  <2>2. CASE ~noSelf /\ noCross /\ Abort(r, self1, crossKV)
    <3>1. r \notin running
      BY <2>2, <2>a DEF PrefillRaises
    <3>2. QED BY <1>1, <1>4, <1>5, <2>2, <3>1, AbortInv
  <2>3. CASE ~noSelf /\ ~noCross /\ Abort(r, self1, cross1)
    <3>1. r \notin running
      BY <2>3, <2>a DEF PrefillRaises
    <3>2. QED BY <1>1, <1>4, <1>5, <2>3, <3>1, AbortInv
  <2>4. CASE /\ ~noSelf /\ ~noCross
             /\ running' = running \union {r}
             /\ pendingOut' = pendingOut \union {r}
             /\ tokens' = [tokens EXCEPT ![r] = 2]
             /\ selfKV' = self1 /\ crossKV' = cross1
             /\ UNCHANGED <<out, finals>>
    <3>1. /\ Sound(self1, SelfMax) /\ Held(self1) = running \union {r}
          /\ self1.slotOf[r] = Cardinality(running)
          /\ \A q \in running : self1.slotOf[q] = selfKV.slotOf[q]
      BY <1>1, <1>2, <1>4, <2>a, <2>4, PrefillFacts DEF IInv, BatchInv
    <3>2. /\ Sound(cross1, CrossMax) /\ Held(cross1) = running \union {r}
          /\ cross1.slotOf[r] = Cardinality(running)
          /\ \A q \in running : cross1.slotOf[q] = crossKV.slotOf[q]
      BY <1>1, <1>2, <1>4, <2>a, <2>4, PrefillFacts DEF IInv, BatchInv
    <3>3. /\ self1.slotOf = [q \in running \union {r} |-> self1.slotOf[q]]
          /\ cross1.slotOf = [q \in running \union {r} |-> cross1.slotOf[q]]
      BY <3>1, <3>2 DEF Sound, Own, CacheType
    <3>4. self1.slotOf = cross1.slotOf
      BY <3>1, <3>2, <3>3 DEF IInv, BatchInv
    <3> HIDE DEF self1, cross1
    <3>5. selfKV' = self1 /\ crossKV' = cross1 /\ running' = running \union {r}
      BY <2>4
    <3>6. BatchInv'
      BY <3>1, <3>2, <3>4, <3>5, BatchOf
    <3>7. QED BY <1>1, <2>4, <3>6 DEF IInv, TypeOK
  <2>5. QED
    BY <1>3, <2>1, <2>2, <2>3, <2>4
<1>7. CacheType(selfKV, SelfMax)' /\ CacheType(crossKV, CrossMax)'
  BY <1>6 DEF BatchInv, Sound, Own
<1>8. TypeOK'
  BY <1>1, <1>6, <1>7 DEF IInv, TypeOK, Admit, r
<1>9. QED BY <1>6, <1>8 DEF IInv

\* Cancellation: the request leaves both caches, or it was not running.
LEMMA CancelInv ==
    ASSUME IInv, Cancel
    PROVE  IInv'
<1> DEFINE r == Head(cancelQ)
<1>1. r \in Req /\ Tail(cancelQ) \in Seq(Req)
  BY DEF IInv, TypeOK, Cancel
<1>2. SelfMax \in Nat /\ CrossMax \in Nat
  BY LengthAssumption
<1>3. BatchInv' /\ finals' \in Seq(Req) /\ running' \subseteq Req
  <2>1. CASE r \in running
    <3>1. /\ running' = running \ {r}
          /\ selfKV' = Compact(Release(selfKV, {r}))
          /\ crossKV' = Compact(Release(crossKV, {r}))
          /\ finals' = Pop(finals, r)
      BY <2>1 DEF Cancel
    <3>2. {r} \subseteq Held(selfKV) /\ Own(selfKV, SelfMax) /\ Own(crossKV, CrossMax)
          /\ selfKV.slotOf = crossKV.slotOf /\ Held(selfKV) = running
      BY <2>1 DEF IInv, BatchInv, Sound
    <3>3. BatchInv'
      BY <1>2, <3>1, <3>2, EvictAgrees, BatchOf
    <3>4. QED BY <1>1, <3>1, <3>3, PopTyped DEF IInv, TypeOK
  <2>2. CASE r \notin running
    <3>1. UNCHANGED <<running, selfKV, crossKV, finals>>
      BY <2>2 DEF Cancel
    <3>2. BatchInv'
      BY <3>1, BatchOf DEF IInv, BatchInv
    <3>3. QED BY <3>1, <3>2 DEF IInv, TypeOK
  <2>3. QED BY <2>1, <2>2
<1>4. CacheType(selfKV, SelfMax)' /\ CacheType(crossKV, CrossMax)'
  BY <1>3 DEF BatchInv, Sound, Own
<1>5. UNCHANGED <<caller, heard, out, prefillQ, pc, stepCount, finished, tokens,
                  yielded, rr>>
  BY DEF Cancel, routeVars
<1>6. cancelQ' \in Seq(Req) /\ pendingOut' \subseteq Req
  BY <1>1 DEF Cancel, IInv, TypeOK
<1>7. TypeOK'
  BY <1>3, <1>4, <1>5, <1>6 DEF IInv, TypeOK
<1>8. QED BY <1>3, <1>7 DEF IInv

----------------------------------------------------------------------------
(* Steps *)

\* A step of the cache lengthens the rows in use by one and moves nothing.
LEMMA GrowFacts ==
    ASSUME NEW c, NEW max \in Nat, Sound(c, max),
           \A p \in Held(c) : c.len[c.slotOf[p]] < max
    PROVE  LET d == Grow(c)
           IN  /\ Sound(d, max) /\ d.slotOf = c.slotOf /\ Held(d) = Held(c)
               /\ \A p \in Held(c) : d.len[d.slotOf[p]] = c.len[c.slotOf[p]] + 1
<1> DEFINE newLen == [s \in Slot |-> IF \E p \in Held(c) : c.slotOf[p] = s
                                     THEN c.len[s] + 1 ELSE c.len[s]]
           d == Grow(c)
<1>1. /\ c = [slotOf |-> c.slotOf, free |-> c.free, rows |-> c.rows, len |-> c.len]
      /\ c.slotOf \in [Held(c) -> Slot] /\ c.len \in [Slot -> 0 .. max]
  BY DEF Sound, Own, CacheType
<1>2. d = [slotOf |-> c.slotOf, free |-> c.free, rows |-> c.rows, len |-> newLen]
  BY <1>1 DEF Grow
<1>3. newLen \in [Slot -> 0 .. max]
  <2> SUFFICES ASSUME NEW s \in Slot PROVE newLen[s] \in 0 .. max
    OBVIOUS
  <2>1. c.len[s] \in 0 .. max
    BY <1>1
  <2>2. CASE \E p \in Held(c) : c.slotOf[p] = s
    BY <2>1, <2>2
  <2>3. CASE ~ \E p \in Held(c) : c.slotOf[p] = s
    BY <2>1, <2>3
  <2>4. QED BY <2>2, <2>3
<1>4. \A p \in Held(c) : newLen[c.slotOf[p]] = c.len[c.slotOf[p]] + 1
  BY <1>1
<1> HIDE DEF newLen, d
<1>5. Held(d) = Held(c) /\ d.slotOf = c.slotOf
  BY <1>2 DEF Held
<1>6. CacheType(d, max)
  <2>1. d = [slotOf |-> d.slotOf, free |-> d.free, rows |-> d.rows, len |-> d.len]
        /\ d.free = c.free /\ d.rows = c.rows /\ d.len = newLen
    BY <1>2
  <2>2. Held(c) \subseteq Req /\ c.free \subseteq Slot /\ c.rows \in [Slot -> Req \union {Nobody}]
    BY DEF Sound, Own, CacheType
  <2>3. QED BY <1>1, <1>3, <1>5, <2>1, <2>2 DEF CacheType
<1>7. Own(d, max) /\ Contiguous(d)
  <2>1. Contiguous(d)
    BY <1>5 DEF Sound, Contiguous
  <2>2. d.free = c.free /\ d.rows = c.rows
    BY <1>2
  <2>3. \A s \in d.free : d.len[s] = 0
    <3>1. \A s \in c.free : s \in Slot /\ c.len[s] = 0 /\ ~\E p \in Held(c) : c.slotOf[p] = s
      BY DEF Sound, Own
    <3>2. d.len = newLen
      BY <1>2
    <3>3. QED BY <2>2, <3>1, <3>2 DEF newLen
  <2>4. QED BY <1>5, <1>6, <2>1, <2>2, <2>3 DEF Sound, Own
<1>8. QED BY <1>2, <1>4, <1>5, <1>7 DEF Sound, d

\* The order of the slots lists a set of running requests, each once.
LEMMA SlotOrderTyped ==
    ASSUME IInv, NEW P, P \subseteq running
    PROVE  /\ Cardinality(P) \in Nat
           /\ InSlotOrder(selfKV, P) \in Seq(Req)
<1>1. Own(selfKV, SelfMax) /\ Held(selfKV) = running /\ SelfMax \in Nat
  BY LengthAssumption DEF IInv, BatchInv, Sound
<1>2. /\ IsFiniteSet(P)
      /\ \A p \in P : selfKV.slotOf[p] \in Nat
      /\ \A p, q \in P : selfKV.slotOf[p] = selfKV.slotOf[q] => p = q
  <2>1. P \in SUBSET Held(selfKV)
    BY <1>1
  <2>2. QED BY <1>1, <2>1, OwnFacts, FS_Subset
<1>3. /\ Cardinality(P) \in Nat
      /\ \A k \in 0 .. Cardinality(P) - 1 : \E p \in P : Place(selfKV.slotOf, P, p) = k
  BY <1>2, Ranking
<1>4. \A i \in 1 .. Cardinality(P) :
        (CHOOSE p \in P : Place(selfKV.slotOf, P, p) = i - 1) \in P
  <2> SUFFICES ASSUME NEW i \in 1 .. Cardinality(P)
               PROVE  \E p \in P : Place(selfKV.slotOf, P, p) = i - 1
    OBVIOUS
  <2>1. i - 1 \in 0 .. Cardinality(P) - 1
    BY <1>3
  <2>2. QED BY <1>3, <2>1
<1>5. InSlotOrder(selfKV, P) \in [1 .. Cardinality(P) -> P]
  BY <1>4 DEF InSlotOrder
<1>6. InSlotOrder(selfKV, P) \in [1 .. Cardinality(P) -> Req]
  BY <1>5 DEF IInv, TypeOK
<1>7. QED BY <1>3, <1>6

\* A step that raises leaves the batch as it was; one that does not evicts those
\* that have ended from both caches.
LEMMA StepInv ==
    ASSUME IInv, Step
    PROVE  IInv'
<1>1. CASE StepRaises
  <2>1. Die
    BY <1>1 DEF Step
  <2>2. BatchInv'
    BY <2>1, BatchUnchanged DEF IInv, Die
  <2>3. CacheType(selfKV, SelfMax)' /\ CacheType(crossKV, CrossMax)'
    BY <2>2 DEF BatchInv, Sound, Own
  <2>4. out' \in [Req -> Seq(Message)]
    <3>1. \A r \in Req : out[r] \in Seq(Message) /\ Append(out[r], Error) \in Seq(Message)
      BY MessagesTyped DEF IInv, TypeOK
    <3>2. QED BY <2>1, <3>1 DEF Die
  <2>5. UNCHANGED <<caller, heard, prefillQ, cancelQ, stepCount, finished, running,
                    tokens, yielded, finals, rr>>
    BY <2>1 DEF Die, queueVars, batchVars, audioVars
  <2>6. pc' \in {"admit", "cancel", "step", "deliver", "dead"} /\ pendingOut' \subseteq Req
    BY <2>1 DEF Die
  <2>7. TypeOK'
    BY <2>3, <2>4, <2>5, <2>6 DEF IInv, TypeOK
  <2>8. QED BY <2>2, <2>7 DEF IInv
<1>2. CASE ~StepRaises
  <2>1. Decode
    BY <1>2 DEF Step
  <2>2. SelfMax \in Nat /\ CrossMax \in Nat
    BY LengthAssumption
  <2> DEFINE grown == Grow(selfKV)
  <2>3. PICK gone \in SUBSET running :
          /\ tokens' = [r \in Req |-> IF r \in running THEN tokens[r] + 1 ELSE tokens[r]]
          /\ running' = running \ gone
          /\ selfKV' = IF gone = {} THEN grown ELSE Compact(Release(grown, gone))
          /\ crossKV' = IF gone = {} THEN crossKV ELSE Compact(Release(crossKV, gone))
          /\ finals' = finals \o InSlotOrder(selfKV, gone)
          /\ finished' = gone
          /\ stepCount' = (stepCount + 1) % DecodeEvery
          /\ pc' = IF gone # {} \/ stepCount' = 0 THEN "deliver" ELSE "admit"
    <3>1. PICK E \in SUBSET {r \in running : MayEnd(r)} :
            LET gone == E \union {r \in running : OutOfRoom(grown, r)}
            IN  /\ tokens' = [r \in Req |-> IF r \in running THEN tokens[r] + 1 ELSE tokens[r]]
                /\ running' = running \ gone
                /\ selfKV' = IF gone = {} THEN grown ELSE Compact(Release(grown, gone))
                /\ crossKV' = IF gone = {} THEN crossKV ELSE Compact(Release(crossKV, gone))
                /\ finals' = finals \o InSlotOrder(selfKV, gone)
                /\ finished' = gone
                /\ stepCount' = (stepCount + 1) % DecodeEvery
                /\ pc' = IF gone # {} \/ stepCount' = 0 THEN "deliver" ELSE "admit"
      BY <2>1 DEF Decode
    <3> DEFINE g == E \union {r \in running : OutOfRoom(grown, r)}
    <3>2. g \in SUBSET running
      OBVIOUS
    <3> HIDE DEF grown
    <3>3. QED BY <3>1, <3>2
  <2>4. /\ Sound(grown, SelfMax) /\ grown.slotOf = selfKV.slotOf /\ Held(grown) = running
    <3>1. \A p \in Held(selfKV) : selfKV.len[selfKV.slotOf[p]] < SelfMax
      <4>1. \A p \in Held(selfKV) : selfKV.len[selfKV.slotOf[p]] \in 0 .. SelfMax
        BY DEF IInv, TypeOK, CacheType
      <4>2. QED BY <1>2, <2>2, <4>1 DEF StepRaises, IInv, BatchInv
    <3>2. QED BY <2>2, <3>1, GrowFacts DEF IInv, BatchInv
  <2> HIDE DEF grown
  <2>5. BatchInv'
    <3>1. CASE gone = {}
      <4>1. selfKV' = grown /\ crossKV' = crossKV /\ running' = running
        BY <2>3, <3>1
      <4>2. QED BY <2>4, <4>1, BatchOf DEF IInv, BatchInv
    <3>2. CASE gone # {}
      <4>1. /\ selfKV' = Compact(Release(grown, gone))
            /\ crossKV' = Compact(Release(crossKV, gone))
            /\ running' = running \ gone
        BY <2>3, <3>2
      <4>2. gone \subseteq Held(grown) /\ Own(grown, SelfMax) /\ Own(crossKV, CrossMax)
            /\ grown.slotOf = crossKV.slotOf
        BY <2>3, <2>4 DEF IInv, BatchInv, Sound
      <4>3. QED BY <2>2, <2>4, <4>1, <4>2, EvictAgrees, BatchOf
    <3>3. QED BY <3>1, <3>2
  <2>6. CacheType(selfKV, SelfMax)' /\ CacheType(crossKV, CrossMax)'
    BY <2>5 DEF BatchInv, Sound, Own
  <2>7. finals' \in Seq(Req)
    <3>1. InSlotOrder(selfKV, gone) \in Seq(Req)
      BY <2>3, SlotOrderTyped DEF IInv, TypeOK
    <3>2. QED BY <2>3, <3>1 DEF IInv, TypeOK
  <2>8. stepCount' \in 0 .. DecodeEvery - 1
    BY <2>3, TickAssumption DEF IInv, TypeOK
  <2>9. tokens' \in [Req -> Nat] /\ running' \subseteq Req /\ finished' \subseteq Req
        /\ pc' \in {"admit", "cancel", "step", "deliver", "dead"}
    BY <2>3 DEF IInv, TypeOK
  <2>10. UNCHANGED <<caller, heard, out, prefillQ, cancelQ, pendingOut, yielded, rr>>
    BY <2>1 DEF Decode, routeVars, queueVars
  <2>11. TypeOK'
    BY <2>6, <2>7, <2>8, <2>9, <2>10 DEF IInv, TypeOK
  <2>12. QED BY <2>5, <2>11 DEF IInv
<1>3. QED BY <1>1, <1>2

----------------------------------------------------------------------------
(* Audio *)

\* The arithmetic of the windows: whatever the lookback, the first sample sent
\* is the first one still owed, and what is sent is as long as it is counted.
LEMMA WindowFacts ==
    ASSUME IInv, NEW r \in Req
    PROVE  /\ From(r) = yielded[r]
           /\ Total(r) \in Nat
           /\ LiveChunk(r) => Total(r) - Stride \in Nat /\ Total(r) - Stride > yielded[r]
<1>1. yielded[r] \in Nat /\ tokens[r] \in Nat
  BY DEF IInv, TypeOK
<1>2. Hop \in Nat \ {0} /\ Stride \in Nat /\ Codebooks \in Nat \ {0} /\ Context \in Nat
  BY AudioAssumption
<1>3. Codes(tokens[r]) \in Nat
  BY <1>1, <1>2 DEF Codes
<1>4. Total(r) \in Nat
  BY <1>2, <1>3 DEF Total
<1>5. yielded[r] \div Hop \in Nat
  BY <1>1, <1>2
<1>6. Owed(r) \in Nat
  BY <1>2, <1>5 DEF Owed
<1>7. Owed(r) * Hop \in Nat
  BY <1>2, <1>6
<1>8. From(r) = yielded[r]
  BY <1>1, <1>7 DEF From, Skip
<1>9. QED BY <1>1, <1>2, <1>4, <1>8 DEF LiveChunk

\* Delivery touches neither the batch nor its caches.
LEMMA DeliverInv ==
    ASSUME IInv, Deliver
    PROVE  IInv'
<1> DEFINE n == Cardinality(running)
           live == {r \in (IF running = {} THEN {} ELSE Turn) : LiveChunk(r)}
           final == {r \in FirstFinals(Ticks) : FinalChunk(r)}
           upto(r) == IF r \in live THEN Total(r) - Stride ELSE Total(r)
           sent(r) == IF r \in live \union final
                      THEN Append(out[r], Audio(From(r), upto(r))) ELSE out[r]
           least == IF n < MaxLive THEN n ELSE MaxLive
<1>1. /\ yielded' = [r \in Req |-> IF r \in live THEN upto(r) ELSE yielded[r]]
      /\ finals' = SubSeq(finals, Ticks * MaxFinals + 1, Len(finals))
      /\ rr' = IF running = {} THEN 0 ELSE (Start + least) % n
      /\ out' = [r \in Req |->
                   IF r \notin pendingOut THEN out[r]
                   ELSE IF r \in finished THEN Append(sent(r), Done)
                   ELSE sent(r)]
      /\ pendingOut' = pendingOut \ finished
      /\ finished' = {} /\ pc' = "admit"
      /\ UNCHANGED <<caller, heard, prefillQ, cancelQ, stepCount, running, tokens>>
  BY DEF Deliver, queueVars, batchVars
<1>2. BatchInv'
  BY BatchUnchanged DEF IInv, Deliver
<1>3. CacheType(selfKV, SelfMax)' /\ CacheType(crossKV, CrossMax)'
  BY <1>2 DEF BatchInv, Sound, Own
<1>4. \A r \in Req : yielded[r] \in Nat /\ From(r) \in Nat /\ upto(r) \in Nat
  <2> SUFFICES ASSUME NEW r \in Req
               PROVE  yielded[r] \in Nat /\ From(r) \in Nat /\ upto(r) \in Nat
    OBVIOUS
  <2>1. yielded[r] \in Nat
    BY DEF IInv, TypeOK
  <2>2. From(r) = yielded[r] /\ Total(r) \in Nat
    BY WindowFacts
  <2>3. r \in live => Total(r) - Stride \in Nat
    BY WindowFacts
  <2> HIDE DEF live
  <2>4. QED BY <2>1, <2>2, <2>3
<1> HIDE DEF live, upto, final
<1>5. yielded' \in [Req -> Nat]
  BY <1>1, <1>4
<1>6. out' \in [Req -> Seq(Message)]
  <2>1. \A r \in Req : sent(r) \in Seq(Message)
    <3> SUFFICES ASSUME NEW r \in Req PROVE sent(r) \in Seq(Message)
      OBVIOUS
    <3>1. out[r] \in Seq(Message)
      BY DEF IInv, TypeOK
    <3>2. Audio(From(r), upto(r)) \in Message
      BY <1>4, MessagesTyped
    <3>3. Append(out[r], Audio(From(r), upto(r))) \in Seq(Message)
      BY <3>1, <3>2
    <3>4. QED BY <3>1, <3>3
  <2> HIDE DEF sent
  <2>2. \A r \in Req : Append(sent(r), Done) \in Seq(Message) /\ out[r] \in Seq(Message)
    BY <2>1, MessagesTyped DEF IInv, TypeOK
  <2>3. QED BY <1>1, <2>1, <2>2
<1>7. finals' \in Seq(Req)
  <2>1. Ticks \in Nat
    <3>1. IsFiniteSet(1 .. DrainTicks)
      BY TickAssumption, FS_Interval
    <3>2. QED BY <3>1, FS_Subset, FS_CardinalityType DEF Ticks
  <2>2. Ticks * MaxFinals + 1 \in Nat \ {0}
    <3>1. Ticks * MaxFinals \in Nat
      BY <2>1, TickAssumption
    <3>2. QED BY <3>1
  <2>3. finals \in Seq(Req) /\ Len(finals) \in Nat
    BY DEF IInv, TypeOK
  <2>4. SubSeq(finals, Ticks * MaxFinals + 1, Len(finals)) \in Seq(Req)
    BY <2>2, <2>3
  <2>5. QED BY <1>1, <2>4
<1>8. rr' \in Nat
  <2>1. CASE running = {}
    BY <1>1, <2>1
  <2>2. CASE running # {}
    <3>1. IsFiniteSet(running)
      BY CacheAssumption, FS_Subset DEF IInv, TypeOK
    <3>2. n \in Nat \ {0}
      BY <2>2, <3>1, FS_CardinalityType, FS_EmptySet
    <3>3. Start \in Nat /\ least \in Nat
      BY <3>2, TickAssumption DEF Start, IInv, TypeOK
    <3> HIDE DEF n, least
    <3>4. Start + least \in Nat
      BY <3>3
    <3>5. (Start + least) % n \in Nat
      BY <3>2, <3>4
    <3>6. QED BY <1>1, <2>2, <3>5
  <2>3. QED BY <2>1, <2>2
<1>9. pendingOut' \subseteq Req /\ finished' \subseteq Req
      /\ pc' \in {"admit", "cancel", "step", "deliver", "dead"}
  BY <1>1 DEF IInv, TypeOK
<1>10. UNCHANGED <<caller, heard, prefillQ, cancelQ, stepCount, running, tokens>>
  BY <1>1
<1>11. TypeOK'
  BY <1>3, <1>5, <1>6, <1>7, <1>8, <1>9, <1>10 DEF IInv, TypeOK
<1>12. QED BY <1>2, <1>11 DEF IInv

----------------------------------------------------------------------------
(* The theorems *)

\* Two empty caches agree.
LEMMA InitInv ==
    ASSUME Init
    PROVE  IInv
<1>1. SelfMax \in Nat /\ CrossMax \in Nat
  BY LengthAssumption
<1>2. /\ Sound(EmptyCache, SelfMax) /\ Sound(EmptyCache, CrossMax)
      /\ Held(EmptyCache) = {}
  BY <1>1, EmptyFacts
<1>3. BatchInv
  BY <1>2 DEF Init, BatchInv
<1>4. CacheType(selfKV, SelfMax) /\ CacheType(crossKV, CrossMax)
  BY <1>3 DEF BatchInv, Sound, Own
<1>5. <<>> \in Seq(Req) /\ <<>> \in Seq(Message)
  OBVIOUS
<1>6. TypeOK
  BY <1>4, <1>5, TickAssumption DEF Init, TypeOK
<1>7. QED BY <1>3, <1>6 DEF IInv

\* The batch's invariant is one of every behaviour: admission and its undoing,
\* cancellation, steps and delivery preserve it.
THEOREM BatchHolds == Spec => []IInv
<1>1. Init => IInv
  BY InitInv
<1>2. IInv /\ [Next]_vars => IInv'
  <2> SUFFICES ASSUME IInv, [Next]_vars PROVE IInv'
    OBVIOUS
  <2>1. CASE Admit
    BY <2>1, AdmitInv
  <2>2. CASE AdmitDone \/ CancelDone
    BY <2>2, QuietInv
  <2>3. CASE Cancel
    BY <2>3, CancelInv
  <2>4. CASE Step
    BY <2>4, StepInv
  <2>5. CASE Deliver
    BY <2>5, DeliverInv
  <2>6. CASE \E r \in Req : Route(r)
    BY <2>6, RouteInv
  <2>7. CASE UNCHANGED vars
    <3>1. BatchInv'
      BY <2>7, BatchUnchanged DEF IInv, vars
    <3>2. TypeOK'
      BY <2>7 DEF IInv, TypeOK, vars, routeVars, queueVars, batchVars, audioVars
    <3>3. QED BY <3>1, <3>2 DEF IInv
  <2>8. QED BY <2>1, <2>2, <2>3, <2>4, <2>5, <2>6, <2>7 DEF Next, Worker
<1>3. QED BY <1>1, <1>2, PTL DEF Spec

\* The engine is type correct: no cache outgrows its rows.
THEOREM EngineTypes == Spec => []TypeOK
<1>1. IInv => TypeOK
  BY DEF IInv
<1>2. QED BY <1>1, BatchHolds, PTL

\* Both caches always hold exactly the running requests, in the same slots.
THEOREM CachesAlwaysAgree == Spec => []CachesAgree
<1>1. IInv => CachesAgree
  BY BatchFacts DEF IInv
<1>2. QED BY <1>1, BatchHolds, PTL

\* The batch is always contiguous, and every request's row is its own.
THEOREM RowsAlwaysOwn == Spec => []RowsAreOwn
<1>1. IInv => RowsAreOwn
  BY BatchFacts DEF IInv
<1>2. QED BY <1>1, BatchHolds, PTL

\* The loop that compacts in place and the single move agree at every
\* compaction, whichever requests are released before it.
THEOREM CompactsAlwaysInPlace == Spec => []CompactsInPlace
<1>1. ASSUME IInv PROVE CompactsInPlace
  <2>1. ASSUME NEW c, NEW max \in Nat, Own(c, max), NEW P \in SUBSET Held(c)
        PROVE  CompactLoop(Release(c, P)) = Compact(Release(c, P))
    <3>1. Own(Release(c, P), max)
      BY <2>1, ReleaseFacts
    <3>2. QED BY <2>1, <3>1, LoopFacts
  <2>2. /\ Own(selfKV, SelfMax) /\ SelfMax \in Nat
        /\ Own(crossKV, CrossMax) /\ CrossMax \in Nat
    BY <1>1, LengthAssumption DEF IInv, BatchInv, Sound
  <2>3. QED BY <2>1, <2>2 DEF CompactsInPlace
<1>2. QED BY <1>1, BatchHolds, PTL

----------------------------------------------------------------------------
(* What the worker dies of *)

\* Whoever runs has room in its row for one more position, or comes straight from
\* its prefill: with it and the agreement of the caches, a step that raises has
\* found a prompt that filled its row.
RoomInv ==
    \A p \in running : selfKV.len[selfKV.slotOf[p]] < SelfMax \/ tokens[p] = 2

\* Admission leaves the rows and the tokens of the others alone.
LEMMA AdmitRoom ==
    ASSUME IInv, RoomInv, Admit
    PROVE  RoomInv'
<1> DEFINE r == Head(prefillQ)
<1>1. r \in Req
  BY DEF IInv, TypeOK, Admit
<1>2. SelfMax \in Nat /\ CrossMax \in Nat /\ Held(selfKV) = running
  BY LengthAssumption DEF IInv, BatchInv
<1>3. PICK n \in PromptLens, m \in DescLens :
        LET noSelf  == PrefillRaises(selfKV, r, n, SelfMax)
            noCross == PrefillRaises(crossKV, r, m, CrossMax)
            self1   == Prefill(selfKV, r, n)
            cross1  == Prefill(crossKV, r, m)
        IN  \/ "encode" \in Trouble /\ Abort(r, selfKV, crossKV)
            \/ noSelf /\ Abort(r, selfKV, crossKV)
            \/ ~noSelf /\ noCross /\ Abort(r, self1, crossKV)
            \/ ~noSelf /\ ~noCross /\ "sample" \in Trouble /\ Abort(r, self1, cross1)
            \/ /\ ~noSelf /\ ~noCross
               /\ running' = running \union {r}
               /\ pendingOut' = pendingOut \union {r}
               /\ tokens' = [tokens EXCEPT ![r] = 2]
               /\ selfKV' = self1 /\ crossKV' = cross1
               /\ UNCHANGED <<out, finals>>
  BY DEF Admit
<1>4. n \in Nat /\ m \in Nat
  BY LengthAssumption
<1> DEFINE self1 == Prefill(selfKV, r, n)
           cross1 == Prefill(crossKV, r, m)
           noSelf == PrefillRaises(selfKV, r, n, SelfMax)
           noCross == PrefillRaises(crossKV, r, m, CrossMax)
<1> HIDE DEF r
<1>6. RoomInv'
  <2>1. CASE Abort(r, selfKV, crossKV)
    <3>1. CASE r \notin running
      <4>1. /\ running' = running
            /\ \A q \in running : selfKV'.len[selfKV'.slotOf[q]] = selfKV.len[selfKV.slotOf[q]]
        BY <1>1, <1>4, <2>1, <3>1, AbortInv
      <4>2. QED BY <2>1, <4>1 DEF RoomInv, Abort
    <3>2. CASE r \in running
      <4>1. selfKV' = Compact(Release(selfKV, {r})) /\ running' = running \ {r}
        BY <1>2, <2>1, <3>2 DEF Abort
      <4>2. {r} \subseteq Held(selfKV) /\ Own(selfKV, SelfMax) /\ Own(crossKV, CrossMax)
            /\ selfKV.slotOf = crossKV.slotOf
        BY <1>2, <3>2 DEF IInv, BatchInv, Sound
      <4>3. \A q \in running' : selfKV'.len[selfKV'.slotOf[q]] = selfKV.len[selfKV.slotOf[q]]
        BY <1>2, <4>1, <4>2, EvictAgrees
      <4>4. QED BY <2>1, <4>1, <4>3 DEF RoomInv, Abort
    <3>3. QED BY <3>1, <3>2
  <2>2. CASE ~noSelf /\ noCross /\ Abort(r, self1, crossKV)
    <3>1. r \notin running
      BY <2>2, <1>2 DEF PrefillRaises
    <3>2. /\ running' = running
          /\ \A q \in running : selfKV'.len[selfKV'.slotOf[q]] = selfKV.len[selfKV.slotOf[q]]
      BY <1>1, <1>4, <2>2, <3>1, AbortInv
    <3>3. QED BY <2>2, <3>2 DEF RoomInv, Abort
  <2>3. CASE ~noSelf /\ ~noCross /\ Abort(r, self1, cross1)
    <3>1. r \notin running
      BY <2>3, <1>2 DEF PrefillRaises
    <3>2. /\ running' = running
          /\ \A q \in running : selfKV'.len[selfKV'.slotOf[q]] = selfKV.len[selfKV.slotOf[q]]
      BY <1>1, <1>4, <2>3, <3>1, AbortInv
    <3>3. QED BY <2>3, <3>2 DEF RoomInv, Abort
  <2>4. CASE /\ ~noSelf /\ running' = running \union {r} /\ selfKV' = self1
             /\ tokens' = [tokens EXCEPT ![r] = 2]
    <3>1. \A q \in running : self1.len[self1.slotOf[q]] = selfKV.len[selfKV.slotOf[q]]
      BY <1>1, <1>2, <1>4, <2>4, PrefillFacts DEF IInv, BatchInv
    <3>2. /\ tokens'[r] = 2
          /\ \A q \in running : q # r => tokens'[q] = tokens[q]
      BY <1>1, <2>4 DEF IInv, TypeOK
    <3> HIDE DEF self1
    <3>3. QED BY <2>4, <3>1, <3>2 DEF RoomInv
  <2>5. QED BY <1>3, <2>1, <2>2, <2>3, <2>4
<1>7. QED BY <1>6

\* So does a cancellation.
LEMMA CancelRoom ==
    ASSUME IInv, RoomInv, Cancel
    PROVE  RoomInv'
<1> DEFINE r == Head(cancelQ)
<1>1. tokens' = tokens
  BY DEF Cancel
<1>2. CASE r \in running
  <2>1. selfKV' = Compact(Release(selfKV, {r})) /\ running' = running \ {r}
    BY <1>2 DEF Cancel
  <2>2. {r} \subseteq Held(selfKV) /\ Own(selfKV, SelfMax) /\ Own(crossKV, CrossMax)
        /\ selfKV.slotOf = crossKV.slotOf /\ Held(selfKV) = running
        /\ SelfMax \in Nat /\ CrossMax \in Nat
    BY <1>2, LengthAssumption DEF IInv, BatchInv, Sound
  <2>3. \A q \in running' : selfKV'.len[selfKV'.slotOf[q]] = selfKV.len[selfKV.slotOf[q]]
    BY <2>1, <2>2, EvictAgrees
  <2>4. QED BY <1>1, <2>1, <2>3 DEF RoomInv
<1>3. CASE r \notin running
  <2>1. selfKV' = selfKV /\ running' = running
    BY <1>3 DEF Cancel
  <2>2. QED BY <1>1, <2>1 DEF RoomInv
<1>4. QED BY <1>2, <1>3

\* A step that raises changes no row; after any other whoever is left with no
\* room for the next one has been evicted: check_stopping_criteria looks two
\* positions ahead.
LEMMA StepRoom ==
    ASSUME IInv, RoomInv, Step
    PROVE  RoomInv'
<1>1. SelfMax \in Nat /\ CrossMax \in Nat /\ Held(selfKV) = running
      /\ Held(crossKV) = running
  BY LengthAssumption DEF IInv, BatchInv, Held
<1>2. \A p \in running : selfKV.len[selfKV.slotOf[p]] \in Nat
  BY <1>1 DEF IInv, TypeOK, CacheType
<1> SUFFICES ASSUME ~StepRaises PROVE RoomInv'
  BY DEF Step, Die, batchVars, RoomInv
<1>3. \A p \in running : selfKV.len[selfKV.slotOf[p]] < SelfMax
  BY <1>1, <1>2 DEF StepRaises
<1>4. Decode
  BY DEF Step
<1> DEFINE grown == Grow(selfKV)
<1>5. PICK gone \in SUBSET running :
        /\ {r \in running : OutOfRoom(grown, r)} \subseteq gone
        /\ running' = running \ gone
        /\ selfKV' = IF gone = {} THEN grown ELSE Compact(Release(grown, gone))
  <2>1. PICK E \in SUBSET {r \in running : MayEnd(r)} :
          LET gone == E \union {r \in running : OutOfRoom(grown, r)}
          IN  /\ running' = running \ gone
              /\ selfKV' = IF gone = {} THEN grown ELSE Compact(Release(grown, gone))
    BY <1>4 DEF Decode
  <2> DEFINE g == E \union {r \in running : OutOfRoom(grown, r)}
  <2>2. g \in SUBSET running
    OBVIOUS
  <2> HIDE DEF grown
  <2>3. QED BY <2>1, <2>2
<1>6. /\ Sound(grown, SelfMax) /\ grown.slotOf = selfKV.slotOf /\ Held(grown) = running
      /\ \A p \in running : grown.len[grown.slotOf[p]] = selfKV.len[selfKV.slotOf[p]] + 1
  BY <1>1, <1>3, GrowFacts DEF IInv, BatchInv
<1> HIDE DEF grown
<1>7. \A q \in running \ gone : grown.len[grown.slotOf[q]] < SelfMax
  BY <1>1, <1>2, <1>5, <1>6 DEF OutOfRoom
<1>8. CASE gone = {}
  <2>1. selfKV' = grown /\ running' = running
    BY <1>5, <1>8
  <2>2. QED BY <1>7, <1>8, <2>1 DEF RoomInv
<1>9. CASE gone # {}
  <2>1. selfKV' = Compact(Release(grown, gone)) /\ running' = running \ gone
    BY <1>5, <1>9
  <2>2. gone \subseteq Held(grown) /\ Own(grown, SelfMax) /\ Own(crossKV, CrossMax)
        /\ grown.slotOf = crossKV.slotOf
    BY <1>5, <1>6 DEF IInv, BatchInv, Sound
  <2>3. \A q \in running' : selfKV'.len[selfKV'.slotOf[q]] = grown.len[grown.slotOf[q]]
    BY <1>1, <1>6, <2>1, <2>2, EvictAgrees
  <2>4. QED BY <1>7, <2>1, <2>3 DEF RoomInv
<1>10. QED BY <1>8, <1>9

\* The inference thread dies of nothing but a prompt that fills its row exactly,
\* in the step after its prefill: not of the failures of prefill, of hang-ups, of
\* evictions or of sequences that reach the end of their rows.
THEOREM WorkerDiesOnlyOfFullPrompt == Spec => DiesOnlyOfFullPrompt
<1>1. Init => RoomInv
  BY DEF Init, RoomInv
<1>2. IInv /\ RoomInv /\ [Next]_vars => RoomInv'
  <2> SUFFICES ASSUME IInv, RoomInv, [Next]_vars PROVE RoomInv'
    OBVIOUS
  <2>1. CASE Admit
    BY <2>1, AdmitRoom
  <2>2. CASE Cancel
    BY <2>2, CancelRoom
  <2>3. CASE Step
    BY <2>3, StepRoom
  <2>4. CASE AdmitDone \/ CancelDone
    BY <2>4 DEF RoomInv, AdmitDone, CancelDone, batchVars
  <2>5. CASE Deliver
    BY <2>5 DEF RoomInv, Deliver, batchVars
  <2>6. CASE \E r \in Req : Route(r)
    BY <2>6 DEF RoomInv, Route, Post, Hear, Leave, batchVars
  <2>7. CASE UNCHANGED vars
    BY <2>7 DEF RoomInv, vars, batchVars
  <2>8. QED BY <2>1, <2>2, <2>3, <2>4, <2>5, <2>6, <2>7 DEF Next, Worker
<1>3. ASSUME IInv, RoomInv, [Next]_vars, pc' = "dead", pc # "dead"
      PROVE  \E r \in Held(selfKV) :
                 tokens[r] = 2 /\ selfKV.len[selfKV.slotOf[r]] = SelfMax
  <2>1. Step /\ StepRaises
    BY <1>3 DEF Next, Worker, Admit, AdmitDone, Cancel, CancelDone, Step, Decode, Deliver,
                Route, Post, Hear, Leave, vars
  <2>2. SelfMax \in Nat /\ Held(selfKV) = running /\ Held(crossKV) = running
    BY <1>3, LengthAssumption DEF IInv, BatchInv, Held
  <2>3. PICK r \in running : selfKV.len[selfKV.slotOf[r]] >= SelfMax
    BY <2>1, <2>2 DEF StepRaises
  <2>4. selfKV.len[selfKV.slotOf[r]] \in 0 .. SelfMax
    BY <1>3, <2>2 DEF IInv, TypeOK, CacheType
  <2>5. selfKV.len[selfKV.slotOf[r]] = SelfMax
    BY <2>2, <2>3, <2>4
  <2>6. tokens[r] = 2
    BY <1>3, <2>2, <2>5 DEF RoomInv
  <2>7. QED BY <2>2, <2>5, <2>6
<1>4. IInv /\ RoomInv /\ [Next]_vars =>
        [pc' = "dead" /\ pc # "dead" =>
            \E r \in Held(selfKV) :
                tokens[r] = 2 /\ selfKV.len[selfKV.slotOf[r]] = SelfMax]_vars
  BY <1>3
<1>5. QED BY <1>1, <1>2, <1>4, BatchHolds, PTL DEF Spec, DiesOnlyOfFullPrompt
=============================================================================
