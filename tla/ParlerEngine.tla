---------------------------- MODULE ParlerEngine ----------------------------
(* The Indic Parler speech server: server.py's routes and its one inference *)
(* thread, which admits queued requests, drops the cancelled ones, steps    *)
(* the whole batch and streams the audio decoded so far (runner.py) over    *)
(* two KV caches, DenseKV.  The routes and the thread share three kinds of  *)
(* queue, and nothing else: requests, cancellations, and each caller's      *)
(* output.  Token values, logits and waveforms are abstracted: what counts  *)
(* is how many tokens a request has, when it ends, and which samples of its *)
(* audio reach the caller.                                                  *)
EXTENDS DenseKV, Sequences

CONSTANTS
    PromptLens,     \* how many positions a prompt may take in self-attention
    DescLens,       \* how many a description may take in cross-attention
    SelfMax,        \* max_seq_len of self_attn_vmem
    CrossMax,       \* max_seq_len of cross_attn_vmem
    Codebooks,      \* num_codebooks
    Hop,            \* samples per code frame
    Context,        \* _dac_context_frames
    Stride,         \* _audio_stride: the samples held back
    DecodeEvery,    \* decode_every
    MaxLive,        \* _dac_max_live_per_tick
    MaxFinals,      \* _dac_max_finals_per_tick
    DrainTicks,     \* ticks of a drain
    Trouble,        \* the stages of prefill that may raise by themselves
    Leaver          \* the callers that may hang up

ASSUME LengthAssumption ==
    /\ PromptLens \subseteq Nat \ {0} /\ DescLens \subseteq Nat \ {0}
    /\ SelfMax \in Nat /\ CrossMax \in Nat
ASSUME AudioAssumption ==
    /\ Codebooks \in Nat \ {0} /\ Hop \in Nat \ {0}
    /\ Context \in Nat /\ Stride \in Nat
ASSUME TickAssumption ==
    /\ DecodeEvery \in Nat \ {0} /\ MaxLive \in Nat
    /\ MaxFinals \in Nat \ {0} /\ DrainTicks \in Nat \ {0}
    /\ Trouble \subseteq {"encode", "sample"} /\ Leaver \subseteq Req

VARIABLES
    \* the routes
    caller,     \* "idle", "waiting", then how its stream ended
    heard,      \* the samples a caller has received
    out,        \* out_q of each caller
    prefillQ,   \* _prefill_q
    cancelQ,    \* _cancel_q
    \* the worker thread
    pc,         \* where _worker_loop is; "dead" after _worker_error
    pendingOut, \* the keys of pending_out
    stepCount,  \* step_count modulo decode_every
    finished,   \* the requests that ended in this iteration
    \* the runner
    running,    \* the keys of running_requests
    tokens,     \* the length of token_cache
    yielded,    \* audio_to_yield
    finals,     \* the keys of _pending_final_tokens, in the order of insertion
    rr,         \* _dac_rr
    selfKV, crossKV

routeVars == <<caller, heard, out>>
queueVars == <<prefillQ, cancelQ>>
batchVars == <<running, tokens, selfKV, crossKV>>
audioVars == <<yielded, finals, rr>>
vars == <<routeVars, queueVars, pc, pendingOut, stepCount, finished,
          batchVars, audioVars>>

Audio(from, to) == [kind |-> "audio", from |-> from, to |-> to]
Done == [kind |-> "done", from |-> 0, to |-> 0]
Error == [kind |-> "error", from |-> 0, to |-> 0]
Message == [kind : {"audio", "done", "error"}, from : Nat, to : Nat]

TypeOK ==
    /\ caller \in [Req -> {"idle", "waiting", "done", "error", "left"}]
    /\ heard \in [Req -> Nat]
    /\ out \in [Req -> Seq(Message)]
    /\ prefillQ \in Seq(Req) /\ cancelQ \in Seq(Req)
    /\ pc \in {"admit", "cancel", "step", "deliver", "dead"}
    /\ pendingOut \subseteq Req /\ finished \subseteq Req /\ running \subseteq Req
    /\ stepCount \in 0 .. DecodeEvery - 1
    /\ tokens \in [Req -> Nat] /\ yielded \in [Req -> Nat]
    /\ finals \in Seq(Req)
    /\ rr \in Nat
    /\ CacheType(selfKV, SelfMax) /\ CacheType(crossKV, CrossMax)

Init ==
    /\ caller = [r \in Req |-> "idle"]
    /\ heard = [r \in Req |-> 0]
    /\ out = [r \in Req |-> <<>>]
    /\ prefillQ = <<>> /\ cancelQ = <<>>
    /\ pc = "admit" /\ stepCount = 0 /\ rr = 0
    /\ pendingOut = {} /\ finished = {} /\ running = {}
    /\ tokens = [r \in Req |-> 0] /\ yielded = [r \in Req |-> 0]
    /\ finals = <<>>
    /\ selfKV = EmptyCache /\ crossKV = EmptyCache

Put(r, m) == out' = [out EXCEPT ![r] = Append(@, m)]

\* pop(r, None) from a dictionary whose keys are q, in the order of insertion.
Pop(q, r) ==
    IF \E i \in DOMAIN q : q[i] = r
    THEN LET i == CHOOSE j \in DOMAIN q : q[j] = r
         IN  SubSeq(q, 1, i - 1) \o SubSeq(q, i + 1, Len(q))
    ELSE q

----------------------------------------------------------------------------
(* The route: speech and its stream() generator *)

\* The job is queued whether or not the worker is still alive.
Post(r) ==
    /\ caller[r] = "idle"
    /\ caller' = [caller EXCEPT ![r] = "waiting"]
    /\ prefillQ' = Append(prefillQ, r)
    /\ UNCHANGED <<heard, out, cancelQ, pc, pendingOut, stepCount, finished,
                   batchVars, audioVars>>

\* One message of the queue; an error ends the body and queues a cancellation.
Hear(r) ==
    /\ caller[r] = "waiting"
    /\ out[r] # <<>>
    /\ LET m == Head(out[r])
       IN  /\ heard' = [heard EXCEPT ![r] = IF m.kind = "audio" THEN m.to ELSE @]
           /\ caller' = [caller EXCEPT ![r] = IF m.kind = "audio" THEN @ ELSE m.kind]
           /\ cancelQ' = IF m.kind = "error" THEN Append(cancelQ, r) ELSE cancelQ
    /\ out' = [out EXCEPT ![r] = Tail(@)]
    /\ UNCHANGED <<prefillQ, pc, pendingOut, stepCount, finished, batchVars,
                   audioVars>>

\* The caller is interrupted or hangs up.
Leave(r) ==
    /\ r \in Leaver
    /\ caller[r] = "waiting"
    /\ caller' = [caller EXCEPT ![r] = "left"]
    /\ cancelQ' = Append(cancelQ, r)
    /\ UNCHANGED <<heard, out, prefillQ, pc, pendingOut, stepCount, finished,
                   batchVars, audioVars>>

----------------------------------------------------------------------------
(* The worker: admission *)

\* Slips of abort_prefill: only one cache is freed; the registration is left
\* behind; nobody is told.
AbortKeepsCross(r, self, cross) ==
    /\ running' = running \ {r}
    /\ selfKV' = IF r \in Held(self) THEN Compact(Release(self, {r})) ELSE self
    /\ crossKV' = cross
    /\ finals' = Pop(finals, r)
    /\ pendingOut' = pendingOut \ {r}
    /\ Put(r, Error)
    /\ UNCHANGED tokens
AbortLeavesRunning(r, self, cross) ==
    /\ running' = running \union {r}
    /\ selfKV' = IF r \in Held(self) THEN Compact(Release(self, {r})) ELSE self
    /\ crossKV' = IF r \in Held(cross) THEN Compact(Release(cross, {r})) ELSE cross
    /\ finals' = Pop(finals, r)
    /\ pendingOut' = pendingOut \ {r}
    /\ Put(r, Error)
    /\ UNCHANGED tokens
AbortSilently(r, self, cross) ==
    /\ running' = running \ {r}
    /\ selfKV' = IF r \in Held(self) THEN Compact(Release(self, {r})) ELSE self
    /\ crossKV' = IF r \in Held(cross) THEN Compact(Release(cross, {r})) ELSE cross
    /\ finals' = Pop(finals, r)
    /\ pendingOut' = pendingOut \ {r}
    /\ UNCHANGED <<out, tokens>>

\* abort_prefill, over the caches the prefill has left.
Abort(r, self, cross) ==
    /\ running' = running \ {r}
    /\ selfKV' = IF r \in Held(self) THEN Compact(Release(self, {r})) ELSE self
    /\ crossKV' = IF r \in Held(cross) THEN Compact(Release(cross, {r})) ELSE cross
    /\ finals' = Pop(finals, r)
    /\ pendingOut' = pendingOut \ {r}
    /\ Put(r, Error)
    /\ UNCHANGED tokens

\* runner.prefill of a request tokenized to n and m positions: both caches take
\* it, and it has two tokens; or a stage raises and what is done is undone.
Admit ==
    /\ pc = "admit"
    /\ prefillQ # <<>>
    /\ prefillQ' = Tail(prefillQ)
    /\ \E n \in PromptLens, m \in DescLens :
        LET r == Head(prefillQ)
            noSelf  == PrefillRaises(selfKV, r, n, SelfMax)
            noCross == PrefillRaises(crossKV, r, m, CrossMax)
            self1   == Prefill(selfKV, r, n)
            cross1  == Prefill(crossKV, r, m)
        IN  \/ "encode" \in Trouble /\ Abort(r, selfKV, crossKV)
            \/ noSelf /\ Abort(r, selfKV, crossKV)
            \/ ~noSelf /\ noCross /\ Abort(r, self1, crossKV)
            \/ ~noSelf /\ ~noCross /\ "sample" \in Trouble /\ Abort(r, self1, cross1)
            \/ /\ ~noSelf /\ ~noCross
               /\ running' = running \union {r}
               /\ pendingOut' = pendingOut \union {r}
               /\ tokens' = [tokens EXCEPT ![r] = 2]
               /\ selfKV' = self1 /\ crossKV' = cross1
               /\ UNCHANGED <<out, finals>>
    /\ UNCHANGED <<caller, heard, cancelQ, pc, stepCount, finished, yielded, rr>>

AdmitDone ==
    /\ pc = "admit" /\ prefillQ = <<>>
    /\ pc' = "cancel"
    /\ UNCHANGED <<routeVars, queueVars, pendingOut, stepCount, finished,
                   batchVars, audioVars>>

\* A cancelled request is evicted, and what is left of its audio is dropped.
Cancel ==
    /\ pc = "cancel"
    /\ cancelQ # <<>>
    /\ cancelQ' = Tail(cancelQ)
    /\ LET r == Head(cancelQ)
       IN  /\ IF r \in running
              THEN /\ running' = running \ {r}
                   /\ selfKV' = Compact(Release(selfKV, {r}))
                   /\ crossKV' = Compact(Release(crossKV, {r}))
                   /\ finals' = Pop(finals, r)
              ELSE UNCHANGED <<running, selfKV, crossKV, finals>>
           /\ pendingOut' = pendingOut \ {r}
    /\ UNCHANGED <<routeVars, prefillQ, pc, stepCount, finished, tokens,
                   yielded, rr>>

\* With an empty batch the loop waits and looks at its queues again.
CancelDone ==
    /\ pc = "cancel" /\ cancelQ = <<>>
    /\ pc' = IF running = {} THEN "admit" ELSE "step"
    /\ UNCHANGED <<routeVars, queueVars, pendingOut, stepCount, finished,
                   batchVars, audioVars>>

----------------------------------------------------------------------------
(* The worker: one step of the batch *)

\* What makes runner.step raise: a running request without a slot or a slot
\* without a running request, or a sequence that has filled its row.
StepRaises ==
    \/ Held(selfKV) # running \/ Held(crossKV) # running
    \/ \E r \in running : selfKV.len[selfKV.slotOf[r]] >= SelfMax

\* inference_worker: whoever is in pending_out is told, and nobody else.
Die ==
    /\ pc' = "dead"
    /\ out' = [r \in Req |-> IF r \in pendingOut THEN Append(out[r], Error) ELSE out[r]]
    /\ pendingOut' = {}
    /\ UNCHANGED <<caller, heard, queueVars, stepCount, finished, batchVars, audioVars>>

\* _ordered_pids, of the requests P held by a cache c.
InSlotOrder(c, P) ==
    [i \in 1 .. Cardinality(P) |->
        CHOOSE p \in P : Place(c.slotOf, P, p) = i - 1]

\* Every column of codes is end-of-speech only after each codebook had its turn.
MayEnd(r) == tokens[r] + 1 >= Codebooks + 1

\* check_stopping_criteria: a row within two positions of its end stops too.
OutOfRoom(c, r) == c.len[c.slotOf[r]] + 2 >= SelfMax

\* step, check_stopping_criteria: E are those whose last column ends them.
Decode ==
    \E E \in SUBSET {r \in running : MayEnd(r)} :
        LET grown == Grow(selfKV)
            gone  == E \union {r \in running : OutOfRoom(grown, r)}
        IN  /\ tokens' = [r \in Req |-> IF r \in running THEN tokens[r] + 1 ELSE tokens[r]]
            /\ running' = running \ gone
            /\ selfKV' = IF gone = {} THEN grown ELSE Compact(Release(grown, gone))
            /\ crossKV' = IF gone = {} THEN crossKV ELSE Compact(Release(crossKV, gone))
            /\ finals' = finals \o InSlotOrder(selfKV, gone)
            /\ finished' = gone
            /\ stepCount' = (stepCount + 1) % DecodeEvery
            /\ pc' = IF gone # {} \/ stepCount' = 0 THEN "deliver" ELSE "admit"
            /\ UNCHANGED <<routeVars, queueVars, pendingOut, yielded, rr>>

Step ==
    /\ pc = "step"
    /\ IF StepRaises THEN Die ELSE Decode

----------------------------------------------------------------------------
(* The worker: audio *)

\* Code frames of a timeline of n tokens, once the delay pattern is stripped.
Codes(n) == IF n >= Codebooks + 2 THEN n - Codebooks - 1 ELSE 0

\* Decoding starts a few frames before the first sample still owed; that many
\* samples of it are skipped.
Owed(r) == IF yielded[r] \div Hop >= Context THEN yielded[r] \div Hop - Context ELSE 0
Skip(r) == yielded[r] - Owed(r) * Hop

\* A slip: the lookback is sent again.
FromLookback(r) == Owed(r) * Hop

From(r) == Owed(r) * Hop + Skip(r)
Total(r) == Codes(tokens[r]) * Hop

HasCodes(r) == Codes(tokens[r]) > Owed(r)

\* Live requests hold the last Stride samples back, the final ones nothing.
LiveChunk(r) == HasCodes(r) /\ Total(r) > yielded[r] + Stride
FinalChunk(r) == HasCodes(r) /\ Total(r) > yielded[r]

\* Round robin: at most MaxLive of the running requests take part in a tick.
Start == IF rr >= Cardinality(running) THEN 0 ELSE rr
Turn ==
    LET n == Cardinality(running)
        live == InSlotOrder(selfKV, running)
    IN  {live[((Start + i) % n) + 1] : i \in 0 .. (IF n < MaxLive THEN n ELSE MaxLive) - 1}

\* The finals of ticks 1 .. k, and whether tick k found none with anything left.
FirstFinals(k) == {finals[i] : i \in {j \in DOMAIN finals : j <= k * MaxFinals}}
Silent(k) == \A r \in FirstFinals(k) \ FirstFinals(k - 1) : ~HasCodes(r)

\* A slip: a drain stops after its first tick.
LastTickFirst(k) == k >= 1

\* audio_decode: one tick while requests run; else ticks until the queue is
\* empty, the bound, or a tick that has nothing to decode.
LastTick(k) ==
    \/ running # {}
    \/ k * MaxFinals >= Len(finals)
    \/ Silent(k)
Ticks == Cardinality({k \in 1 .. DrainTicks : \A j \in 1 .. k - 1 : ~LastTick(j)})

\* The audio is put on the queues still known, then the end of the finished.
Deliver ==
    /\ pc = "deliver"
    /\ LET n == Cardinality(running)
           live  == {r \in (IF running = {} THEN {} ELSE Turn) : LiveChunk(r)}
           final == {r \in FirstFinals(Ticks) : FinalChunk(r)}
           upto(r) == IF r \in live THEN Total(r) - Stride ELSE Total(r)
           sent(r) == IF r \in live \union final
                      THEN Append(out[r], Audio(From(r), upto(r))) ELSE out[r]
       IN  /\ yielded' = [r \in Req |-> IF r \in live THEN upto(r) ELSE yielded[r]]
           /\ finals' = SubSeq(finals, Ticks * MaxFinals + 1, Len(finals))
           /\ rr' = IF running = {} THEN 0
                    ELSE (Start + (IF n < MaxLive THEN n ELSE MaxLive)) % n
           /\ out' = [r \in Req |->
                        IF r \notin pendingOut THEN out[r]
                        ELSE IF r \in finished THEN Append(sent(r), Done)
                        ELSE sent(r)]
    /\ pendingOut' = pendingOut \ finished
    /\ finished' = {}
    /\ pc' = "admit"
    /\ UNCHANGED <<caller, heard, queueVars, stepCount, batchVars>>

----------------------------------------------------------------------------
Worker == Admit \/ AdmitDone \/ Cancel \/ CancelDone \/ Step \/ Deliver
Route(r) == Post(r) \/ Hear(r) \/ Leave(r)

Next == Worker \/ \E r \in Req : Route(r)

Spec == Init /\ [][Next]_vars

\* The thread runs while it is alive, and a caller reads what it is sent; no
\* caller need come or go.
FairSpec == Spec /\ WF_vars(Worker) /\ \A r \in Req : WF_vars(Hear(r))

----------------------------------------------------------------------------
(* Properties *)

\* _ordered_pids takes the order of the batch from self-attention alone, so
\* cross-attention must hold the same requests in the same slots, and nothing
\* may be left behind by an admission that failed half-way.
CachesAgree ==
    /\ Held(selfKV) = running
    /\ crossKV.slotOf = selfKV.slotOf
    /\ crossKV.free = selfKV.free

\* Between steps the batch fills slots 0 .. n-1 (get_decode_closures refreshes
\* _write_slots only when it does not, and never resets it), the rest is free,
\* and the row a request reads is its own, in both caches.
RowsAreOwn ==
    \A c \in {selfKV, crossKV} :
        /\ {c.slotOf[p] : p \in Held(c)} = 0 .. Cardinality(running) - 1
        /\ c.free = Slot \ {c.slotOf[p] : p \in Held(c)}
        /\ \A p \in Held(c) : c.rows[c.slotOf[p]] = p

\* inference_worker: "Nothing here is expected to raise": the thread outlives
\* every request.
WorkerSurvives == pc # "dead"

\* It does but for one: no admission, undone half-way or not, no cancellation,
\* eviction or growth leaves a batch on which the next step raises.  Only a
\* prompt that fills its row exactly does, which prefill lets in, and it is the
\* step after its prefill that raises.
DiesOnlyOfFullPrompt ==
    [][pc' = "dead" /\ pc # "dead" =>
          \E r \in Held(selfKV) :
              tokens[r] = 2 /\ selfKV.len[selfKV.slotOf[r]] = SelfMax]_vars

\* A caller hears its audio in order, without a gap and without hearing a
\* sample twice, whoever else shared the batch: the chunks on its queue continue
\* each other from what it has heard, and nothing follows the end.
AudioInOrder ==
    \A r \in Req : \A i \in DOMAIN out[r] :
        LET m == out[r][i]
            before == IF i = 1 THEN heard[r] ELSE out[r][i - 1].to
        IN  IF m.kind = "audio" THEN m.from = before /\ m.to > m.from
            ELSE i = Len(out[r])

\* A caller that is told its speech is done has heard all of it.
DoneMeansWhole == \A r \in Req : caller[r] = "done" => heard[r] = Total(r)

\* Only a backlog of finals cuts a speech off.  A tick that tells a caller it is
\* done has put the rest of its audio before the end, unless it leaves the codes
\* of that request queued behind those of others: while requests still run, or at
\* the bound of a drain or after a tick of it with nothing to decode.  No sample
\* is lost otherwise, to the holdback of a live chunk or the rounds of a drain.
CutOnlyByBacklog ==
    [][\A r \in pendingOut \intersect finished :
          pc = "deliver" /\ pc' = "admit" =>
             \/ /\ \E i \in DOMAIN finals' : finals'[i] = r
                /\ running # {} \/ Ticks = DrainTicks \/ Silent(Ticks)
             \/ LET n == Len(out'[r])
                IN  (IF n = 1 THEN heard[r] ELSE out'[r][n - 1].to) = Total(r)]_vars

\* The loop of compact, which moves rows in place, gives what moving them all
\* at once would, whichever requests of the batch are released before it.
CompactsInPlace ==
    \A c \in {selfKV, crossKV} : \A P \in SUBSET Held(c) :
        CompactLoop(Release(c, P)) = Compact(Release(c, P))

\* Every caller is answered and gives its slot back: its stream ends, and the
\* engine does not go on generating for nobody.  When the worker dies everyone
\* it knows is told; only a request still queued then waits for ever.
EveryoneServed ==
    \A r \in Req : (caller[r] = "waiting" \/ r \in running) ~>
        /\ caller[r] # "waiting" \/ (pc = "dead" /\ \E i \in DOMAIN prefillQ : prefillQ[i] = r)
        /\ r \notin running \/ pc = "dead"
=============================================================================
