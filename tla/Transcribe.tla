----------------------------- MODULE Transcribe -----------------------------
(* The indic-transcribe speech recogniser.  Two threads share its sessions: *)
(* the event loop, which runs one coroutine per websocket or upload         *)
(* (app.py), and the GPU worker (batcher.py), whose tick advances every     *)
(* session that has a chunk ready (core_engine.py).  A stream is a chain of *)
(* turns, each a session of its own.  Audio is counted in samples, and a    *)
(* block of it is all speech or all silence; a transcript is known by the   *)
(* session it comes from.  The session's number is its place in the order   *)
(* of creation (_sid_seq), which is also the order of engine.sessions.      *)
EXTENDS Integers, Sequences, FiniteSets

CONSTANTS
    Stream,         \* the connections
    Upload,         \* those that are file uploads
    Lang,           \* the languages of the checkpoint
    Default,        \* the language a stream opens with
    Sizes,          \* the sizes of a block of audio
    Chunk, Right,   \* context_samples.chunk and .right
    MaxSessions,    \* cfg.max_sessions
    MaxBatch,       \* cfg.max_batch
    VadOn,          \* VadGate.active and gate_gpu_on_silence
    MinSilence,     \* min_silence_ms
    SafeRoll, HardRoll, RollGap,    \* the limits of a turn
    Endpoint,       \* the streams that asked for endpoint=1
    Leaver,         \* the streams whose client may disconnect
    Switcher,       \* the streams whose client may change the language
    Impatient,      \* the streams whose wait for the last turns may run out
    Fault,          \* what may go wrong: "greet", "encode", "decode"
    MaxFed,         \* bound: samples fed by one stream
    MaxSid          \* bound: sessions ever created

ASSUME StreamAssumption == Stream # {} /\ Upload \subseteq Stream /\ Default \in Lang
ASSUME AudioAssumption ==
    /\ Sizes \subseteq Nat \ {0} /\ Chunk \in Nat \ {0} /\ Right \in Nat
    /\ MaxSessions \in Nat /\ MaxBatch \in Nat \ {0} /\ MaxSid \in Nat
    /\ VadOn \in BOOLEAN /\ MinSilence \in Nat \ {0}
    /\ SafeRoll \in Nat /\ HardRoll \in Nat /\ RollGap \in Nat

VARIABLES
    \* the event loop
    conn,       \* where the coroutine of a stream is, or how it ended
    lang,       \* state["lang"]
    cur,        \* state["sess"], 0 before the first turn
    turns,      \* the sessions of turns; the worker's sinks are theirs
    outbox,     \* the finals the pump has not handled yet
    committed,  \* the turns of the transcript, in its order
    fed,        \* samples received from each client
    hold,       \* the block being fed: nothing else runs on the loop
    \* the engine
    sess,       \* every session ever created, in order
    \* the worker thread
    wpc,        \* where tick is
    cand,       \* candidates not looked at yet
    now,        \* the candidate on the silent path
    due,        \* sessions of the batch; when decoding, those left
    last,       \* those whose chunk is their last
    finals      \* the final deltas of this tick

streamVars == <<conn, lang, cur, turns, outbox, committed, fed>>
workerVars == <<wpc, cand, now, due, last, finals>>
vars == <<streamVars, hold, sess, workerVars>>

Idle == [at |-> "free", by |-> CHOOSE c \in Stream : TRUE, n |-> 0, speech |-> FALSE]

Session == [owner : Stream, lang : Lang,
            in : Nat,           \* accepted (_samples_in)
            taken : Nat,        \* taken from _pending
            hand : Nat,         \* taken in this tick, not yet in the buffer
            buf : Nat,          \* put in the session's audio buffer
            heard : BOOLEAN,    \* vad.has_speech
            quiet : Nat,        \* vad._silence_ms
            ask : BOOLEAN,      \* _pending_finalize
            done : BOOLEAN,     \* _finalized
            text : BOOLEAN,     \* _full_text is not empty
            open : BOOLEAN,     \* in engine.sessions, and not _closed
            \* history, for the properties
            got : Nat,          \* fed, whatever became of it
            cut : Nat,          \* discarded by the endpoint
            mute : Nat,         \* silence before the first speech
            gated : Nat,        \* samples passed over by the silence gate
            silent : BOOLEAN,   \* ended by the silent path
            harmed : BOOLEAN]   \* lost a chunk or a final to a failed tick

NewSession(c, l) ==
    [owner |-> c, lang |-> l, in |-> 0, taken |-> 0, hand |-> 0, buf |-> 0,
     heard |-> FALSE, quiet |-> 0, ask |-> FALSE, done |-> FALSE, text |-> FALSE,
     open |-> TRUE, got |-> 0, cut |-> 0, mute |-> 0, gated |-> 0, silent |-> FALSE,
     harmed |-> FALSE]

Ended == {"refused", "gone", "broken", "left", "finished", "late"}

TypeOK ==
    /\ conn \in [Stream -> {"new", "accepting", "greeting", "open", "closing"} \cup Ended]
    /\ lang \in [Stream -> Lang]
    /\ sess \in Seq(Session)
    /\ \A i \in DOMAIN sess : sess[i].taken <= sess[i].in
    /\ cur \in [Stream -> 0 .. Len(sess)]
    /\ turns \in [Stream -> SUBSET (1 .. Len(sess))]
    /\ outbox \in [Stream -> Seq(1 .. Len(sess))]
    /\ committed \in [Stream -> Seq(1 .. Len(sess))]
    /\ fed \in [Stream -> Nat]
    /\ hold \in [at : {"free", "read", "seen", "queued"}, by : Stream, n : Nat, speech : BOOLEAN]
    /\ wpc \in {"idle", "scan", "gate", "push", "decode", "route"}
    /\ cand \subseteq 1 .. Len(sess) /\ due \subseteq 1 .. Len(sess)
    /\ last \subseteq 1 .. Len(sess) /\ now \in 0 .. Len(sess)
    /\ finals \in Seq(1 .. Len(sess))

Init ==
    /\ conn = [c \in Stream |-> "new"]
    /\ lang = [c \in Stream |-> Default]
    /\ cur = [c \in Stream |-> 0]
    /\ turns = [c \in Stream |-> {}]
    /\ outbox = [c \in Stream |-> <<>>]
    /\ committed = [c \in Stream |-> <<>>]
    /\ fed = [c \in Stream |-> 0]
    /\ hold = Idle
    /\ sess = <<>>
    /\ wpc = "idle" /\ cand = {} /\ now = 0 /\ due = {} /\ last = {} /\ finals = <<>>

----------------------------------------------------------------------------
(* StreamSession *)

Pending(s) == s.in - s.taken
Needed(s) == IF s.buf = 0 THEN Chunk + Right ELSE Chunk
\* Mutant: a finished turn is ready only while audio is pending.
ReadyIfPending(s) ==
    s.open /\ ~s.done /\ Pending(s) > 0 /\ (s.ask \/ Pending(s) >= Needed(s))
Ready(s) == s.open /\ ~s.done /\ (s.ask \/ Pending(s) >= Needed(s))

\* _take_chunk: how much it takes, and whether that is the last of the turn.
\* Mutant: the chunk taken after the request counts as the last.
LastWhenAsked(s) == s.ask
IsLast(s) == s.ask /\ Pending(s) <= Needed(s)
\* Mutant: a whole chunk is counted as taken whatever is pending.
TakeWanted(s) == Needed(s)
Take(s) == IF Pending(s) <= Needed(s) THEN Pending(s) ELSE Needed(s)

\* The two halves of feed: the VAD classifies a block, then it is appended.
Observe(s, n, speech) ==
    IF VadOn
    THEN [s EXCEPT !.heard = @ \/ speech, !.quiet = IF speech THEN 0 ELSE @ + n]
    ELSE [s EXCEPT !.heard = TRUE]
Accept(s, n, speech) ==
    [s EXCEPT !.in = @ + n, !.got = @ + n,
              !.mute = IF speech \/ s.mute # s.in THEN @ ELSE @ + n]

\* request_finalize; a turn that the endpoint ends keeps one chunk at most.
Excess(s) == IF Pending(s) > Needed(s) THEN Pending(s) - Needed(s) ELSE 0
Finalize(s, drop) ==
    LET n == IF drop THEN Excess(s) ELSE 0
    IN  [s EXCEPT !.ask = TRUE, !.in = @ - n, !.cut = @ + n]

Endpointed(s) == VadOn /\ s.heard /\ s.quiet >= MinSilence
NeedsSafetyRoll(s) == s.in >= HardRoll \/ (s.in >= SafeRoll /\ s.quiet >= RollGap)
TurnOver(c, s) == c \in Endpoint /\ Endpointed(s)
Rolls(c, s) == ~s.ask /\ (TurnOver(c, s) \/ NeedsSafetyRoll(s))

Live(f) == {i \in DOMAIN f : f[i].open}
Close(f, S) ==
    [i \in DOMAIN f |-> IF i \in S THEN [f[i] EXCEPT !.open = FALSE] ELSE f[i]]

----------------------------------------------------------------------------
(* The event loop.  A handler runs alone on the loop up to its next await,  *)
(* but the worker's thread may run at any point of it: feed is in steps.    *)

LoopFree == hold.at = "free"
Room(f) == Cardinality(Live(f)) < MaxSessions

\* start_turn, given the sessions f and the turns that stay.
StartTurn(c, l, f, rest) ==
    /\ Room(f) /\ Len(f) < MaxSid
    /\ sess' = Append(f, NewSession(c, l))
    /\ cur' = [cur EXCEPT ![c] = Len(f) + 1]
    /\ turns' = [turns EXCEPT ![c] = rest \cup {Len(f) + 1}]

\* The turns to retire when a stream ends, whatever ended it.
\* Mutant: only the current one.
RetiredCurrent(c) == turns[c] \cap {cur[c]}
Retired(c) == turns[c]
\* The finally block of _run_stream, and of transcriptions.
End(c, f, how) ==
    /\ conn' = [conn EXCEPT ![c] = how]
    /\ sess' = Close(f, Retired(c))
    /\ turns' = [turns EXCEPT ![c] = {}]
    /\ outbox' = [outbox EXCEPT ![c] = <<>>]
    /\ UNCHANGED cur

\* Replace the current turn: at capacity start_turn raises, the stream ends.
Rotate(c, l, f, rest) ==
    \/ StartTurn(c, l, f, rest) /\ UNCHANGED <<conn, outbox>>
    \/ ~Room(f) /\ End(c, f, "broken")

Connect(c) ==
    /\ LoopFree /\ c \notin Upload /\ conn[c] = "new"
    /\ conn' = [conn EXCEPT ![c] = IF Room(sess) THEN "accepting" ELSE "refused"]
    /\ UNCHANGED <<lang, cur, turns, outbox, committed, fed, hold, sess, workerVars>>

\* Capacity was checked before the handshake was awaited; create_session checks again.
Start(c) ==
    /\ LoopFree /\ conn[c] = "accepting"
    /\ \/ /\ StartTurn(c, lang[c], sess, {})
          /\ conn' = [conn EXCEPT ![c] = "greeting"]
       \/ /\ ~Room(sess)
          /\ conn' = [conn EXCEPT ![c] = "refused"]
          /\ UNCHANGED <<cur, turns, sess>>
    /\ UNCHANGED <<lang, outbox, committed, fed, hold, workerVars>>

\* wire.handshake is awaited outside the try whose finally retires the turn.
Greet(c) ==
    /\ LoopFree /\ conn[c] = "greeting"
    /\ \/ conn' = [conn EXCEPT ![c] = "open"]
       \/ "greet" \in Fault /\ conn' = [conn EXCEPT ![c] = "gone"]
    /\ UNCHANGED <<lang, cur, turns, outbox, committed, fed, hold, sess, workerVars>>

\* One step of feed: classify first, so that the worker never sees audio the
\* VAD has not scored.
\* Mutant: the audio is appended first.
FeedSwapped(at, s, n, speech) ==
    IF at = "read" THEN Accept(s, n, speech) ELSE Observe(s, n, speech)
FeedStep(at, s, n, speech) ==
    IF at = "read" THEN Observe(s, n, speech) ELSE Accept(s, n, speech)

Feed(c, n, speech) ==
    /\ LoopFree /\ conn[c] = "open"
    /\ fed[c] + n <= MaxFed
    /\ LET s == sess[cur[c]]
       IN  \/ /\ s.open
              /\ Len(sess) < MaxSid \/ ~Rolls(c, Accept(Observe(s, n, speech), n, speech))
              /\ sess' = [sess EXCEPT ![cur[c]] = FeedStep("read", s, n, speech)]
              /\ hold' = [at |-> "seen", by |-> c, n |-> n, speech |-> speech]
              /\ UNCHANGED <<conn, cur, turns, outbox>>
           \/ ~s.open /\ End(c, sess, "broken") /\ UNCHANGED hold
    /\ fed' = [fed EXCEPT ![c] = @ + n]
    /\ UNCHANGED <<lang, committed, workerVars>>

\* An upload creates its session and feeds the whole file to it.
Post(c, n, speech) ==
    /\ LoopFree /\ c \in Upload /\ conn[c] = "new"
    /\ n <= MaxFed
    /\ \/ /\ Room(sess) /\ Len(sess) < MaxSid
          /\ sess' = Append(sess, FeedStep("read", NewSession(c, lang[c]), n, speech))
          /\ cur' = [cur EXCEPT ![c] = Len(sess) + 1]
          /\ turns' = [turns EXCEPT ![c] = {Len(sess) + 1}]
          /\ conn' = [conn EXCEPT ![c] = "open"]
          /\ hold' = [at |-> "seen", by |-> c, n |-> n, speech |-> speech]
       \/ /\ ~Room(sess)
          /\ conn' = [conn EXCEPT ![c] = "refused"]
          /\ UNCHANGED <<cur, turns, hold, sess>>
    /\ fed' = [fed EXCEPT ![c] = n]
    /\ UNCHANGED <<lang, outbox, committed, workerVars>>

Enqueue(c) ==
    /\ hold.at = "seen" /\ hold.by = c
    /\ sess' = [sess EXCEPT ![cur[c]] = FeedStep("seen", @, hold.n, hold.speech)]
    /\ hold' = [hold EXCEPT !.at = "queued"]
    /\ UNCHANGED <<streamVars, workerVars>>

\* After feed: the VAD endpoint, the safety rollover, or an upload's only turn.
Settle(c) ==
    /\ hold.at = "queued" /\ hold.by = c
    /\ hold' = Idle
    /\ LET s == sess[cur[c]]
           Asked(drop) == [sess EXCEPT ![cur[c]] = Finalize(s, drop)]
       IN  \/ /\ c \in Upload
              /\ sess' = Asked(FALSE)
              /\ conn' = [conn EXCEPT ![c] = "closing"]
              /\ UNCHANGED <<cur, turns, outbox>>
           \/ /\ c \notin Upload /\ Rolls(c, s)
              /\ Rotate(c, lang[c], Asked(TurnOver(c, s)), turns[c])
           \/ /\ c \notin Upload /\ ~Rolls(c, s)
              /\ UNCHANGED <<conn, cur, turns, outbox, sess>>
    /\ UNCHANGED <<lang, committed, fed, workerVars>>

\* "finalize" or "commit": end the turn and keep streaming.
Commit(c) ==
    /\ LoopFree /\ conn[c] = "open" /\ ~sess[cur[c]].ask
    /\ Rotate(c, lang[c], [sess EXCEPT ![cur[c]] = Finalize(@, FALSE)], turns[c])
    /\ UNCHANGED <<lang, committed, fed, hold, workerVars>>

\* Mutant: the update is acknowledged, and the turn stays.
SwitchInPlace(c, l) ==
    /\ LoopFree /\ conn[c] = "open" /\ c \in Switcher
    /\ lang[c] = Default /\ l # Default
    /\ lang' = [lang EXCEPT ![c] = l]
    /\ UNCHANGED <<conn, cur, turns, outbox, committed, fed, hold, sess, workerVars>>

\* "session.update" with another language; bound: a client sends one.
Switch(c, l) ==
    /\ LoopFree /\ conn[c] = "open" /\ c \in Switcher
    /\ lang[c] = Default /\ l # Default /\ ~sess[cur[c]].ask
    /\ lang' = [lang EXCEPT ![c] = l]
    /\ LET i == cur[c]
       IN  \/ /\ sess[i].in > 0
              /\ Rotate(c, l, [sess EXCEPT ![i] = Finalize(@, FALSE)], turns[c])
           \/ /\ sess[i].in = 0
              /\ Rotate(c, l, Close(sess, {i}), turns[c] \ {i})
    /\ UNCHANGED <<committed, fed, hold, workerVars>>

\* "stop": close_stream asks for the last words and waits for them.
Stop(c) ==
    /\ LoopFree /\ conn[c] = "open"
    /\ conn' = [conn EXCEPT ![c] = "closing"]
    /\ sess' = [sess EXCEPT ![cur[c]] = IF @.ask THEN @ ELSE Finalize(@, FALSE)]
    /\ UNCHANGED <<lang, cur, turns, outbox, committed, fed, hold, workerVars>>

\* Mutant: the last turn only.
AwaitedLast(c) == turns[c] \cap {cur[c]}
Awaited(c) == turns[c]
Finish(c) ==
    /\ LoopFree /\ conn[c] = "closing" /\ Awaited(c) = {}
    /\ End(c, sess, "finished")
    /\ UNCHANGED <<lang, committed, fed, hold, workerVars>>

\* The wait ends after 3 s (120 s for an upload) whatever is missing.
Late(c) ==
    /\ LoopFree /\ conn[c] = "closing" /\ Awaited(c) # {} /\ c \in Impatient
    /\ End(c, sess, "late")
    /\ UNCHANGED <<lang, committed, fed, hold, workerVars>>

Leave(c) ==
    /\ LoopFree /\ conn[c] = "open" /\ c \in Leaver
    /\ End(c, sess, "left")
    /\ UNCHANGED <<lang, committed, fed, hold, workerVars>>

\* pump_out on a final: commit its text and retire the turn.
Pump(c) ==
    /\ LoopFree /\ conn[c] \in {"open", "closing"}
    /\ outbox[c] # <<>>
    /\ LET i == Head(outbox[c])
       IN  /\ committed' = [committed EXCEPT ![c] = IF sess[i].text THEN Append(@, i) ELSE @]
           /\ turns' = [turns EXCEPT ![c] = @ \ {i}]
           /\ sess' = Close(sess, {i})
    /\ outbox' = [outbox EXCEPT ![c] = Tail(@)]
    /\ UNCHANGED <<conn, lang, cur, fed, hold, workerVars>>

----------------------------------------------------------------------------
(* The GPU worker: one tick *)

First(S, i) == i \in S /\ \A j \in S : i <= j
Held(i) == sess[i].hand > 0

\* What a tick does to a session.
Hurt(s, lost) == [s EXCEPT !.hand = 0, !.harmed = @ \/ lost]
\* Mutant: the chunk is taken and never buffered.
SkippedUnbuffered(s) ==
    [s EXCEPT !.taken = @ + Take(s), !.gated = s.taken + Take(s)]
Skipped(s) ==
    [s EXCEPT !.taken = @ + Take(s), !.buf = @ + Take(s), !.gated = s.taken + Take(s)]
Drained(s) == [s EXCEPT !.taken = s.in, !.done = TRUE, !.silent = TRUE]
Taken(s) == [s EXCEPT !.taken = @ + Take(s), !.hand = Take(s)]
Pushed(s) == [s EXCEPT !.buf = @ + s.hand, !.hand = 0]
Decoded(s, text, end) == [s EXCEPT !.text = text, !.done = @ \/ end]
Broken(s) == [s EXCEPT !.open = FALSE, !.harmed = TRUE]

\* An exception leaves tick: what was taken and not buffered is gone, and so
\* are the finals it had decided.  The worker logs it and carries on.
TickFails ==
    /\ sess' = [i \in DOMAIN sess |->
                   Hurt(sess[i], Held(i) \/ \E k \in DOMAIN finals : finals[k] = i)]
    /\ wpc' = "idle" /\ cand' = {} /\ now' = 0
    /\ due' = {} /\ last' = {} /\ finals' = <<>>

Tick ==
    /\ wpc = "idle"
    /\ cand' = {i \in DOMAIN sess : Ready(sess[i])}
    /\ cand' # {}
    /\ wpc' = "scan"
    /\ UNCHANGED <<streamVars, hold, sess, now, due, last, finals>>

Full == Cardinality(due) >= MaxBatch
SkipsGpu(s) == VadOn /\ ~s.heard
Look(i) ==
    /\ wpc = "scan" /\ ~Full /\ First(cand, i)
    /\ cand' = cand \ {i}
    /\ \/ /\ SkipsGpu(sess[i])
          /\ wpc' = "gate" /\ now' = i
          /\ UNCHANGED due
       \/ /\ ~SkipsGpu(sess[i])
          /\ due' = due \cup {i}
          /\ UNCHANGED <<wpc, now>>
    /\ UNCHANGED <<streamVars, hold, sess, last, finals>>

\* The silent path: a finished turn is drained and its transcript is empty;
\* otherwise the chunk goes to the buffer without a forward pass.
Gate(i) ==
    /\ wpc = "gate" /\ i = now
    /\ \/ /\ sess[i].ask
          /\ sess' = [sess EXCEPT ![i] = Drained(@)]
          /\ finals' = Append(finals, i)
          /\ wpc' = "scan" /\ now' = 0
          /\ UNCHANGED <<cand, due, last>>
       \/ /\ ~sess[i].ask /\ sess[i].open
          /\ sess' = [sess EXCEPT ![i] = Skipped(@)]
          /\ wpc' = "scan" /\ now' = 0
          /\ UNCHANGED <<cand, due, last, finals>>
       \/ /\ ~sess[i].ask /\ ~sess[i].open
          /\ TickFails
    /\ UNCHANGED <<streamVars, hold>>

\* Every due session's chunk is taken before any is buffered.
TakeChunks ==
    /\ wpc = "scan" /\ (cand = {} \/ Full)
    /\ cand' = {}
    /\ IF due = {} THEN wpc' = "route" ELSE wpc' = "push"
    /\ last' = {i \in due : IsLast(sess[i])}
    /\ sess' = [i \in DOMAIN sess |-> IF i \in due THEN Taken(sess[i]) ELSE sess[i]]
    /\ UNCHANGED <<streamVars, hold, now, due, finals>>

\* _push_chunk; a session closed meanwhile has no buffer, and the tick fails.
Push(i) ==
    /\ wpc = "push" /\ First({j \in due : Held(j)}, i)
    /\ \/ /\ sess[i].open
          /\ sess' = [sess EXCEPT ![i] = Pushed(@)]
          /\ UNCHANGED workerVars
       \/ ~sess[i].open /\ TickFails
    /\ UNCHANGED <<streamVars, hold>>

\* The batch is built from the buffers, of which all must be there, and encoded.
Encode ==
    /\ wpc = "push" /\ ~\E i \in due : Held(i)
    /\ \A i \in due : sess[i].open
    /\ due' = {i \in due : sess[i].buf > 0}
    /\ IF due' = {} THEN wpc' = "route" ELSE wpc' = "decode"
    /\ UNCHANGED <<streamVars, hold, cand, now, last, finals, sess>>
EncodeFails ==
    /\ wpc = "push" /\ ~\E i \in due : Held(i)
    /\ "encode" \in Fault \/ \E i \in due : ~sess[i].open
    /\ TickFails
    /\ UNCHANGED <<streamVars, hold>>

\* _decode_one; an exception closes this session alone.
Decode(i) ==
    /\ wpc = "decode" /\ First(due, i)
    /\ due' = due \ {i}
    /\ IF due' = {} THEN wpc' = "route" ELSE wpc' = wpc
    /\ \/ /\ sess[i].open
          /\ \E t \in {sess[i].text, TRUE} : sess' = [sess EXCEPT ![i] = Decoded(@, t, i \in last)]
          /\ finals' = IF i \in last THEN Append(finals, i) ELSE finals
       \/ /\ ~sess[i].open \/ "decode" \in Fault
          /\ sess' = [sess EXCEPT ![i] = Broken(@)]
          /\ UNCHANGED finals
    /\ UNCHANGED <<streamVars, hold, cand, now, last>>

\* The deltas go one by one to the sinks still registered.
Route ==
    /\ wpc = "route" /\ finals # <<>>
    /\ LET i == Head(finals)
           c == sess[i].owner
       IN  outbox' = [outbox EXCEPT ![c] = IF i \in turns[c] THEN Append(@, i) ELSE @]
    /\ finals' = Tail(finals)
    /\ \/ finals' # <<>> /\ UNCHANGED <<wpc, last>>
       \/ finals' = <<>> /\ wpc' = "idle" /\ last' = {}
    /\ UNCHANGED <<conn, lang, cur, turns, committed, fed, hold, sess, cand, now, due>>
EndTick ==
    /\ wpc = "route" /\ finals = <<>>
    /\ wpc' = "idle" /\ last' = {}
    /\ UNCHANGED <<streamVars, hold, sess, cand, now, due, finals>>

----------------------------------------------------------------------------
Handler(c) ==
    \/ Connect(c) \/ Start(c) \/ Greet(c) \/ Enqueue(c) \/ Settle(c)
    \/ Commit(c) \/ Stop(c) \/ Finish(c) \/ Late(c) \/ Leave(c) \/ Pump(c)
    \/ \E n \in Sizes, speech \in BOOLEAN : Feed(c, n, speech) \/ Post(c, n, speech)
    \/ \E l \in Lang : Switch(c, l)
Worker ==
    \/ Tick \/ TakeChunks \/ Encode \/ EncodeFails \/ Route \/ EndTick
    \/ \E i \in DOMAIN sess : Look(i) \/ Gate(i) \/ Push(i) \/ Decode(i)
Next == Worker \/ \E c \in Stream : Handler(c)
Spec == Init /\ [][Next]_vars

\* The worker's thread and the loop keep running, and the encoder's errors pass,
\* as the worker that retries assumes; a client need not do anything.
FairSpec ==
    /\ Spec /\ WF_vars(Worker) /\ SF_vars(Encode)
    /\ WF_vars(\E c \in Stream : Enqueue(c) \/ Settle(c) \/ Pump(c))

----------------------------------------------------------------------------
(* Properties *)

\* Between ticks a session's buffer holds exactly the audio taken from it,
\* also the audio the silence gate passed over: only a failed tick loses any.
BufferAligned ==
    wpc = "idle" =>
        \A i \in DOMAIN sess :
            sess[i].open /\ ~sess[i].done /\ ~sess[i].harmed => sess[i].buf = sess[i].taken

\* A turn that ended with a decoded final was given every sample it was fed but
\* those an endpoint discarded, however its blocks, its chunks and the request to
\* finish fell; and only a stream that asked for endpoints, after speech, loses any.
WholeTurn ==
    \A i \in DOMAIN sess :
        LET s == sess[i]
        IN  /\ s.done /\ ~s.silent /\ ~s.harmed => s.buf + s.cut = s.got
            /\ s.cut > 0 => s.owner \in Endpoint /\ s.heard

\* "The tail is silence by definition": an endpoint discards no more than the
\* silence that ended the turn.
TailIsSilence == \A i \in DOMAIN sess : sess[i].cut <= sess[i].quiet

\* The silence gate keeps only audio before the first speech from the decoder.
OnlySilenceIsGated == \A i \in DOMAIN sess : sess[i].gated <= sess[i].mute

\* The audio of an open stream goes to a turn that may still take it, prompted
\* in the language in force.
LanguageHonoured ==
    \A c \in Stream : conn[c] = "open" =>
        LET s == sess[cur[c]] IN s.lang = lang[c] /\ ~s.ask

\* Every session that takes up capacity is a turn of a stream in progress, or
\* of one whose handshake failed: that coroutine ends without retiring its turn.
NoOrphans ==
    /\ Cardinality(Live(sess)) <= MaxSessions
    /\ \A i \in Live(sess) :
           /\ i \in turns[sess[i].owner]
           /\ conn[sess[i].owner] \in {"greeting", "open", "closing", "gone"}

\* When a stream ends after waiting for its turns, every turn that ever had
\* words is in the transcript it is sent.
StopKeepsEveryTurn ==
    \A i \in DOMAIN sess :
        LET c == sess[i].owner
        IN  conn[c] = "finished" /\ sess[i].text =>
                \E k \in DOMAIN committed[c] : committed[c][k] = i

\* The safety rollover is invisible: no stream ends because of one.
RotationIsInvisible ==
    [][\A c \in Stream : hold.at = "queued" /\ hold.by = c => conn'[c] # "broken"]_vars

\* Every turn asked to finish is retired, unless a failed tick lost its final.
Waiting(i) ==
    /\ i \in DOMAIN sess /\ i \in turns[sess[i].owner]
    /\ sess[i].ask /\ ~sess[i].harmed
EveryTurnEnds == \A i \in 1 .. MaxSid : Waiting(i) ~> ~Waiting(i)
=============================================================================
