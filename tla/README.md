# TLA+ verification of VoicERA: campaign engine and speech engines

VoicERA runs telephone voice bots. Three of its parts are programs in which processes, threads or
messages race, fail and restart, and which keep state of their own:

- the **outbound campaign engine** of `src/apps/api`: an HTTP API, ARQ workers and one orchestrator
  process share campaign documents in Mongo and call slots in Redis;
- the **Parler speech synthesiser** of `src/model-server/tts/indic-parler`: one inference thread
  runs a batch of requests over two key/value caches, moving rows between slots;
- the **indic-transcribe recogniser** of `src/model-server/stt/indic-transcribe`: an event loop with a
  coroutine per stream shares sessions with a GPU worker thread.

They are modelled here, checked with TLC and, for their main safety properties, proved with TLAPS.
The rest of the repository is listed below with the reason why it is not modelled.

## 1. Inventory

Paths are relative to `src/apps/api/app/` unless they start with `src/`.

| component | state | operations | what makes it hard | what makes it correct |
|---|---|---|---|---|
| **Call concurrency** `services/call_concurrency` | three sorted sets of slots per call (organisation, campaign, fleet), `call_slot_mapping`, the from-number pool, `call_from_number` | acquire (Lua), bind, release (three ZREMs and a DEL), stale reclamation, number acquire / release, token window | two workers at the last slot; a Redis error between two ZREMs; slots going stale under a live call; duplicated reports | caps hold; a live call keeps its slot; a slot is freed by its owner only; a counted slot can be released |
| **Campaign dispatch** `services/campaign/campaign_call_dispatcher.py` | the batch in progress | `dispatch_call`, `process_batch`, bulk (OBD) path, `release_call_slot` | cancellation between dial and record; partial failure before / inside the try block | every exit gives slot and number back; a run is dialled once |
| **Campaign repository** `services/campaign/campaign_repository.py` | `Campaigns`, `QueuedRuns` | claim, return, create, count, update | concurrent claims; unconditional updates | a run is claimed once; finished runs stay; a claimed run is finished or given back |
| **Lifecycle API** `services/campaign/runner.py` | campaign state | start, pause, resume, PATCH, delete | check and write are two commands | a pause holds until the operator resumes |
| **Orchestrator** `services/campaign/campaign_orchestrator.py` | four dictionaries in memory | event listener, 60 s sweep, `_schedule_next_batch`, completion | two asyncio tasks interleave at awaits; events over pub/sub; a restart loses all memory | a started campaign ends; it is not completed while somebody is left to call |
| **ARQ tasks** `tasks/campaign_tasks.py`, CSV ingest | the job queue | `sync_campaign_source`, `process_campaign_batch` | timeout, rerun, worker death | an ingest inserts once; claimed runs are settled |
| **Circuit breaker** `services/campaign/circuit_breaker.py` | two sliding windows in Redis | record, evaluate, trip, reset | state read before an await, trip written after | a trip pauses, and nothing but a resume undoes it |
| **Terminal status** `services/campaign/status_processor.py` | - | `handle_call_terminal` | reports duplicated, late or early | releases, counts and asks for one retry |
| **Parler engine** `src/model-server/tts/indic-parler` | two slot caches (`VirtualMemoryDense`), the running batch, its token timelines, the finals queue, one output queue per caller | speech (route), prefill, cancel, step, stop, evict, compact, audio decode, deliver | admissions that raise half-way; compaction in place; windows of audio with lookback and holdback; a cancellation that overtakes its request | a request reads only its own keys and values; no admission, hang-up or eviction ends the worker; a caller hears its audio once, in order and, but for a stated case, whole; everyone is answered |
| **indic-transcribe** `src/model-server/stt/indic-transcribe` | sessions with their pending audio, buffers, VAD; per stream the current turn, the turns not finished, a queue of finals and the transcript; the batch of a tick | stream (start, feed, commit, language update, rollover, stop, disconnect), upload, tick (gate, take, push, encode, decode, route) | the worker runs between any two steps of a handler; a tick that fails in the middle; capacity at a rollover; a stop with turns at every stage | a turn is given all its audio but what its endpoint discards; only silence is kept from the decoder; the language in force; capacity comes back; a stop has every turn |
| Other STT engines `src/model-server/stt` | a batcher each | the same shape | - | - |
| Call logs, inbound and web calls | `CallLogs` | create, patch, metrics | patch reads, decides, writes unconditionally | - (the last writer wins, by design or not) |
| Agents, phone numbers, users, organisations, members, secrets, e-mail | Mongo documents | CRUD | - | uniqueness of links |
| Knowledge base and RAG | a vector store | ingest, query | I/O | - |
| Runtime `src/apps/runtime` | one pipeline per call | webhooks, pipelines, language switch, hold messages, finalisation | frame handlers within one call | a call is finalised and reported |
| Telephony and AI providers `src/apps/telephony`, `src/apps/providers` | none | adapters | - | - |
| Model-server gateway `src/model-server/gateway` | none | two relay tasks per stream | - | - |
| Frontend, docs, scripts | none of the system's | - | - | - |

How they interact. The API's `start` writes `syncing` and queues the ingest job. The ingest inserts
a queued run per CSV row, writes `running` and publishes `sync_completed`. The orchestrator queues
a batch job. The worker claims runs, takes a slot (and a caller id), dials, binds the slot to the
call id, marks the run and finally publishes `batch_completed`, which makes the orchestrator queue
the next batch. When a call ends the runtime and the carrier's webhook report it to the API, which
releases slot and number, feeds the breaker and publishes `retry_needed`; the orchestrator inserts
a later run for the contact. Every minute the orchestrator's sweep looks for a campaign without a
batch, schedules one if there is work, and completes the campaign after an idle hour.
During a call the runtime streams the caller's audio to a recogniser and posts sentences to a
synthesiser of the model server, through its gateway; these engines know nothing of campaigns, and
each is modelled by itself, its clients being anybody who keeps to the protocol.

`PROJECT.json` lists the components and, line by line, the hazards.

## 2. Modules

| module | models |
|---|---|
| `RateLimiter` | the Redis state and its scripts; a script or a command is one atomic operator, an error of a later command leaves the earlier ones done |
| `CallDispatch` | `dispatch_call`, the slot service and the release by each reporter; every await is a point where others run |
| `SlotLease` | abstract: pools of leases, each within its limit, a lease granted once and never back after it lapsed |
| `Campaign` | one campaign: document, runs, lifecycle requests, ingest, batches, the orchestrator's two tasks, breaker, reports and retries, time |
| `DenseKV` | one slot cache of the Parler engine, each method an operator from a cache to a cache |
| `ParlerEngine` | the routes, the inference thread and its two caches |
| `Transcribe` | the recogniser: streams and uploads on the event loop, the tick of the worker |
| `CallDispatchProofs`, `CampaignProofs`, `DrainProofs`, `DenseKVProofs`, `ParlerProofs`, `ParlerAudioProofs`, `TranscribeProofs` | the proofs about them |
| `MCCallDispatch`, `MCCampaign`, `MCParlerEngine`, `MCTranscribe` | their instances for TLC |

### CallDispatch and the code

A *dispatch* is one attempt to place a call. Its slot id and call id are fresh uuids, so the
dispatch stands for both. `pc[d]` is the position in `dispatch_call` (`waiting`, `held`,
`dialling`, `dialled`, `bound`, `returned`, ...), `rel[d][a]` the position of actor `a` in releasing
what `d` holds; the actors are the dispatcher itself (`"self"`, in its except block) and the
reporters. `takenAt` is the score of the slot in the sorted sets. `Fresh` is what a trim by
`stale_call_timeout` keeps. `Acquire` / `Refuse` are the two outcomes of the Lua script,
`ReleaseOrg`, `ReleaseFleet`, `ReleaseCampaign` the three ZREMs, `Unmap` the DEL after them.
`ReleaseRaises` is a Redis error swallowed in `release_concurrent_slot`, after which the mapping stays.
`FailUnbound` and `FailBound` are the except block before and after `bind_call_slot` succeeded,
`RaiseEarly` the raises before the try block. `Cancel` is a `CancelledError`, which no
`except Exception` catches, or the death of the worker.

### Campaign and the code

A run is `<<contact, retry_count>>`, the key of the unique index. `state` and `docAge` are the
document; `runs` and `due` the queue; `dials`, `reports`, `callAge` the calls that were placed.
`api` is the lifecycle request between its check and its write, `owed` what a start or resume has
still to do after its write (queue the ingest, reset the breaker). `sync` and `jobs` are ARQ's
jobs; `wpc`, `claims`, `cur`, `some` are the local variables of a batch. `chan` is the pub/sub
channel: an event published while the orchestrator is down reaches nobody. `batch`, `activity`,
`lock` are `_batch_in_progress`, `_last_activity` and `_processing_locks`; `task` is where the
listener and the sweep are, one step per await. A restart loses all of it. The ages count ticks and
stop at the timeout they are compared with.

A batch can go wrong in five ways, and they differ in what they leave. `MarkFailed` is the handler of one
run (`campaign_call_dispatcher.py:207-213`): it also catches an exception of the counters' update after the run was marked
processed (`CountProcessed` is that update, apart from `MarkProcessed`), and then writes `failed` over it. `NoSlot` and `NoNumber` give the
claims back. `CancelBatch` does too, at the awaits of a dial and of the batch's last event. `BatchRaises` is
the `except Exception` of the job (`campaign_tasks.py:123-132`), reached from the claim loop, from a handler that raises itself, or from the return of
claims: nothing is given back. `CrashBatch` is the worker's death. What stops a campaign, `FailCampaign`, is a step after the event that tells of it.
`SyncCancelled` is arq's timeout or a shutdown in the ingest, for which no clause writes the state.

What is simplified: the two counts of `_has_pending_work`, with an await between, are one read (`Pending`), and so are the state write and
the event of a breaker trip; publishing raises only in `SyncFails` and `BatchRaises`; the breaker's
windows are two counts whose members leave one at a time; a dial is one step here (its inside is
`CallDispatch`); contacts have no order; the reason switches of `retry_config` are on. A failed
enqueue in `start` is left out.

### DenseKV, ParlerEngine and the code

A cache is a record: `slotOf` is `pid_to_slot`, `free` the sorted free list, `rows` whose keys and
values each row of the tensor contains, `len` `_host_seq_lens`. `Prefill`, `Release`, `Compact` and
`Grow` are the methods; `CompactLoop` is the loop of `compact` as written, one copy at a time over
the rows in place, and `Compact` what it is meant to do, all copies at once.

The thread's loop (`_worker_loop`) is `Admit` (one request of the prefill queue), `AdmitDone`,
`Cancel` (one of the cancel queue), `CancelDone`, `Step`, `Deliver`. Nothing else touches the batch,
so each is one step; the routes run between any two. `Admit` chooses the lengths of prompt and description
and whether a stage raises by itself (`Trouble`), and with it what `abort_prefill` has to undo.
`Step` raises for the whole batch (`Die`) when the caches and the running list disagree or a row is
full; otherwise any subset of the requests old enough ends (`Decode`). `tokens` is the length of
a timeline; the values of tokens, logits and samples are abstracted, so an interval of samples
stands for audio. `From`, `LiveChunk`, `FinalChunk` are the window arithmetic of `audio_decode`
(lookback `_dac_context_frames`, holdback `_audio_stride`), `Turn` the round robin of the live
requests, `LastTick` and `Ticks` the bounded drain.

### Transcribe and the code

A session is a turn, numbered in the order of `_sid_seq`, which is also the order of
`engine.sessions`. Audio is counted: `in` samples accepted by feed, `taken` by `_take_chunk`, `hand`
taken but not yet pushed, `buf` in the buffer of the encoder; a block is all speech or all silence.
`got`, `cut`, `mute`, `gated`, `silent`, `harmed` are history for the properties. `conn`, `lang`, `cur`, `turns`,
`outbox`, `committed` are the locals of `_run_stream`: `turns` are also the worker's sinks.

A handler runs alone on the loop up to its next await, but the worker's thread may run at any point
of it. So `feed` is three steps, the VAD (`Feed`, or `Post` for an upload), the append (`Enqueue`)
and what follows (`Settle`: endpoint, rollover or an upload's finalize), with `hold` keeping other
handlers off the loop in between; and the tick is a step per session and stage: `Tick` (the list
of the ready), `Look` (`should_skip_gpu`), `Gate` (the silent path), `TakeChunks`, `Push`, `Encode`,
`Decode`, `Route` (one final to its sink), `EndTick`. `TickFails` is an exception that leaves
`tick`: chunks in hand and finals decided are lost. `End` is the `finally` of a stream.
`Rotate` is finalize plus `start_turn`, which raises at capacity and ends the stream.
`Finalize` of an endpoint keeps one chunk of what waits and moves the rest from `in` to `cut`; `got`, which only `Accept` writes, is all that was ever fed.

What is simplified: taking the chunks of a batch is one step (`_take_chunk` touches one session
under its lock, and nothing between two of them depends on another session); whether a decoded
chunk gives words is chosen freely, and words once given stay; endpoint silence is counted in
samples; an upload's file is one block; `Route` asks for the sink of each final, where the worker copies the table of sinks once per
tick (`batcher.py:198-199`): the two differ for streams that have ended, whose queue nobody reads.

## 3. Runs

All passing runs have `CHECK_DEADLOCK FALSE`: dispatches end, campaigns complete, callers and streams
go, so the systems really stop. Symmetry is declared for contacts, workers, caller ids, reporters
and the two calls of the same campaign, in safety runs only. States are distinct states.

| run | instance | what it shows |
|---|---|---|
| `dispatch_slots` (1.9 M states) | 3 calls, 2 campaigns with caps 2 and 1, organisation cap 2, a pool of 2 caller ids and one of 1, one report per call, cancellation, time to go stale | caps, the slots of live calls, refinement of `SlotLease` while slots go stale |
| `dispatch_faults` (1.7 M) | 2 calls, each reported by webhook and pipeline, campaign cap 1, a pool, Redis errors, failing dials, deferred call ids | the same after every partial failure and with both reporters at once; a counted slot stays releasable, freed by its owner only; the campaign's sets refine `SlotLease`; `SlotInv`, the invariant of the proofs |
| `campaign_retries` (1.7 M) | 1 contact, 1 retry, 2 reports per call (success, failure, cancelled), breaker on, one fault: failing or empty ingest, no slot, no caller id, orchestrator killed, a pause | completed means drained, no double dial |
| `campaign_claims` (0.9 M) | 2 contacts, 2 workers, one fault: cancellation, death, empty pool, failing call, escaping exception, pause or resume | a run is in one batch; finished runs stay; only a death or an escaped exception strands a run; only resume (or the end of an ingest) undoes a pause; `StartInv` and `RunInv`, the invariants of the proofs |
| `campaign_ends` (0.2 M) | redial, 1 contact, 1 retry, one fault: orchestrator killed, batch cancelled or escaping exception, with fairness | the campaign ends unless a run is stranded; claimed runs are settled |
| `parler_batch` (0.24 M) | 3 callers and 3 slots, prompts of 1, 5 or 6 positions in rows of 5, descriptions of 1 or 3 in rows of 2, one final decoded per tick, encoder and sampler that raise, one caller who leaves, with fairness | the caches agree and rows are their owner's, compaction in place is right, the worker dies of nothing but a prompt of 5, audio is in order and cut only by the backlog of finals, everyone is served while the worker lives |
| `transcribe_turns` (0.63 M) | a live stream with endpointing and an upload, 2 languages, capacity 2, chunk and lookahead of 1 with blocks of 2, three sessions in all, failing handshake, encoder and decoder, with fairness | turns whole but for what the endpoint discards, and in their language, only silence gated, buffers aligned, capacity kept and given back, a stop loses no turn, every turn ends |

Five runs expect a violation: the code does other than its documentation or a comment says.

| run | what happens |
|---|---|
| `campaign_redialled` | a batch cancelled after the dial gives the run back, and the contact is called twice |
| `parler_tail_lost` | more requests end in one step than a tick decodes finals, while another still runs: those left queued are told they are done and lose their last audio |
| `parler_worker_dies` | a prompt of exactly `max_seq_len` positions is admitted, and the next step raises and ends the worker |
| `transcribe_tail_cut` | with the worker behind, an endpoint discards all that waits but one chunk: speech no tick has taken goes with the silence "by definition" |
| `transcribe_rotation` | on a full server the "invisible" safety rollover asks for one session too many, and the stream ends |

Every property of a passing run has a mutant in the modules (marked "Mutant", "slip"), a plausible bug
that makes TLC find the property violated on the same instance.

### Bounds, and why they are enough

*Dispatch.* Only the order of timeouts matters, not their length. `StaleAfter` (1200 s) is below
`NumberMapTTL` (1800 s), as 1 and 2. In `dispatch_slots` `MaxTime` 2 lets a slot taken at time 1 go stale and be
reclaimed by another call. Three calls are needed for a third to arrive at a full organisation
while one of the two others is released; two suffice where the property is about one slot. Three calls with two reporters each are
beyond TLC (more than 11 M states), so going stale is checked with one reporter and the second reporter without it; the proofs have both at once.

*Campaign.* A batch is lost after `BatchTimeout` (300 s, one tick). `CompletionTimeout` (3600 s)
is three ticks where a retry (`RetryDelay`, one tick) must fit into the idle hour, one tick
elsewhere. `CallMax` is below
`CompletionTimeout`: calls end within the idle hour. `MaxJobs` and `MaxEvents` bound queue and channel: a
publisher waits when the channel is full, so the bound delays but never drops an event; one or two
are enough for an event to be overtaken by a step of another process. `MaxFaults` is 1, at any point; the proofs have any number. With
`MaxRetries` 1, both the exhausted and the granted retry occur.

*Parler.* Three requests in three slots give every pattern of holes a compaction can meet, the
middle one included. A row of 5 positions allows several steps before a request runs out of room. The prompt and the
description come in a length that fits and one that does not, the prompt also in the one that just fills a row. Requests are at most one per caller; nothing
in the state counts them. `Hop` 2 with a lookback of one frame and a holdback
of one sample makes every branch of the window arithmetic happen.

*Transcribe.* `MaxFed` 4 and blocks of 2 against a chunk of 1 and a lookahead of 1 (2 for the first chunk) give a
finalize with less, exactly as much and more pending than a chunk; the limits of the rollover and the pause of
the endpoint are reached. `MaxSid` 3 is a rotation beside the upload; a handler that would create a
fourth session is cut off. A client changes its language once. Two sessions make a batch in which one
session can fail under the other; capacity 2 is full with one stream and the upload.

### Time and fairness

In `Campaign` a tick is minutes, and `Prompt` says what has surely happened before one passes: requests are
answered, published events handled, the orchestrator restarted, its awaits over, a queued job taken, the sweep (every 60 s)
has seen work that is pending, and a batch, which may wait for slots, is ended by arq's `job_timeout` (300 s) before
its second tick. `CompletedIsDrained`, the one safety property that depends on time, rests on it, and
so does its proof; the proofs of the others never use `Prompt`.

`Fairness` there is weak fairness of each process's steps: the API finishes its requests, arq takes queued jobs,
a worker goes on with its batch, both asyncio tasks are scheduled, every call is reported, a dead
orchestrator is restarted by its container policy; and strong fairness of `Tick`, since the clock
does not stop although `Prompt` is false now and then. Pausing, resuming and faults have no
fairness. Worker deaths are left out of `campaign_ends`, because the code has no recovery for
them (section 5).

The Parler engine is fair to its thread (an OS thread in an endless loop) and to each caller's
reading of its queue; nobody has to come or to go. The thread's death is not excluded: it happens to a prompt that fills its
row (`parler_worker_dies`) and to nothing else (`DiesOnlyOfFullPrompt`).

The recogniser is weakly fair to its worker thread and to the loop's pending work (`Enqueue`,
`Settle`, `Pump`), and strongly fair to `Encode`: that a tick does not fail every time is what a worker
that logs an exception and retries assumes. Clients are under no obligation, so `EveryTurnEnds`
speaks of turns that were asked to finish, and of those whose final was not lost by a failed tick.

## 4. Proofs

All theorems hold for every value of the constants, under the named assumptions about them
(`CampaignAssumption`, `LimitAssumption`, `TimeoutAssumption`, `DispatchAssumption`,
`ActorAssumption`; `CampaignConfig`, `NoRunAssumption`; `CacheAssumption`, `LengthAssumption`,
`AudioAssumption`, `TickAssumption`; `StreamAssumption` and `AudioAssumption` of `Transcribe`), which only say of what
type they are, that `Dispatch` and `Req` are finite, that there is a stream, and that `"self"`, `NoNumber`, `NoRun` and
`Nobody` are not something else. What a theorem needs beyond them is an `ASSUME` of its own and named below.

**CallDispatchProofs.** `TypeCorrect` first. `CapsHold` says neither sorted set exceeds its cap: an acquisition adds one member to what the trim
keeps after finding it below the cap, and every other step leaves a subset; one lemma about how
the sets may change (`SlotStep`) carries this, the action property, and the two refinements
`OrgSlotsImplementLeases` and `CampaignSlotsImplementLeases`. That live calls keep their slots is
not inductive: a trim, another call's release or an unlucky reporter might take them. `SlotInv`
strengthens it. `ControlInv` ties the reports to the end of the call; a slot in use and fresh is in all three sets;
`ReleasedSoFar` says a release has removed the slot from the sets behind it for good; `MappingKept`
says a bound slot still counted has a mapping no older than itself. `SlotsHold` proves it step by
step; `LiveCallsHoldSlots`, `LiveCallsStayWithinCap`, `CountedSlotsAreReleasable` and
`SlotsFreedByOwner` follow.

**CampaignProofs.** `CampaignTypes` first, one lemma per process. `RunsHeld` proves `RunInv`:
batches hold disjoint sets of processing runs, a batch whose call is placed still holds its run, one that has marked a run and
not yet counted it holds it no longer, and, if batches are never cancelled, a run that was dialled is
finished, in the hands of the batch that has just dialled it, or in nobody's. The last clause is
why `DialledOnce` becomes inductive: every return of claims happens in a batch that is between two
runs, so what it returns was never dialled. `ClaimsExclusive` and
`DialledOnceUncancelled` follow, the last exactly up to the fault for which `campaign_redialled`
finds a double call. `FinishedRunsStay`: no step queues, claims or dials a finished run, and the only write a `processed` run can still see
is `failed`, by the batch that has just marked it and whose counters could not be updated. `StartsHold` proves `StartInv`:
nothing of the system touches a campaign that is still created, so the write of `start` finds what
its check saw, and until the ingest has written `running` only the ingest works on it; with it `PauseHolds` shows that a paused campaign is made to
run only by a resume or by the end of an ingest. `StrandedOnlyByDeath` answers who is responsible for a claimed run: a batch
lets go of it by finishing it or giving it back, except by dying or by an exception that escapes from it, which are the two steps that leave
a `processing` run with no holder. That run stays so for ever (`StrandedStays`): no later step of any process writes it, since claiming starts from
`queued`.

**DrainProofs.** `CompletedIsDrained` holds because of how long things take, so its invariant, `DrainInv`, bounds two clocks. The sweep
completes a campaign once the orchestrator's last activity, or, if it remembers none, the document, is `CompletionTimeout`
old and nothing is pending. While a run is waiting, being called, reported or about to be retried, `DocInv` keeps the document
younger than `Span`, the longest chain of attempts, and `ActInv` keeps the last activity younger than
`Budget`: a batch or a retry's delay, and `BatchTimeout + 1` more for each batch that was cancelled or died, because such a batch publishes no
event and is missed only when it is overdue. What the sweep finds idle is therefore drained, and stays so between its check, its second count and its
write (`SweepInv`), although the listener runs in between; `IngestInv` says the rows are there before any of this starts. The
orchestrator may die at any point, and every report may be duplicated. Two hypotheses are stated and both are needed. `DrainAssumption` says that
`Budget` and `Span`, each with the length of a call, are below `CompletionTimeout`, and that an ingest which finds no rows is not
the rerun of one that died or was cancelled. `campaign_retries` satisfies it (2 < 3 both times). So does the code's default policy (an hour against
batches of 300 s and two retries after 120 s each, `models/schemas.py:899`) for calls of at most ten minutes, even when three batches are
lost; many losses in a row outlast it, and so does the longest delay the schema admits when the orchestrator restarts meanwhile (section 5). And the
operator never resumes the campaign, because a pause clears the remembered activity (section 5). With an idle time of 2 ticks in place
of 3, or with a resume, TLC finds `CompletedIsDrained` violated in the instance of `campaign_retries`. `DrainHolds` and
`CompletedMeansDrained` carry the second as a temporal hypothesis, `[](api # "resume")`; `NeverResumed` discharges it where nobody may resume
a campaign, which gives `UnresumedMeansDrained`. A pause alone does no harm, and `campaign_retries` has one.

**DenseKVProofs and ParlerProofs.** About one cache: the ranks of a compaction number the sequences
`0 .. n-1` without a collision, so `Compact` gives each its own row again (`Own`, `Sound`); prefill,
release and growth keep it. About the engine: `BatchHolds` proves `IInv`, in which both caches are
sound, hold the running requests in the same slots, and are contiguous whenever a step runs;
the half-done admission is why the invariant must speak of every way `abort_prefill` is reached.
`EngineTypes`, `CachesAlwaysAgree`, `RowsAlwaysOwn` follow. `WorkerDiesOnlyOfFullPrompt` adds that before a step no row
is full but that of a request which has not been stepped since its prefill (`RoomInv`): whatever is admitted, undone, cancelled, evicted or grown, the thread dies only of a
prompt that fills its row exactly, which the code admits (`parler_worker_dies`). `CompactsAlwaysInPlace` is about the loop as it is written: it copies rows one
at a time over rows that may still be needed. `LoopFacts` shows what the rows are after the first `k` copies (`Moved`): those below the
front are in place and those above untouched, since a row only moves down, to its rank. `Own` says for this that a free slot has length 0. The loop is a
recursive function, and an induction theorem could not be instantiated; the proof takes the least `k` at which the two differ
(`LeastElement`) and refutes it.

**ParlerAudioProofs.** `StreamInv` joins a request's timeline, the finals queue and the output queue of its
caller: a request is queued once and has no timeline before its admission (`QueuedInv`, `TalkInv`), its chunks reach exactly
what `yielded` says (`Reach`), a final one is produced only in the iteration in which the request ends. From it `AudioAlwaysInOrder` follows for any
lookback, holdback and hop. `OnlyBacklogCuts` is about the end of a stream, for any number of finals per tick:
a caller who is told that its speech is done has the rest of it before the end, or its final is one of those the tick left queued behind
others (`SentInv`). So the cap on finals (2 at `runner.py:80`, against batches of 24, `runner.py:50`) is the only cause
of what `parler_tail_lost` finds: nothing is lost to the holdback of a live chunk, to a hang-up or to the order of the queue. `NobodyEverForgotten` is the safety half of `EveryoneServed`: who waits is on the prefill queue, or known to the worker,
or has the end of its stream to read. Its invariant (`CareInv`) adds that the worker knows only
requests of the batch and those it has just ended, and that a cancellation is never of a caller who still waits.

**TranscribeProofs.** Two threads write one record, so the proof has two relations: `LoopStep`, what
a handler may do to a session, and `WorkStep`, what the tick may. The worker's invariants (`Books`:
what was taken is in the buffer, in the hand, or was lost to a failed tick; `StageInv`: where the sessions of a tick are;
`GateInv`: what the silence gate saw still holds when it acts) are kept by any `LoopStep`
(`LoopKeepsWorker`), and the loop's (`CurrentInv`, `TurnsInv`, `QueueInv`, `HoldInv`, `RoomInv`) by any `WorkStep`
(`WorkKeepsStreams`, `WorkKeepsQueues`); each handler and each step of the tick is then proved
against its own side only. A handler of one stream leaves every other stream's view alone
(`OthersKept`). `Books` also accounts for what was fed, `in + cut = got`: only the endpoint's `Finalize` moves samples from `in` to `cut`, after speech and on a
stream that asked for endpoints, so `TurnsAreWhole` says of a turn decoded to its end that its buffer and what the endpoint discarded are all it was
fed. That the discarded part is silence is not so (`transcribe_tail_cut`). `Invariant` proves their conjunction; `RecogniserTypes`, `BuffersStayAligned`,
`TurnsAreWhole`, `GateSkipsSilence`, `LanguageIsHonoured`, `SessionsHaveOwners` and
`StopLosesNoTurn` follow. `Books` is needed because `WholeTurn` alone says nothing before a turn is
done; `TurnsInv` because a turn with words must be traced from the session through the queue to the
transcript; and that the VAD scores a block before it is appended (`HoldInv`) is what makes `mute = in` hold for a
session that has heard nothing.

**Only model-checked.** `Ends`, `ClaimsSettle`, `EveryoneServed` and `EveryTurnEnds`: liveness under fairness is out of the
prover's reach. Every invariant and every action property of a passing run, and the refinement of `SlotLease`, is a theorem; some need the
hypotheses named above, and are false without them.

## 5. Further observations

Behaviour seen while modelling that differs from a document, or that the code has no answer to. The
properties are stated so as to allow it.

Campaign engine:

- `dispatch_call` raises before its try block when there is no number or the pool is empty (`campaign_call_dispatcher.py:498`, `504`), and the slot stays counted until it is stale; `docs/developer/reference/call-concurrency.md:90` says that the unbound slot is released directly.
- A call that ends and is reported before `bind_call_slot` leaves its slot, bound afterwards, to nobody: it stays counted until it is stale.
- The end of an ingest writes `running` over a pause accepted while syncing (`docs/guides/concepts/campaigns.md:66`).
- A pause, or a breaker's trip, writes `paused` over `failed` or `completed` (`campaigns.md:73`).
- A pause clears the orchestrator's activity; after the resume the sweep may complete the campaign over a retry that is due later.
- `retry_delay_seconds` may be 3600 (`models/schemas.py:900`), as long as the idle hour: if the orchestrator restarts meanwhile, the campaign may be completed before the retry is due.
- A batch dials all it has claimed although the campaign is paused meanwhile.
- An exception that escapes from a batch (a Mongo command raising while claiming, in the handler of a run or in the return of claims) leaves its runs `processing`, and the campaign is failed over them.
- A run marked `processed` is rewritten to `failed` when the update of the counters raises, although its call was placed.
- An ingest that arq cancels (timeout) before its rows are in leaves the campaign `syncing` for ever; after a shutdown the job is run again.
- A dead worker's runs stay `processing`: the rerun job claims queued runs only, pending work never reaches zero and the campaign never completes.
- Resume writes `running` before it resets the breaker, which may trip on the old failures in between (`campaigns.md:71`).
- The second of two failure reports makes the orchestrator insert a retry that exists; the error ends the process, and its memory with it.
- With two reports of one call the slower may free a caller id that the next call holds already, and a caller id taken longer than the stale timeout is reclaimed under a live call: the pool is exclusive only while each call is reported once and in time. No property is stated of it.
- The number mapping is stored with two commands. When the second raises, the except block frees the caller id and the mapping stays; the report of the call frees the id again through it, whoever holds it by then.
- A call longer than 1200 s no longer counts against the caps.

Parler engine:

- A cancellation drained before its request is admitted is forgotten; the request then runs to its end for nobody (and ends by itself).

indic-transcribe:

- A client that disconnects while its session is in a batch makes the tick raise, and the other streams of the batch lose the chunk taken for them.
- `should_skip_gpu` is read before `_pending_finalize`: speech and a commit arriving in between are drained as silence, and the turn ends without words.
- A short turn can be decoded to its end while an earlier turn still has a backlog; its text is then first in the transcript.
- The handshake is outside the try whose finally retires the turn: when it raises, the session stays and takes up capacity.
- With the VAD gate off, a turn asked to finish before it has any audio has nothing to encode: it is dropped from every batch and its final never comes.
- The safety rollover is not applied to uploads, whose whole file is one turn.

## 6. Not modelled, and the plan

Left out of the modelled components: schedule windows, PATCH and delete of campaigns, the bulk (OBD) path,
progress counters, the token window, the reason switches of retries; CUDA-graph capture and the
CPU fallback of `audio_decode`; in indic-transcribe the exit on a fatal CUDA error, seamless
rotation (off by default), the token backstop of the rollover, partial deltas, the batch window and the wire
formats.

Out of scope: CRUD services, provider adapters, vector search, numerical inference, the web client, the
gateway's relays; they have no state that several actors race for, or only I/O. Call logs are written by
several actors, but without a guard: the last writer wins, and a property could only restate that.
The runtime's language switchers and hold messages keep their state within the one task of a call.

The map covers a small share of the repository's lines, most of which are schemas, routes,
adapters, numerical code, benchmarks and the client.

What remains worth doing, in this order:

1. `CircuitBreaker` and `acquire_token`: the sorted-set windows with real timestamps, refined by the counts of `Campaign`.
2. The bulk path: claiming everything in one request, metadata written from a stale document, the status poll.
3. The batcher of the other STT engines, if it grows apart from indic-transcribe's.
