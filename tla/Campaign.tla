------------------------------- MODULE Campaign -------------------------------
(* One outbound campaign: its document and its QueuedRuns in Mongo, the     *)
(* API's start / pause / resume, the ARQ jobs that ingest the CSV and dial  *)
(* batches, the single orchestrator process (an event listener and a sweep, *)
(* two asyncio tasks that interleave at every await), the circuit breaker,  *)
(* and the reports of ended calls that ask for a retry.  Time is a coarse   *)
(* tick: ages count ticks and stop at the timeout they are compared with.   *)
EXTENDS Integers, Sequences, FiniteSets

CONSTANTS
    Contact,            \* the rows of the CSV
    Worker,             \* ARQ worker coroutines that may run a batch
    NoRun,              \* not a run
    MaxRetries,         \* retry_config.max_retries
    RetryDelay,         \* retry_config.retry_delay_seconds, in ticks
    BatchSize,          \* CAMPAIGN_BATCH_SIZE
    BatchTimeout,       \* 300 s: a batch older than this is taken for lost
    CompletionTimeout,  \* 3600 s without activity
    CallMax,            \* the end of a call is reported within this time
    Reports,            \* reports per call: the webhook, and finalize_call
    BreakerOn,          \* circuit_breaker.enabled
    MinCalls,           \* circuit_breaker.min_calls_in_window
    MaxPoolTries,       \* MAX_PHONE_POOL_ATTEMPTS
    Redial,             \* whether the campaign is a redial: no source sync
    Fault,              \* the disturbances of an instance: see FaultKind
    MaxFaults,          \* bound on how many of them happen
    MaxJobs, MaxEvents  \* bounds on the job queue and the event channel

FaultKind == {"pause",         \* the operator pauses the campaign
              "resume",        \* the operator resumes a paused campaign
              "orchestrator",  \* the orchestrator dies and is restarted
              "cancel",        \* a batch job is cancelled (timeout, shutdown)
              "crash",         \* the worker process dies
              "sync",          \* the ingest raises
              "empty",         \* no row of the CSV has a phone number
              "slots",         \* no concurrency slot within 120 s
              "pool",          \* no free caller id
              "dial",          \* a run raises: a call that cannot be placed, ...
              "mongo"}         \* a Mongo command raises past the run's handler

ASSUME CampaignConfig ==
    /\ MaxRetries \in Nat /\ RetryDelay \in Nat /\ BatchSize \in Nat \ {0}
    /\ BatchTimeout \in Nat /\ CompletionTimeout \in Nat /\ CallMax \in Nat
    /\ Reports \in Nat /\ MinCalls \in Nat \ {0} /\ MaxPoolTries \in Nat
    /\ BreakerOn \in BOOLEAN /\ Redial \in BOOLEAN
    /\ Fault \subseteq FaultKind
    /\ MaxFaults \in Nat /\ MaxJobs \in Nat /\ MaxEvents \in Nat

\* A run is one attempt at one contact: source_uuid and retry_count, which
\* the unique index of QueuedRuns covers.
Run == Contact \X (0..MaxRetries + 1)
ASSUME NoRunAssumption == NoRun \notin Run

VARIABLES
    state,      \* Campaigns.state
    docAge,     \* age of last_activity_at, or of started_at before the first batch
    runs, due,  \* QueuedRuns: state, and ticks until scheduled_for
    dials,      \* how often each run was dialled
    reports,    \* reports still to come of the run's calls
    callAge,    \* age of the run's latest call
    report,     \* where handle_call_terminal is with the run's call
    window,     \* the breaker's sliding windows: failures and successes
    api,        \* the lifecycle request between its check and its write
    owed,       \* what the API has yet to do after the write of a start or resume
    sync,       \* the sync_campaign_source job
    jobs,       \* process_campaign_batch jobs queued in ARQ
    wpc, claims, cur, some, \* a batch: position, claimed runs not done, the
                            \* run in hand, whether one was processed
    slow,       \* the workers whose batch has seen a tick
    poolTries,  \* counters.phone_number_pool_exhausted_attempts
    chan,       \* campaign_events: published and not yet handled
    up, activity, batch, lock, \* the orchestrator process and its dictionaries
    task,       \* where its two tasks are
    seen,       \* the sweep's copy of docAge
    faults      \* faults so far

docVars == <<state, docAge, poolTries>>
runVars == <<runs, due>>
callVars == <<dials, reports, callAge>>
batchVars == <<wpc, claims, cur, some, slow>>
memVars == <<up, activity, batch, lock, seen>>
apiVars == <<api, owed, report, window>>
storeVars == <<docVars, runVars>>
outerVars == <<callVars, apiVars>>
jobVars == <<sync, jobs, batchVars>>
orchVars == <<memVars, task>>
vars == <<storeVars, outerVars, jobVars, chan, orchVars, faults>>

CampaignState == {"created", "syncing", "running", "paused", "completed", "failed"}
RunState == {"none", "queued", "processing", "processed", "failed"}
Event == [kind : {"sync", "completed", "failed", "tripped"}, run : {NoRun}]
         \union [kind : {"retry"}, run : Run]
Never == -1
Age(top) == {Never} \union 0..top
Task == {"listen", "sweep"}
TaskPC == {"idle", "check", "read", "gate", "trip", "offer", "mark", "note",
           "look", "idle_check", "recheck", "seal"}

TypeOK ==
    /\ state \in CampaignState /\ docAge \in 0..CompletionTimeout
    /\ runs \in [Run -> RunState] /\ due \in [Run -> 0..RetryDelay]
    /\ dials \in [Run -> Nat] /\ reports \in [Run -> Nat]
    /\ callAge \in [Run -> 0..CallMax]
    /\ report \in [Run -> {"idle", "success", "failure", "cancelled", "retrying"}]
    /\ window \in [fail : Nat, ok : Nat]
    /\ api \in {"idle", "start", "pause", "resume"} /\ owed \subseteq {"send", "reset"}
    /\ sync \in {"none", "queued", "fetching", "inserted", "written", "done"}
    /\ jobs \in Nat
    /\ wpc \in [Worker -> {"idle", "claim", "dial", "placed", "marked", "failing"}]
    /\ claims \in [Worker -> SUBSET Run]
    /\ cur \in [Worker -> Run \union {NoRun}] /\ some \in [Worker -> BOOLEAN]
    /\ slow \subseteq Worker
    /\ poolTries \in Nat /\ chan \in Seq(Event)
    /\ up \in BOOLEAN /\ lock \in BOOLEAN
    /\ activity \in Age(CompletionTimeout) /\ batch \in Age(BatchTimeout)
    /\ task \in [Task -> TaskPC] /\ seen \in 0..CompletionTimeout
    /\ faults \in Nat

Init ==
    /\ state = "created" /\ docAge = 0
    /\ runs = [r \in Run |-> IF Redial /\ r[2] = 0 THEN "queued" ELSE "none"]
    /\ due = [r \in Run |-> 0]
    /\ dials = [r \in Run |-> 0] /\ reports = [r \in Run |-> 0]
    /\ callAge = [r \in Run |-> 0] /\ report = [r \in Run |-> "idle"]
    /\ window = [fail |-> 0, ok |-> 0]
    /\ api = "idle" /\ owed = {} /\ sync = "none" /\ jobs = 0
    /\ wpc = [w \in Worker |-> "idle"] /\ claims = [w \in Worker |-> {}]
    /\ cur = [w \in Worker |-> NoRun] /\ some = [w \in Worker |-> FALSE] /\ slow = {}
    /\ poolTries = 0 /\ chan = <<>>
    /\ up = TRUE /\ activity = Never /\ batch = Never /\ lock = FALSE
    /\ task = [t \in Task |-> "idle"] /\ seen = 0
    /\ faults = 0

\* Mutant: the retry event carries no queued_run_id.
SendNoRun(kind, r) ==
    chan' = IF up THEN Append(chan, [kind |-> kind, run |-> NoRun]) ELSE chan
\* Redis pub/sub: an event reaches the orchestrator or nobody.
Send(kind, r) == chan' = IF up THEN Append(chan, [kind |-> kind, run |-> r]) ELSE chan
\* The other processes wait while the channel holds MaxEvents.
Publish(kind, r) == Len(chan) < MaxEvents /\ Send(kind, r)

Happens(fault) ==
    /\ fault \in Fault /\ faults < MaxFaults
    /\ faults' = faults + 1

----------------------------------------------------------------------------
\* The API: CampaignRunnerService.  The check and the write are two Mongo
\* commands; no other API handler runs between them, the other processes do.

\* Mutant: a failed campaign may be started once more.
LegalFromFailed(op) ==
    CASE op = "start" -> {"created", "failed"}
      [] op = "pause" -> {"running", "syncing"}
      [] op = "resume" -> {"paused"}

LegalFrom(op) ==
    CASE op = "start" -> {"created"}
      [] op = "pause" -> {"running", "syncing"}
      [] op = "resume" -> {"paused"}

Request(op) ==
    /\ api = "idle"
    /\ state \in LegalFrom(op)
    /\ api' = op
    /\ op = "resume" => "resume" \in Fault
    /\ IF op = "pause" THEN Happens("pause") ELSE UNCHANGED faults
    /\ UNCHANGED <<storeVars, callVars, owed, report, window, jobVars,
                   chan, orchVars>>

StartWrite ==
    /\ api = "start"
    /\ api' = "idle" /\ docAge' = 0
    /\ state' = IF Redial THEN "running" ELSE "syncing"
    /\ owed' = owed \union {"send"}
    /\ UNCHANGED <<poolTries, runVars, callVars, report, window, jobVars, chan,
                   orchVars, faults>>

\* A redial has its runs already: it only tells the orchestrator.
StartSend ==
    /\ "send" \in owed
    /\ owed' = owed \ {"send"}
    /\ IF Redial THEN Publish("sync", NoRun) /\ UNCHANGED sync
       ELSE sync' = "queued" /\ UNCHANGED chan
    /\ UNCHANGED <<storeVars, callVars, api, report, window, jobs, batchVars,
                   orchVars, faults>>

PauseWrite ==
    /\ api = "pause"
    /\ api' = "idle" /\ state' = "paused"
    /\ UNCHANGED <<docAge, poolTries, runVars, callVars, owed, report,
                   window, jobVars, chan, orchVars, faults>>

ResumeWrite ==
    /\ api = "resume"
    /\ api' = "idle" /\ state' = "running"
    /\ owed' = owed \union {"reset"}
    /\ UNCHANGED <<docAge, poolTries, runVars, callVars, report, window,
                   jobVars, chan, orchVars, faults>>

ResumeReset ==
    /\ "reset" \in owed
    /\ owed' = owed \ {"reset"} /\ window' = [fail |-> 0, ok |-> 0]
    /\ UNCHANGED <<storeVars, callVars, api, report, jobVars, chan, orchVars,
                   faults>>

----------------------------------------------------------------------------
\* The end of a call: handle_call_terminal, in the API process

IsOpen(win) ==
    /\ BreakerOn
    /\ win.fail + win.ok >= MinCalls
    /\ 2 * win.fail >= win.fail + win.ok

\* Outcomes older than window_seconds drop out of the sliding windows.
WindowPasses ==
    /\ \/ window.fail > 0 /\ window' = [window EXCEPT !.fail = @ - 1]
       \/ window.ok > 0 /\ window' = [window EXCEPT !.ok = @ - 1]
    /\ UNCHANGED <<storeVars, callVars, api, owed, report, jobVars, chan,
                   orchVars, faults>>

\* record_and_evaluate looks at the state before it awaits the windows.  A
\* cancelled call counts as a failure there and is not tried again.
ReportArrives(r) ==
    /\ api = "idle" /\ report[r] = "idle" /\ reports[r] > 0
    /\ reports' = [reports EXCEPT ![r] = @ - 1]
    /\ \E outcome \in {"success", "failure", "cancelled"} :
          report' = [report EXCEPT ![r] =
                       IF BreakerOn /\ state = "running" THEN outcome
                       ELSE IF outcome = "failure" THEN "retrying" ELSE "idle"]
    /\ UNCHANGED <<storeVars, dials, callAge, api, owed, window, jobVars,
                   chan, orchVars, faults>>

\* record_call_outcome; a trip pauses the campaign whatever its state is now.
Evaluate(r) ==
    /\ api = "idle" /\ report[r] \in {"success", "failure", "cancelled"}
    /\ LET win == IF report[r] = "success"
                  THEN [window EXCEPT !.ok = @ + 1]
                  ELSE [window EXCEPT !.fail = @ + 1]
       IN  /\ window' = win
           /\ IF IsOpen(win)
              THEN state' = "paused" /\ Publish("tripped", NoRun)
              ELSE UNCHANGED <<state, chan>>
    /\ report' = [report EXCEPT ![r] = IF @ = "failure" THEN "retrying" ELSE "idle"]
    /\ UNCHANGED <<docAge, poolTries, runVars, callVars, api, owed,
                   jobVars, orchVars, faults>>

AskRetry(r) ==
    /\ api = "idle" /\ report[r] = "retrying"
    /\ report' = [report EXCEPT ![r] = "idle"]
    /\ Publish("retry", r)
    /\ UNCHANGED <<storeVars, callVars, api, owed, window, jobVars,
                   orchVars, faults>>

----------------------------------------------------------------------------
\* The unique index on (campaign_id, source_uuid, retry_count).
Insertable(r) == runs[r] = "none"

\* sync_campaign_source

SyncTake ==
    /\ sync = "queued"
    /\ sync' = "fetching"
    /\ UNCHANGED <<storeVars, outerVars, jobs, batchVars, chan, orchVars,
                   faults>>

\* insert_many of all rows.
SyncInsert ==
    /\ sync = "fetching"
    /\ \A c \in Contact : Insertable(<<c, 0>>)
    /\ runs' = [r \in Run |-> IF r[2] = 0 THEN "queued" ELSE runs[r]]
    /\ sync' = "inserted"
    /\ UNCHANGED <<docVars, due, outerVars, jobs, batchVars, chan, orchVars,
                   faults>>

\* The state is written whatever it has become since the start request.
SyncFinish ==
    /\ sync = "inserted"
    /\ state' = "running" /\ sync' = "written"
    /\ UNCHANGED <<docAge, poolTries, runVars, outerVars, jobs, batchVars, chan,
                   orchVars, faults>>

SyncPublish ==
    /\ sync = "written"
    /\ sync' = "done"
    /\ Publish("sync", NoRun)
    /\ UNCHANGED <<storeVars, outerVars, jobs, batchVars, orchVars, faults>>

\* No row has a phone number.
SyncEmpty ==
    /\ sync = "fetching" /\ Happens("empty")
    /\ state' = "completed" /\ sync' = "done"
    /\ UNCHANGED <<docAge, poolTries, runVars, outerVars, jobs, batchVars, chan,
                   orchVars>>

\* Reading the CSV, a write after the insert or publishing raises, or the rows
\* are there already.
SyncFails ==
    /\ \/ sync \in {"fetching", "inserted", "written"} /\ Happens("sync")
       \/ /\ sync = "fetching" /\ \E c \in Contact : ~Insertable(<<c, 0>>)
          /\ UNCHANGED faults
    /\ state' = "failed" /\ sync' = "done"
    /\ UNCHANGED <<docAge, poolTries, runVars, outerVars, jobs, batchVars, chan,
                   orchVars>>

\* CancelledError at an await, reading or publishing: no except clause writes
\* the state.  ARQ runs the job again after a shutdown, not after its timeout.
SyncCancelled ==
    /\ sync \in {"fetching", "written"}
    /\ Happens("cancel")
    /\ sync' \in {"queued", "done"}
    /\ UNCHANGED <<storeVars, outerVars, jobs, batchVars, chan, orchVars>>

\* The worker dies in the job, and ARQ runs it again.
SyncCrash ==
    /\ sync \in {"fetching", "inserted", "written"}
    /\ Happens("crash")
    /\ sync' = "queued"
    /\ UNCHANGED <<storeVars, outerVars, jobs, batchVars, chan, orchVars>>

----------------------------------------------------------------------------
\* process_campaign_batch and process_batch

Rest(w) ==
    /\ claims' = [claims EXCEPT ![w] = {}]
    /\ cur' = [cur EXCEPT ![w] = NoRun]
    /\ some' = [some EXCEPT ![w] = FALSE]
    /\ slow' = slow \ {w}

Go(w, to) == wpc' = [wpc EXCEPT ![w] = to]

\* The state is looked at once, before anything is claimed.
TakeJob(w) ==
    /\ wpc[w] = "idle" /\ jobs > 0
    /\ jobs' = jobs - 1
    /\ IF state = "running"
       THEN Go(w, "claim") /\ UNCHANGED chan
       ELSE Publish("completed", NoRun) /\ UNCHANGED wpc
    /\ UNCHANGED <<storeVars, outerVars, sync, claims, cur, some, slow,
                   orchVars, faults>>

\* Mutant: the query does not name the state.
ClaimableTaken(r) == runs[r] \in {"queued", "processing"} /\ due[r] = 0
Claimable(r) == runs[r] = "queued" /\ due[r] = 0

\* claim_queued_runs_for_processing: one find_one_and_update per run.
Claim(w, r) ==
    /\ wpc[w] = "claim" /\ Cardinality(claims[w]) < BatchSize
    /\ Claimable(r)
    /\ runs' = [runs EXCEPT ![r] = "processing"]
    /\ claims' = [claims EXCEPT ![w] = @ \union {r}]
    /\ UNCHANGED <<docVars, due, outerVars, sync, jobs, wpc, cur, some, slow,
                   chan, orchVars, faults>>

\* Mutant: the loop goes on when nothing is left to claim.
ClaimEndsFull(w) ==
    /\ wpc[w] = "claim"
    /\ \/ Cardinality(claims[w]) = BatchSize
       \/ claims[w] = {} /\ ~\E r \in Run : Claimable(r)
    /\ Go(w, "dial")
    /\ UNCHANGED <<storeVars, outerVars, sync, jobs, claims, cur, some, slow,
                   chan, orchVars, faults>>
ClaimEnds(w) ==
    /\ wpc[w] = "claim"
    /\ Cardinality(claims[w]) = BatchSize \/ ~\E r \in Run : Claimable(r)
    /\ Go(w, "dial")
    /\ UNCHANGED <<storeVars, outerVars, sync, jobs, claims, cur, some, slow,
                   chan, orchVars, faults>>

\* A slot, a caller id and an answer of the provider: the call is placed.
Dial(w, r) ==
    /\ wpc[w] = "dial" /\ r \in claims[w]
    /\ dials' = [dials EXCEPT ![r] = @ + 1]
    /\ reports' = [reports EXCEPT ![r] = @ + Reports]
    /\ callAge' = [callAge EXCEPT ![r] = 0]
    /\ cur' = [cur EXCEPT ![w] = r]
    /\ Go(w, "placed")
    /\ UNCHANGED <<storeVars, apiVars, sync, jobs, claims, some, slow, chan,
                   orchVars, faults>>

\* Mutant: the run is not taken off the list.
KeepClaim(w, r) == UNCHANGED claims
DropClaim(w, r) == claims' = [claims EXCEPT ![w] = @ \ {r}]
\* ... and after the await of bind_call_slot the run is marked.
MarkProcessed(w) ==
    /\ wpc[w] = "placed"
    /\ runs' = [runs EXCEPT ![cur[w]] = "processed"]
    /\ DropClaim(w, cur[w])
    /\ some' = [some EXCEPT ![w] = TRUE]
    /\ Go(w, "marked")
    /\ UNCHANGED <<docVars, due, outerVars, sync, jobs, cur, slow, chan,
                   orchVars, faults>>

\* processed_rows is written and the campaign read again, in the same try.
CountProcessed(w) ==
    /\ wpc[w] = "marked"
    /\ cur' = [cur EXCEPT ![w] = NoRun]
    /\ Go(w, "dial")
    /\ UNCHANGED <<storeVars, outerVars, sync, jobs, claims, some, slow, chan,
                   orchVars, faults>>

\* except Exception, before the call is placed, after it, or after the run was
\* marked processed: that run is marked failed, the loop goes on.
MarkFailed(w, r) ==
    /\ \/ wpc[w] = "dial" /\ r \in claims[w]
       \/ wpc[w] \in {"placed", "marked"} /\ r = cur[w]
    /\ Happens("dial")
    /\ runs' = [runs EXCEPT ![r] = "failed"]
    /\ DropClaim(w, r)
    /\ cur' = [cur EXCEPT ![w] = NoRun]
    /\ Go(w, "dial")
    /\ UNCHANGED <<docVars, due, outerVars, sync, jobs, some, slow, chan, orchVars>>

BatchEnds(w) ==
    /\ wpc[w] = "dial" /\ claims[w] = {}
    /\ poolTries' = IF some[w] THEN 0 ELSE poolTries
    /\ Publish("completed", NoRun)
    /\ Rest(w) /\ Go(w, "idle")
    /\ UNCHANGED <<state, docAge, runVars, outerVars, sync, jobs, orchVars,
                   faults>>

\* Mutant: the claims are forgotten.
ReturnNothing(w) == UNCHANGED runs
\* return_processing_queued_runs_without_call.  A run gets its call_id only
\* with "processed", so every run still processing counts as without a call.
ReturnClaims(w) ==
    runs' = [r \in Run |-> IF r \in claims[w] /\ runs[r] = "processing"
                           THEN "queued" ELSE runs[r]]

NoSlot(w) ==
    /\ wpc[w] = "dial" /\ claims[w] # {}
    /\ Happens("slots")
    /\ ReturnClaims(w)
    /\ Publish("failed", NoRun)
    /\ Rest(w) /\ Go(w, "failing")
    /\ UNCHANGED <<docVars, due, outerVars, sync, jobs, orchVars>>

NoNumber(w) ==
    /\ wpc[w] = "dial" /\ claims[w] # {}
    /\ Happens("pool")
    /\ ReturnClaims(w)
    /\ poolTries' = poolTries + 1
    /\ Rest(w)
    /\ IF poolTries + 1 < MaxPoolTries
       THEN Publish("completed", NoRun) /\ Go(w, "idle")
       ELSE Publish("failed", NoRun) /\ Go(w, "failing")
    /\ UNCHANGED <<state, docAge, due, outerVars, sync, jobs, orchVars>>

\* except Exception of the job: a Mongo command has raised while claiming, in
\* the handler of a run, in the return of claims or after the loop.  What is
\* claimed stays processing.
BatchRaises(w) ==
    /\ wpc[w] \in {"claim", "dial", "placed", "marked"}
    /\ Happens("mongo")
    /\ Publish("failed", NoRun)
    /\ Rest(w) /\ Go(w, "failing")
    /\ UNCHANGED <<storeVars, outerVars, sync, jobs, orchVars>>

FailCampaign(w) ==
    /\ wpc[w] = "failing"
    /\ state' = "failed" /\ Go(w, "idle")
    /\ UNCHANGED <<docAge, poolTries, runVars, outerVars, sync, jobs, claims,
                   cur, some, slow, chan, orchVars, faults>>

\* CancelledError at an await: of a dial, of the event that ends the batch or
\* of the one before the campaign fails.  ARQ runs the job again after a
\* shutdown and drops it after its timeout.
CancelBatch(w) ==
    /\ wpc[w] \in {"dial", "placed", "failing"}
    /\ Happens("cancel")
    /\ ReturnClaims(w)
    /\ poolTries' = IF claims[w] = {} /\ some[w] THEN 0 ELSE poolTries
    /\ Rest(w) /\ Go(w, "idle")
    /\ jobs' \in {jobs, jobs + 1}
    /\ UNCHANGED <<state, docAge, due, outerVars, sync, chan, orchVars>>

\* The worker dies: what it claimed stays processing, the job is run again.
CrashBatch(w) ==
    /\ wpc[w] # "idle"
    /\ Happens("crash")
    /\ Rest(w) /\ Go(w, "idle")
    /\ jobs' = jobs + 1
    /\ UNCHANGED <<storeVars, outerVars, sync, chan, orchVars>>

----------------------------------------------------------------------------
\* The orchestrator: _schedule_next_batch, run by either task

TaskGo(t, to) == task' = [task EXCEPT ![t] = to]
\* The listener notes activity once it has scheduled; the sweep does not.
Done(t) == TaskGo(t, IF t = "listen" THEN "note" ELSE "idle")
Forget == activity' = Never /\ batch' = Never /\ lock' = FALSE
Pending == \E r \in Run : runs[r] = "processing" \/ Claimable(r)

\* _processing_locks: a lock younger than five seconds turns the task away.
EnterSchedule(t) ==
    /\ IF lock THEN Done(t) ELSE TaskGo(t, "read")
    /\ lock' = TRUE

ReadCampaign(t) ==
    /\ task[t] = "read"
    /\ IF state \in {"running", "syncing"} THEN TaskGo(t, "gate") ELSE Done(t)
    /\ UNCHANGED <<storeVars, outerVars, jobVars, chan, memVars, faults>>

CheckBreaker(t) ==
    /\ task[t] = "gate"
    /\ TaskGo(t, IF IsOpen(window) THEN "trip" ELSE "offer")
    /\ UNCHANGED <<storeVars, outerVars, jobVars, chan, memVars, faults>>

Trip(t) ==
    /\ task[t] = "trip"
    /\ state' = "paused"
    /\ Send("tripped", NoRun)
    /\ Forget /\ Done(t)
    /\ UNCHANGED <<docAge, poolTries, runVars, outerVars, jobVars, up, seen,
                   faults>>

\* The job is queued before the orchestrator remembers that it is.
Offer(t) ==
    /\ task[t] = "offer"
    /\ IF Pending
       THEN jobs < MaxJobs /\ jobs' = jobs + 1 /\ TaskGo(t, "mark")
       ELSE Done(t) /\ UNCHANGED jobs
    /\ UNCHANGED <<storeVars, outerVars, sync, batchVars, chan, memVars,
                   faults>>

\* Mutant: the document read before the breaker was asked is written back.
MarkBatchAndState(t) ==
    /\ task[t] = "mark"
    /\ batch' = 0 /\ docAge' = 0 /\ state' = "running"
    /\ Done(t)
    /\ UNCHANGED <<poolTries, runVars, outerVars, jobVars, chan, up, activity,
                   lock, seen, faults>>
MarkBatch(t) ==
    /\ task[t] = "mark"
    /\ batch' = 0 /\ docAge' = 0
    /\ Done(t)
    /\ UNCHANGED <<state, poolTries, runVars, outerVars, jobVars, chan, up,
                   activity, lock, seen, faults>>

\* _release_lock_after_delay, or the five seconds have passed.
Unlock ==
    /\ lock
    /\ lock' = FALSE
    /\ UNCHANGED <<storeVars, outerVars, jobVars, chan, up, activity, batch,
                   seen, task, faults>>

----------------------------------------------------------------------------
\* The orchestrator: _handle_event and _handle_retry_event

Handle(kind) ==
    /\ up /\ task["listen"] = "idle"
    /\ chan # <<>> /\ Head(chan).kind = kind
    /\ chan' = Tail(chan)

OnSyncCompleted ==
    /\ Handle("sync")
    /\ EnterSchedule("listen")
    /\ UNCHANGED <<storeVars, outerVars, jobVars, up, activity, batch, seen,
                   faults>>

OnBatchCompleted ==
    /\ Handle("completed")
    /\ batch' = Never /\ TaskGo("listen", "check")
    /\ UNCHANGED <<storeVars, outerVars, jobVars, up, activity, lock, seen,
                   faults>>

CheckRunning ==
    /\ task["listen"] = "check"
    /\ IF state = "running"
       THEN EnterSchedule("listen") /\ UNCHANGED <<activity, batch>>
       ELSE Forget /\ TaskGo("listen", "idle")
    /\ UNCHANGED <<storeVars, outerVars, jobVars, chan, up, seen, faults>>

OnBatchFailed ==
    /\ Handle("failed")
    /\ batch' = Never /\ activity' = 0
    /\ UNCHANGED <<storeVars, outerVars, jobVars, up, lock, seen, task, faults>>

OnTripped ==
    /\ Handle("tripped")
    /\ Forget
    /\ UNCHANGED <<storeVars, outerVars, jobVars, up, seen, task, faults>>

MayRetry(r) == r[2] < MaxRetries
NextAttempt(r) == <<r[1], r[2] + 1>>

\* The last attempt only counts in failed_rows.
OnRetryExhausted ==
    /\ Handle("retry")
    /\ ~MayRetry(Head(chan).run)
    /\ UNCHANGED <<storeVars, outerVars, jobVars, orchVars, faults>>

OnRetry ==
    /\ Handle("retry")
    /\ LET r == Head(chan).run
           n == NextAttempt(r)
       IN  /\ MayRetry(r) /\ Insertable(n)
           /\ runs' = [runs EXCEPT ![n] = "queued"]
           /\ due' = [due EXCEPT ![n] = RetryDelay]
    /\ TaskGo("listen", "note")
    /\ UNCHANGED <<docVars, outerVars, jobVars, memVars, faults>>

NoteActivity ==
    /\ task["listen"] = "note"
    /\ activity' = 0 /\ TaskGo("listen", "idle")
    /\ UNCHANGED <<storeVars, outerVars, jobVars, chan, up, batch, lock, seen,
                   faults>>

\* All memory and every event under way are lost.
Down ==
    /\ up' = FALSE /\ Forget /\ chan' = <<>>
    /\ task' = [t \in Task |-> "idle"] /\ UNCHANGED seen

\* DuplicateKeyError: nothing in the listener catches it, so gather ends and
\* the process with it.
OnRetryDuplicate ==
    /\ up /\ task["listen"] = "idle"
    /\ chan # <<>> /\ Head(chan).kind = "retry"
    /\ MayRetry(Head(chan).run) /\ ~Insertable(NextAttempt(Head(chan).run))
    /\ Down
    /\ UNCHANGED <<storeVars, outerVars, jobVars, faults>>

OrchestratorDies ==
    /\ up /\ Happens("orchestrator")
    /\ Down
    /\ UNCHANGED <<storeVars, outerVars, jobVars>>

OrchestratorRestarts ==
    /\ ~up
    /\ up' = TRUE
    /\ UNCHANGED <<storeVars, outerVars, jobVars, chan, activity, batch, lock,
                   seen, task, faults>>

----------------------------------------------------------------------------
\* The orchestrator: _check_stale_campaigns, every sixty seconds

SweepRead ==
    /\ up /\ task["sweep"] = "idle" /\ state = "running"
    /\ seen' = docAge /\ TaskGo("sweep", "look")
    /\ UNCHANGED <<storeVars, outerVars, jobVars, chan, up, activity, batch,
                   lock, faults>>

\* Mutant: a batch is waited for for ever.
BatchInProgressForEver == batch # Never
BatchInProgress == batch # Never /\ batch < BatchTimeout

SweepLook ==
    /\ task["sweep"] = "look"
    /\ IF BatchInProgress
       THEN TaskGo("sweep", "idle") /\ UNCHANGED <<batch, lock>>
       ELSE /\ batch' = Never
            /\ IF Pending THEN EnterSchedule("sweep")
               ELSE TaskGo("sweep", "idle_check") /\ UNCHANGED lock
    /\ UNCHANGED <<storeVars, outerVars, jobVars, chan, up, activity, seen,
                   faults>>

\* Mutant: the idle hour is not waited for.
IdleAtOnce == batch = Never /\ ~Pending
\* _should_mark_complete
IdleLongEnough ==
    /\ batch = Never /\ ~Pending
    /\ (IF activity # Never THEN activity ELSE seen) >= CompletionTimeout

SweepIdleCheck ==
    /\ task["sweep"] = "idle_check"
    /\ TaskGo("sweep", IF IdleLongEnough THEN "recheck" ELSE "idle")
    /\ UNCHANGED <<storeVars, outerVars, jobVars, chan, memVars, faults>>

\* _complete_campaign counts once more, then writes whatever the state is.
SweepRecheck ==
    /\ task["sweep"] = "recheck"
    /\ TaskGo("sweep", IF Pending THEN "idle" ELSE "seal")
    /\ UNCHANGED <<storeVars, outerVars, jobVars, chan, memVars, faults>>

SweepSeal ==
    /\ task["sweep"] = "seal"
    /\ state' = "completed"
    /\ Forget /\ TaskGo("sweep", "idle")
    /\ UNCHANGED <<docAge, poolTries, runVars, outerVars, jobVars, chan, up,
                   seen, faults>>

----------------------------------------------------------------------------
Older(age, top) == IF age = Never \/ age >= top THEN age ELSE age + 1

\* A tick is minutes: requests are answered, events handled, the orchestrator
\* restarted and its awaits over, a queued job taken and the sweep, which comes
\* every minute, has seen the work there is.  A batch waits for rate tokens and
\* slots, and arq's job_timeout ends it before its second tick.
Prompt ==
    /\ up /\ chan = <<>> /\ task = [t \in Task |-> "idle"]
    /\ api = "idle" /\ owed = {} /\ report = [r \in Run |-> "idle"]
    /\ sync \in {"none", "done"} /\ jobs = 0 /\ slow = {}
    /\ \A w \in Worker : wpc[w] = "idle" \/ (wpc[w] = "dial" /\ claims[w] # {})
    /\ ~(state = "running" /\ Pending /\ ~BatchInProgress)

\* Time passes.  A call ends, and its reports arrive, within CallMax.
Tick ==
    /\ Prompt
    /\ \A r \in Run : reports[r] > 0 => callAge[r] < CallMax
    /\ docAge' = Older(docAge, CompletionTimeout)
    /\ seen' = Older(seen, CompletionTimeout)
    /\ activity' = Older(activity, CompletionTimeout)
    /\ batch' = Older(batch, BatchTimeout)
    /\ due' = [r \in Run |-> IF due[r] > 0 THEN due[r] - 1 ELSE 0]
    /\ callAge' = [r \in Run |-> IF reports[r] > 0 THEN callAge[r] + 1 ELSE callAge[r]]
    /\ slow' = {w \in Worker : wpc[w] = "dial"}
    /\ UNCHANGED <<state, poolTries, runs, dials, reports, apiVars, sync, jobs,
                   wpc, claims, cur, some, chan, up, lock, task, faults>>

Api == \/ \E op \in {"start", "pause", "resume"} : Request(op)
       \/ StartWrite \/ StartSend \/ PauseWrite \/ ResumeWrite \/ ResumeReset

ReportStep(r) == ReportArrives(r) \/ Evaluate(r) \/ AskRetry(r)

Sync == SyncTake \/ SyncInsert \/ SyncFinish \/ SyncPublish \/ SyncEmpty
        \/ SyncFails \/ SyncCancelled \/ SyncCrash

Work(w) == \/ TakeJob(w) \/ ClaimEnds(w) \/ MarkProcessed(w) \/ CountProcessed(w)
           \/ BatchEnds(w) \/ FailCampaign(w)
           \/ \E r \in Run : Claim(w, r) \/ Dial(w, r)

WorkerFault(w) == \/ NoSlot(w) \/ NoNumber(w) \/ BatchRaises(w)
                  \/ CancelBatch(w) \/ CrashBatch(w)
                  \/ \E r \in Run : MarkFailed(w, r)

Schedule(t) == ReadCampaign(t) \/ CheckBreaker(t) \/ Trip(t) \/ Offer(t) \/ MarkBatch(t)

Listen == \/ OnSyncCompleted \/ OnBatchCompleted \/ CheckRunning \/ OnBatchFailed
          \/ OnTripped \/ OnRetryExhausted \/ OnRetry \/ OnRetryDuplicate
          \/ NoteActivity

Sweep == SweepRead \/ SweepLook \/ SweepIdleCheck \/ SweepRecheck \/ SweepSeal

Next ==
    \/ Api \/ WindowPasses
    \/ \E r \in Run : ReportStep(r)
    \/ Sync
    \/ \E w \in Worker : Work(w) \/ WorkerFault(w)
    \/ \E t \in Task : Schedule(t)
    \/ Listen \/ Sweep \/ Unlock
    \/ OrchestratorDies \/ OrchestratorRestarts
    \/ Tick

Spec == Init /\ [][Next]_vars

\* The processes run: requests finish, workers and both orchestrator tasks
\* take their steps, every call is reported, time passes.  The operator who
\* has started the campaign and the faults owe nothing.
Fairness ==
    /\ WF_vars(StartWrite) /\ WF_vars(StartSend) /\ WF_vars(PauseWrite) /\ WF_vars(ResumeWrite)
    /\ WF_vars(ResumeReset) /\ WF_vars(Request("start"))
    /\ \A r \in Run : WF_vars(ReportStep(r))
    /\ WF_vars(SyncTake \/ SyncInsert \/ SyncFinish \/ SyncPublish
               \/ SyncFails)
    /\ \A w \in Worker : WF_vars(Work(w))
    /\ WF_vars(Schedule("listen") \/ Listen) /\ WF_vars(Schedule("sweep") \/ Sweep)
    /\ WF_vars(Unlock) /\ WF_vars(OrchestratorRestarts) /\ SF_vars(Tick)

FairSpec == Spec /\ Fairness

----------------------------------------------------------------------------
(* What is claimed of the campaign                                          *)

\* No run is in the hands of two batches: find_one_and_update claims it
\* atomically, however many workers claim at once, batches are cancelled and
\* claims are returned (docs/guides/concepts/campaigns.md, "Two workers cannot
\* claim the same run").
ExclusiveClaim ==
    \A v, w \in Worker : v # w => claims[v] \intersect claims[w] = {}

\* What is finished stays finished: a processed or failed run is never queued,
\* claimed or dialled again, whatever batches are cancelled, rerun or raise.
\* Only the batch that has just marked a run processed may write failed over
\* it, since it updates its counters in the same try; a failed run stays so.
RunsAreFinal ==
    [][\A r \in Run : runs[r] \in {"processed", "failed"} =>
          /\ dials'[r] = dials[r]
          /\ \/ runs'[r] = runs[r]
             \/ /\ runs'[r] = "failed"
                /\ \E w \in Worker : wpc[w] = "marked" /\ cur[w] = r]_vars

\* "A run that already produced a call is never re-dialled"
\* (docs/guides/concepts/campaigns.md).
DialledOnce == \A r \in Run : dials[r] <= 1

\* No attempt beyond the last retry is ever queued.
AttemptsBounded == \A r \in Run : r[2] > MaxRetries => runs[r] = "none"

\* A completed campaign has nobody left to call, now or later: the idle hour
\* is there so that a pending retry is not mistaken for an empty queue
\* (docs/guides/concepts/campaigns.md, "Completion detection").
CompletedIsDrained ==
    state = "completed" =>
        /\ \A r \in Run : runs[r] \notin {"queued", "processing"}
        /\ \A i \in 1..Len(chan) : chan[i].kind = "retry" => ~MayRetry(chan[i].run)

\* A run marked "processing" that no batch holds: nobody will finish it or give
\* it back, since a job that is run again claims queued runs only.
Stranded(r) == runs[r] = "processing" /\ \A w \in Worker : r \notin claims[w]

\* A claimed run is stranded only by the death of the worker that holds it or by
\* an exception that escapes from its batch.  Every other way out of a batch,
\* by cancellation, a full fleet, an empty pool or a call that cannot be
\* placed, finishes the run or gives it back, also when other batches are
\* cancelled, raise or die meanwhile.
OnlyDeathStrands ==
    [][\A r \in Run : Stranded(r)' =>
          \/ Stranded(r)
          \/ \E w \in Worker : r \in claims[w] /\ (CrashBatch(w) \/ BatchRaises(w))]_vars

\* A paused campaign runs again only when the operator resumes it, or when an
\* ingest that was still under way at the pause ends and writes over it.
OnlyResumeUnpauses ==
    [][state = "paused" /\ state' = "running" =>
          api = "resume" \/ sync = "inserted"]_vars

\* What makes the safety properties of runs hold, step by step.  A batch holds
\* processing runs only, among them the one whose call it has placed; the run
\* it has marked and not yet counted is finished, and no longer among them; a
\* dialled run is finished, or in the hands of that batch, or of no batch any
\* more: it can be given back only by a cancellation.
RunInv ==
    /\ ExclusiveClaim
    /\ AttemptsBounded
    /\ \A w \in Worker :
          /\ \A r \in claims[w] : runs[r] = "processing"
          /\ wpc[w] = "placed" => cur[w] \in claims[w]
          /\ wpc[w] = "marked" =>
                cur[w] \in Run /\ runs[cur[w]] \in {"processed", "failed"}
    /\ "cancel" \notin Fault =>
          /\ DialledOnce
          /\ \A r \in Run : dials[r] = 1 =>
                /\ runs[r] \in {"processing", "processed", "failed"}
                /\ \A w \in Worker :
                      r \in claims[w] => wpc[w] = "placed" /\ cur[w] = r

\* Only a request under way can start a campaign, and it finds nothing begun:
\* before its write no job, event, task, call or report of the campaign exists
\* that could change the state between the check and the write.  Until the
\* ingest has written "running" only the ingest works on the campaign, however
\* often it is cancelled, dies and is run again.
StartInv ==
    /\ api = "start" => state = "created"
    /\ state = "created" => api \in {"idle", "start"} /\ owed = {} /\ sync = "none"
    /\ state = "syncing" => ~Redial /\ sync # "written"
    /\ state \in {"created", "syncing"} =>
          /\ jobs = 0 /\ chan = <<>>
          /\ wpc = [w \in Worker |-> "idle"] /\ task = [t \in Task |-> "idle"]
          /\ reports = [r \in Run |-> 0] /\ report = [r \in Run |-> "idle"]

\* A running campaign ends, unless it is paused, although the orchestrator dies,
\* events are lost and batches are cancelled or raise: the sweep takes everything
\* up again.  A stranded run is pending for ever, and then it need not.
Ends ==
    state = "running" ~>
        state \in {"completed", "failed", "paused"} \/ \E r \in Run : Stranded(r)

\* No batch sits on a run: what is claimed is finished, given back or stranded.
ClaimsSettle ==
    \A r \in Run : runs[r] = "processing" ~> runs[r] # "processing" \/ Stranded(r)
=============================================================================
