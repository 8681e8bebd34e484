--------------------------- MODULE CampaignProofs ---------------------------
(* Proofs about Campaign, for every set of contacts and workers, every      *)
(* retry policy, batch size, timeout and bound, and every mix of faults.    *)
EXTENDS Campaign, TLAPS

----------------------------------------------------------------------------
(* Type correctness *)

\* Publishing keeps the channel a sequence of events.
LEMMA PublishType ==
    ASSUME TypeOK, NEW kind, NEW r,
           [kind |-> kind, run |-> r] \in Event,
           Send(kind, r) \/ Publish(kind, r)
    PROVE  chan' \in Seq(Event)
<1>1. Send(kind, r) BY DEF Publish
<1>2. chan \in Seq(Event) BY DEF TypeOK
<1>3. chan' = chan \/ chan' = Append(chan, [kind |-> kind, run |-> r])
  BY <1>1 DEF Send
<1>4. QED BY <1>2, <1>3

LEMMA PlainEvents ==
    \A kind \in {"sync", "completed", "failed", "tripped"} :
        [kind |-> kind, run |-> NoRun] \in Event
BY DEF Event

LEMMA RetryEvents == \A r \in Run : [kind |-> "retry", run |-> r] \in Event
BY DEF Event

\* The head of the channel is an event, and its run is a run if it is a retry.
LEMMA HandleType ==
    ASSUME TypeOK, NEW kind, Handle(kind)
    PROVE  /\ chan' \in Seq(Event)
           /\ kind = "retry" => Head(chan).run \in Run
<1>1. Head(chan) \in Event /\ Tail(chan) \in Seq(Event)
  BY DEF TypeOK, Handle
<1>2. QED BY <1>1 DEF Handle, Event

\* The API's requests keep the types.
LEMMA ApiType ==
    ASSUME TypeOK, Api
    PROVE  TypeOK'
<1> USE CampaignConfig
        DEF TypeOK, storeVars, docVars, runVars, callVars, batchVars, memVars,
            apiVars, jobVars, orchVars, outerVars
<1>1. ASSUME NEW op \in {"start", "pause", "resume"}, Request(op)
      PROVE  TypeOK'
  <2>1. faults' \in Nat BY <1>1 DEF Request, Happens
  <2>2. QED BY <1>1, <2>1 DEF Request
<1>2. CASE StartWrite BY <1>2 DEF StartWrite, CampaignState
<1>3. CASE StartSend
  <2>1. chan' \in Seq(Event)
    BY <1>3, PublishType, PlainEvents DEF StartSend
  <2>2. sync' \in {"none", "queued", "fetching", "inserted", "written", "done"}
    BY <1>3 DEF StartSend
  <2>3. QED BY <1>3, <2>1, <2>2 DEF StartSend
<1>4. CASE PauseWrite BY <1>4 DEF PauseWrite, CampaignState
<1>5. CASE ResumeWrite BY <1>5 DEF ResumeWrite, CampaignState
<1>6. CASE ResumeReset BY <1>6 DEF ResumeReset
<1>7. QED BY <1>1, <1>2, <1>3, <1>4, <1>5, <1>6 DEF Api

LEMMA Predecessor == \A n \in Nat : n > 0 => n - 1 \in Nat
OBVIOUS

\* So do the reports of ended calls and the passing of the windows.
LEMMA ReportType ==
    ASSUME TypeOK, WindowPasses \/ \E r \in Run : ReportStep(r)
    PROVE  TypeOK'
<1> USE CampaignConfig
        DEF TypeOK, storeVars, docVars, runVars, callVars, batchVars, memVars,
            apiVars, jobVars, orchVars, outerVars
<1>1. CASE WindowPasses
  <2>1. window' \in [fail : Nat, ok : Nat]
    <3>1. window.fail \in Nat /\ window.ok \in Nat OBVIOUS
    <3>2. CASE window.fail > 0 /\ window' = [window EXCEPT !.fail = @ - 1]
      <4>1. window' = [window EXCEPT !.fail = @ - 1] BY <3>2
      <4>2. window.fail - 1 \in Nat BY ONLY <3>1, <3>2, Predecessor
      <4>3. QED BY <4>1, <4>2
    <3>3. CASE window.ok > 0 /\ window' = [window EXCEPT !.ok = @ - 1]
      <4>1. window' = [window EXCEPT !.ok = @ - 1] BY <3>3
      <4>2. window.ok - 1 \in Nat BY ONLY <3>1, <3>3, Predecessor
      <4>3. QED BY <4>1, <4>2
    <3>4. QED BY <1>1, <3>2, <3>3 DEF WindowPasses
  <2>2. QED BY <1>1, <2>1 DEF WindowPasses
<1>2. ASSUME NEW r \in Run, ReportArrives(r) PROVE TypeOK'
  <2>1. report' \in [Run -> {"idle", "success", "failure", "cancelled", "retrying"}]
    BY <1>2 DEF ReportArrives
  <2>2. reports' \in [Run -> Nat] BY <1>2 DEF ReportArrives
  <2>3. QED BY <1>2, <2>1, <2>2 DEF ReportArrives
<1>3. ASSUME NEW r \in Run, Evaluate(r) PROVE TypeOK'
  <2>1. window' \in [fail : Nat, ok : Nat]
    <3>1. window.fail + 1 \in Nat /\ window.ok + 1 \in Nat OBVIOUS
    <3>2. CASE report[r] # "success"
      <4>1. window' = [window EXCEPT !.fail = @ + 1] BY <1>3, <3>2 DEF Evaluate
      <4>2. QED BY <3>1, <4>1
    <3>3. CASE report[r] = "success"
      <4>1. window' = [window EXCEPT !.ok = @ + 1] BY <1>3, <3>3 DEF Evaluate
      <4>2. QED BY <3>1, <4>1
    <3>4. QED BY <3>2, <3>3
  <2>2. report' \in [Run -> {"idle", "success", "failure", "cancelled", "retrying"}]
    BY <1>3 DEF Evaluate
  <2>3. chan' \in Seq(Event)
    BY <1>3, PublishType, PlainEvents DEF Evaluate
  <2>4. state' \in CampaignState BY <1>3 DEF Evaluate, CampaignState
  <2>5. QED BY <1>3, <2>1, <2>2, <2>3, <2>4 DEF Evaluate
<1>4. ASSUME NEW r \in Run, AskRetry(r) PROVE TypeOK'
  <2>1. chan' \in Seq(Event)
    BY <1>4, PublishType, RetryEvents DEF AskRetry
  <2>2. report' \in [Run -> {"idle", "success", "failure", "cancelled", "retrying"}]
    BY <1>4 DEF AskRetry
  <2>3. QED BY <1>4, <2>1, <2>2 DEF AskRetry
<1>5. QED BY <1>1, <1>2, <1>3, <1>4 DEF ReportStep

\* The ingest keeps the types.
LEMMA SyncType ==
    ASSUME TypeOK, Sync
    PROVE  TypeOK'
<1> USE CampaignConfig
        DEF TypeOK, storeVars, docVars, runVars, callVars, batchVars, memVars,
            apiVars, jobVars, orchVars, outerVars
<1>1. CASE SyncTake BY <1>1 DEF SyncTake
<1>2. CASE SyncInsert
  <2>1. runs' \in [Run -> RunState] BY <1>2 DEF SyncInsert, RunState
  <2>2. QED BY <1>2, <2>1 DEF SyncInsert
<1>3. CASE SyncFinish BY <1>3 DEF SyncFinish, CampaignState
<1>4. CASE SyncPublish
  <2>1. chan' \in Seq(Event)
    BY <1>4, PublishType, PlainEvents DEF SyncPublish
  <2>2. QED BY <1>4, <2>1 DEF SyncPublish
<1>5. CASE SyncEmpty
  <2>1. faults' \in Nat BY <1>5 DEF SyncEmpty, Happens
  <2>2. QED BY <1>5, <2>1 DEF SyncEmpty, CampaignState
<1>6. CASE SyncFails
  <2>1. faults' \in Nat BY <1>6 DEF SyncFails, Happens
  <2>2. QED BY <1>6, <2>1 DEF SyncFails, CampaignState
<1>7. CASE SyncCrash
  <2>1. faults' \in Nat BY <1>7 DEF SyncCrash, Happens
  <2>2. QED BY <1>7, <2>1 DEF SyncCrash
<1>8. CASE SyncCancelled
  <2>1. faults' \in Nat BY <1>8 DEF SyncCancelled, Happens
  <2>2. sync' \in {"queued", "done"} BY <1>8 DEF SyncCancelled
  <2>3. QED BY <1>8, <2>1, <2>2 DEF SyncCancelled
<1>9. QED BY <1>1, <1>2, <1>3, <1>4, <1>5, <1>6, <1>7, <1>8 DEF Sync

\* A worker that lets go of its batch keeps the types of a batch.
LEMMA RestType ==
    ASSUME TypeOK, NEW w \in Worker, Rest(w)
    PROVE  /\ claims' \in [Worker -> SUBSET Run]
           /\ cur' \in [Worker -> Run \union {NoRun}]
           /\ some' \in [Worker -> BOOLEAN]
           /\ slow' \subseteq Worker
BY DEF TypeOK, Rest

LEMMA ReturnType ==
    ASSUME TypeOK, NEW w \in Worker, ReturnClaims(w)
    PROVE  runs' \in [Run -> RunState]
BY DEF TypeOK, ReturnClaims, RunState

\* The steps of a batch keep the types.
LEMMA WorkType ==
    ASSUME TypeOK, NEW w \in Worker, Work(w)
    PROVE  TypeOK'
<1> USE CampaignConfig
        DEF TypeOK, storeVars, docVars, runVars, callVars, batchVars, memVars,
            apiVars, jobVars, orchVars, outerVars
<1>1. CASE TakeJob(w)
  <2>1. jobs' \in Nat BY <1>1 DEF TakeJob
  <2>2. chan' \in Seq(Event)
    BY <1>1, PublishType, PlainEvents DEF TakeJob
  <2>3. wpc' \in [Worker -> {"idle", "claim", "dial", "placed", "marked", "failing"}]
    <3>1. wpc' = [wpc EXCEPT ![w] = "claim"] \/ wpc' = wpc
      BY <1>1 DEF TakeJob, Go
    <3>2. QED BY <3>1
  <2>4. QED BY <1>1, <2>1, <2>2, <2>3 DEF TakeJob
<1>2. CASE ClaimEnds(w) BY <1>2 DEF ClaimEnds, Go
<1>3. CASE MarkProcessed(w)
  <2>1. runs' \in [Run -> RunState] BY <1>3 DEF MarkProcessed, RunState
  <2>2. claims' \in [Worker -> SUBSET Run] BY <1>3 DEF MarkProcessed, DropClaim
  <2>3. wpc' \in [Worker -> {"idle", "claim", "dial", "placed", "marked", "failing"}]
    BY <1>3 DEF MarkProcessed, Go
  <2>4. QED BY <1>3, <2>1, <2>2, <2>3 DEF MarkProcessed
<1>4. CASE BatchEnds(w)
  <2>1. chan' \in Seq(Event)
    BY <1>4, PublishType, PlainEvents DEF BatchEnds
  <2>2. QED BY <1>4, <2>1, RestType DEF BatchEnds, Go
<1>5. CASE FailCampaign(w) BY <1>5 DEF FailCampaign, Go, CampaignState
<1>6. ASSUME NEW r \in Run, Claim(w, r) PROVE TypeOK'
  <2>1. runs' \in [Run -> RunState] BY <1>6 DEF Claim, RunState
  <2>2. claims' \in [Worker -> SUBSET Run] BY <1>6 DEF Claim
  <2>3. QED BY <1>6, <2>1, <2>2 DEF Claim
<1>7. ASSUME NEW r \in Run, Dial(w, r) PROVE TypeOK'
  <2>1. dials' \in [Run -> Nat]
    <3>1. dials' = [dials EXCEPT ![r] = @ + 1] BY <1>7 DEF Dial
    <3>2. dials[r] + 1 \in Nat OBVIOUS
    <3>3. QED BY <3>1, <3>2
  <2>2. reports' \in [Run -> Nat] BY <1>7 DEF Dial
  <2>3. callAge' \in [Run -> 0..CallMax] BY <1>7 DEF Dial
  <2>4. QED BY <1>7, <2>1, <2>2, <2>3 DEF Dial, Go
<1>8. CASE CountProcessed(w)
  <2>1. cur' \in [Worker -> Run \union {NoRun}] BY <1>8 DEF CountProcessed
  <2>2. wpc' \in [Worker -> {"idle", "claim", "dial", "placed", "marked", "failing"}]
    BY <1>8 DEF CountProcessed, Go
  <2>3. QED BY <1>8, <2>1, <2>2 DEF CountProcessed
<1>9. QED BY <1>1, <1>2, <1>3, <1>4, <1>5, <1>6, <1>7, <1>8 DEF Work

\* So do the ways a batch goes wrong.
LEMMA FaultType ==
    ASSUME TypeOK, NEW w \in Worker, WorkerFault(w)
    PROVE  TypeOK'
<1> USE CampaignConfig
        DEF TypeOK, storeVars, docVars, runVars, callVars, batchVars, memVars,
            apiVars, jobVars, orchVars, outerVars
<1>1. CASE NoSlot(w)
  <2>1. chan' \in Seq(Event) BY <1>1, PublishType, PlainEvents DEF NoSlot
  <2>2. faults' \in Nat BY <1>1 DEF NoSlot, Happens
  <2>3. QED BY <1>1, <2>1, <2>2, RestType, ReturnType DEF NoSlot, Go
<1>2. CASE NoNumber(w)
  <2>1. chan' \in Seq(Event) BY <1>2, PublishType, PlainEvents DEF NoNumber
  <2>2. faults' \in Nat /\ poolTries' \in Nat BY <1>2 DEF NoNumber, Happens
  <2>3. wpc' \in [Worker -> {"idle", "claim", "dial", "placed", "marked", "failing"}]
    <3>1. wpc' = [wpc EXCEPT ![w] = "idle"] \/ wpc' = [wpc EXCEPT ![w] = "failing"]
      BY <1>2 DEF NoNumber, Go
    <3>2. QED BY <3>1
  <2>4. QED BY <1>2, <2>1, <2>2, <2>3, RestType, ReturnType DEF NoNumber
<1>3. CASE CancelBatch(w)
  <2>1. jobs' \in Nat BY <1>3 DEF CancelBatch
  <2>2. faults' \in Nat /\ poolTries' \in Nat BY <1>3 DEF CancelBatch, Happens
  <2>3. QED BY <1>3, <2>1, <2>2, RestType, ReturnType DEF CancelBatch, Go
<1>4. CASE CrashBatch(w)
  <2>1. faults' \in Nat BY <1>4 DEF CrashBatch, Happens
  <2>2. wpc' = [wpc EXCEPT ![w] = "idle"] /\ jobs' \in Nat
    BY <1>4 DEF CrashBatch, Go
  <2>3. QED BY <1>4, <2>1, <2>2, RestType DEF CrashBatch
<1>5. ASSUME NEW r \in Run, MarkFailed(w, r) PROVE TypeOK'
  <2>1. runs' \in [Run -> RunState] BY <1>5 DEF MarkFailed, RunState
  <2>2. claims' \in [Worker -> SUBSET Run] BY <1>5 DEF MarkFailed, DropClaim
  <2>3. faults' \in Nat BY <1>5 DEF MarkFailed, Happens
  <2>4. QED BY <1>5, <2>1, <2>2, <2>3 DEF MarkFailed, Go
<1>6. CASE BatchRaises(w)
  <2>1. chan' \in Seq(Event) BY <1>6, PublishType, PlainEvents DEF BatchRaises
  <2>2. faults' \in Nat BY <1>6 DEF BatchRaises, Happens
  <2>3. QED BY <1>6, <2>1, <2>2, RestType DEF BatchRaises, Go
<1>7. QED BY <1>1, <1>2, <1>3, <1>4, <1>5, <1>6 DEF WorkerFault

\* A task that moves stays within its positions.
LEMMA TaskType ==
    ASSUME TypeOK, NEW t \in Task, NEW to \in TaskPC, TaskGo(t, to)
    PROVE  task' \in [Task -> TaskPC]
BY DEF TypeOK, TaskGo

LEMMA EnterType ==
    ASSUME TypeOK, NEW t \in Task, EnterSchedule(t)
    PROVE  task' \in [Task -> TaskPC] /\ lock' \in BOOLEAN
<1>1. PICK to \in TaskPC : TaskGo(t, to)
  BY DEF EnterSchedule, Done, TaskPC
<1>2. QED BY <1>1, TaskType DEF EnterSchedule

LEMMA ForgetType ==
    ASSUME CampaignConfig, Forget
    PROVE  /\ activity' \in Age(CompletionTimeout)
           /\ batch' \in Age(BatchTimeout)
           /\ lock' \in BOOLEAN
BY DEF Forget, Age, Never

LEMMA ZeroAge ==
    ASSUME CampaignConfig
    PROVE  0 \in Age(CompletionTimeout) /\ 0 \in Age(BatchTimeout)
BY DEF CampaignConfig, Age

\* _schedule_next_batch keeps the types, whichever task runs it.
LEMMA ScheduleType ==
    ASSUME TypeOK, NEW t \in Task, Schedule(t)
    PROVE  TypeOK'
<1> USE CampaignConfig
        DEF TypeOK, storeVars, docVars, runVars, callVars, batchVars, memVars,
            apiVars, jobVars, orchVars, outerVars
<1>1. CASE ReadCampaign(t)
  <2>1. PICK to \in TaskPC : TaskGo(t, to)
    BY <1>1 DEF ReadCampaign, Done, TaskPC
  <2>2. QED BY <1>1, <2>1, TaskType DEF ReadCampaign
<1>2. CASE CheckBreaker(t)
  <2>1. PICK to \in TaskPC : TaskGo(t, to)
    BY <1>2 DEF CheckBreaker, TaskPC
  <2>2. QED BY <1>2, <2>1, TaskType DEF CheckBreaker
<1>3. CASE Trip(t)
  <2>1. PICK to \in TaskPC : TaskGo(t, to)
    BY <1>3 DEF Trip, Done, TaskPC
  <2>2. chan' \in Seq(Event) BY <1>3, PublishType, PlainEvents DEF Trip
  <2>3. QED BY <1>3, <2>1, <2>2, TaskType, ForgetType DEF Trip, CampaignState
<1>4. CASE Offer(t)
  <2>1. PICK to \in TaskPC : TaskGo(t, to)
    BY <1>4 DEF Offer, Done, TaskPC
  <2>2. jobs' \in Nat BY <1>4 DEF Offer
  <2>3. QED BY <1>4, <2>1, <2>2, TaskType DEF Offer
<1>5. CASE MarkBatch(t)
  <2>1. PICK to \in TaskPC : TaskGo(t, to)
    BY <1>5 DEF MarkBatch, Done, TaskPC
  <2>2. task' \in [Task -> TaskPC] BY <2>1, TaskType
  <2>3. QED BY <1>5, <2>2, ZeroAge DEF MarkBatch
<1>6. QED BY <1>1, <1>2, <1>3, <1>4, <1>5 DEF Schedule

\* The loss of the orchestrator's memory keeps the types.
LEMMA DownType ==
    ASSUME TypeOK, Down
    PROVE  /\ up' \in BOOLEAN /\ lock' \in BOOLEAN
           /\ activity' \in Age(CompletionTimeout)
           /\ batch' \in Age(BatchTimeout)
           /\ chan' \in Seq(Event) /\ task' \in [Task -> TaskPC]
           /\ seen' \in 0..CompletionTimeout
<1>1. <<>> \in Seq(Event) OBVIOUS
<1>2. task' \in [Task -> TaskPC] BY DEF Down, TaskPC
<1>3. seen' = seen /\ Forget BY DEF Down
<1>4. QED BY <1>1, <1>2, <1>3, CampaignConfig, ForgetType DEF Down, TypeOK

\* The listener keeps the types.
LEMMA ListenType ==
    ASSUME TypeOK, Listen
    PROVE  TypeOK'
<1> USE CampaignConfig
        DEF TypeOK, storeVars, docVars, runVars, callVars, batchVars, memVars,
            apiVars, jobVars, orchVars, outerVars
<1>0. "listen" \in Task BY DEF Task
<1>1. CASE OnSyncCompleted
  BY <1>0, <1>1, HandleType, PlainEvents, EnterType DEF OnSyncCompleted
<1>2. CASE OnBatchCompleted
  <2>1. "check" \in TaskPC BY DEF TaskPC
  <2>2. batch' \in Age(BatchTimeout) BY <1>2 DEF OnBatchCompleted, Age
  <2>3. QED BY <1>0, <1>2, <2>1, <2>2, HandleType, TaskType DEF OnBatchCompleted
<1>3. CASE CheckRunning
  <2>1. CASE state = "running"
    BY <1>0, <1>3, <2>1, EnterType DEF CheckRunning
  <2>2. CASE state # "running"
    <3>1. "idle" \in TaskPC BY DEF TaskPC
    <3>2. QED BY <1>0, <1>3, <2>2, <3>1, TaskType, ForgetType DEF CheckRunning
  <2>3. QED BY <2>1, <2>2
<1>4. CASE OnBatchFailed
  <2>1. batch' \in Age(BatchTimeout) BY <1>4 DEF OnBatchFailed, Age
  <2>2. QED BY <1>4, <2>1, HandleType, ZeroAge DEF OnBatchFailed
<1>5. CASE OnTripped
  BY <1>5, HandleType, ForgetType DEF OnTripped
<1>6. CASE OnRetryExhausted
  BY <1>6, HandleType DEF OnRetryExhausted
<1>7. CASE OnRetry
  <2>1. "note" \in TaskPC BY DEF TaskPC
  <2>2. runs' \in [Run -> RunState] BY <1>7 DEF OnRetry, RunState
  <2>3. due' \in [Run -> 0..RetryDelay]
    <3>1. RetryDelay \in 0..RetryDelay OBVIOUS
    <3>2. PICK n : due' = [due EXCEPT ![n] = RetryDelay] BY <1>7 DEF OnRetry
    <3>3. QED BY <3>1, <3>2
  <2>4. QED BY <1>0, <1>7, <2>1, <2>2, <2>3, HandleType, TaskType DEF OnRetry
<1>8. CASE OnRetryDuplicate
  BY <1>8, DownType DEF OnRetryDuplicate
<1>9. CASE NoteActivity
  <2>1. "idle" \in TaskPC BY DEF TaskPC
  <2>2. QED BY <1>0, <1>9, <2>1, TaskType, ZeroAge DEF NoteActivity
<1>10. QED BY <1>1, <1>2, <1>3, <1>4, <1>5, <1>6, <1>7, <1>8, <1>9 DEF Listen

\* The sweep keeps the types.
LEMMA SweepType ==
    ASSUME TypeOK, Sweep
    PROVE  TypeOK'
<1> USE CampaignConfig
        DEF TypeOK, storeVars, docVars, runVars, callVars, batchVars, memVars,
            apiVars, jobVars, orchVars, outerVars
<1>0. "sweep" \in Task /\ {"idle", "look", "idle_check", "recheck", "seal"} \subseteq TaskPC
  BY DEF Task, TaskPC
<1>1. CASE SweepRead BY <1>0, <1>1, TaskType DEF SweepRead
<1>2. CASE SweepLook
  <2>1. CASE BatchInProgress
    BY <1>0, <1>2, <2>1, TaskType DEF SweepLook
  <2>2. CASE ~BatchInProgress
    <3>1. batch' \in Age(BatchTimeout) BY <1>2, <2>2 DEF SweepLook, Age
    <3>2. task' \in [Task -> TaskPC] /\ lock' \in BOOLEAN
      BY <1>0, <1>2, <2>2, TaskType, EnterType DEF SweepLook
    <3>3. QED BY <1>2, <3>1, <3>2 DEF SweepLook
  <2>3. QED BY <2>1, <2>2
<1>3. CASE SweepIdleCheck
  <2>1. PICK to \in TaskPC : TaskGo("sweep", to)
    BY <1>0, <1>3 DEF SweepIdleCheck
  <2>2. QED BY <1>0, <1>3, <2>1, TaskType DEF SweepIdleCheck
<1>4. CASE SweepRecheck
  <2>1. PICK to \in TaskPC : TaskGo("sweep", to)
    BY <1>0, <1>4 DEF SweepRecheck
  <2>2. QED BY <1>0, <1>4, <2>1, TaskType DEF SweepRecheck
<1>5. CASE SweepSeal
  BY <1>0, <1>5, TaskType, ForgetType DEF SweepSeal, CampaignState
<1>6. QED BY <1>1, <1>2, <1>3, <1>4, <1>5 DEF Sweep

\* An age that grows stops at the timeout it is compared with.
LEMMA OlderType ==
    ASSUME NEW top \in Nat, NEW age \in Age(top)
    PROVE  /\ Older(age, top) \in Age(top)
           /\ age \in 0..top => Older(age, top) \in 0..top
BY DEF Older, Age, Never

\* Time, the lock and the orchestrator's restarts keep the types.
LEMMA TimeType ==
    ASSUME TypeOK, Tick \/ Unlock \/ OrchestratorDies \/ OrchestratorRestarts
    PROVE  TypeOK'
<1> USE CampaignConfig
        DEF TypeOK, storeVars, docVars, runVars, callVars, batchVars, memVars,
            apiVars, jobVars, orchVars, outerVars
<1>1. CASE Tick
  <2>1. /\ docAge' \in 0..CompletionTimeout /\ seen' \in 0..CompletionTimeout
        /\ activity' \in Age(CompletionTimeout) /\ batch' \in Age(BatchTimeout)
    <3>1. docAge \in Age(CompletionTimeout) /\ seen \in Age(CompletionTimeout)
      BY DEF Age
    <3>2. QED BY <1>1, <3>1, OlderType DEF Tick
  <2>2. due' \in [Run -> 0..RetryDelay]
    <3>1. \A r \in Run : (IF due[r] > 0 THEN due[r] - 1 ELSE 0) \in 0..RetryDelay
      OBVIOUS
    <3>2. QED BY <1>1, <3>1 DEF Tick
  <2>3. callAge' \in [Run -> 0..CallMax]
    <3>1. \A r \in Run : (IF reports[r] > 0 THEN callAge[r] + 1 ELSE callAge[r])
                             \in 0..CallMax
      BY <1>1 DEF Tick
    <3>2. QED BY <1>1, <3>1 DEF Tick
  <2>4. slow' \subseteq Worker BY <1>1 DEF Tick
  <2>5. QED BY <1>1, <2>1, <2>2, <2>3, <2>4 DEF Tick
<1>2. CASE Unlock BY <1>2 DEF Unlock
<1>3. CASE OrchestratorDies
  <2>1. faults' \in Nat BY <1>3 DEF OrchestratorDies, Happens
  <2>2. QED BY <1>3, <2>1, DownType DEF OrchestratorDies
<1>4. CASE OrchestratorRestarts BY <1>4 DEF OrchestratorRestarts
<1>5. QED BY <1>1, <1>2, <1>3, <1>4

\* Every value stays of its type: the ages never pass their timeouts, a
\* worker never holds what is not a run, and an event never lacks what its
\* handler takes from it.
THEOREM CampaignTypes == Spec => []TypeOK
<1>1. Init => TypeOK
  <2> USE CampaignConfig
  <2>1. ASSUME Init
        PROVE  /\ runs \in [Run -> RunState]
               /\ chan \in Seq(Event) /\ window \in [fail : Nat, ok : Nat]
               /\ activity \in Age(CompletionTimeout) /\ batch \in Age(BatchTimeout)
               /\ task \in [Task -> TaskPC]
    BY <2>1 DEF Init, RunState, Age, TaskPC
  <2>2. ASSUME Init
        PROVE  /\ state \in CampaignState /\ docAge \in 0..CompletionTimeout
               /\ seen \in 0..CompletionTimeout
               /\ due \in [Run -> 0..RetryDelay] /\ callAge \in [Run -> 0..CallMax]
               /\ dials \in [Run -> Nat] /\ reports \in [Run -> Nat]
    BY <2>2 DEF Init, CampaignState
  <2>3. ASSUME Init
        PROVE  /\ wpc \in [Worker -> {"idle", "claim", "dial", "placed", "marked", "failing"}]
               /\ claims \in [Worker -> SUBSET Run]
               /\ cur \in [Worker -> Run \union {NoRun}] /\ some \in [Worker -> BOOLEAN]
               /\ report \in [Run -> {"idle", "success", "failure", "cancelled", "retrying"}]
    BY <2>3 DEF Init
  <2>4. ASSUME Init
        PROVE  /\ api \in {"idle", "start", "pause", "resume"}
               /\ owed \subseteq {"send", "reset"} /\ jobs \in Nat
               /\ sync \in {"none", "queued", "fetching", "inserted", "written", "done"}
               /\ slow \subseteq Worker /\ poolTries \in Nat /\ faults \in Nat
               /\ up \in BOOLEAN /\ lock \in BOOLEAN
    BY <2>4 DEF Init
  <2>5. QED BY <2>1, <2>2, <2>3, <2>4 DEF TypeOK
<1>2. TypeOK /\ [Next]_vars => TypeOK'
  <2>1. ASSUME TypeOK, Next PROVE TypeOK'
    BY <2>1, ApiType, ReportType, SyncType, WorkType, FaultType, ScheduleType,
       ListenType, SweepType, TimeType DEF Next
  <2>2. ASSUME TypeOK, UNCHANGED vars PROVE TypeOK'
    BY <2>2 DEF vars, TypeOK, storeVars, docVars, runVars, callVars, batchVars,
                memVars, apiVars, jobVars, orchVars, outerVars
  <2>3. QED BY <2>1, <2>2
<1>3. QED BY <1>1, <1>2, PTL DEF Spec

----------------------------------------------------------------------------
(* Runs and the batches that hold them *)

RunVars == <<runs, dials, wpc, claims, cur>>

\* What touches neither runs nor batches leaves the invariant alone.
LEMMA RunsUntouched ==
    ASSUME RunInv, UNCHANGED RunVars
    PROVE  RunInv'
BY DEF RunInv, RunVars, ExclusiveClaim, AttemptsBounded, DialledOnce

\* New runs, which nobody holds and nobody has dialled.
LEMMA RunsAdded ==
    ASSUME TypeOK, RunInv, UNCHANGED <<dials, wpc, claims, cur>>,
           NEW S \in SUBSET Run,
           \A r \in S : runs[r] = "none" /\ r[2] <= MaxRetries,
           runs' = [r \in Run |-> IF r \in S THEN "queued" ELSE runs[r]]
    PROVE  RunInv'
<1>1. \A r \in Run : runs[r] # "none" => runs'[r] = runs[r] OBVIOUS
<1>2. AttemptsBounded'
  <2>1. \A r \in Run : r[2] \in Nat /\ MaxRetries \in Nat BY CampaignConfig DEF Run
  <2>2. \A r \in S : ~(r[2] > MaxRetries) BY <2>1
  <2>3. QED BY <2>2 DEF RunInv, AttemptsBounded
<1>3. ASSUME NEW w \in Worker, NEW r \in claims[w] PROVE runs'[r] = "processing"
  BY <1>1 DEF RunInv, TypeOK
<1>4. ASSUME NEW w \in Worker, wpc[w] = "marked"
      PROVE  cur[w] \in Run /\ runs'[cur[w]] \in {"processed", "failed"}
  BY <1>1, <1>4 DEF RunInv
<1>5. QED BY <1>1, <1>2, <1>3, <1>4 DEF RunInv, ExclusiveClaim, DialledOnce

\* A batch that lets go of its runs, given back or not.
LEMMA RunsLetGo ==
    ASSUME TypeOK, RunInv, NEW w \in Worker, Rest(w), UNCHANGED dials,
           NEW pc \in {"idle", "failing"}, Go(w, pc),
           \/ UNCHANGED runs
           \/ ReturnClaims(w) /\ ("cancel" \in Fault \/ wpc[w] = "dial")
    PROVE  RunInv'
<1> USE DEF TypeOK
<1>1. /\ claims' = [claims EXCEPT ![w] = {}] /\ cur' = [cur EXCEPT ![w] = NoRun]
      /\ wpc' = [wpc EXCEPT ![w] = pc]
  BY DEF Rest, Go
<1>2. ASSUME NEW r \in Run, runs'[r] # runs[r]
      PROVE  r \in claims[w] /\ runs[r] = "processing" /\ runs'[r] = "queued"
  BY <1>2 DEF ReturnClaims
<1>3. ExclusiveClaim'
  BY <1>1 DEF RunInv, ExclusiveClaim
<1>4. AttemptsBounded'
  BY <1>2 DEF RunInv, AttemptsBounded
<1>5. ASSUME NEW v \in Worker
      PROVE  /\ \A r \in claims'[v] : runs'[r] = "processing"
             /\ wpc'[v] = "placed" => cur'[v] \in claims'[v]
             /\ wpc'[v] = "marked" =>
                   cur'[v] \in Run /\ runs'[cur'[v]] \in {"processed", "failed"}
  <2>1. CASE v = w BY <1>1, <2>1
  <2>2. CASE v # w
    <3>1. claims'[v] = claims[v] /\ wpc'[v] = wpc[v] /\ cur'[v] = cur[v]
      BY <1>1, <2>2
    <3>2. \A r \in claims[v] : runs'[r] = "processing"
      BY <1>2, <2>2 DEF RunInv, ExclusiveClaim
    <3>3. wpc[v] = "marked" =>
             cur[v] \in Run /\ runs'[cur[v]] \in {"processed", "failed"}
      BY <1>2 DEF RunInv
    <3>4. QED BY <3>1, <3>2, <3>3 DEF RunInv
  <2>3. QED BY <2>1, <2>2
<1>6. ASSUME "cancel" \notin Fault
      PROVE  /\ DialledOnce'
             /\ \A r \in Run : dials'[r] = 1 =>
                   /\ runs'[r] \in {"processing", "processed", "failed"}
                   /\ \A v \in Worker :
                         r \in claims'[v] => wpc'[v] = "placed" /\ cur'[v] = r
  <2>1. DialledOnce' BY <1>6 DEF RunInv, DialledOnce
  <2>2. ASSUME NEW r \in Run, dials'[r] = 1
        PROVE  runs'[r] \in {"processing", "processed", "failed"}
    <3>1. runs[r] \in {"processing", "processed", "failed"}
      BY <1>6, <2>2 DEF RunInv
    <3>2. r \in claims[w] => wpc[w] = "placed" BY <1>6, <2>2 DEF RunInv
    <3>3. wpc[w] = "placed" => UNCHANGED runs BY <1>6 DEF ReturnClaims
    <3>4. QED BY <1>2, <3>1, <3>2, <3>3
  <2>3. ASSUME NEW r \in Run, dials'[r] = 1, NEW v \in Worker, r \in claims'[v]
        PROVE  wpc'[v] = "placed" /\ cur'[v] = r
    <3>1. v # w BY <1>1, <2>3
    <3>2. claims'[v] = claims[v] /\ wpc'[v] = wpc[v] /\ cur'[v] = cur[v]
      BY <1>1, <3>1
    <3>3. QED BY <1>6, <2>3, <3>2 DEF RunInv
  <2>4. QED BY <2>1, <2>2, <2>3
<1>7. QED BY <1>3, <1>4, <1>5, <1>6 DEF RunInv

\* A batch that is done with one of its runs, or writes failed over the one
\* it has just marked.
LEMMA RunSettled ==
    ASSUME TypeOK, RunInv, NEW w \in Worker, NEW r \in Run,
           NEW end \in {"processed", "failed"}, UNCHANGED dials,
           \/ r \in claims[w] /\ (wpc[w] = "dial" \/ (wpc[w] = "placed" /\ cur[w] = r))
           \/ wpc[w] = "marked" /\ cur[w] = r,
           runs' = [runs EXCEPT ![r] = end], DropClaim(w, r),
           NEW pc \in {"dial", "marked"}, Go(w, pc),
           \/ pc = "dial" /\ cur' = [cur EXCEPT ![w] = NoRun]
           \/ pc = "marked" /\ cur[w] = r /\ UNCHANGED cur
    PROVE  RunInv'
<1> USE DEF TypeOK
<1>0. runs[r] \in {"processing", "processed", "failed"} /\ runs'[r] = end
  BY DEF RunInv
<1>1. /\ claims' = [claims EXCEPT ![w] = @ \ {r}]
      /\ wpc' = [wpc EXCEPT ![w] = pc]
  BY DEF DropClaim, Go
<1>2. \A v \in Worker : r \notin claims'[v] /\ claims'[v] \subseteq claims[v]
  <2>1. \A v \in Worker : v # w => r \notin claims[v]
    BY DEF RunInv, ExclusiveClaim
  <2>2. QED BY <1>1, <2>1
<1>3. ExclusiveClaim' BY <1>2 DEF RunInv, ExclusiveClaim
<1>4. AttemptsBounded' BY <1>0 DEF RunInv, AttemptsBounded
<1>5. ASSUME NEW v \in Worker
      PROVE  /\ \A q \in claims'[v] : runs'[q] = "processing"
             /\ wpc'[v] = "placed" => cur'[v] \in claims'[v]
             /\ wpc'[v] = "marked" =>
                   cur'[v] \in Run /\ runs'[cur'[v]] \in {"processed", "failed"}
  <2>1. \A q \in claims'[v] : q \in Run /\ q # r /\ runs[q] = "processing"
    BY <1>2 DEF RunInv
  <2>2. \A q \in claims'[v] : runs'[q] = "processing" BY <2>1
  <2>3. CASE v = w
    <3>1. wpc'[v] = pc BY <1>1, <2>3
    <3>2. pc = "marked" => cur'[v] = r BY <2>3
    <3>3. QED BY <1>0, <2>2, <3>1, <3>2
  <2>4. CASE v # w
    <3>1. claims'[v] = claims[v] /\ wpc'[v] = wpc[v] /\ cur'[v] = cur[v]
      BY <1>1, <2>4
    <3>2. \A q \in Run : runs[q] \in {"processed", "failed"} =>
                           runs'[q] \in {"processed", "failed"}
      OBVIOUS
    <3>3. QED BY <2>2, <3>1, <3>2 DEF RunInv
  <2>5. QED BY <2>3, <2>4
<1>6. ASSUME "cancel" \notin Fault
      PROVE  /\ DialledOnce'
             /\ \A q \in Run : dials'[q] = 1 =>
                   /\ runs'[q] \in {"processing", "processed", "failed"}
                   /\ \A v \in Worker :
                         q \in claims'[v] => wpc'[v] = "placed" /\ cur'[v] = q
  <2>1. DialledOnce' BY <1>6 DEF RunInv, DialledOnce
  <2>2. ASSUME NEW q \in Run, dials'[q] = 1
        PROVE  runs'[q] \in {"processing", "processed", "failed"}
    BY <1>0, <1>6, <2>2 DEF RunInv
  <2>3. ASSUME NEW q \in Run, dials'[q] = 1, NEW v \in Worker, q \in claims'[v]
        PROVE  wpc'[v] = "placed" /\ cur'[v] = q
    <3>1. q # r /\ q \in claims[v] BY <1>2, <2>3
    <3>2. wpc[v] = "placed" /\ cur[v] = q BY <1>6, <2>3, <3>1 DEF RunInv
    <3>3. v # w BY <3>1, <3>2
    <3>4. wpc'[v] = wpc[v] /\ cur'[v] = cur[v] BY <1>1, <3>3
    <3>5. QED BY <3>2, <3>4
  <2>4. QED BY <2>1, <2>2, <2>3
<1>7. QED BY <1>3, <1>4, <1>5, <1>6 DEF RunInv

\* A batch that claims a queued run: nobody held it, nobody has dialled it.
LEMMA RunClaimed ==
    ASSUME TypeOK, RunInv, NEW w \in Worker, NEW r \in Run, Claim(w, r)
    PROVE  RunInv'
<1> USE DEF TypeOK
<1>1. /\ runs[r] = "queued" /\ runs' = [runs EXCEPT ![r] = "processing"]
      /\ claims' = [claims EXCEPT ![w] = @ \union {r}]
      /\ wpc[w] = "claim" /\ UNCHANGED <<dials, wpc, cur>>
  BY DEF Claim, Claimable, outerVars, callVars
<1>2. \A v \in Worker : r \notin claims[v] BY <1>1 DEF RunInv
<1>3. ExclusiveClaim' BY <1>1, <1>2 DEF RunInv, ExclusiveClaim
<1>4. AttemptsBounded' BY <1>1 DEF RunInv, AttemptsBounded
<1>5. ASSUME NEW v \in Worker
      PROVE  /\ \A q \in claims'[v] : runs'[q] = "processing"
             /\ wpc'[v] = "placed" => cur'[v] \in claims'[v]
             /\ wpc'[v] = "marked" =>
                   cur'[v] \in Run /\ runs'[cur'[v]] \in {"processed", "failed"}
  <2>1. \A q \in claims'[v] : q = r \/ q \in claims[v] BY <1>1
  <2>2. \A q \in claims'[v] : runs'[q] = "processing" BY <1>1, <2>1 DEF RunInv
  <2>3. claims[v] \subseteq claims'[v] BY <1>1
  <2>4. wpc[v] = "marked" =>
           cur[v] \in Run /\ runs'[cur[v]] \in {"processed", "failed"}
    BY <1>1 DEF RunInv
  <2>5. QED BY <1>1, <2>2, <2>3, <2>4 DEF RunInv
<1>6. ASSUME "cancel" \notin Fault
      PROVE  /\ DialledOnce'
             /\ \A q \in Run : dials'[q] = 1 =>
                   /\ runs'[q] \in {"processing", "processed", "failed"}
                   /\ \A v \in Worker :
                         q \in claims'[v] => wpc'[v] = "placed" /\ cur'[v] = q
  <2>1. DialledOnce' BY <1>1, <1>6 DEF RunInv, DialledOnce
  <2>2. dials[r] # 1 BY <1>1, <1>6 DEF RunInv
  <2>3. ASSUME NEW q \in Run, dials'[q] = 1
        PROVE  /\ q # r /\ runs'[q] = runs[q]
               /\ \A v \in Worker : q \in claims'[v] => q \in claims[v]
    BY <1>1, <2>2, <2>3
  <2>4. QED BY <1>1, <1>6, <2>1, <2>3 DEF RunInv
<1>7. QED BY <1>3, <1>4, <1>5, <1>6 DEF RunInv

\* A batch that dials a run it holds: it was not dialled before.
LEMMA RunDialled ==
    ASSUME TypeOK, RunInv, NEW w \in Worker, NEW r \in Run, Dial(w, r)
    PROVE  RunInv'
<1> USE DEF TypeOK
<1>1. /\ wpc[w] = "dial" /\ r \in claims[w] /\ UNCHANGED <<runs, claims>>
      /\ dials' = [dials EXCEPT ![r] = @ + 1] /\ cur' = [cur EXCEPT ![w] = r]
      /\ wpc' = [wpc EXCEPT ![w] = "placed"]
  BY DEF Dial, Go, storeVars, runVars
<1>2. runs[r] = "processing" /\ \A v \in Worker : r \in claims[v] => v = w
  BY <1>1 DEF RunInv, ExclusiveClaim
<1>3. ExclusiveClaim' /\ AttemptsBounded'
  BY <1>1 DEF RunInv, ExclusiveClaim, AttemptsBounded
<1>4. ASSUME NEW v \in Worker
      PROVE  /\ \A q \in claims'[v] : runs'[q] = "processing"
             /\ wpc'[v] = "placed" => cur'[v] \in claims'[v]
             /\ wpc'[v] = "marked" =>
                   cur'[v] \in Run /\ runs'[cur'[v]] \in {"processed", "failed"}
  BY <1>1 DEF RunInv
<1>5. ASSUME "cancel" \notin Fault
      PROVE  /\ DialledOnce'
             /\ \A q \in Run : dials'[q] = 1 =>
                   /\ runs'[q] \in {"processing", "processed", "failed"}
                   /\ \A v \in Worker :
                         q \in claims'[v] => wpc'[v] = "placed" /\ cur'[v] = q
  <2>1. dials[r] = 0
    <3>1. dials[r] \in Nat /\ dials[r] <= 1 BY <1>5 DEF RunInv, DialledOnce
    <3>2. dials[r] # 1 BY <1>1, <1>5 DEF RunInv
    <3>3. QED BY <3>1, <3>2
  <2>2. dials'[r] = 1 /\ \A q \in Run : q # r => dials'[q] = dials[q]
    BY <1>1, <2>1
  <2>3. DialledOnce'
    <3>1. \A q \in Run : q # r => dials'[q] <= 1 BY <1>5, <2>2 DEF RunInv, DialledOnce
    <3>2. dials'[r] <= 1 BY <2>2
    <3>3. QED BY <3>1, <3>2 DEF DialledOnce
  <2>4. ASSUME NEW q \in Run, dials'[q] = 1, q # r, NEW v \in Worker, q \in claims'[v]
        PROVE  wpc'[v] = "placed" /\ cur'[v] = q
    <3>1. wpc[v] = "placed" /\ cur[v] = q BY <1>1, <1>5, <2>2, <2>4 DEF RunInv
    <3>2. v # w BY <1>1, <3>1
    <3>3. QED BY <1>1, <3>1, <3>2
  <2>5. ASSUME NEW v \in Worker, r \in claims'[v]
        PROVE  wpc'[v] = "placed" /\ cur'[v] = r
    BY <1>1, <1>2, <2>5
  <2>6. \A q \in Run : dials'[q] = 1 => runs'[q] \in {"processing", "processed", "failed"}
    BY <1>1, <1>2, <1>5, <2>2 DEF RunInv
  <2>7. ASSUME NEW q \in Run, dials'[q] = 1, NEW v \in Worker, q \in claims'[v]
        PROVE  wpc'[v] = "placed" /\ cur'[v] = q
    <3>1. CASE q = r
      <4>1. r \in claims'[v] BY <2>7, <3>1
      <4>2. QED BY <2>5, <3>1, <4>1
    <3>2. CASE q # r BY <2>4, <2>7, <3>2
    <3>3. QED BY <3>1, <3>2
  <2>8. QED BY <2>3, <2>6, <2>7
<1>6. QED BY <1>3, <1>4, <1>5 DEF RunInv

\* Every step of a batch keeps the invariant.
LEMMA BatchKeepsRuns ==
    ASSUME TypeOK, RunInv, NEW w \in Worker, Work(w) \/ WorkerFault(w)
    PROVE  RunInv'
<1> USE DEF storeVars, runVars, outerVars, callVars, RunVars
<1>1. CASE TakeJob(w)
  <2>1. UNCHANGED <<runs, dials, claims, cur>> BY <1>1 DEF TakeJob
  <2>2. wpc' = [wpc EXCEPT ![w] = "claim"] \/ UNCHANGED wpc BY <1>1 DEF TakeJob, Go
  <2>3. wpc[w] = "idle" BY <1>1 DEF TakeJob
  <2>4. QED
    BY <2>1, <2>2, <2>3
       DEF TypeOK, RunInv, ExclusiveClaim, AttemptsBounded, DialledOnce
<1>2. CASE ClaimEnds(w)
  <2>1. UNCHANGED <<runs, dials, claims, cur>> /\ wpc[w] = "claim"
        /\ wpc' = [wpc EXCEPT ![w] = "dial"]
    BY <1>2 DEF ClaimEnds, Go
  <2>2. QED
    BY <2>1 DEF TypeOK, RunInv, ExclusiveClaim, AttemptsBounded, DialledOnce
<1>3. CASE MarkProcessed(w)
  <2>1. cur[w] \in claims[w] /\ cur[w] \in Run
    BY <1>3 DEF MarkProcessed, RunInv, TypeOK
  <2>2. QED BY <1>3, <2>1, RunSettled DEF MarkProcessed
<1>4. CASE BatchEnds(w) BY <1>4, RunsLetGo DEF BatchEnds
<1>5. CASE FailCampaign(w)
  <2>1. UNCHANGED <<runs, dials, claims, cur>> /\ wpc[w] = "failing"
        /\ wpc' = [wpc EXCEPT ![w] = "idle"]
    BY <1>5 DEF FailCampaign, Go
  <2>2. QED
    BY <2>1 DEF TypeOK, RunInv, ExclusiveClaim, AttemptsBounded, DialledOnce
<1>6. ASSUME NEW r \in Run, Claim(w, r) \/ Dial(w, r) PROVE RunInv'
  BY <1>6, RunClaimed, RunDialled
<1>7. CASE NoSlot(w) BY <1>7, RunsLetGo DEF NoSlot
<1>8. CASE NoNumber(w) BY <1>8, RunsLetGo DEF NoNumber
<1>9. CASE CancelBatch(w) BY <1>9, RunsLetGo DEF CancelBatch, Happens
<1>10. CASE CrashBatch(w) BY <1>10, RunsLetGo DEF CrashBatch
<1>11. ASSUME NEW r \in Run, MarkFailed(w, r) PROVE RunInv'
  <2>1. \/ r \in claims[w] /\ (wpc[w] = "dial" \/ (wpc[w] = "placed" /\ cur[w] = r))
        \/ wpc[w] = "marked" /\ cur[w] = r
    BY <1>11 DEF MarkFailed, RunInv
  <2>2. /\ runs' = [runs EXCEPT ![r] = "failed"] /\ DropClaim(w, r)
        /\ cur' = [cur EXCEPT ![w] = NoRun] /\ Go(w, "dial") /\ UNCHANGED dials
    BY <1>11 DEF MarkFailed
  <2>3. QED BY <2>1, <2>2, RunSettled
<1>12. CASE BatchRaises(w) BY <1>12, RunsLetGo DEF BatchRaises
<1>13. CASE CountProcessed(w)
  <2>1. UNCHANGED <<runs, dials, claims>> /\ wpc[w] = "marked"
        /\ wpc' = [wpc EXCEPT ![w] = "dial"] /\ cur' = [cur EXCEPT ![w] = NoRun]
    BY <1>13 DEF CountProcessed, Go
  <2>2. QED
    BY <2>1 DEF TypeOK, RunInv, ExclusiveClaim, AttemptsBounded, DialledOnce
<1>14. QED
  BY <1>1, <1>2, <1>3, <1>4, <1>5, <1>6, <1>7, <1>8, <1>9, <1>10, <1>11, <1>12,
     <1>13
     DEF Work, WorkerFault

\* Attempts the repository has not seen yet join the queue; nobody holds them.
Inserted == \E S \in SUBSET Run :
                /\ \A r \in S : runs[r] = "none" /\ r[2] <= MaxRetries
                /\ runs' = [r \in Run |-> IF r \in S THEN "queued" ELSE runs[r]]
                /\ UNCHANGED <<dials, wpc, claims, cur>>

\* Everything else of the system, but for the inserts of runs, keeps away from
\* runs and batches.
LEMMA OthersOnRuns ==
    ASSUME TypeOK,
           \/ Api \/ WindowPasses \/ Sync \/ Listen \/ Sweep \/ Unlock
           \/ OrchestratorDies \/ OrchestratorRestarts \/ Tick
           \/ \E r \in Run : ReportStep(r)
           \/ \E t \in Task : Schedule(t)
    PROVE  (UNCHANGED RunVars) \/ Inserted
<1> USE DEF storeVars, runVars, outerVars, callVars, jobVars, batchVars, RunVars
<1>1. CASE Api
  BY <1>1 DEF Api, Request, StartWrite, StartSend, PauseWrite, ResumeWrite, ResumeReset
<1>2. CASE WindowPasses BY <1>2 DEF WindowPasses
<1>3. CASE SyncInsert
  <2>1. /\ runs' = [r \in Run |-> IF r[2] = 0 THEN "queued" ELSE runs[r]]
        /\ \A c \in Contact : runs[<<c, 0>>] = "none"
        /\ UNCHANGED <<dials, wpc, claims, cur>>
    BY <1>3 DEF SyncInsert, Insertable
  <2>2. \A r \in {q \in Run : q[2] = 0} : runs[r] = "none" /\ r[2] <= MaxRetries
    BY <2>1, CampaignConfig DEF Run
  <2>3. runs' = [r \in Run |-> IF r \in {q \in Run : q[2] = 0}
                               THEN "queued" ELSE runs[r]]
    BY <2>1
  <2>4. QED BY <2>1, <2>2, <2>3 DEF Inserted
<1>4. CASE \/ SyncTake \/ SyncFinish \/ SyncPublish \/ SyncEmpty \/ SyncFails
           \/ SyncCancelled \/ SyncCrash
  BY <1>4
     DEF SyncTake, SyncFinish, SyncPublish, SyncEmpty, SyncFails, SyncCancelled,
         SyncCrash
<1>5. CASE OnRetry
  <2>1. Head(chan).run \in Run BY <1>5, HandleType DEF OnRetry
  <2>2. PICK r \in Run : /\ r[2] < MaxRetries /\ runs[NextAttempt(r)] = "none"
                          /\ runs' = [runs EXCEPT ![NextAttempt(r)] = "queued"]
    BY <1>5, <2>1 DEF OnRetry, MayRetry, Insertable
  <2>3. NextAttempt(r) \in Run /\ NextAttempt(r)[2] <= MaxRetries
    BY <2>2, CampaignConfig DEF Run, NextAttempt
  <2>4. runs' = [q \in Run |-> IF q \in {NextAttempt(r)} THEN "queued" ELSE runs[q]]
    BY <2>2 DEF TypeOK
  <2>5. UNCHANGED <<dials, wpc, claims, cur>> BY <1>5 DEF OnRetry
  <2>6. \A q \in {NextAttempt(r)} : runs[q] = "none" /\ q[2] <= MaxRetries
    BY <2>2, <2>3
  <2>7. {NextAttempt(r)} \in SUBSET Run BY <2>3
  <2>8. QED BY <2>4, <2>5, <2>6, <2>7 DEF Inserted
<1>6. CASE \/ OnSyncCompleted \/ OnBatchCompleted \/ CheckRunning \/ OnBatchFailed
           \/ OnTripped \/ OnRetryExhausted \/ OnRetryDuplicate \/ NoteActivity
  BY <1>6
     DEF OnSyncCompleted, OnBatchCompleted, CheckRunning, OnBatchFailed,
         OnTripped, OnRetryExhausted, OnRetryDuplicate, NoteActivity
<1>7. CASE Sweep
  BY <1>7
     DEF Sweep, SweepRead, SweepLook, SweepIdleCheck, SweepRecheck, SweepSeal
<1>8. CASE Unlock \/ OrchestratorDies \/ OrchestratorRestarts
  BY <1>8 DEF Unlock, OrchestratorDies, OrchestratorRestarts
<1>9. CASE Tick BY <1>9 DEF Tick
<1>10. CASE \E r \in Run : ReportStep(r)
  BY <1>10 DEF ReportStep, ReportArrives, Evaluate, AskRetry
<1>11. CASE \E t \in Task : Schedule(t)
  BY <1>11
     DEF Schedule, ReadCampaign, CheckBreaker, Trip, Offer, MarkBatch
<1>12. QED
  BY <1>1, <1>2, <1>3, <1>4, <1>5, <1>6, <1>7, <1>8, <1>9, <1>10, <1>11
     DEF Sync, Listen

LEMMA OthersKeepRuns ==
    ASSUME TypeOK, RunInv,
           \/ Api \/ WindowPasses \/ Sync \/ Listen \/ Sweep \/ Unlock
           \/ OrchestratorDies \/ OrchestratorRestarts \/ Tick
           \/ \E r \in Run : ReportStep(r)
           \/ \E t \in Task : Schedule(t)
    PROVE  RunInv'
<1>1. CASE UNCHANGED RunVars BY <1>1, RunsUntouched
<1>2. CASE Inserted BY <1>2, RunsAdded DEF Inserted
<1>3. QED BY <1>1, <1>2, OthersOnRuns

\* The invariant of runs and batches, for every policy and every mix of faults.
THEOREM RunsHeld == Spec => []RunInv
<1>1. Init => RunInv
  <2>1. ASSUME Init PROVE AttemptsBounded
    <3>1. \A r \in Run : r[2] > MaxRetries => r[2] # 0
      BY CampaignConfig DEF Run
    <3>2. QED BY <2>1, <3>1 DEF Init, AttemptsBounded
  <2>2. ASSUME Init
        PROVE  /\ \A w \in Worker : claims[w] = {} /\ wpc[w] = "idle"
               /\ \A r \in Run : dials[r] = 0
    BY <2>2 DEF Init
  <2>3. QED BY <2>1, <2>2 DEF RunInv, ExclusiveClaim, DialledOnce
<1>2. TypeOK /\ RunInv /\ [Next]_vars => RunInv'
  <2>1. ASSUME TypeOK, RunInv, Next PROVE RunInv'
    BY <2>1, BatchKeepsRuns, OthersKeepRuns DEF Next
  <2>2. ASSUME RunInv, UNCHANGED vars PROVE RunInv'
    BY <2>2, RunsUntouched
       DEF vars, RunVars, storeVars, runVars, outerVars, callVars, jobVars, batchVars
  <2>3. QED BY <2>1, <2>2
<1>3. QED BY <1>1, <1>2, CampaignTypes, PTL DEF Spec

\* No run is in the hands of two batches, for any number of workers.
THEOREM ClaimsExclusive == Spec => []ExclusiveClaim
<1>1. RunInv => ExclusiveClaim BY DEF RunInv
<1>2. QED BY <1>1, RunsHeld, PTL

\* Without a cancellation, no run is dialled twice: crashes of the worker,
\* lost caller ids, failed slots and a dying orchestrator do no harm.
THEOREM DialledOnceUncancelled ==
    "cancel" \notin Fault => (Spec => []DialledOnce)
<1>1. ASSUME "cancel" \notin Fault PROVE RunInv => DialledOnce
  BY <1>1 DEF RunInv
<1>2. ASSUME "cancel" \notin Fault PROVE Spec => []DialledOnce
  BY <1>1, <1>2, RunsHeld, PTL
<1>3. QED BY <1>2

\* No step takes a finished run up again; the batch that has just marked it
\* processed may write failed over it.
LEMMA FinishedRunKept ==
    ASSUME TypeOK, RunInv, Next, NEW r \in Run, runs[r] \in {"processed", "failed"}
    PROVE  /\ dials'[r] = dials[r]
           /\ \/ runs'[r] = runs[r]
              \/ /\ runs'[r] = "failed"
                 /\ \E w \in Worker : wpc[w] = "marked" /\ cur[w] = r
<1> USE DEF storeVars, runVars, outerVars, callVars
<1>1. \A w \in Worker : r \notin claims[w] BY DEF RunInv
<1>2. ASSUME NEW w \in Worker, Work(w) \/ WorkerFault(w)
      PROVE  /\ dials'[r] = dials[r]
             /\ \/ runs'[r] = runs[r]
                \/ runs'[r] = "failed" /\ wpc[w] = "marked" /\ cur[w] = r
  <2>1. CASE \/ TakeJob(w) \/ ClaimEnds(w) \/ CountProcessed(w) \/ BatchEnds(w)
             \/ FailCampaign(w) \/ CrashBatch(w) \/ BatchRaises(w)
    BY <2>1 DEF TakeJob, ClaimEnds, CountProcessed, BatchEnds, FailCampaign,
                CrashBatch, BatchRaises
  <2>2. CASE NoSlot(w) \/ NoNumber(w) \/ CancelBatch(w)
    BY <1>1, <2>2 DEF NoSlot, NoNumber, CancelBatch, ReturnClaims
  <2>3. CASE MarkProcessed(w)
    <3>1. cur[w] # r BY <1>1, <2>3 DEF MarkProcessed, RunInv
    <3>2. QED BY <2>3, <3>1 DEF MarkProcessed, TypeOK
  <2>4. ASSUME NEW q \in Run, Claim(w, q) PROVE runs'[r] = runs[r] /\ dials'[r] = dials[r]
    BY <2>4 DEF Claim, Claimable, TypeOK
  <2>5. ASSUME NEW q \in Run, Dial(w, q) PROVE runs'[r] = runs[r] /\ dials'[r] = dials[r]
    BY <1>1, <2>5 DEF Dial, TypeOK
  <2>6. ASSUME NEW q \in Run, MarkFailed(w, q)
        PROVE  /\ dials'[r] = dials[r]
               /\ \/ runs'[r] = runs[r]
                  \/ runs'[r] = "failed" /\ wpc[w] = "marked" /\ cur[w] = r
    <3>1. /\ runs' = [runs EXCEPT ![q] = "failed"] /\ UNCHANGED dials
          /\ q \in claims[w] \/ (wpc[w] = "marked" /\ q = cur[w])
      BY <2>6 DEF MarkFailed, RunInv
    <3>2. CASE q = r BY <1>1, <3>1, <3>2 DEF TypeOK
    <3>3. CASE q # r BY <3>1, <3>3 DEF TypeOK
    <3>4. QED BY <3>2, <3>3
  <2>7. QED BY <1>2, <2>1, <2>2, <2>3, <2>4, <2>5, <2>6 DEF Work, WorkerFault
<1>3. CASE (UNCHANGED RunVars) \/ Inserted
  BY <1>3 DEF RunVars, Inserted
<1>4. QED BY <1>2, <1>3, OthersOnRuns DEF Next

\* A finished run is never queued, claimed or dialled again; what may happen to
\* it is that its own batch, which has just marked it processed, marks it failed.
THEOREM FinishedRunsStay == Spec => RunsAreFinal
<1>1. TypeOK /\ RunInv /\ [Next]_vars =>
        [\A r \in Run : runs[r] \in {"processed", "failed"} =>
            /\ dials'[r] = dials[r]
            /\ \/ runs'[r] = runs[r]
               \/ /\ runs'[r] = "failed"
                  /\ \E w \in Worker : wpc[w] = "marked" /\ cur[w] = r]_vars
  BY FinishedRunKept
<1>2. QED BY <1>1, CampaignTypes, RunsHeld, PTL DEF Spec, RunsAreFinal

----------------------------------------------------------------------------
(* Who still answers for a claimed run *)

\* The steps of a batch as they bear on the runs it holds.  It lets go of all
\* of them and gives them back, or has none left, or dies or raises with them.
LEMMA LettingGo ==
    ASSUME TypeOK, NEW w \in Worker,
           \/ BatchEnds(w) \/ NoSlot(w) \/ NoNumber(w) \/ CancelBatch(w)
           \/ CrashBatch(w) \/ BatchRaises(w)
    PROVE  /\ claims' = [claims EXCEPT ![w] = {}]
           /\ \/ UNCHANGED runs /\ (CrashBatch(w) \/ BatchRaises(w))
              \/ UNCHANGED runs /\ claims[w] = {}
              \/ ReturnClaims(w)
<1> USE DEF storeVars, runVars, Rest
<1>1. CASE BatchEnds(w) BY <1>1 DEF BatchEnds
<1>2. CASE NoSlot(w) BY <1>2 DEF NoSlot
<1>3. CASE NoNumber(w) BY <1>3 DEF NoNumber
<1>4. CASE CancelBatch(w) BY <1>4 DEF CancelBatch
<1>5. CASE CrashBatch(w)
  <2>1. UNCHANGED runs /\ claims' = [claims EXCEPT ![w] = {}]
    BY <1>5 DEF CrashBatch
  <2>2. QED BY <1>5, <2>1
<1>6. CASE BatchRaises(w)
  <2>1. UNCHANGED runs /\ claims' = [claims EXCEPT ![w] = {}]
    BY <1>6 DEF BatchRaises
  <2>2. QED BY <1>6, <2>1
<1>7. QED BY <1>1, <1>2, <1>3, <1>4, <1>5, <1>6

\* It finishes one of them, or the one it has already finished, for good.
LEMMA Settling ==
    ASSUME TypeOK, RunInv, NEW w \in Worker,
           MarkProcessed(w) \/ \E r \in Run : MarkFailed(w, r)
    PROVE  \E r \in Run, end \in {"processed", "failed"} :
              /\ r \in claims[w] \/ runs[r] \in {"processed", "failed"}
              /\ runs' = [runs EXCEPT ![r] = end]
              /\ claims' = [claims EXCEPT ![w] = @ \ {r}]
<1>1. CASE MarkProcessed(w)
  <2>1. cur[w] \in claims[w] /\ cur[w] \in Run
    BY <1>1 DEF MarkProcessed, RunInv, TypeOK
  <2>2. QED BY <1>1, <2>1 DEF MarkProcessed, DropClaim
<1>2. ASSUME NEW r \in Run, MarkFailed(w, r)
      PROVE  /\ r \in claims[w] \/ runs[r] \in {"processed", "failed"}
             /\ runs' = [runs EXCEPT ![r] = "failed"]
             /\ claims' = [claims EXCEPT ![w] = @ \ {r}]
  BY <1>2 DEF MarkFailed, RunInv, DropClaim
<1>3. QED BY <1>1, <1>2

\* It claims one more, or only moves on.
LEMMA MovingOn ==
    ASSUME TypeOK, NEW w \in Worker,
           \/ TakeJob(w) \/ ClaimEnds(w) \/ CountProcessed(w) \/ FailCampaign(w)
           \/ \E r \in Run : Claim(w, r) \/ Dial(w, r)
    PROVE  \/ UNCHANGED <<runs, claims>>
           \/ \E r \in Run : /\ runs[r] = "queued"
                             /\ runs' = [runs EXCEPT ![r] = "processing"]
                             /\ claims' = [claims EXCEPT ![w] = @ \union {r}]
<1> USE DEF storeVars, runVars
<1>1. CASE TakeJob(w) \/ ClaimEnds(w) \/ CountProcessed(w) \/ FailCampaign(w)
  BY <1>1 DEF TakeJob, ClaimEnds, CountProcessed, FailCampaign
<1>2. ASSUME NEW r \in Run, Dial(w, r) PROVE UNCHANGED <<runs, claims>>
  BY <1>2 DEF Dial
<1>3. ASSUME NEW r \in Run, Claim(w, r)
      PROVE  /\ runs[r] = "queued"
             /\ runs' = [runs EXCEPT ![r] = "processing"]
             /\ claims' = [claims EXCEPT ![w] = @ \union {r}]
  BY <1>3 DEF Claim, Claimable
<1>4. QED BY <1>1, <1>2, <1>3

\* What a batch does strands a run only when it dies or raises with it.
LEMMA BatchStrands ==
    ASSUME TypeOK, RunInv, NEW w \in Worker, Work(w) \/ WorkerFault(w),
           NEW r \in Run, Stranded(r)', ~Stranded(r)
    PROVE  r \in claims[w] /\ (CrashBatch(w) \/ BatchRaises(w))
<1> USE DEF TypeOK
<1>1. runs'[r] = "processing" /\ \A v \in Worker : r \notin claims'[v]
  BY DEF Stranded
<1>2. runs[r] = "processing" => \E v \in Worker : r \in claims[v]
  BY DEF Stranded
<1>3. CASE \/ BatchEnds(w) \/ NoSlot(w) \/ NoNumber(w) \/ CancelBatch(w)
           \/ CrashBatch(w) \/ BatchRaises(w)
  <2>1. /\ claims' = [claims EXCEPT ![w] = {}]
        /\ \/ UNCHANGED runs /\ (CrashBatch(w) \/ BatchRaises(w))
           \/ UNCHANGED runs /\ claims[w] = {}
           \/ ReturnClaims(w)
    BY <1>3, LettingGo
  <2>2. runs[r] = "processing" BY <1>1, <2>1 DEF ReturnClaims
  <2>3. r \in claims[w] BY <1>1, <1>2, <2>1, <2>2
  <2>4. ~ReturnClaims(w) BY <1>1, <2>2, <2>3 DEF ReturnClaims
  <2>5. QED BY <2>1, <2>3, <2>4
<1>4. CASE MarkProcessed(w) \/ \E q \in Run : MarkFailed(w, q)
  <2>1. PICK q \in Run, end \in {"processed", "failed"} :
              /\ runs' = [runs EXCEPT ![q] = end]
              /\ claims' = [claims EXCEPT ![w] = @ \ {q}]
    BY <1>4, Settling
  <2>2. q # r BY <1>1, <2>1
  <2>3. runs[r] = "processing" BY <1>1, <2>1, <2>2
  <2>4. QED BY <1>1, <1>2, <2>1, <2>2, <2>3
<1>5. CASE \/ TakeJob(w) \/ ClaimEnds(w) \/ CountProcessed(w) \/ FailCampaign(w)
           \/ \E q \in Run : Claim(w, q) \/ Dial(w, q)
  <2>1. CASE UNCHANGED <<runs, claims>> BY <1>1, <1>2, <2>1
  <2>2. ASSUME NEW q \in Run, runs[q] = "queued",
               runs' = [runs EXCEPT ![q] = "processing"],
               claims' = [claims EXCEPT ![w] = @ \union {q}]
        PROVE  FALSE
    <3>1. q # r BY <1>1, <2>2
    <3>2. runs[r] = "processing" BY <1>1, <2>2, <3>1
    <3>3. QED BY <1>1, <1>2, <2>2, <3>2
  <2>3. QED BY <1>5, <2>1, <2>2, MovingOn
<1>6. QED BY <1>3, <1>4, <1>5 DEF Work, WorkerFault

\* A claimed run is stranded only by the death of the worker that holds it or
\* by an exception that escapes from its batch: cancellations, full slots, an
\* empty pool and failed dials all finish it or give it back, in whatever order
\* they strike however many batches.
THEOREM StrandedOnlyByDeath == Spec => OnlyDeathStrands
<1>1. ASSUME TypeOK, RunInv, Next, NEW r \in Run, Stranded(r)', ~Stranded(r)
      PROVE  \E w \in Worker : r \in claims[w] /\ (CrashBatch(w) \/ BatchRaises(w))
  <2>1. ~((UNCHANGED RunVars) \/ Inserted)
    BY <1>1 DEF RunVars, Inserted, Stranded
  <2>2. PICK w \in Worker : Work(w) \/ WorkerFault(w)
    BY <1>1, <2>1, OthersOnRuns DEF Next
  <2>3. QED BY <1>1, <2>2, BatchStrands
<1>2. TypeOK /\ RunInv /\ [Next]_vars =>
        [\A r \in Run : Stranded(r)' =>
            \/ Stranded(r)
            \/ \E w \in Worker : r \in claims[w] /\ (CrashBatch(w) \/ BatchRaises(w))]_vars
  BY <1>1
<1>3. QED BY <1>2, CampaignTypes, RunsHeld, PTL DEF Spec, OnlyDeathStrands

\* A run no batch holds is never taken up, finished or given back again.
LEMMA StrandedKept ==
    ASSUME TypeOK, RunInv, Next, NEW r \in Run, Stranded(r)
    PROVE  Stranded(r)'
<1> USE DEF TypeOK
<1>1. runs[r] = "processing" /\ \A w \in Worker : r \notin claims[w]
  BY DEF Stranded
<1>2. ASSUME NEW w \in Worker, Work(w) \/ WorkerFault(w)
      PROVE  runs'[r] = "processing" /\ \A v \in Worker : r \notin claims'[v]
  <2>1. CASE \/ BatchEnds(w) \/ NoSlot(w) \/ NoNumber(w) \/ CancelBatch(w)
             \/ CrashBatch(w) \/ BatchRaises(w)
    <3>1. /\ claims' = [claims EXCEPT ![w] = {}]
          /\ UNCHANGED runs \/ ReturnClaims(w)
      BY <2>1, LettingGo
    <3>2. QED BY <1>1, <3>1 DEF ReturnClaims
  <2>2. CASE MarkProcessed(w) \/ \E q \in Run : MarkFailed(w, q)
    <3>1. PICK q \in Run, end \in {"processed", "failed"} :
              /\ q \in claims[w] \/ runs[q] \in {"processed", "failed"}
              /\ runs' = [runs EXCEPT ![q] = end]
              /\ claims' = [claims EXCEPT ![w] = @ \ {q}]
      BY <2>2, Settling
    <3>2. QED BY <1>1, <3>1
  <2>3. CASE \/ TakeJob(w) \/ ClaimEnds(w) \/ CountProcessed(w) \/ FailCampaign(w)
             \/ \E q \in Run : Claim(w, q) \/ Dial(w, q)
    <3>1. \/ UNCHANGED <<runs, claims>>
          \/ \E q \in Run : /\ runs[q] = "queued"
                            /\ runs' = [runs EXCEPT ![q] = "processing"]
                            /\ claims' = [claims EXCEPT ![w] = @ \union {q}]
      BY <2>3, MovingOn
    <3>2. QED BY <1>1, <3>1
  <2>4. QED BY <1>2, <2>1, <2>2, <2>3 DEF Work, WorkerFault
<1>3. CASE (UNCHANGED RunVars) \/ Inserted
  BY <1>1, <1>3 DEF RunVars, Inserted, Stranded
<1>4. QED BY <1>2, <1>3, OthersOnRuns DEF Next, Stranded

\* A run whose worker has died, or whose batch has raised, stays "processing"
\* for ever: a job that is run again claims queued runs only.  The campaign then
\* always has a run pending, which is why it is never completed.
THEOREM StrandedStays ==
    Spec => [][\A r \in Run : Stranded(r) => Stranded(r)']_vars
<1>1. TypeOK /\ RunInv /\ [Next]_vars =>
        [\A r \in Run : Stranded(r) => Stranded(r)']_vars
  BY StrandedKept
<1>2. QED BY <1>1, CampaignTypes, RunsHeld, PTL DEF Spec

----------------------------------------------------------------------------
(* Who may make a paused campaign run *)

\* While the campaign is still "created", only the start request does anything
\* to it, and while it is "syncing" only the ingest and a pause; afterwards it is
\* neither again.
LEMMA StartKept ==
    ASSUME TypeOK, StartInv, Next
    PROVE  StartInv'
<1> USE DEF storeVars, docVars, runVars, outerVars, callVars, apiVars, jobVars,
            batchVars, orchVars, memVars
<1>1. CASE state \notin {"created", "syncing"}
  <2>1. state' \notin {"created", "syncing"} /\ (api' = "start" => api = "start")
    <3>1. CASE Api
      BY <1>1, <3>1 DEF StartInv, Api, Request, LegalFrom, StartWrite, StartSend,
                        PauseWrite, ResumeWrite, ResumeReset
    <3>2. CASE Sync
      BY <1>1, <3>2 DEF Sync, SyncTake, SyncInsert, SyncFinish, SyncPublish,
                        SyncEmpty, SyncFails, SyncCancelled, SyncCrash
    <3>3. CASE \E w \in Worker : Work(w) \/ WorkerFault(w)
      BY <1>1, <3>3 DEF Work, TakeJob, ClaimEnds, MarkProcessed, CountProcessed,
                        BatchEnds, FailCampaign, Claim, Dial, WorkerFault, NoSlot,
                        NoNumber, BatchRaises, CancelBatch, CrashBatch, MarkFailed
    <3>4. CASE WindowPasses \/ \E r \in Run : ReportStep(r)
      BY <1>1, <3>4 DEF WindowPasses, ReportStep, ReportArrives, Evaluate, AskRetry
    <3>5. CASE \E t \in Task : Schedule(t)
      BY <1>1, <3>5 DEF Schedule, ReadCampaign, CheckBreaker, Trip, Offer, MarkBatch
    <3>6. CASE Listen
      BY <1>1, <3>6 DEF Listen, OnSyncCompleted, OnBatchCompleted, CheckRunning,
                        OnBatchFailed, OnTripped, OnRetryExhausted, OnRetry,
                        OnRetryDuplicate, NoteActivity
    <3>7. CASE Sweep \/ Unlock \/ OrchestratorDies \/ OrchestratorRestarts \/ Tick
      BY <1>1, <3>7 DEF Sweep, SweepRead, SweepLook, SweepIdleCheck, SweepRecheck,
                        SweepSeal, Unlock, OrchestratorDies, OrchestratorRestarts, Tick
    <3>8. QED BY <3>1, <3>2, <3>3, <3>4, <3>5, <3>6, <3>7 DEF Next
  <2>2. QED BY <1>1, <2>1 DEF StartInv
<1>2. CASE state \in {"created", "syncing"}
  <2>1. /\ jobs = 0 /\ chan = <<>>
        /\ \A w \in Worker : wpc[w] = "idle"
        /\ \A t \in Task : task[t] = "idle"
        /\ \A r \in Run : reports[r] = 0 /\ report[r] = "idle"
    BY <1>2 DEF StartInv
  <2>2. ~\E w \in Worker : Work(w)
    BY <2>1 DEF Work, TakeJob, ClaimEnds, MarkProcessed, CountProcessed, BatchEnds,
                FailCampaign, Claim, Dial
  <2>3. ~\E w \in Worker : WorkerFault(w)
    BY <2>1 DEF WorkerFault, NoSlot, NoNumber, BatchRaises, CancelBatch, CrashBatch,
                MarkFailed
  <2>4. ~\E r \in Run : ReportStep(r)
    BY <2>1 DEF ReportStep, ReportArrives, Evaluate, AskRetry
  <2>5. ~\E t \in Task : Schedule(t)
    BY <2>1 DEF Schedule, ReadCampaign, CheckBreaker, Trip, Offer, MarkBatch
  <2>6. ~Listen /\ ~Sweep
    BY <1>2, <2>1 DEF Task, Handle, Listen, OnSyncCompleted, OnBatchCompleted,
          CheckRunning, OnBatchFailed, OnTripped, OnRetryExhausted, OnRetry,
          OnRetryDuplicate, NoteActivity, Sweep, SweepRead, SweepLook,
          SweepIdleCheck, SweepRecheck, SweepSeal
  <2>7. CASE WindowPasses \/ Unlock \/ OrchestratorRestarts \/ Tick
    BY <2>7 DEF WindowPasses, Unlock, OrchestratorRestarts, Tick, StartInv
  <2>8. CASE OrchestratorDies
    BY <1>2, <2>1, <2>8 DEF OrchestratorDies, Down, StartInv, Task
  <2>9. CASE Api /\ state = "created"
    <3>1. api \in {"idle", "start"} /\ owed = {} /\ sync = "none"
      BY <2>9 DEF StartInv
    <3>2. CASE StartWrite BY <1>2, <3>1, <3>2 DEF StartWrite, StartInv
    <3>3. CASE Request("start") BY <2>9, <3>1, <3>3 DEF Request, StartInv
    <3>4. ~\E op \in {"pause", "resume"} : Request(op)
      BY <2>9 DEF Request, LegalFrom
    <3>5. ~StartSend /\ ~PauseWrite /\ ~ResumeWrite /\ ~ResumeReset
      BY <3>1 DEF StartSend, PauseWrite, ResumeWrite, ResumeReset
    <3>6. QED BY <2>9, <3>2, <3>3, <3>4, <3>5 DEF Api
  <2>10. CASE Api /\ state = "syncing"
    <3>1. api # "start" /\ ~Redial /\ sync # "written" BY <2>10 DEF StartInv
    <3>2. CASE StartSend BY <2>10, <3>1, <3>2 DEF StartSend, StartInv
    <3>3. ASSUME NEW op \in {"start", "pause", "resume"}, Request(op)
          PROVE  StartInv'
      <4>1. op = "pause" BY <2>10, <3>3 DEF Request, LegalFrom
      <4>2. QED BY <2>10, <3>3, <4>1 DEF Request, StartInv
    <3>4. CASE StartWrite BY <3>1, <3>4 DEF StartWrite
    <3>5. CASE PauseWrite BY <3>5 DEF PauseWrite, StartInv
    <3>6. CASE ResumeWrite BY <3>6 DEF ResumeWrite, StartInv
    <3>7. CASE ResumeReset BY <2>10, <3>7 DEF ResumeReset, StartInv
    <3>8. QED BY <2>10, <3>2, <3>3, <3>4, <3>5, <3>6, <3>7 DEF Api
  <2>11. CASE Sync
    <3>1. state = "syncing" /\ api # "start" /\ sync # "written"
      BY <1>2, <2>11 DEF StartInv, Sync, SyncTake, SyncInsert, SyncFinish,
                         SyncPublish, SyncEmpty, SyncFails, SyncCancelled, SyncCrash
    <3>2. CASE SyncTake \/ SyncInsert \/ SyncCancelled \/ SyncCrash
      BY <3>1, <3>2 DEF SyncTake, SyncInsert, SyncCancelled, SyncCrash, StartInv
    <3>3. CASE SyncFinish \/ SyncEmpty \/ SyncFails
      BY <3>1, <3>3 DEF SyncFinish, SyncEmpty, SyncFails, StartInv
    <3>4. ~SyncPublish BY <3>1 DEF SyncPublish
    <3>5. QED BY <2>11, <3>2, <3>3, <3>4 DEF Sync
  <2>12. QED
    BY <1>2, <2>2, <2>3, <2>4, <2>5, <2>6, <2>7, <2>8, <2>9, <2>10, <2>11 DEF Next
<1>3. QED BY <1>1, <1>2

\* The write of a start request finds the campaign as its check saw it, and
\* until the ingest has written "running" only the ingest works on the campaign.
THEOREM StartsHold == Spec => []StartInv
<1>1. Init => StartInv BY DEF Init, StartInv
<1>2. TypeOK /\ StartInv /\ [Next]_vars => StartInv'
  <2>1. ASSUME StartInv, UNCHANGED vars PROVE StartInv'
    BY <2>1 DEF vars, StartInv, storeVars, docVars, runVars, outerVars, callVars,
                apiVars, jobVars, batchVars, orchVars, memVars
  <2>2. QED BY <2>1, StartKept
<1>3. QED BY <1>1, <1>2, CampaignTypes, PTL DEF Spec

\* A paused campaign runs again by a resume, or by the end of an ingest that
\* was under way when it was paused, and by nothing else.
THEOREM PauseHolds == Spec => OnlyResumeUnpauses
<1> USE DEF storeVars, docVars, runVars, outerVars, callVars, apiVars, jobVars,
            batchVars, orchVars, memVars
<1>1. ASSUME StartInv, Next, state = "paused", state' = "running"
      PROVE  api = "resume" \/ sync = "inserted"
  <2>1. ASSUME Api PROVE api = "resume"
    BY <1>1, <2>1 DEF Api, Request, StartWrite, StartSend, PauseWrite, ResumeWrite,
                      ResumeReset, StartInv
  <2>2. ASSUME Sync PROVE sync = "inserted"
    BY <1>1, <2>2 DEF Sync, SyncTake, SyncInsert, SyncFinish, SyncPublish, SyncEmpty,
                      SyncFails, SyncCancelled, SyncCrash
  <2>3. ~\E w \in Worker : Work(w) \/ WorkerFault(w)
    BY <1>1 DEF Work, TakeJob, ClaimEnds, MarkProcessed, CountProcessed, BatchEnds,
                FailCampaign, Claim, Dial, WorkerFault, NoSlot, NoNumber, BatchRaises,
                CancelBatch, CrashBatch, MarkFailed
  <2>4. ~WindowPasses /\ ~\E r \in Run : ReportStep(r)
    BY <1>1 DEF WindowPasses, ReportStep, ReportArrives, Evaluate, AskRetry
  <2>5. ~\E t \in Task : Schedule(t)
    BY <1>1 DEF Schedule, ReadCampaign, CheckBreaker, Trip, Offer, MarkBatch
  <2>6. ~Listen
    BY <1>1 DEF Listen, OnSyncCompleted, OnBatchCompleted, CheckRunning,
                OnBatchFailed, OnTripped, OnRetryExhausted, OnRetry,
                OnRetryDuplicate, NoteActivity
  <2>7. ~Sweep /\ ~Unlock /\ ~OrchestratorDies /\ ~OrchestratorRestarts /\ ~Tick
    BY <1>1 DEF Sweep, SweepRead, SweepLook, SweepIdleCheck, SweepRecheck, SweepSeal,
                Unlock, OrchestratorDies, OrchestratorRestarts, Tick
  <2>8. QED BY <1>1, <2>1, <2>2, <2>3, <2>4, <2>5, <2>6, <2>7 DEF Next
<1>2. StartInv /\ [Next]_vars =>
        [state = "paused" /\ state' = "running" =>
            api = "resume" \/ sync = "inserted"]_vars
  BY <1>1
<1>3. QED BY <1>2, StartsHold, PTL DEF Spec, OnlyResumeUnpauses
=============================================================================
