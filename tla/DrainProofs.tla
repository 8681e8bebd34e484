----------------------------- MODULE DrainProofs -----------------------------
(* Why a completed campaign has nobody left to call.  The sweep completes   *)
(* what has been idle for CompletionTimeout; the proof bounds, while there  *)
(* is anything left to do, how old the two clocks it looks at can be: the   *)
(* orchestrator's last activity, and docAge when it has none in memory.     *)
EXTENDS CampaignProofs

----------------------------------------------------------------------------
(* How long a campaign that is not finished can look idle *)

\* A batch that is cancelled or dies with its worker publishes no event: the
\* next one comes only when the sweep has taken it for lost.
Losing == Fault \intersect {"cancel", "crash"} # {}
Lost == IF Losing THEN faults ELSE 0
MostLost == IF Losing THEN MaxFaults ELSE 0

Base == IF RetryDelay > BatchTimeout THEN RetryDelay ELSE BatchTimeout
\* What the last activity is old at most after n lost batches in a row.
Budget(n) == Base + n * (BatchTimeout + 1)
\* How old the document is at most while the attempts up to k are going on.
Span(k) == BatchTimeout + k * (CallMax + RetryDelay)

\* The idle hour is longer than both.  An ingest that is run again after a crash
\* or a cancellation and then finds no row would complete the campaign of its
\* first run.
DrainAssumption ==
    /\ ~Losing \/ "empty" \notin Fault
    /\ Budget(MostLost) + 1 + CallMax < CompletionTimeout
    /\ Span(MaxRetries) + CallMax < CompletionTimeout

----------------------------------------------------------------------------
(* What is left to do *)

Events == {chan[i] : i \in 1..Len(chan)}
\* A report of the run's call, or the event it published, is under way.
Retrying(r) ==
    report[r] # "idle" \/ \E e \in Events : e.kind = "retry" /\ e.run = r
InPlay(r) == runs[r] \in {"queued", "processing"}
Waiting(r) == runs[r] = "processing" \/ Claimable(r)
Drained == \A r \in Run : ~InPlay(r) /\ reports[r] = 0 /\ ~Retrying(r)
Ingested == \A c \in Contact : runs[<<c, 0>>] # "none"
Loading == sync \notin {"none", "done"} \/ "send" \in owed

Alive == jobs > 0 \/ \E w \in Worker : wpc[w] # "idle"
Offering == Pending /\ \E t \in Task : task[t] = "offer"
Marking == \E t \in Task : task[t] = "mark"
Scheduling == state = "running" \/ \E t \in Task : task[t] \in {"gate", "offer"}

\* The listener is about to set the activity to 0, or to forget it.
Noting == \/ task["listen"] # "idle"
          \/ \E e \in Events : e.kind \in {"completed", "failed"}
Young(bound) == \/ activity <= bound
                \/ Noting /\ activity < CompletionTimeout
Tired == IF slow = {} THEN 0 ELSE 1
Active == Young(Budget(Lost) + Tired)
\* A batch of this age is gone without an event.
Orphaned(age) == Young(age) \/ activity + BatchTimeout <= Budget(Lost) + age

----------------------------------------------------------------------------
(* The invariant *)

DownInv ==
    ~up => /\ activity = Never /\ batch = Never /\ chan = <<>>
           /\ \A t \in Task : task[t] = "idle"

\* The rows are there before anything else happens to them.
IngestInv ==
    /\ faults <= MaxFaults
    /\ Redial => sync = "none" /\ Ingested /\ state # "syncing"
    /\ "send" \in owed => sync = "none"
    /\ sync \in {"inserted", "written"} => Ingested
    /\ state = "running" => Ingested
    /\ task["sweep"] \in {"look", "idle_check", "recheck", "seal"} => Ingested
    /\ ~Losing /\ ~Redial /\ sync \in {"none", "queued", "fetching"} =>
          \A r \in Run : runs[r] = "none" /\ reports[r] = 0 /\ ~Retrying(r)

\* While there is something to do, the document is young.
DocInv ==
    /\ state = "running" =>
          \A r \in Run :
             /\ Waiting(r) => docAge <= Span(r[2])
             /\ reports[r] > 0 => docAge <= Span(r[2]) + callAge[r]
             /\ Retrying(r) => docAge <= Span(r[2]) + CallMax
             /\ due[r] > 0 => docAge + due[r] <= Span(r[2])
    /\ \A r \in Run :
          /\ due[r] > 0 => r[2] >= 1 /\ runs[r] # "none"
          /\ reports[r] > 0 \/ Retrying(r) => runs[r] # "none"
    /\ Loading => docAge = 0
    /\ BatchInProgress => docAge <= batch

\* While there is something to do, the last activity is young.
ActInv ==
    /\ Alive => Active
    /\ Pending /\ Scheduling => Active
    /\ Marking => Active
    /\ \A r \in Run :
          /\ due[r] > 0 => \/ activity + due[r] <= RetryDelay
                           \/ Noting /\ activity < CompletionTimeout
          /\ reports[r] > 0 => Young(Budget(Lost) + 1 + callAge[r])
          /\ Retrying(r) => Young(Budget(Lost) + 1 + CallMax)
    /\ BatchInProgress /\ ~Alive => Orphaned(batch)
    /\ task["sweep"] = "mark" /\ ~Alive => Orphaned(0)
    /\ state = "created" => activity = Never
    /\ Loading => activity <= 0
    /\ \A w \in Worker : wpc[w] = "failing" => Young(0)

\* So what the sweep finds idle for CompletionTimeout is drained, and stays so.
SweepInv ==
    /\ task["sweep"] \in {"look", "idle_check"} /\ seen >= CompletionTimeout => Drained
    /\ task["sweep"] \in {"recheck", "seal"} => Drained
    /\ state = "completed" => Drained /\ (Ingested \/ sync = "done")

Context == TypeOK /\ RunInv /\ StartInv
DrainInv == DownInv /\ IngestInv /\ DocInv /\ ActInv /\ SweepInv

----------------------------------------------------------------------------
(* What a step other than Tick may do *)

\* The listener inserts a retry of a run it has an event of.
Born(r) ==
    /\ \E q \in Run : Retrying(q) /\ MayRetry(q) /\ r = NextAttempt(q)
    /\ runs[r] = "none" /\ runs'[r] = "queued" /\ due'[r] = RetryDelay
    /\ task'["listen"] # "idle" /\ UNCHANGED <<state, docAge, activity>>
\* The ingest inserts a row.
Loaded(r) ==
    /\ sync = "fetching" /\ sync' = "inserted" /\ runs[<<r[1], 0>>] = "none"
    /\ UNCHANGED <<state, docAge, activity, due>>

CallsStep ==
    \A r \in Run :
       /\ reports'[r] > 0 => \/ reports[r] > 0 /\ callAge'[r] = callAge[r]
                             \/ Waiting(r) /\ Alive /\ callAge'[r] = 0
       /\ Retrying(r)' => Retrying(r) \/ reports[r] > 0
RunsStep ==
    \A r \in Run :
       /\ runs[r] # "none" => runs'[r] # "none"
       /\ runs[r] = "none" /\ runs'[r] # "none" => Born(r) \/ Loaded(r)
       /\ InPlay(r)' => InPlay(r) \/ runs[r] = "none"
       /\ Waiting(r)' => Waiting(r) \/ Born(r) \/ Loaded(r)
       /\ due'[r] > 0 => due'[r] = due[r] \/ Born(r)
DocStep ==
    /\ docAge' \in {docAge, 0}
    /\ state' = "running" => \/ state = "running" \/ sync = "inserted"
                             \/ state = "created" /\ docAge' = 0
    /\ batch' \in {batch, Never} \/ (batch' = 0 /\ docAge' = 0)
    /\ Loading' => Loading \/ (state = "created" /\ docAge' = 0)
ActStep ==
    /\ activity' \in {activity, 0, Never}
    /\ Noting /\ ~Noting' => activity' <= 0
    /\ state' = "created" => state = "created" /\ activity' \in {activity, Never}
BatchStep ==
    /\ Lost' \in {Lost, Lost + 1}
    /\ slow' = slow \/ Noting' \/ ~up \/ Lost' = Lost + 1
    /\ Alive' => Alive \/ Offering
    /\ Alive /\ ~Alive' => \/ Noting' \/ ~up \/ Lost' = Lost + 1
                           \/ \E w \in Worker : wpc[w] = "failing"
    /\ \A w \in Worker : wpc'[w] = "failing" =>
          wpc[w] = "failing" \/ (Alive /\ (Noting' \/ ~up))
TaskStep ==
    /\ Marking' => Marking \/ Offering
    /\ (\E t \in Task : task'[t] \in {"gate", "offer"}) => Scheduling
    /\ task'["sweep"] = "mark" => task["sweep"] = "mark" \/ Alive'
    /\ batch' \notin {batch, Never} =>
          task["sweep"] = "mark" \/ (Marking /\ task'["listen"] # "idle")
Step == CallsStep /\ RunsStep /\ DocStep /\ ActStep /\ BatchStep /\ TaskStep

----------------------------------------------------------------------------
(* Lemmas about the channel and the faults *)

\* Publishing adds the event, if the orchestrator is up, and loses none.
LEMMA PublishEvents ==
    ASSUME TypeOK, NEW kind, NEW r, Send(kind, r) \/ Publish(kind, r)
    PROVE  /\ \A e \in Events' : e \in Events \/ (e.kind = kind /\ e.run = r)
           /\ \A e \in Events : e \in Events'
           /\ up => [kind |-> kind, run |-> r] \in Events'
<1>1. chan \in Seq(Event) BY DEF TypeOK
<1>2. CASE ~up
  <2>1. Events' = Events BY <1>2 DEF Publish, Send, Events
  <2>2. QED BY <1>2, <2>1
<1>3. CASE up
  <2> DEFINE new == [kind |-> kind, run |-> r]
  <2>1. chan' = Append(chan, new) BY <1>3 DEF Publish, Send
  <2>2. Len(chan') = Len(chan) + 1 /\ chan'[Len(chan) + 1] = new /\ Len(chan) \in Nat
    BY <1>1, <2>1
  <2>3. \A i \in 1..Len(chan) : chan'[i] = chan[i] BY <1>1, <2>1
  <2>4. \A f \in Events' : f \in Events \/ f = new
    BY <2>2, <2>3 DEF Events
  <2>5. \A f \in Events : f \in Events' BY <2>2, <2>3 DEF Events
  <2>6. new \in Events' BY <2>2 DEF Events
  <2>7. new.kind = kind /\ new.run = r OBVIOUS
  <2>8. QED BY <2>4, <2>5, <2>6, <2>7
<1>4. QED BY <1>2, <1>3

\* The listener takes the head and leaves the rest.
LEMMA TakenEvents ==
    ASSUME TypeOK, chan # <<>>, chan' = Tail(chan)
    PROVE  /\ Head(chan) \in Events
           /\ \A e \in Events' : e \in Events
           /\ \A e \in Events : e \in Events' \/ e = Head(chan)
<1>1. chan \in Seq(Event) BY DEF TypeOK
<1>2. /\ Len(chan) \in Nat \ {0} /\ Len(chan') = Len(chan) - 1
      /\ Head(chan) = chan[1]
      /\ \A i \in 1..Len(chan) - 1 : chan'[i] = chan[i + 1]
  BY <1>1
<1>3. Head(chan) \in Events BY <1>2 DEF Events
<1>4. \A e \in Events' : e \in Events
  <2>1. ASSUME NEW i \in 1..Len(chan') PROVE chan'[i] \in Events
    BY <1>2 DEF Events
  <2>2. QED BY <2>1 DEF Events
<1>5. ASSUME NEW i \in 1..Len(chan) PROVE chan[i] \in Events' \/ chan[i] = Head(chan)
  <2>1. CASE i = 1 BY <1>2, <2>1
  <2>2. CASE i # 1
    <3>1. i - 1 \in 1..Len(chan) - 1 /\ chan'[i - 1] = chan[i] BY <1>2, <2>2
    <3>2. QED BY <1>2, <3>1 DEF Events
  <2>3. QED BY <2>1, <2>2
<1>6. QED BY <1>3, <1>4, <1>5 DEF Events

\* An untouched channel holds the same events.
LEMMA SameEvents == chan' = chan => Events' = Events
BY DEF Events

\* An empty channel holds none.
LEMMA NoEvents == (chan = <<>> => Events = {}) /\ (chan' = <<>> => Events' = {})
BY DEF Events

\* What the faults so far can have cost.
LEMMA LostCounts ==
    ASSUME TypeOK
    PROVE  /\ Lost \in Nat
           /\ faults' = faults => Lost' = Lost
           /\ \A f : Happens(f) => Lost' \in {Lost, Lost + 1}
           /\ Happens("cancel") \/ Happens("crash") => Lost' = Lost + 1
<1>1. faults \in Nat BY DEF TypeOK
<1>2. Happens("cancel") \/ Happens("crash") => Losing BY DEF Happens, Losing
<1>3. QED BY <1>1, <1>2 DEF Lost, Happens

\* A step that leaves one part of the state alone.
LEMMA CallsKept ==
    ASSUME UNCHANGED <<reports, callAge, report>>,
           \A e \in Events' : e.kind = "retry" => e \in Events
    PROVE  CallsStep
BY DEF CallsStep, Retrying

LEMMA RunsKept ==
    ASSUME UNCHANGED runVars
    PROVE  RunsStep
BY DEF RunsStep, runVars, InPlay, Waiting, Claimable

LEMMA DocKept ==
    ASSUME Loading' => Loading, UNCHANGED <<docAge, batch>>,
           state' = "running" => state = "running" \/ sync = "inserted"
    PROVE  DocStep
BY DEF DocStep

LEMMA ActKept ==
    ASSUME UNCHANGED activity, Noting => Noting', state' = "created" => state = "created"
    PROVE  ActStep
BY DEF ActStep

LEMMA BatchKept ==
    ASSUME TypeOK, UNCHANGED <<jobs, wpc, slow>>, faults' = faults \/ \E f : Happens(f)
    PROVE  BatchStep
BY LostCounts DEF BatchStep, Alive

LEMMA TaskKept ==
    ASSUME task' = task, batch' \in {batch, Never}
    PROVE  TaskStep
BY DEF TaskStep, Marking, Scheduling

\* A step that touches nothing of what the steps are described by but the state.
LEMMA QuietStep ==
    ASSUME TypeOK, Loading' => Loading,
           UNCHANGED <<docAge, runVars, callVars, report, chan, jobs, wpc, slow,
                       batch, activity, task>>,
           faults' = faults \/ \E f : Happens(f),
           state' = "running" => state = "running" \/ sync = "inserted",
           state' = "created" => state = "created"
    PROVE  Step
<1>1. Events' = Events BY SameEvents
<1>2. CallsStep BY <1>1, CallsKept DEF callVars
<1>3. Noting' = Noting BY <1>1 DEF Noting
<1>4. QED
  BY <1>2, <1>3, RunsKept, DocKept, ActKept, BatchKept, TaskKept DEF Step

\* An event that is not a retry: the listener will note the end of a batch.
LEMMA PlainPublish ==
    ASSUME TypeOK, NEW kind \in {"sync", "completed", "failed", "tripped"},
           Publish(kind, NoRun)
    PROVE  /\ \A e \in Events' : e.kind = "retry" => e \in Events
           /\ task'["listen"] = task["listen"] /\ Noting => Noting'
           /\ up /\ kind \in {"completed", "failed"} => Noting'
<1> DEFINE new == [kind |-> kind, run |-> NoRun]
<1>1. /\ \A e \in Events' : e \in Events \/ (e.kind = kind /\ e.run = NoRun)
      /\ \A e \in Events : e \in Events'
      /\ up => new \in Events'
  BY PublishEvents
<1>2. new.kind = kind OBVIOUS
<1>3. \A e \in Events' : e.kind = "retry" => e \in Events BY <1>1
<1>4. task'["listen"] = task["listen"] /\ Noting => Noting' BY <1>1 DEF Noting
<1> HIDE DEF new
<1>5. up /\ kind \in {"completed", "failed"} => Noting' BY <1>1, <1>2 DEF Noting
<1>6. QED BY <1>3, <1>4, <1>5

----------------------------------------------------------------------------
(* Every step other than Tick is such a step *)

\* The requests of the API, as long as none is a resume.
LEMMA ApiStep ==
    ASSUME Context, IngestInv, api # "resume", Api
    PROVE  Step
<1> USE DEF storeVars, docVars, runVars, callVars, batchVars, memVars, apiVars,
            jobVars, orchVars, outerVars
<1>0. TypeOK /\ StartInv BY DEF Context
<1>1. ASSUME NEW op \in {"start", "pause", "resume"}, Request(op) PROVE Step
  BY <1>0, <1>1, QuietStep DEF Request, Loading
<1>2. CASE StartWrite
  <2>1. state = "created" BY <1>0, <1>2 DEF StartWrite, StartInv
  <2>2. Events' = Events BY <1>2, SameEvents DEF StartWrite
  <2>3. DocStep BY <1>2, <2>1 DEF StartWrite, DocStep
  <2>4. CallsStep /\ RunsStep /\ BatchStep /\ TaskStep
    BY <1>0, <1>2, <2>2, CallsKept, RunsKept, BatchKept, TaskKept DEF StartWrite
  <2>5. ActStep BY <1>2, <2>2, ActKept DEF StartWrite, Noting
  <2>6. QED BY <2>3, <2>4, <2>5 DEF Step
<1>3. CASE StartSend
  <2>1. CASE Redial
    <3>1. /\ \A e \in Events' : e.kind = "retry" => e \in Events
          /\ Noting => Noting'
      BY <1>0, <1>3, <2>1, PlainPublish DEF StartSend
    <3>2. DocStep BY <1>3, <2>1, DocKept DEF StartSend, Loading
    <3>3. QED
      BY <1>0, <1>3, <3>1, <3>2, CallsKept, RunsKept, ActKept, BatchKept, TaskKept
         DEF StartSend, Step
  <2>2. CASE ~Redial BY <1>0, <1>3, <2>2, QuietStep DEF StartSend, Loading
  <2>3. QED BY <2>1, <2>2
<1>4. CASE PauseWrite BY <1>0, <1>4, QuietStep DEF PauseWrite, Loading
<1>5. CASE ResumeReset BY <1>0, <1>5, QuietStep DEF ResumeReset, Loading
<1>6. QED BY <1>1, <1>2, <1>3, <1>4, <1>5 DEF Api, ResumeWrite

\* The end of a call: it asks for a retry of that call's run only.
LEMMA ReportsStep ==
    ASSUME Context, WindowPasses \/ \E r \in Run : ReportStep(r)
    PROVE  Step
<1> USE DEF storeVars, docVars, runVars, callVars, batchVars, memVars, apiVars,
            jobVars, orchVars, outerVars
<1>0. TypeOK BY DEF Context
<1>1. CASE WindowPasses BY <1>0, <1>1, QuietStep DEF WindowPasses, Loading
<1>2. ASSUME NEW r \in Run, ReportArrives(r) PROVE Step
  <2>1. Events' = Events BY <1>2, SameEvents DEF ReportArrives
  <2>2. CallsStep
    <3>1. reports[r] > 0 /\ callAge' = callAge BY <1>2 DEF ReportArrives
    <3>2. \A q \in Run : q # r => report'[q] = report[q] /\ reports'[q] = reports[q]
      BY <1>0, <1>2 DEF ReportArrives, TypeOK
    <3>3. QED BY <2>1, <3>1, <3>2 DEF CallsStep, Retrying
  <2>3. DocStep BY <1>2, DocKept DEF ReportArrives, Loading
  <2>4. ActStep BY <1>2, <2>1, ActKept DEF ReportArrives, Noting
  <2>5. QED
    BY <1>0, <1>2, <2>2, <2>3, <2>4, RunsKept, BatchKept, TaskKept
       DEF ReportArrives, Step
<1>3. ASSUME NEW r \in Run, Evaluate(r) PROVE Step
  <2>1. /\ \A e \in Events' : e.kind = "retry" => e \in Events
        /\ Noting => Noting'
    <3>1. CASE Publish("tripped", NoRun)
      BY <1>0, <1>3, <3>1, PlainPublish DEF Evaluate
    <3>2. CASE chan' = chan
      BY <1>3, <3>2, SameEvents DEF Evaluate, Noting
    <3>3. QED BY <1>3, <3>1, <3>2 DEF Evaluate
  <2>2. CallsStep
    <3>1. report[r] # "idle" /\ callAge' = callAge /\ reports' = reports
      BY <1>3 DEF Evaluate
    <3>2. \A q \in Run : q # r => report'[q] = report[q]
      BY <1>0, <1>3 DEF Evaluate, TypeOK
    <3>3. QED BY <2>1, <3>1, <3>2 DEF CallsStep, Retrying
  <2>3. state' \in {state, "paused"} BY <1>3 DEF Evaluate
  <2>4. DocStep BY <1>3, <2>3, DocKept DEF Evaluate, Loading
  <2>5. ActStep BY <1>3, <2>1, <2>3, ActKept DEF Evaluate
  <2>6. QED
    BY <1>0, <1>3, <2>2, <2>4, <2>5, RunsKept, BatchKept, TaskKept
       DEF Evaluate, Step
<1>4. ASSUME NEW r \in Run, AskRetry(r) PROVE Step
  <2>1. /\ \A e \in Events' : e \in Events \/ (e.kind = "retry" /\ e.run = r)
        /\ \A e \in Events : e \in Events'
    BY <1>0, <1>4, PublishEvents DEF AskRetry
  <2>2. CallsStep
    <3>1. /\ report[r] # "idle" /\ callAge' = callAge /\ reports' = reports
          /\ \A q \in Run : q # r => report'[q] = report[q]
      BY <1>0, <1>4 DEF AskRetry, TypeOK
    <3>2. QED BY <2>1, <3>1 DEF CallsStep, Retrying
  <2>3. DocStep BY <1>4, DocKept DEF AskRetry, Loading
  <2>4. ActStep BY <1>4, <2>1, ActKept DEF AskRetry, Noting
  <2>5. QED
    BY <1>0, <1>4, <2>2, <2>3, <2>4, RunsKept, BatchKept, TaskKept
       DEF AskRetry, Step
<1>5. QED BY <1>1, <1>2, <1>3, <1>4 DEF ReportStep

\* The ingest.
LEMMA IngestStep ==
    ASSUME Context, Sync
    PROVE  Step
<1> USE DEF storeVars, docVars, runVars, callVars, batchVars, memVars, apiVars,
            jobVars, orchVars, outerVars
<1>0. TypeOK BY DEF Context
<1>1. CASE SyncTake BY <1>0, <1>1, QuietStep DEF SyncTake, Loading
<1>2. CASE SyncInsert
  <2>1. Events' = Events BY <1>2, SameEvents DEF SyncInsert
  <2>2. RunsStep
    <3>1. ASSUME NEW r \in Run, runs'[r] # runs[r]
          PROVE  runs[r] = "none" /\ Loaded(r)
      <4>1. r[2] = 0 /\ r[1] \in Contact /\ r = <<r[1], 0>>
        BY <1>0, <1>2, <3>1 DEF SyncInsert, Run, TypeOK
      <4>2. runs[<<r[1], 0>>] = "none" BY <1>2, <4>1 DEF SyncInsert, Insertable
      <4>3. QED BY <1>2, <4>1, <4>2 DEF SyncInsert, Loaded
    <3>2. QED BY <1>2, <3>1 DEF SyncInsert, RunsStep, InPlay, Waiting, Claimable
  <2>3. DocStep BY <1>2, DocKept DEF SyncInsert, Loading
  <2>4. ActStep BY <1>2, <2>1, ActKept DEF SyncInsert, Noting
  <2>5. QED
    BY <1>0, <1>2, <2>1, <2>2, <2>3, <2>4, CallsKept, BatchKept, TaskKept
       DEF SyncInsert, Step
<1>3. CASE SyncFinish BY <1>0, <1>3, QuietStep DEF SyncFinish, Loading
<1>4. CASE SyncPublish
  <2>1. /\ \A e \in Events' : e.kind = "retry" => e \in Events
        /\ Noting => Noting'
    BY <1>0, <1>4, PlainPublish DEF SyncPublish
  <2>2. DocStep BY <1>4, DocKept DEF SyncPublish, Loading
  <2>3. QED
    BY <1>0, <1>4, <2>1, <2>2, CallsKept, RunsKept, ActKept, BatchKept, TaskKept
       DEF SyncPublish, Step
<1>5. CASE SyncEmpty BY <1>0, <1>5, QuietStep DEF SyncEmpty, Loading
<1>6. CASE SyncFails BY <1>0, <1>6, QuietStep DEF SyncFails, Loading
<1>7. CASE SyncCancelled BY <1>0, <1>7, QuietStep DEF SyncCancelled, Loading
<1>8. CASE SyncCrash BY <1>0, <1>8, QuietStep DEF SyncCrash, Loading
<1>9. QED BY <1>1, <1>2, <1>3, <1>4, <1>5, <1>6, <1>7, <1>8 DEF Sync

\* A batch that goes on.
LEMMA BatchGoesOn ==
    ASSUME TypeOK, NEW w \in Worker, wpc[w] # "idle",
           NEW pc \in {"claim", "dial", "placed", "marked"}, Go(w, pc),
           UNCHANGED <<jobs, slow>>, faults' = faults \/ \E f : Happens(f)
    PROVE  BatchStep
<1>1. /\ wpc' = [wpc EXCEPT ![w] = pc]
      /\ wpc \in [Worker -> {"idle", "claim", "dial", "placed", "marked", "failing"}]
  BY DEF Go, TypeOK
<1>2. Alive /\ Alive' BY <1>1 DEF Alive
<1>3. \A v \in Worker : wpc'[v] = "failing" => wpc[v] = "failing" BY <1>1
<1>4. QED BY <1>2, <1>3, LostCounts DEF BatchStep

\* A batch that ends, with an event or by a fault that leaves none.
LEMMA BatchLetsGo ==
    ASSUME TypeOK, NEW w \in Worker, wpc[w] # "idle",
           NEW pc \in {"idle", "failing"}, Go(w, pc), jobs' \in Nat,
           faults' = faults \/ \E f : Happens(f),
           \/ Noting' \/ ~up
           \/ (pc = "idle" /\ (Happens("cancel") \/ Happens("crash")))
           \/ (pc = "idle" /\ wpc[w] = "failing" /\ slow' = slow)
    PROVE  BatchStep
<1>1. /\ wpc' = [wpc EXCEPT ![w] = pc]
      /\ wpc \in [Worker -> {"idle", "claim", "dial", "placed", "marked", "failing"}]
  BY DEF Go, TypeOK
<1>2. Alive BY DEF Alive
<1>3. /\ \A v \in Worker : wpc'[v] = "failing" => wpc[v] = "failing" \/ (v = w /\ pc = "failing")
  BY <1>1
<1>4. QED BY <1>2, <1>3, LostCounts DEF BatchStep

\* Runs that a batch gives back were in its hands.
LEMMA RunsReturned ==
    ASSUME TypeOK, NEW w \in Worker, ReturnClaims(w), UNCHANGED due
    PROVE  RunsStep
<1>1. \A r \in Run : runs'[r] # runs[r] => runs[r] = "processing" /\ runs'[r] = "queued"
  BY DEF ReturnClaims
<1>2. QED BY <1>1 DEF RunsStep, InPlay, Waiting, Claimable

\* The steps of a batch.
LEMMA WorkStep ==
    ASSUME Context, NEW w \in Worker, Work(w)
    PROVE  Step
<1> USE DEF storeVars, docVars, runVars, callVars, batchVars, memVars, apiVars,
            jobVars, orchVars, outerVars
<1>0. TypeOK /\ RunInv BY DEF Context
<1>1. CASE TakeJob(w)
  <2>1. /\ \A e \in Events' : e.kind = "retry" => e \in Events
        /\ Noting => Noting'
        /\ state # "running" /\ up => Noting'
    <3>1. CASE state = "running"
      BY <1>1, <3>1, SameEvents DEF TakeJob, Noting
    <3>2. CASE state # "running"
      BY <1>0, <1>1, <3>2, PlainPublish DEF TakeJob
    <3>3. QED BY <3>1, <3>2
  <2>2. BatchStep
    <3>1. Alive /\ Lost' = Lost /\ slow' = slow BY <1>0, <1>1, LostCounts DEF TakeJob, Alive
    <3>2. CASE state = "running"
      <4>1. wpc' = [wpc EXCEPT ![w] = "claim"] BY <1>1, <3>2 DEF TakeJob, Go
      <4>2. wpc'[w] = "claim" /\ \A v \in Worker : wpc'[v] = "failing" => wpc[v] = "failing"
        BY <1>0, <4>1 DEF TypeOK
      <4>3. Alive' BY <4>2 DEF Alive
      <4>4. QED BY <3>1, <4>2, <4>3 DEF BatchStep
    <3>3. CASE state # "running"
      <4>1. wpc' = wpc BY <1>1, <3>3 DEF TakeJob
      <4>2. QED BY <2>1, <3>1, <3>3, <4>1 DEF BatchStep
    <3>4. QED BY <3>2, <3>3
  <2>3. DocStep BY <1>1, DocKept DEF TakeJob, Loading
  <2>4. QED
    BY <1>1, <2>1, <2>2, <2>3, CallsKept, RunsKept, ActKept, TaskKept
       DEF TakeJob, Step
<1>2. CASE ClaimEnds(w)
  <2>1. Events' = Events BY <1>2, SameEvents DEF ClaimEnds
  <2>2. BatchStep BY <1>0, <1>2, BatchGoesOn DEF ClaimEnds
  <2>3. DocStep BY <1>2, DocKept DEF ClaimEnds, Loading
  <2>4. ActStep BY <1>2, <2>1, ActKept DEF ClaimEnds, Noting
  <2>5. QED
    BY <1>2, <2>1, <2>2, <2>3, <2>4, CallsKept, RunsKept, TaskKept DEF ClaimEnds, Step
<1>3. CASE MarkProcessed(w)
  <2>1. Events' = Events BY <1>3, SameEvents DEF MarkProcessed
  <2>2. BatchStep BY <1>0, <1>3, BatchGoesOn DEF MarkProcessed
  <2>3. DocStep BY <1>3, DocKept DEF MarkProcessed, Loading
  <2>4. ActStep BY <1>3, <2>1, ActKept DEF MarkProcessed, Noting
  <2>5. RunsStep
    <3>1. cur[w] \in claims[w] BY <1>0, <1>3 DEF MarkProcessed, RunInv
    <3>2. cur[w] \in Run /\ runs[cur[w]] = "processing"
      BY <1>0, <3>1 DEF RunInv, TypeOK
    <3>3. /\ runs'[cur[w]] = "processed" /\ due' = due
          /\ \A r \in Run : r # cur[w] => runs'[r] = runs[r]
      BY <1>0, <1>3, <3>2 DEF MarkProcessed, TypeOK
    <3>4. QED BY <3>2, <3>3 DEF RunsStep, InPlay, Waiting, Claimable
  <2>6. QED
    BY <1>3, <2>1, <2>2, <2>3, <2>4, <2>5, CallsKept, TaskKept DEF MarkProcessed, Step
<1>4. CASE BatchEnds(w)
  <2>1. /\ \A e \in Events' : e.kind = "retry" => e \in Events
        /\ Noting => Noting'
        /\ up => Noting'
    BY <1>0, <1>4, PlainPublish DEF BatchEnds
  <2>2. BatchStep BY <1>0, <1>4, <2>1, BatchLetsGo DEF BatchEnds, TypeOK
  <2>3. DocStep BY <1>4, DocKept DEF BatchEnds, Loading
  <2>4. QED
    BY <1>4, <2>1, <2>2, <2>3, CallsKept, RunsKept, ActKept, TaskKept
       DEF BatchEnds, Step
<1>5. CASE FailCampaign(w)
  <2>1. Events' = Events BY <1>5, SameEvents DEF FailCampaign
  <2>2. BatchStep BY <1>0, <1>5, BatchLetsGo DEF FailCampaign, TypeOK
  <2>3. DocStep BY <1>5, DocKept DEF FailCampaign, Loading
  <2>4. ActStep BY <1>5, <2>1, ActKept DEF FailCampaign, Noting
  <2>5. QED
    BY <1>5, <2>1, <2>2, <2>3, <2>4, CallsKept, RunsKept, TaskKept
       DEF FailCampaign, Step
<1>6. ASSUME NEW r \in Run, Claim(w, r) PROVE Step
  <2>1. Events' = Events BY <1>6, SameEvents DEF Claim
  <2>2. BatchStep BY <1>0, <1>6, BatchKept DEF Claim
  <2>3. DocStep BY <1>6, DocKept DEF Claim, Loading
  <2>4. ActStep BY <1>6, <2>1, ActKept DEF Claim, Noting
  <2>5. RunsStep
    <3>1. /\ runs'[r] = "processing" /\ Claimable(r) /\ due' = due
          /\ \A q \in Run : q # r => runs'[q] = runs[q]
      BY <1>0, <1>6 DEF Claim, TypeOK
    <3>2. QED BY <3>1 DEF RunsStep, InPlay, Waiting, Claimable
  <2>6. QED
    BY <1>6, <2>1, <2>2, <2>3, <2>4, <2>5, CallsKept, TaskKept DEF Claim, Step
<1>7. ASSUME NEW r \in Run, Dial(w, r) PROVE Step
  <2>1. Events' = Events BY <1>7, SameEvents DEF Dial
  <2>2. BatchStep BY <1>0, <1>7, BatchGoesOn DEF Dial
  <2>3. DocStep BY <1>7, DocKept DEF Dial, Loading
  <2>4. ActStep BY <1>7, <2>1, ActKept DEF Dial, Noting
  <2>5. CallsStep
    <3>1. Waiting(r) /\ Alive
      BY <1>0, <1>7 DEF Dial, RunInv, Waiting, Alive
    <3>2. /\ callAge'[r] = 0 /\ report' = report
          /\ \A q \in Run : q # r => reports'[q] = reports[q] /\ callAge'[q] = callAge[q]
      BY <1>0, <1>7 DEF Dial, TypeOK
    <3>3. QED BY <2>1, <3>1, <3>2 DEF CallsStep, Retrying
  <2>6. QED
    BY <1>7, <2>2, <2>3, <2>4, <2>5, RunsKept, TaskKept DEF Dial, Step
<1>8. CASE CountProcessed(w)
  <2>1. Events' = Events BY <1>8, SameEvents DEF CountProcessed
  <2>2. BatchStep BY <1>0, <1>8, BatchGoesOn DEF CountProcessed
  <2>3. DocStep BY <1>8, DocKept DEF CountProcessed, Loading
  <2>4. ActStep BY <1>8, <2>1, ActKept DEF CountProcessed, Noting
  <2>5. QED
    BY <1>8, <2>1, <2>2, <2>3, <2>4, CallsKept, RunsKept, TaskKept
       DEF CountProcessed, Step
<1>9. QED BY <1>1, <1>2, <1>3, <1>4, <1>5, <1>6, <1>7, <1>8 DEF Work

\* The ways a batch goes wrong.
LEMMA FaultStep ==
    ASSUME Context, NEW w \in Worker, WorkerFault(w)
    PROVE  Step
<1> USE DEF storeVars, docVars, runVars, callVars, batchVars, memVars, apiVars,
            jobVars, orchVars, outerVars
<1>0. TypeOK /\ RunInv BY DEF Context
<1>1. CASE NoSlot(w)
  <2>1. /\ \A e \in Events' : e.kind = "retry" => e \in Events
        /\ Noting => Noting'
        /\ up => Noting'
    BY <1>0, <1>1, PlainPublish DEF NoSlot
  <2>2. BatchStep BY <1>0, <1>1, <2>1, BatchLetsGo DEF NoSlot, TypeOK
  <2>3. DocStep BY <1>1, DocKept DEF NoSlot, Loading
  <2>4. RunsStep BY <1>0, <1>1, RunsReturned DEF NoSlot
  <2>5. QED
    BY <1>1, <2>1, <2>2, <2>3, <2>4, CallsKept, ActKept, TaskKept DEF NoSlot, Step
<1>2. CASE NoNumber(w)
  <2>1. PICK kind \in {"completed", "failed"}, pc \in {"idle", "failing"} :
            Publish(kind, NoRun) /\ Go(w, pc)
    BY <1>2 DEF NoNumber
  <2>2. /\ \A e \in Events' : e.kind = "retry" => e \in Events
        /\ Noting => Noting'
        /\ up => Noting'
    BY <1>0, <1>2, <2>1, PlainPublish DEF NoNumber
  <2>3. BatchStep BY <1>0, <1>2, <2>1, <2>2, BatchLetsGo DEF NoNumber, TypeOK
  <2>4. DocStep BY <1>2, DocKept DEF NoNumber, Loading
  <2>5. RunsStep BY <1>0, <1>2, RunsReturned DEF NoNumber
  <2>6. QED
    BY <1>2, <2>2, <2>3, <2>4, <2>5, CallsKept, ActKept, TaskKept DEF NoNumber, Step
<1>3. CASE CancelBatch(w)
  <2>1. Events' = Events BY <1>3, SameEvents DEF CancelBatch
  <2>2. wpc[w] # "idle" /\ jobs' \in Nat BY <1>0, <1>3 DEF CancelBatch, TypeOK
  <2>3. BatchStep BY <1>0, <1>3, <2>2, BatchLetsGo DEF CancelBatch
  <2>4. DocStep BY <1>3, DocKept DEF CancelBatch, Loading
  <2>5. ActStep BY <1>3, <2>1, ActKept DEF CancelBatch, Noting
  <2>6. RunsStep BY <1>0, <1>3, RunsReturned DEF CancelBatch
  <2>7. QED
    BY <1>3, <2>1, <2>3, <2>4, <2>5, <2>6, CallsKept, TaskKept DEF CancelBatch, Step
<1>4. CASE CrashBatch(w)
  <2>1. Events' = Events BY <1>4, SameEvents DEF CrashBatch
  <2>2. BatchStep BY <1>0, <1>4, BatchLetsGo DEF CrashBatch, TypeOK
  <2>3. DocStep BY <1>4, DocKept DEF CrashBatch, Loading
  <2>4. ActStep BY <1>4, <2>1, ActKept DEF CrashBatch, Noting
  <2>5. QED
    BY <1>4, <2>1, <2>2, <2>3, <2>4, CallsKept, RunsKept, TaskKept
       DEF CrashBatch, Step
<1>5. ASSUME NEW r \in Run, MarkFailed(w, r) PROVE Step
  <2>1. Events' = Events BY <1>5, SameEvents DEF MarkFailed
  <2>2. wpc[w] # "idle" BY <1>5 DEF MarkFailed
  <2>3. BatchStep BY <1>0, <1>5, <2>2, BatchGoesOn DEF MarkFailed
  <2>4. DocStep BY <1>5, DocKept DEF MarkFailed, Loading
  <2>5. ActStep BY <1>5, <2>1, ActKept DEF MarkFailed, Noting
  <2>6. RunsStep
    <3>1. runs[r] \in {"processing", "processed", "failed"}
      BY <1>0, <1>5 DEF MarkFailed, RunInv
    <3>2. /\ runs'[r] = "failed" /\ due' = due
          /\ \A q \in Run : q # r => runs'[q] = runs[q]
      BY <1>0, <1>5 DEF MarkFailed, TypeOK
    <3>3. QED BY <3>1, <3>2 DEF RunsStep, InPlay, Waiting, Claimable
  <2>7. QED
    BY <1>5, <2>1, <2>3, <2>4, <2>5, <2>6, CallsKept, TaskKept DEF MarkFailed, Step
<1>6. CASE BatchRaises(w)
  <2>1. /\ \A e \in Events' : e.kind = "retry" => e \in Events
        /\ Noting => Noting'
        /\ up => Noting'
    BY <1>0, <1>6, PlainPublish DEF BatchRaises
  <2>2. BatchStep BY <1>0, <1>6, <2>1, BatchLetsGo DEF BatchRaises, TypeOK
  <2>3. DocStep BY <1>6, DocKept DEF BatchRaises, Loading
  <2>4. QED
    BY <1>6, <2>1, <2>2, <2>3, CallsKept, RunsKept, ActKept, TaskKept
       DEF BatchRaises, Step
<1>7. QED BY <1>1, <1>2, <1>3, <1>4, <1>5, <1>6 DEF WorkerFault

\* A task that goes on.
LEMMA TaskGoes ==
    ASSUME TypeOK, NEW t \in Task, NEW to, TaskGo(t, to)
    PROVE  /\ task'[t] = to /\ \A u \in Task : u # t => task'[u] = task[u]
           /\ t = "listen" /\ to # "idle" => Noting'
           /\ t = "sweep" /\ Events' = Events => (Noting' <=> Noting)
           /\ (to \notin {"gate", "offer", "mark"} /\ batch' \in {batch, Never}
                  => TaskStep)
<1>1. task'[t] = to /\ \A u \in Task : u # t => task'[u] = task[u]
  BY DEF TaskGo, TypeOK
<1>2. "listen" \in Task /\ "sweep" \in Task BY DEF Task
<1>3. t = "listen" /\ to # "idle" => Noting' BY <1>1, <1>2 DEF Noting
<1>4. t = "sweep" /\ Events' = Events => (Noting' <=> Noting)
  BY <1>1, <1>2 DEF Noting
<1>5. to \notin {"gate", "offer", "mark"} /\ batch' \in {batch, Never} => TaskStep
  BY <1>1, <1>2 DEF TaskStep, Marking, Scheduling
<1>6. QED BY <1>1, <1>3, <1>4, <1>5

\* The listener notes activity when it has scheduled.
LEMMA DoneGoes ==
    ASSUME TypeOK, NEW t \in Task, Done(t)
    PROVE  /\ \E to \in {"note", "idle"} : TaskGo(t, to)
           /\ t = "listen" => TaskGo(t, "note") /\ Noting'
           /\ t = "sweep" => TaskGo(t, "idle")
BY TaskGoes DEF Done

\* _schedule_next_batch.
LEMMA ScheduleStep ==
    ASSUME Context, NEW t \in Task, Schedule(t)
    PROVE  Step
<1> USE DEF storeVars, docVars, runVars, callVars, batchVars, memVars, apiVars,
            jobVars, orchVars, outerVars
<1>0. TypeOK /\ StartInv /\ t \in {"listen", "sweep"} BY DEF Context, Task
<1>1. CASE ReadCampaign(t)
  <2>1. Events' = Events BY <1>1, SameEvents DEF ReadCampaign
  <2>2. DocStep BY <1>1, DocKept DEF ReadCampaign, Loading
  <2>3. Noting => Noting'
    BY <1>0, <1>1, <2>1, TaskGoes, DoneGoes DEF ReadCampaign
  <2>4. TaskStep
    <3>1. CASE TaskGo(t, "gate") /\ state \in {"running", "syncing"}
      <4>1. /\ task'[t] = "gate" /\ \A u \in Task : u # t => task'[u] = task[u]
            /\ batch' = batch
        BY <1>0, <1>1, <3>1, TaskGoes DEF ReadCampaign
      <4>2. "sweep" \in Task BY DEF Task
      <4>3. state = "running"
        BY <1>0, <1>1, <3>1 DEF ReadCampaign, StartInv, Task
      <4>4. QED BY <4>1, <4>2, <4>3 DEF TaskStep, Marking, Scheduling
    <3>2. CASE Done(t)
      BY <1>0, <1>1, <3>2, TaskGoes, DoneGoes DEF ReadCampaign
    <3>3. QED BY <1>1, <3>1, <3>2 DEF ReadCampaign
  <2>5. QED
    BY <1>0, <1>1, <2>1, <2>2, <2>3, <2>4, CallsKept, RunsKept, ActKept, BatchKept
       DEF ReadCampaign, Step
<1>2. CASE CheckBreaker(t)
  <2>1. Events' = Events BY <1>2, SameEvents DEF CheckBreaker
  <2>2. DocStep BY <1>2, DocKept DEF CheckBreaker, Loading
  <2>3. PICK to \in {"trip", "offer"} : TaskGo(t, to) BY <1>2 DEF CheckBreaker
  <2>4. Noting => Noting' BY <1>0, <2>1, <2>3, TaskGoes
  <2>5. TaskStep
    <3>1. /\ task'[t] = to /\ \A u \in Task : u # t => task'[u] = task[u]
          /\ task[t] = "gate" /\ batch' = batch
      BY <1>0, <1>2, <2>3, TaskGoes DEF CheckBreaker
    <3>2. "sweep" \in Task BY DEF Task
    <3>3. QED BY <3>1, <3>2 DEF TaskStep, Marking, Scheduling
  <2>6. QED
    BY <1>0, <1>2, <2>1, <2>2, <2>4, <2>5, CallsKept, RunsKept, ActKept, BatchKept
       DEF CheckBreaker, Step
<1>3. CASE Trip(t)
  <2>1. \A e \in Events' : e.kind = "retry" => e \in Events
    <3>1. \A e \in Events' : e \in Events \/ (e.kind = "tripped" /\ e.run = NoRun)
      BY <1>0, <1>3, PublishEvents DEF Trip
    <3>2. QED BY <3>1
  <2>2. DocStep BY <1>3 DEF Trip, Forget, DocStep, Loading
  <2>3. ActStep BY <1>3 DEF Trip, Forget, ActStep, Never
  <2>4. TaskStep BY <1>0, <1>3, TaskGoes, DoneGoes DEF Trip, Forget
  <2>5. QED
    BY <1>0, <1>3, <2>1, <2>2, <2>3, <2>4, CallsKept, RunsKept, BatchKept
       DEF Trip, Step
<1>4. CASE Offer(t)
  <2>1. Events' = Events BY <1>4, SameEvents DEF Offer
  <2>2. DocStep BY <1>4, DocKept DEF Offer, Loading
  <2>3. CASE Pending
    <3>1. /\ TaskGo(t, "mark") /\ jobs' = jobs + 1 /\ Offering
      BY <1>4, <2>3 DEF Offer, Offering
    <3>2. Alive' BY <1>0, <3>1 DEF Alive, TypeOK
    <3>3. Noting => Noting' BY <1>0, <2>1, <3>1, TaskGoes
    <3>4. TaskStep
      <4>1. /\ task'[t] = "mark" /\ \A u \in Task : u # t => task'[u] = task[u]
            /\ task[t] = "offer" /\ batch' = batch
        BY <1>0, <1>4, <3>1, TaskGoes DEF Offer
      <4>2. "sweep" \in Task BY DEF Task
      <4>3. QED BY <3>1, <3>2, <4>1, <4>2 DEF TaskStep, Marking, Scheduling
    <3>5. BatchStep BY <1>0, <1>4, <3>1, <3>2, LostCounts DEF Offer, BatchStep
    <3>6. QED
      BY <1>4, <2>1, <2>2, <3>3, <3>4, <3>5, CallsKept, RunsKept, ActKept
         DEF Offer, Step
  <2>4. CASE ~Pending
    <3>1. Done(t) /\ jobs' = jobs BY <1>4, <2>4 DEF Offer
    <3>2. Noting => Noting' BY <1>0, <2>1, <3>1, TaskGoes, DoneGoes
    <3>3. TaskStep BY <1>0, <1>4, <3>1, TaskGoes, DoneGoes DEF Offer
    <3>4. QED
      BY <1>0, <1>4, <2>1, <2>2, <3>1, <3>2, <3>3, CallsKept, RunsKept, ActKept,
         BatchKept DEF Offer, Step
  <2>5. QED BY <2>3, <2>4
<1>5. CASE MarkBatch(t)
  <2>1. Events' = Events BY <1>5, SameEvents DEF MarkBatch
  <2>2. DocStep BY <1>5 DEF MarkBatch, DocStep, Loading
  <2>3. Noting => Noting' BY <1>0, <1>5, <2>1, TaskGoes, DoneGoes DEF MarkBatch
  <2>4. TaskStep
    <3>1. PICK to \in {"note", "idle"} : TaskGo(t, to) /\ (t = "listen" => to = "note")
      BY <1>0, <1>5, DoneGoes DEF MarkBatch
    <3>2. task'[t] = to /\ \A u \in Task : u # t => task'[u] = task[u]
      BY <1>0, <3>1, TaskGoes
    <3>3. task[t] = "mark" BY <1>5 DEF MarkBatch
    <3>4. "sweep" \in Task /\ "listen" \in Task BY DEF Task
    <3>5. QED BY <1>0, <3>1, <3>2, <3>3, <3>4 DEF TaskStep, Marking, Scheduling
  <2>5. QED
    BY <1>0, <1>5, <2>1, <2>2, <2>3, <2>4, CallsKept, RunsKept, ActKept, BatchKept
       DEF MarkBatch, Step
<1>6. QED BY <1>1, <1>2, <1>3, <1>4, <1>5 DEF Schedule

\* The listener and the sweep ask to schedule.
LEMMA EnterGoes ==
    ASSUME TypeOK, NEW t \in Task, EnterSchedule(t), batch' \in {batch, Never}
    PROVE  /\ t = "listen" => Noting' /\ task'["listen"] # "idle"
           /\ t = "sweep" /\ Events' = Events => (Noting' <=> Noting)
           /\ t = "sweep" => task'["sweep"] \in {"read", "idle"}
           /\ TaskStep
<1>1. PICK to \in {"note", "read", "idle"} :
          /\ TaskGo(t, to) /\ (t = "listen" => to # "idle")
          /\ (t = "sweep" => to # "note")
  BY DoneGoes DEF EnterSchedule, Task
<1>2. QED BY <1>1, TaskGoes

\* The listener takes an event.
LEMMA HandleTakes ==
    ASSUME TypeOK, NEW kind, Handle(kind)
    PROVE  /\ Head(chan) \in Events /\ Head(chan).kind = kind
           /\ \A e \in Events' : e \in Events
           /\ task' = task /\ kind \notin {"completed", "failed"} /\ Noting => Noting'
<1>1. /\ Head(chan) \in Events /\ Head(chan).kind = kind
      /\ \A e \in Events' : e \in Events
      /\ \A e \in Events : e \in Events' \/ e = Head(chan)
  BY TakenEvents DEF Handle
<1>2. task' = task /\ kind \notin {"completed", "failed"} /\ Noting => Noting'
  BY <1>1 DEF Noting
<1>3. QED BY <1>1, <1>2

\* All memory and every event under way are lost.
LEMMA DownStep ==
    ASSUME TypeOK, Down, UNCHANGED <<storeVars, outerVars, jobVars>>,
           faults' = faults \/ \E f : Happens(f)
    PROVE  Step
<1> USE DEF storeVars, docVars, runVars, callVars, batchVars, memVars, apiVars,
            jobVars, orchVars, outerVars
<1>1. Events' = {} BY NoEvents DEF Down
<1>2. DocStep BY DEF Down, Forget, DocStep, Loading
<1>3. ActStep BY DEF Down, Forget, ActStep, Never
<1>4. TaskStep
  <2>1. /\ \A t \in Task : task'[t] = "idle"
        /\ batch' = Never
    BY DEF Down, Forget
  <2>2. task'["sweep"] = "idle" BY <2>1 DEF Task
  <2>3. QED BY <2>1, <2>2 DEF TaskStep, Marking
<1>5. QED BY <1>1, <1>2, <1>3, <1>4, CallsKept, RunsKept, BatchKept DEF Step

\* The listener.
LEMMA ListenStep ==
    ASSUME Context, Listen
    PROVE  Step
<1> USE DEF storeVars, docVars, runVars, callVars, batchVars, memVars, apiVars,
            jobVars, orchVars, outerVars
<1>0. /\ TypeOK /\ RunInv /\ StartInv /\ "listen" \in Task
      /\ state = "created" => chan = <<>> /\ task["listen"] = "idle"
  BY DEF Context, StartInv, Task
<1>1. CASE OnSyncCompleted
  <2>1. \A e \in Events' : e \in Events BY <1>0, <1>1, HandleTakes DEF OnSyncCompleted
  <2>2. Noting' /\ TaskStep BY <1>0, <1>1, EnterGoes DEF OnSyncCompleted
  <2>3. DocStep BY <1>1, DocKept DEF OnSyncCompleted, Loading
  <2>4. QED
    BY <1>0, <1>1, <2>1, <2>2, <2>3, CallsKept, RunsKept, ActKept, BatchKept
       DEF OnSyncCompleted, Step
<1>2. CASE OnBatchCompleted
  <2>1. \A e \in Events' : e \in Events BY <1>0, <1>2, HandleTakes DEF OnBatchCompleted
  <2>2. Noting' /\ TaskStep BY <1>0, <1>2, TaskGoes DEF OnBatchCompleted
  <2>3. DocStep BY <1>2 DEF OnBatchCompleted, DocStep, Loading
  <2>4. QED
    BY <1>0, <1>2, <2>1, <2>2, <2>3, CallsKept, RunsKept, ActKept, BatchKept
       DEF OnBatchCompleted, Step
<1>3. CASE CheckRunning
  <2>1. Events' = Events BY <1>3, SameEvents DEF CheckRunning
  <2>2. DocStep BY <1>3 DEF CheckRunning, Forget, DocStep, Loading
  <2>3. ActStep /\ TaskStep
    <3>1. CASE state = "running"
      <4>1. Noting' /\ TaskStep BY <1>0, <1>3, <3>1, EnterGoes DEF CheckRunning
      <4>2. ActStep BY <1>3, <3>1, <4>1, ActKept DEF CheckRunning
      <4>3. QED BY <4>1, <4>2
    <3>2. CASE state # "running"
      <4>1. TaskStep BY <1>0, <1>3, <3>2, TaskGoes DEF CheckRunning, Forget
      <4>2. ActStep BY <1>0, <1>3, <3>2 DEF CheckRunning, Forget, ActStep, Never
      <4>3. QED BY <4>1, <4>2
    <3>3. QED BY <3>1, <3>2
  <2>4. QED
    BY <1>0, <1>3, <2>1, <2>2, <2>3, CallsKept, RunsKept, BatchKept
       DEF CheckRunning, Step
<1>4. CASE OnBatchFailed
  <2>1. \A e \in Events' : e \in Events BY <1>0, <1>4, HandleTakes DEF OnBatchFailed
  <2>2. DocStep BY <1>4 DEF OnBatchFailed, DocStep, Loading
  <2>3. ActStep BY <1>0, <1>4 DEF OnBatchFailed, Handle, ActStep
  <2>4. QED
    BY <1>0, <1>4, <2>1, <2>2, <2>3, CallsKept, RunsKept, BatchKept, TaskKept
       DEF OnBatchFailed, Step
<1>5. CASE OnTripped
  <2>1. \A e \in Events' : e \in Events BY <1>0, <1>5, HandleTakes DEF OnTripped
  <2>2. DocStep BY <1>5 DEF OnTripped, Forget, DocStep, Loading
  <2>3. ActStep BY <1>5 DEF OnTripped, Forget, ActStep, Never
  <2>4. QED
    BY <1>0, <1>5, <2>1, <2>2, <2>3, CallsKept, RunsKept, BatchKept, TaskKept
       DEF OnTripped, Forget, Step
<1>6. CASE OnRetryExhausted
  <2>1. /\ \A e \in Events' : e \in Events
        /\ Noting => Noting'
    BY <1>0, <1>6, HandleTakes DEF OnRetryExhausted
  <2>2. DocStep BY <1>6, DocKept DEF OnRetryExhausted, Loading
  <2>3. QED
    BY <1>0, <1>6, <2>1, <2>2, CallsKept, RunsKept, ActKept, BatchKept, TaskKept
       DEF OnRetryExhausted, Step
<1>7. CASE OnRetry
  <2>1. Head(chan) \in Events /\ Head(chan).kind = "retry" /\ \A e \in Events' : e \in Events
    BY <1>0, <1>7, HandleTakes DEF OnRetry
  <2>2. /\ Noting' /\ TaskStep /\ task'["listen"] # "idle"
    BY <1>0, <1>7, TaskGoes DEF OnRetry
  <2>3. DocStep BY <1>7, DocKept DEF OnRetry, Loading
  <2>4. RunsStep
    <3> DEFINE q == Head(chan).run
               n == NextAttempt(q)
    <3>1. q \in Run /\ Retrying(q)
      BY <1>0, <1>7, <2>1, HandleType DEF OnRetry, Retrying
    <3>2. /\ MayRetry(q) /\ runs[n] = "none"
          /\ runs' = [runs EXCEPT ![n] = "queued"] /\ due' = [due EXCEPT ![n] = RetryDelay]
      BY <1>7 DEF OnRetry, Insertable
    <3>3. n \in Run BY <3>1, <3>2, CampaignConfig DEF NextAttempt, MayRetry, Run
    <3>4. runs'[n] = "queued" /\ due'[n] = RetryDelay
      BY <1>0, <3>2, <3>3 DEF TypeOK
    <3>5. \A r \in Run : r # n => runs'[r] = runs[r] /\ due'[r] = due[r]
      BY <1>0, <3>2 DEF TypeOK
    <3>6. Born(n) BY <1>7, <2>2, <3>1, <3>2, <3>4 DEF OnRetry, Born
    <3> HIDE DEF n, q
    <3>7. QED BY <3>2, <3>4, <3>5, <3>6 DEF RunsStep, InPlay, Waiting, Claimable
  <2>5. QED
    BY <1>0, <1>7, <2>1, <2>2, <2>3, <2>4, CallsKept, ActKept, BatchKept
       DEF OnRetry, Step
<1>8. CASE OnRetryDuplicate BY <1>0, <1>8, DownStep DEF OnRetryDuplicate
<1>9. CASE NoteActivity
  <2>1. Events' = Events BY <1>9, SameEvents DEF NoteActivity
  <2>2. DocStep BY <1>9, DocKept DEF NoteActivity, Loading
  <2>3. ActStep BY <1>0, <1>9 DEF NoteActivity, ActStep
  <2>4. TaskStep BY <1>0, <1>9, TaskGoes DEF NoteActivity
  <2>5. QED
    BY <1>0, <1>9, <2>1, <2>2, <2>3, <2>4, CallsKept, RunsKept, BatchKept
       DEF NoteActivity, Step
<1>10. QED
  BY <1>1, <1>2, <1>3, <1>4, <1>5, <1>6, <1>7, <1>8, <1>9 DEF Listen

\* The sweep.
LEMMA SweepStep ==
    ASSUME Context, Sweep
    PROVE  Step
<1> USE DEF storeVars, docVars, runVars, callVars, batchVars, memVars, apiVars,
            jobVars, orchVars, outerVars
<1>0. TypeOK /\ "sweep" \in Task BY DEF Context, Task
<1>1. ASSUME chan' = chan PROVE Events' = Events BY <1>1, SameEvents
<1>2. ASSUME UNCHANGED <<storeVars, outerVars, jobVars, chan, activity, faults>>,
             batch' \in {batch, Never}, Noting => Noting', TaskStep
      PROVE  Step
  <2>1. DocStep BY <1>2 DEF DocStep, Loading
  <2>2. QED
    BY <1>0, <1>1, <1>2, <2>1, CallsKept, RunsKept, ActKept, BatchKept DEF Step
<1>3. CASE SweepRead BY <1>0, <1>1, <1>2, <1>3, TaskGoes DEF SweepRead
<1>4. CASE SweepLook
  <2>1. CASE BatchInProgress BY <1>0, <1>1, <1>2, <1>4, <2>1, TaskGoes DEF SweepLook
  <2>2. CASE ~BatchInProgress /\ Pending
    BY <1>0, <1>1, <1>2, <1>4, <2>2, EnterGoes DEF SweepLook
  <2>3. CASE ~BatchInProgress /\ ~Pending
    BY <1>0, <1>1, <1>2, <1>4, <2>3, TaskGoes DEF SweepLook
  <2>4. QED BY <2>1, <2>2, <2>3
<1>5. CASE SweepIdleCheck
  <2>1. PICK to \in {"recheck", "idle"} : TaskGo("sweep", to) BY <1>5 DEF SweepIdleCheck
  <2>2. QED BY <1>0, <1>1, <1>2, <1>5, <2>1, TaskGoes DEF SweepIdleCheck
<1>6. CASE SweepRecheck
  <2>1. PICK to \in {"seal", "idle"} : TaskGo("sweep", to) BY <1>6 DEF SweepRecheck
  <2>2. QED BY <1>0, <1>1, <1>2, <1>6, <2>1, TaskGoes DEF SweepRecheck
<1>7. CASE SweepSeal
  <2>1. Events' = Events BY <1>7, SameEvents DEF SweepSeal
  <2>2. DocStep BY <1>7 DEF SweepSeal, Forget, DocStep, Loading
  <2>3. ActStep BY <1>7 DEF SweepSeal, Forget, ActStep, Never
  <2>4. TaskStep BY <1>0, <1>7, TaskGoes DEF SweepSeal, Forget
  <2>5. QED
    BY <1>0, <1>7, <2>1, <2>2, <2>3, <2>4, CallsKept, RunsKept, BatchKept
       DEF SweepSeal, Step
<1>8. QED BY <1>3, <1>4, <1>5, <1>6, <1>7 DEF Sweep

\* Every step other than Tick.
LEMMA NextStep ==
    ASSUME Context, IngestInv, api # "resume", Next, ~Tick
    PROVE  Step
<1> USE DEF storeVars, docVars, runVars, callVars, batchVars, memVars, apiVars,
            jobVars, orchVars, outerVars
<1>0. TypeOK BY DEF Context
<1>1. CASE Unlock BY <1>0, <1>1, QuietStep DEF Unlock, Loading
<1>2. CASE OrchestratorDies BY <1>0, <1>2, DownStep DEF OrchestratorDies
<1>3. CASE OrchestratorRestarts
  BY <1>0, <1>3, QuietStep DEF OrchestratorRestarts, Loading
<1>4. QED
  BY <1>1, <1>2, <1>3, ApiStep, ReportsStep, IngestStep, WorkStep, FaultStep,
     ScheduleStep, ListenStep, SweepStep DEF Next

----------------------------------------------------------------------------
(* Arithmetic *)

\* Each lost batch makes the campaign look idle for one timeout more.
LEMMA BudgetGrows ==
    ASSUME NEW n \in Nat
    PROVE  /\ Budget(n) \in Nat
           /\ Budget(n) >= BatchTimeout /\ Budget(n) >= RetryDelay
           /\ Budget(n + 1) = Budget(n) + BatchTimeout + 1
<1>1. /\ Base \in Nat /\ Base >= BatchTimeout /\ Base >= RetryDelay
      /\ BatchTimeout + 1 \in Nat
  BY CampaignConfig DEF Base
<1>2. n * (BatchTimeout + 1) \in Nat BY <1>1
<1>3. (n + 1) * (BatchTimeout + 1) = n * (BatchTimeout + 1) + (BatchTimeout + 1)
  BY <1>1
<1>4. QED BY <1>1, <1>2, <1>3, CampaignConfig DEF Budget

\* Each attempt makes the document older by one call and one delay.
LEMMA SpanGrows ==
    ASSUME NEW k \in Nat
    PROVE  /\ Span(k) \in Nat /\ Span(k) >= BatchTimeout
           /\ Span(k + 1) = Span(k) + CallMax + RetryDelay
           /\ k >= 1 => Span(k) >= RetryDelay
<1> DEFINE s == CallMax + RetryDelay
<1>1. s \in Nat /\ s >= RetryDelay /\ BatchTimeout \in Nat BY CampaignConfig
<1>2. k * s \in Nat BY <1>1
<1>3. (k + 1) * s = k * s + s BY <1>1
<1>4. k >= 1 => k * s >= s
  <2>1. ASSUME k >= 1 PROVE k * s >= s
    <3>1. k - 1 \in Nat /\ k = (k - 1) + 1 BY <2>1
    <3>2. (k - 1) * s \in Nat BY <1>1, <3>1
    <3>3. k * s = (k - 1) * s + s BY <1>1, <3>1
    <3>4. QED BY <1>1, <3>2, <3>3
  <2>2. QED BY <2>1
<1>5. Span(k) = BatchTimeout + k * s /\ Span(k + 1) = BatchTimeout + (k + 1) * s
  BY DEF Span
<1>6. CallMax \in Nat /\ RetryDelay \in Nat /\ s = CallMax + RetryDelay BY CampaignConfig
<1> HIDE DEF s
<1>7. QED BY <1>1, <1>2, <1>3, <1>4, <1>5, <1>6

\* What the provers do not find by themselves about products.
LEMMA Products ==
    ASSUME NEW m \in Nat, NEW n \in Nat, NEW c \in Nat, m <= n
    PROVE  m * c <= n * c
<1>1. n - m \in Nat /\ n = m + (n - m) OBVIOUS
<1>2. (n - m) * c \in Nat /\ n * c = m * c + (n - m) * c BY <1>1
<1>3. m * c \in Nat OBVIOUS
<1>4. QED BY <1>2, <1>3

\* Within the assumption every bound is below the idle hour.
LEMMA BudgetBounded ==
    ASSUME DrainAssumption, TypeOK, IngestInv
    PROVE  Lost \in Nat /\ Budget(Lost) + 1 + CallMax < CompletionTimeout
<1>1. /\ Lost \in Nat /\ MostLost \in Nat /\ Lost <= MostLost
      /\ BatchTimeout + 1 \in Nat /\ CallMax \in Nat /\ CompletionTimeout \in Nat
      /\ Base \in Nat
  BY CampaignConfig DEF IngestInv, TypeOK, Lost, MostLost, Base
<1>2. Lost * (BatchTimeout + 1) <= MostLost * (BatchTimeout + 1) BY <1>1, Products
<1>3. Lost * (BatchTimeout + 1) \in Nat /\ MostLost * (BatchTimeout + 1) \in Nat BY <1>1
<1>4. Budget(Lost) <= Budget(MostLost) /\ Budget(Lost) \in Nat /\ Budget(MostLost) \in Nat
  BY <1>1, <1>2, <1>3 DEF Budget
<1>5. QED BY <1>1, <1>4 DEF DrainAssumption

\* The last attempt allowed bounds the age of the document.
LEMMA SpanBounded ==
    ASSUME DrainAssumption, NEW k \in Nat, k <= MaxRetries
    PROVE  Span(k) + CallMax < CompletionTimeout
<1> DEFINE s == CallMax + RetryDelay
<1>1. /\ s \in Nat /\ MaxRetries \in Nat /\ BatchTimeout \in Nat
      /\ CallMax \in Nat /\ CompletionTimeout \in Nat
  BY CampaignConfig
<1>2. k * s <= MaxRetries * s BY <1>1, Products
<1>3. k * s \in Nat /\ MaxRetries * s \in Nat BY <1>1
<1>4. /\ Span(k) = BatchTimeout + k * s
      /\ Span(MaxRetries) = BatchTimeout + MaxRetries * s
  BY DEF Span
<1>5. Span(MaxRetries) + CallMax < CompletionTimeout BY DEF DrainAssumption
<1> HIDE DEF s
<1>6. QED BY <1>1, <1>2, <1>3, <1>4, <1>5

\* A run that exists is an attempt the policy allows.
LEMMA Attempts ==
    ASSUME Context, NEW r \in Run, runs[r] # "none"
    PROVE  r[2] \in Nat /\ r[2] <= MaxRetries
BY CampaignConfig DEF Context, RunInv, AttemptsBounded, Run

----------------------------------------------------------------------------
(* The invariant is kept by every step other than Tick *)

\* What a step makes of a retry that is born: the attempt after q.
LEMMA BornAfter ==
    ASSUME NEW r \in Run, Born(r)
    PROVE  \E q \in Run : Retrying(q) /\ q[2] \in Nat /\ r[2] = q[2] + 1
<1>1. PICK q \in Run : Retrying(q) /\ r = NextAttempt(q) BY DEF Born
<1>2. q[2] \in Nat BY CampaignConfig DEF Run
<1>3. QED BY <1>1, <1>2 DEF NextAttempt

\* A step keeps the document young while there is something to do.
LEMMA DocKeeps ==
    ASSUME Context, Context', DocInv, Step
    PROVE  DocInv'
<1>0. TypeOK /\ TypeOK' BY DEF Context
<1>1. CallsStep /\ RunsStep /\ DocStep BY DEF Step
<1>2. /\ docAge \in Nat /\ docAge' \in Nat /\ RetryDelay \in Nat /\ CallMax \in Nat
      /\ \A r \in Run : r[2] \in Nat
  BY <1>0, CampaignConfig DEF TypeOK, Run
<1>3. \A r \in Run : /\ due[r] \in Nat /\ due'[r] \in Nat /\ due'[r] <= RetryDelay
                     /\ callAge[r] \in Nat /\ callAge[r] <= CallMax /\ callAge'[r] \in Nat
                     /\ reports[r] \in Nat
  BY <1>0, <1>2 DEF TypeOK
<1>4. ASSUME NEW r \in Run
      PROVE  /\ due'[r] > 0 => r[2] >= 1 /\ runs'[r] # "none"
             /\ reports'[r] > 0 \/ Retrying(r)' => runs'[r] # "none"
  <2>1. CASE due'[r] > 0
    <3>1. due'[r] = due[r] \/ Born(r) BY <1>1, <2>1 DEF RunsStep
    <3>2. CASE due'[r] = due[r] BY <1>1, <2>1, <3>2 DEF DocInv, RunsStep
    <3>3. CASE Born(r) BY <3>3, BornAfter DEF Born
    <3>4. QED BY <3>1, <3>2, <3>3
  <2>2. reports'[r] > 0 \/ Retrying(r)' => runs[r] # "none"
    BY <1>1 DEF CallsStep, DocInv, Waiting, Claimable
  <2>3. runs[r] # "none" => runs'[r] # "none" BY <1>1 DEF RunsStep
  <2>4. QED BY <2>1, <2>2, <2>3
<1>5. ASSUME state' = "running", NEW r \in Run
      PROVE  /\ Waiting(r)' => docAge' <= Span(r[2])
             /\ reports'[r] > 0 => docAge' <= Span(r[2]) + callAge'[r]
             /\ Retrying(r)' => docAge' <= Span(r[2]) + CallMax
             /\ due'[r] > 0 => docAge' + due'[r] <= Span(r[2])
  <2>1. /\ r[2] \in Nat /\ Span(r[2]) \in Nat
        /\ r[2] >= 1 => Span(r[2]) >= RetryDelay
    BY <1>2, SpanGrows
  <2>2. CASE docAge' = 0 BY <1>2, <1>3, <1>4, <2>1, <2>2
  <2>3. CASE state = "running" /\ docAge' = docAge
    <3>1. Born(r) => docAge + RetryDelay <= Span(r[2])
      <4>1. ASSUME Born(r) PROVE docAge + RetryDelay <= Span(r[2])
        <5>1. PICK q \in Run : Retrying(q) /\ q[2] \in Nat /\ r[2] = q[2] + 1
          BY <4>1, BornAfter
        <5>2. docAge <= Span(q[2]) + CallMax BY <2>3, <5>1 DEF DocInv
        <5>3. Span(q[2]) \in Nat /\ Span(r[2]) = Span(q[2]) + CallMax + RetryDelay
          BY <5>1, SpanGrows
        <5>4. QED BY <1>2, <5>2, <5>3
      <4>2. QED BY <4>1
    <3>2. Loaded(r) => docAge = 0 BY DEF Loaded, DocInv, Loading
    <3>3. Waiting(r)' => docAge <= Span(r[2])
      BY <1>1, <1>2, <2>1, <2>3, <3>1, <3>2 DEF RunsStep, DocInv
    <3>4. reports'[r] > 0 => docAge <= Span(r[2]) + callAge'[r]
      BY <1>1, <1>2, <1>3, <2>1, <2>3 DEF CallsStep, DocInv
    <3>5. Retrying(r)' => docAge <= Span(r[2]) + CallMax
      BY <1>1, <1>2, <1>3, <2>1, <2>3 DEF CallsStep, DocInv
    <3>6. due'[r] > 0 => docAge + due'[r] <= Span(r[2])
      <4>1. CASE Born(r) /\ due'[r] > 0 BY <2>3, <3>1, <4>1 DEF Born
      <4>2. CASE due'[r] = due[r] BY <2>3, <4>2 DEF DocInv
      <4>3. QED BY <1>1, <4>1, <4>2 DEF RunsStep
    <3>7. QED BY <2>3, <3>3, <3>4, <3>5, <3>6
  <2>4. CASE sync = "inserted"
    <3>1. docAge = 0 BY <2>4 DEF DocInv, Loading
    <3>2. QED BY <1>1, <2>2, <3>1 DEF DocStep
  <2>5. QED BY <1>1, <1>5, <2>2, <2>3, <2>4 DEF DocStep
<1>6. Loading' => docAge' = 0 BY <1>1 DEF DocStep, DocInv
<1>7. BatchInProgress' => docAge' <= batch'
  <2>1. batch \in Int /\ (batch = Never \/ batch >= 0)
    BY <1>0, CampaignConfig DEF TypeOK, Age, Never
  <2>2. QED BY <1>1, <1>2, <2>1 DEF DocStep, DocInv, BatchInProgress, Never
<1>8. QED BY <1>4, <1>5, <1>6, <1>7 DEF DocInv

\* A step keeps the last activity young while there is something to do.
LEMMA ActKeeps ==
    ASSUME DrainAssumption, Context, Context', DownInv, IngestInv, DocInv, ActInv, Step
    PROVE  ActInv'
<1> DEFINE B == Budget(Lost)
           soon(b) == activity' <= b \/ (Noting' /\ activity' < CompletionTimeout)
           orphaned(b) == soon(b) \/ activity' + BatchTimeout <= B' + b
<1>0. TypeOK /\ TypeOK' BY DEF Context
<1>1. CallsStep /\ RunsStep /\ DocStep /\ ActStep /\ BatchStep /\ TaskStep BY DEF Step
<1>2. /\ activity \in Int /\ activity >= -1
      /\ activity' = activity \/ activity' = 0 \/ activity' = -1
      /\ Noting /\ ~Noting' => activity' <= 0
      /\ RetryDelay \in Nat /\ CallMax \in Nat /\ BatchTimeout \in Nat
      /\ CompletionTimeout \in Nat
  BY <1>0, <1>1, CampaignConfig DEF TypeOK, Age, Never, ActStep
<1>3. /\ B \in Nat /\ B >= BatchTimeout /\ B >= RetryDelay
      /\ B + 1 + CallMax < CompletionTimeout
  BY <1>0, BudgetBounded, BudgetGrows
<1>4. /\ B' \in Nat /\ B' >= B
      /\ Lost' = Lost + 1 => B' = B + BatchTimeout + 1
  <2>1. Lost \in Nat /\ Lost' \in {Lost, Lost + 1}
    BY <1>0, <1>1, BudgetBounded DEF BatchStep
  <2>2. B' = Budget(Lost') BY DEF Budget
  <2>3. Budget(Lost + 1) = B + BatchTimeout + 1 BY <2>1, BudgetGrows
  <2>4. Lost + 1 # Lost BY <2>1
  <2>5. QED BY <1>2, <1>3, <2>1, <2>2, <2>3, <2>4
<1>5. Tired \in {0, 1} /\ Tired' \in {0, 1} /\ (slow' = slow => Tired' = Tired)
  BY DEF Tired
<1>6. \A r \in Run : /\ due[r] \in Nat /\ due'[r] \in Nat /\ due'[r] <= RetryDelay
                     /\ callAge[r] \in Nat /\ callAge[r] <= CallMax /\ callAge'[r] \in Nat
  BY <1>0, <1>2 DEF TypeOK
<1> HIDE DEF B
\* What was young enough stays so.
<1>7. ASSUME NEW b \in Nat, NEW c \in Nat, b <= c, b < CompletionTimeout, Young(b)
      PROVE  soon(c) /\ activity < CompletionTimeout
  BY <1>2, <1>7 DEF Young
<1>8. ASSUME NEW c \in Nat, activity <= 0 \/ (Noting' /\ activity < CompletionTimeout)
      PROVE  soon(c)
  BY <1>2, <1>3, <1>8
<1>9. Active => /\ activity < CompletionTimeout /\ soon(B' + Tired')
                /\ Lost' = Lost + 1 => orphaned(0)
  <2>1. ASSUME Active PROVE activity < CompletionTimeout /\ Young(B + Tired)
    BY <1>2, <1>3, <1>5, <2>1 DEF Active, Young, B
  <2>2. ASSUME Active, ~up PROVE activity <= 0 BY <2>2 DEF DownInv, Never
  <2>3. ASSUME Active, slow' = slow \/ Lost' = Lost + 1 PROVE soon(B' + Tired')
    BY <1>2, <1>3, <1>4, <1>5, <2>1, <2>3 DEF Young
  <2>4. ASSUME Active, Noting' \/ ~up PROVE soon(B' + Tired')
    BY <1>4, <1>5, <1>8, <2>1, <2>2, <2>4
  <2>5. ASSUME Active, Lost' = Lost + 1 PROVE orphaned(0)
    BY <1>2, <1>3, <1>4, <1>5, <2>1, <2>5 DEF Young
  <2>6. QED BY <1>1, <2>1, <2>3, <2>4, <2>5 DEF BatchStep
<1>10. Offering => Active BY DEF Offering, Scheduling, ActInv
<1>11. \A r \in Run : Born(r) => activity < CompletionTimeout /\ Noting' /\ activity' = activity
  <2>1. ASSUME NEW r \in Run, Born(r)
        PROVE  activity < CompletionTimeout /\ Noting' /\ activity' = activity
    <3>1. PICK q \in Run : Retrying(q) BY <2>1, BornAfter
    <3>2. Young(B + 1 + CallMax) BY <3>1 DEF ActInv, B
    <3>3. QED BY <1>2, <1>3, <2>1, <3>2 DEF Young, Born, Noting
  <2>2. QED BY <2>1
<1>12. Alive' => Active'
  BY <1>1, <1>9, <1>10 DEF BatchStep, ActInv, Active, Young, B
<1>13. Pending' /\ Scheduling' => Active'
  <2>1. ASSUME activity <= 0 PROVE Active'
    BY <1>4, <1>5, <1>8, <2>1 DEF Active, Young, B
  <2>2. ASSUME Scheduling' PROVE Scheduling \/ activity <= 0
    BY <1>1, <2>2 DEF Scheduling, TaskStep, DocStep, ActInv, IngestInv, Loading, Never
  <2>3. ASSUME Pending', Scheduling PROVE Active'
    <3>1. PICK r \in Run : Waiting(r)' BY <2>3 DEF Pending, Waiting
    <3>2. CASE Waiting(r)
      BY <1>9, <2>3, <3>2 DEF Waiting, Pending, ActInv, Active, Young, B
    <3>3. CASE Born(r) BY <1>4, <1>5, <1>8, <1>11, <3>3 DEF Active, Young, B
    <3>4. CASE Loaded(r) BY <2>1, <3>4 DEF Loaded, Loading, ActInv
    <3>5. QED BY <1>1, <3>1, <3>2, <3>3, <3>4 DEF RunsStep
  <2>4. QED BY <2>1, <2>2, <2>3
<1>14. Marking' => Active'
  BY <1>1, <1>9, <1>10 DEF TaskStep, ActInv, Active, Young, B
<1>15. ASSUME NEW r \in Run
       PROVE  /\ due'[r] > 0 => \/ activity' + due'[r] <= RetryDelay
                                \/ Noting' /\ activity' < CompletionTimeout
              /\ reports'[r] > 0 => soon(B' + 1 + callAge'[r])
              /\ Retrying(r)' => soon(B' + 1 + CallMax)
  <2>1. ASSUME due'[r] > 0
        PROVE  \/ activity' + due'[r] <= RetryDelay
               \/ Noting' /\ activity' < CompletionTimeout
    <3>1. CASE Born(r) BY <1>11, <3>1
    <3>2. CASE due'[r] = due[r]
      <4>1. PICK d \in Nat : d = due[r] /\ d = due'[r] /\ d <= RetryDelay BY <1>6, <3>2
      <4>2. activity + d <= RetryDelay \/ (Noting /\ activity < CompletionTimeout)
        BY <2>1, <3>2, <4>1 DEF ActInv
      <4>3. activity' + d <= RetryDelay \/ (Noting' /\ activity' < CompletionTimeout)
        BY <1>2, <4>1, <4>2
      <4>4. QED BY <4>1, <4>3
    <3>3. QED BY <1>1, <2>1, <3>1, <3>2 DEF RunsStep
  \* A call that was there.
  <2>2. ASSUME NEW c \in Nat, c <= CallMax, Young(B + 1 + c)
        PROVE  soon(B' + 1 + c) /\ soon(B' + 1 + CallMax)
    BY <1>2, <1>3, <1>4, <2>2 DEF Young
  <2>3. PICK c \in Nat : c = callAge[r] /\ c <= CallMax BY <1>6
  <2>4. reports[r] > 0 => soon(B' + 1 + c) /\ soon(B' + 1 + CallMax)
    BY <2>2, <2>3 DEF ActInv, B
  <2>5. reports'[r] > 0 => soon(B' + 1 + callAge'[r])
    <3>1. CASE Alive /\ callAge'[r] = 0
      <4>1. activity <= B + Tired \/ (Noting /\ activity < CompletionTimeout)
        BY <3>1 DEF ActInv, Active, Young, B
      <4>2. soon(B' + 1 + 0) BY <1>2, <1>3, <1>4, <1>5, <4>1
      <4>3. QED BY <3>1, <4>2
    <3>2. QED BY <1>1, <2>3, <2>4, <3>1 DEF CallsStep
  <2>6. Retrying(r)' => soon(B' + 1 + CallMax)
    <3>1. Retrying(r) => soon(B' + 1 + CallMax) BY <1>2, <2>2 DEF ActInv, B
    <3>2. QED BY <1>1, <2>4, <3>1 DEF CallsStep
  <2>7. QED BY <2>1, <2>5, <2>6
\* A batch that is gone without an event was lost to a fault, or long ago.
<1>16. ASSUME NEW b \in Nat, b < CompletionTimeout, ~Alive', Alive \/ Orphaned(b)
       PROVE  orphaned(b)
  <2>1. CASE ~Alive
    <3>1. CASE Young(b) BY <1>7, <1>16, <3>1
    <3>2. CASE activity + BatchTimeout <= B + b BY <1>2, <1>3, <1>4, <1>16, <3>2
    <3>3. QED BY <1>16, <2>1, <3>1, <3>2 DEF Orphaned, B
  <2>2. CASE Alive
    <3>1. Active BY <2>2 DEF ActInv
    <3>2. CASE Noting' BY <1>8, <1>9, <3>1, <3>2
    <3>3. CASE ~up BY <1>8, <3>3 DEF DownInv, Never
    <3>4. CASE Lost' = Lost + 1 BY <1>2, <1>4, <1>9, <3>1, <3>4
    <3>5. CASE \E w \in Worker : wpc[w] = "failing"
      <4>1. Young(0) BY <3>5 DEF ActInv
      <4>2. QED BY <1>2, <1>3, <1>16, <4>1 DEF Young
    <3>6. QED BY <1>1, <1>16, <2>2, <3>2, <3>3, <3>4, <3>5 DEF BatchStep
  <2>3. QED BY <2>1, <2>2
<1>17. BatchInProgress' /\ ~Alive' => Orphaned(batch)'
  <2>1. SUFFICES ASSUME BatchInProgress', ~Alive' PROVE orphaned(batch')
    BY DEF Orphaned, Young, B
  <2>2. batch' \in Nat /\ batch' < BatchTimeout /\ batch' # Never
    BY <1>0, <1>2, <2>1 DEF TypeOK, Age, BatchInProgress, Never
  <2>3. CASE batch' = batch
    <3>1. Alive \/ Orphaned(batch) BY <2>2, <2>3 DEF ActInv, BatchInProgress
    <3>2. QED BY <1>2, <1>3, <1>16, <2>1, <2>2, <2>3, <3>1
  <2>4. CASE batch' # batch
    <3>1. batch' = 0 BY <1>1, <2>2, <2>4 DEF DocStep
    <3>2. task["sweep"] = "mark" \/ (Marking /\ task'["listen"] # "idle")
      BY <1>1, <2>2, <2>4 DEF TaskStep
    <3>3. CASE task["sweep"] = "mark"
      <4>1. Alive \/ Orphaned(0) BY <3>3 DEF ActInv
      <4>2. QED BY <1>3, <1>2, <1>16, <2>1, <3>1, <4>1
    <3>4. CASE Marking /\ task'["listen"] # "idle"
      <4>1. Noting' /\ Active BY <3>4 DEF Noting, ActInv
      <4>2. QED BY <1>8, <1>9, <2>2, <4>1
    <3>5. QED BY <3>2, <3>3, <3>4
  <2>5. QED BY <2>3, <2>4
<1>18. task'["sweep"] = "mark" /\ ~Alive' => Orphaned(0)'
  <2>1. SUFFICES ASSUME task'["sweep"] = "mark", ~Alive' PROVE orphaned(0)
    BY DEF Orphaned, Young, B
  <2>2. Alive \/ Orphaned(0) BY <1>1, <2>1 DEF TaskStep, ActInv
  <2>3. QED BY <1>2, <1>3, <1>16, <2>1, <2>2
<1>19. state' = "created" => activity' = Never BY <1>1 DEF ActStep, ActInv
<1>20. Loading' => activity' <= 0
  BY <1>1, <1>2 DEF DocStep, ActInv, Never
<1>21. ASSUME NEW w \in Worker, wpc'[w] = "failing" PROVE soon(0)
  <2>1. CASE wpc[w] = "failing"
    <3>1. Young(0) BY <2>1 DEF ActInv
    <3>2. QED BY <1>2, <1>3, <3>1 DEF Young
  <2>2. CASE Alive /\ Noting' BY <1>8, <1>9, <2>2 DEF ActInv
  <2>3. CASE ~up BY <1>8, <2>3 DEF DownInv, Never
  <2>4. QED BY <1>1, <1>21, <2>1, <2>2, <2>3 DEF BatchStep
<1>22. QED
  BY <1>12, <1>13, <1>14, <1>15, <1>17, <1>18, <1>19, <1>20, <1>21
     DEF ActInv, Young, B

\* Nothing happens to an orchestrator that is down.
LEMMA DownKeeps ==
    ASSUME Context, DownInv, Next
    PROVE  DownInv'
<1> USE DEF storeVars, docVars, runVars, callVars, batchVars, memVars, apiVars,
            jobVars, orchVars, outerVars
<1>1. CASE Down BY <1>1 DEF Down, Forget, DownInv
<1>2. CASE up /\ ~Down
  <2>1. ~OrchestratorDies /\ ~OrchestratorRestarts /\ ~OnRetryDuplicate
    BY <1>2 DEF OrchestratorDies, OrchestratorRestarts, OnRetryDuplicate
  <2>2. ASSUME NEW op, Request(op) PROVE up' BY <1>2, <2>2 DEF Request
  <2>3. ASSUME Api PROVE up'
    BY <1>2, <2>2, <2>3 DEF Api, StartWrite, StartSend, PauseWrite, ResumeWrite, ResumeReset
  <2>4. ASSUME WindowPasses \/ \E r \in Run : ReportStep(r) PROVE up'
    BY <1>2, <2>4 DEF WindowPasses, ReportStep, ReportArrives, Evaluate, AskRetry
  <2>5. ASSUME Sync PROVE up'
    BY <1>2, <2>5 DEF Sync, SyncTake, SyncInsert, SyncFinish, SyncPublish, SyncEmpty,
                      SyncFails, SyncCancelled, SyncCrash
  <2>6. ASSUME NEW w \in Worker, Work(w) \/ WorkerFault(w) PROVE up'
    BY <1>2, <2>6 DEF Work, TakeJob, ClaimEnds, MarkProcessed, CountProcessed, BatchEnds, FailCampaign,
                Claim, Dial, WorkerFault, NoSlot, NoNumber, BatchRaises, CancelBatch, CrashBatch,
                MarkFailed
  <2>7. ASSUME NEW t \in Task, Schedule(t) PROVE up'
    BY <1>2, <2>7 DEF Schedule, ReadCampaign, CheckBreaker, Trip, Offer, MarkBatch
  <2>8. ASSUME Listen PROVE up'
    BY <1>2, <2>1, <2>8 DEF Listen, OnSyncCompleted, OnBatchCompleted, CheckRunning,
                OnBatchFailed, OnTripped, OnRetryExhausted, OnRetry, NoteActivity
  <2>9. ASSUME Sweep \/ Unlock \/ Tick PROVE up'
    BY <1>2, <2>9 DEF Sweep, SweepRead, SweepLook, SweepIdleCheck, SweepRecheck,
                      SweepSeal, Unlock, Tick
  <2>10. up' BY <2>1, <2>3, <2>4, <2>5, <2>6, <2>7, <2>8, <2>9 DEF Next
  <2>11. QED BY <2>10 DEF DownInv
<1>3. CASE ~up
  <2>1. /\ activity = Never /\ batch = Never /\ chan = <<>>
        /\ task["listen"] = "idle" /\ task["sweep"] = "idle"
        /\ \A t \in Task : task[t] = "idle"
    BY <1>3 DEF DownInv, Task
  <2> DEFINE Asleep == UNCHANGED <<activity, batch, chan, task>>
  <2>2. \A kind, r : Send(kind, r) \/ Publish(kind, r) => chan' = chan
    BY <1>3 DEF Publish, Send
  <2>3. ASSUME NEW op, Request(op) PROVE Asleep BY <2>3 DEF Request
  <2>4. ASSUME Api PROVE Asleep
    BY <2>2, <2>3, <2>4 DEF Api, StartWrite, StartSend, PauseWrite, ResumeWrite, ResumeReset
  <2>5. ASSUME WindowPasses \/ \E r \in Run : ReportStep(r) PROVE Asleep
    BY <2>2, <2>5 DEF WindowPasses, ReportStep, ReportArrives, Evaluate, AskRetry
  <2>6. ASSUME Sync PROVE Asleep
    BY <2>2, <2>6 DEF Sync, SyncTake, SyncInsert, SyncFinish, SyncPublish, SyncEmpty,
                      SyncFails, SyncCancelled, SyncCrash
  <2>7. ASSUME NEW w \in Worker, Work(w) PROVE Asleep
    BY <2>2, <2>7 DEF Work, TakeJob, ClaimEnds, MarkProcessed, CountProcessed, BatchEnds, FailCampaign,
                Claim, Dial
  <2>8. ASSUME NEW w \in Worker, WorkerFault(w) PROVE Asleep
    BY <2>2, <2>8 DEF WorkerFault, NoSlot, NoNumber, BatchRaises, CancelBatch, CrashBatch, MarkFailed
  <2>9. ~\E t \in Task : Schedule(t)
    BY <2>1 DEF Schedule, ReadCampaign, CheckBreaker, Trip, Offer, MarkBatch
  <2>10. ~Listen /\ ~Sweep
    BY <1>3, <2>1 DEF Handle, Listen, OnSyncCompleted, OnBatchCompleted,
          CheckRunning, OnBatchFailed, OnTripped, OnRetryExhausted, OnRetry,
          OnRetryDuplicate, NoteActivity, Sweep, SweepRead, SweepLook,
          SweepIdleCheck, SweepRecheck, SweepSeal
  <2>11. ~OrchestratorDies /\ ~Tick BY <1>3 DEF OrchestratorDies, Tick, Prompt
  <2>12. ASSUME Unlock \/ OrchestratorRestarts PROVE Asleep
    BY <2>12 DEF Unlock, OrchestratorRestarts
  <2>13. Asleep
    BY <2>4, <2>5, <2>6, <2>7, <2>8, <2>9, <2>10, <2>11, <2>12 DEF Next
  <2>14. QED BY <2>1, <2>13 DEF DownInv
<1>4. QED BY <1>1, <1>2, <1>3

\* What the steps leave alone that are not the API's, the ingest's, the
\* sweep's or time's.
LEMMA OthersLeave ==
    ASSUME TypeOK, Next, ~Api, ~Sync, ~Sweep, ~Tick
    PROVE  /\ UNCHANGED <<sync, owed, seen>>
           /\ state' \in {state, "paused", "failed"}
           /\ faults' = faults \/ \E f : Happens(f)
           /\ task'["sweep"] \in {task["sweep"], "idle", "note", "gate", "trip", "offer", "mark"}
<1> USE DEF storeVars, docVars, runVars, callVars, batchVars, memVars, apiVars,
            jobVars, orchVars, outerVars
<1> DEFINE Left == /\ UNCHANGED <<sync, owed, seen>>
                   /\ state' \in {state, "paused", "failed"}
                   /\ faults' = faults \/ \E f : Happens(f)
           Held == task'["sweep"] \in {task["sweep"], "idle", "note", "gate", "trip",
                                      "offer", "mark"}
<1>1. "listen" \in Task /\ "sweep" \in Task BY DEF Task
<1>2. \A to : TaskGo("listen", to) => Held BY <1>1 DEF TaskGo, TypeOK
<1>3. EnterSchedule("listen") => Held BY <1>2 DEF EnterSchedule, Done
<1>4. Down => Held BY <1>1 DEF Down
<1>5. ASSUME WindowPasses \/ \E r \in Run : ReportStep(r) PROVE Left /\ Held
  BY <1>5 DEF WindowPasses, ReportStep, ReportArrives, Evaluate, AskRetry
<1>6. ASSUME NEW w \in Worker, Work(w) PROVE Left /\ Held
  BY <1>6 DEF Work, TakeJob, ClaimEnds, MarkProcessed, CountProcessed, BatchEnds, FailCampaign,
              Claim, Dial
<1>7. ASSUME NEW w \in Worker, WorkerFault(w) PROVE Left /\ Held
  BY <1>7 DEF WorkerFault, NoSlot, NoNumber, BatchRaises, CancelBatch, CrashBatch, MarkFailed
<1>8. ASSUME NEW t \in Task, Schedule(t) PROVE Left /\ Held
  <2>1. Left
    BY <1>8 DEF Schedule, ReadCampaign, CheckBreaker, Trip, Offer, MarkBatch
  <2>2. PICK to \in {"idle", "note", "gate", "trip", "offer", "mark"} : TaskGo(t, to)
    BY <1>8 DEF Schedule, ReadCampaign, CheckBreaker, Trip, Offer, MarkBatch, Done
  <2>3. Held BY <1>1, <2>2 DEF TaskGo, TypeOK
  <2>4. QED BY <2>1, <2>3
<1>9. ASSUME Listen PROVE Left /\ Held
  <2>1. Left
    BY <1>9 DEF Listen, OnSyncCompleted, OnBatchCompleted, CheckRunning,
             OnBatchFailed, OnTripped, OnRetryExhausted, OnRetry, OnRetryDuplicate,
             NoteActivity, Down
  <2>2. Held
    BY <1>2, <1>3, <1>4, <1>9 DEF Listen, OnSyncCompleted, OnBatchCompleted, CheckRunning,
             OnBatchFailed, OnTripped, OnRetryExhausted, OnRetry, OnRetryDuplicate,
             NoteActivity
  <2>3. QED BY <2>1, <2>2
<1>10. ASSUME Unlock \/ OrchestratorDies \/ OrchestratorRestarts PROVE Left /\ Held
  BY <1>4, <1>10 DEF Unlock, OrchestratorDies, OrchestratorRestarts, Down
<1>11. QED
  BY <1>5, <1>6, <1>7, <1>8, <1>9, <1>10 DEF Next

\* A row that is there stays there.
LEMMA IngestedStays ==
    ASSUME RunsStep \/ runs' = runs, Ingested
    PROVE  Ingested'
<1>1. \A c \in Contact : <<c, 0>> \in Run BY CampaignConfig DEF Run
<1>2. QED BY <1>1 DEF Ingested, RunsStep

\* The ingest inserts every row, or finds that it need not.
LEMMA InsertIngests ==
    ASSUME TypeOK, SyncInsert
    PROVE  Ingested'
<1>1. \A c \in Contact : <<c, 0>> \in Run BY CampaignConfig DEF Run
<1>2. \A r \in Run : r[2] = 0 => runs'[r] = "queued" BY DEF SyncInsert
<1>3. QED BY <1>1, <1>2 DEF Ingested

\* The rows are there first, whatever the ingest does.
LEMMA IngestKeeps ==
    ASSUME Context, TypeOK', IngestInv, api # "resume", Next, ~Tick
    PROVE  IngestInv'
<1> USE DEF storeVars, docVars, runVars, callVars, batchVars, memVars, apiVars,
            jobVars, orchVars, outerVars
<1> DEFINE Held == {"look", "idle_check", "recheck", "seal"}
           Before == {"none", "queued", "fetching"}
           Rows == /\ Redial => sync' = "none" /\ state' # "syncing"
                   /\ "send" \in owed' => sync' = "none"
                   /\ sync' \in {"inserted", "written"} => Ingested'
                   /\ state' = "running" => Ingested'
                   /\ sync' \in Before => sync \in Before \/ Losing
                   /\ task'["sweep"] \in Held => task["sweep"] \in Held \/ state = "running"
                   /\ faults' = faults \/ \E f : Happens(f)
<1>0. TypeOK /\ StartInv BY DEF Context
<1>1. CallsStep /\ RunsStep BY NextStep DEF Step
<1>2. Ingested => Ingested' BY <1>1, IngestedStays
<1>3. ASSUME Api PROVE Rows
  <2>1. UNCHANGED <<runs, task>> BY <1>3 DEF Api, Request, StartWrite, StartSend,
                                          PauseWrite, ResumeWrite, ResumeReset
  <2>2. ASSUME NEW op, Request(op) PROVE Rows
    BY <1>2, <2>1, <2>2 DEF Request, IngestInv
  <2>3. CASE StartWrite
    <3>1. sync = "none" /\ (Redial => Ingested)
      BY <1>0, <2>3 DEF StartWrite, StartInv, IngestInv
    <3>2. QED BY <1>2, <2>1, <2>3, <3>1 DEF StartWrite, IngestInv
  <2>4. CASE StartSend BY <1>2, <2>1, <2>4 DEF StartSend, IngestInv
  <2>5. CASE PauseWrite BY <1>2, <2>1, <2>5 DEF PauseWrite, IngestInv
  <2>6. CASE ResumeReset BY <1>2, <2>1, <2>6 DEF ResumeReset, IngestInv
  <2>7. Rows BY <1>3, <2>2, <2>3, <2>4, <2>5, <2>6 DEF Api, ResumeWrite
  <2>8. QED BY <2>7
<1>4. ASSUME Sync PROVE Rows
  <2>1. UNCHANGED <<owed, task>>
    BY <1>4 DEF Sync, SyncTake, SyncInsert, SyncFinish, SyncPublish, SyncEmpty,
                SyncFails, SyncCancelled, SyncCrash
  <2>2. ~Redial /\ "send" \notin owed
    BY <1>4 DEF IngestInv, Sync, SyncTake, SyncInsert, SyncFinish, SyncPublish,
                SyncEmpty, SyncFails, SyncCancelled, SyncCrash
  <2>3. CASE SyncTake BY <1>2, <2>1, <2>2, <2>3 DEF SyncTake, IngestInv
  <2>4. CASE SyncInsert BY <1>0, <2>1, <2>2, <2>4, InsertIngests DEF SyncInsert, IngestInv
  <2>5. CASE SyncFinish BY <1>2, <2>1, <2>2, <2>5 DEF SyncFinish, IngestInv
  <2>6. CASE SyncPublish BY <1>2, <2>1, <2>2, <2>6 DEF SyncPublish, IngestInv
  <2>7. CASE SyncEmpty BY <1>2, <2>1, <2>2, <2>7 DEF SyncEmpty, IngestInv
  <2>8. CASE SyncFails BY <1>2, <2>1, <2>2, <2>8 DEF SyncFails, IngestInv
  <2>9. CASE SyncCancelled
    BY <1>2, <2>1, <2>2, <2>9 DEF SyncCancelled, Happens, Losing, IngestInv
  <2>10. CASE SyncCrash
    BY <1>2, <2>1, <2>2, <2>10 DEF SyncCrash, Happens, Losing, IngestInv
  <2>11. QED
    BY <1>4, <2>3, <2>4, <2>5, <2>6, <2>7, <2>8, <2>9, <2>10 DEF Sync
<1>5. ASSUME Sweep PROVE Rows
  <2>1. /\ UNCHANGED <<sync, owed, faults>> /\ state' \in {state, "completed"}
        /\ task["sweep"] \in Held \/ state = "running"
    BY <1>5 DEF Sweep, SweepRead, SweepLook, SweepIdleCheck, SweepRecheck, SweepSeal
  <2>2. QED BY <1>2, <2>1 DEF IngestInv
<1>6. ASSUME ~Api, ~Sync, ~Sweep PROVE Rows
  BY <1>0, <1>2, <1>6, OthersLeave DEF IngestInv
<1>7. Rows BY <1>3, <1>4, <1>5, <1>6
<1>8. Redial => Ingested' BY <1>2 DEF IngestInv
<1>9. faults' <= MaxFaults
  BY <1>0, <1>7, CampaignConfig DEF IngestInv, Happens, TypeOK
<1>10. task'["sweep"] \in Held => Ingested' BY <1>2, <1>7 DEF IngestInv
<1>11. ASSUME ~Losing, ~Redial, sync' \in Before, NEW r \in Run
       PROVE  runs'[r] = "none" /\ reports'[r] = 0 /\ ~Retrying(r)'
  <2>1. \A q \in Run : runs[q] = "none" /\ reports[q] = 0 /\ ~Retrying(q)
    BY <1>7, <1>11 DEF IngestInv
  <2>2. ~Born(r) /\ ~Loaded(r) BY <1>11, <2>1, BornAfter DEF Loaded
  <2>3. runs'[r] = "none" BY <1>1, <2>1, <2>2 DEF RunsStep
  <2>4. reports'[r] = 0
    <3>1. reports'[r] \in Nat BY DEF TypeOK
    <3>2. ~(reports'[r] > 0)
      BY <1>1, <2>1 DEF CallsStep, Waiting, Claimable
    <3>3. QED BY <3>1, <3>2
  <2>5. ~Retrying(r)' BY <1>1, <2>1 DEF CallsStep
  <2>6. QED BY <2>3, <2>4, <2>5
<1>12. QED BY <1>7, <1>8, <1>9, <1>10, <1>11 DEF IngestInv

\* What is drained stays so, once the rows are there or the ingest is over.
LEMMA DrainedStays ==
    ASSUME TypeOK', Step, Drained, Ingested \/ sync = "done"
    PROVE  Drained'
<1>1. ASSUME NEW r \in Run PROVE ~InPlay(r)' /\ reports'[r] = 0 /\ ~Retrying(r)'
  <2>1. CallsStep /\ RunsStep BY DEF Step
  <2>2. \A q \in Run : ~InPlay(q) /\ reports[q] = 0 /\ ~Retrying(q) BY DEF Drained
  <2>3. ~Born(r) BY <2>2, BornAfter
  <2>4. ~Loaded(r)
    <3>1. r[1] \in Contact BY DEF Run
    <3>2. QED BY <3>1 DEF Loaded, Ingested
  <2>5. ~InPlay(r)'
    <3>1. runs[r] = "none" => runs'[r] = "none" BY <2>1, <2>3, <2>4 DEF RunsStep
    <3>2. InPlay(r)' => runs'[r] # "none" BY DEF InPlay
    <3>3. QED BY <2>1, <2>2, <3>1, <3>2 DEF RunsStep
  <2>6. reports'[r] = 0
    <3>1. reports'[r] \in Nat BY DEF TypeOK
    <3>2. ~(reports'[r] > 0)
      BY <2>1, <2>2 DEF CallsStep, Waiting, Claimable, InPlay
    <3>3. QED BY <3>1, <3>2
  <2>7. ~Retrying(r)' BY <2>1, <2>2 DEF CallsStep
  <2>8. QED BY <2>5, <2>6, <2>7
<1>2. QED BY <1>1 DEF Drained

\* A running campaign whose document is as old as the idle hour is drained.
LEMMA OldIsDrained ==
    ASSUME DrainAssumption, Context, DocInv, state = "running",
           docAge >= CompletionTimeout
    PROVE  Drained
<1>1. TypeOK BY DEF Context
<1>2. ASSUME NEW r \in Run PROVE ~InPlay(r) /\ reports[r] = 0 /\ ~Retrying(r)
  <2>1. CASE runs[r] = "none"
    <3>1. ~InPlay(r) /\ ~(reports[r] > 0) /\ ~Retrying(r) BY <2>1 DEF InPlay, DocInv
    <3>2. reports[r] \in Nat BY <1>1 DEF TypeOK
    <3>3. QED BY <3>1, <3>2
  <2>2. CASE runs[r] # "none"
    <3>1. Span(r[2]) \in Nat /\ Span(r[2]) + CallMax < CompletionTimeout
      BY <2>2, Attempts, SpanGrows, SpanBounded
    <3>2. /\ docAge \in Nat /\ CompletionTimeout \in Nat /\ CallMax \in Nat
          /\ reports[r] \in Nat
      BY <1>1, CampaignConfig DEF TypeOK
    <3>3. PICK c \in Nat, d \in Nat : c = callAge[r] /\ c <= CallMax /\ d = due[r]
      BY <1>1, CampaignConfig DEF TypeOK
    <3>4. ~Waiting(r) BY <3>1, <3>2 DEF DocInv
    <3>5. reports[r] = 0
      <4>1. reports[r] > 0 => docAge <= Span(r[2]) + c BY <3>3 DEF DocInv
      <4>2. ~(docAge <= Span(r[2]) + c) BY <3>1, <3>2, <3>3
      <4>3. QED BY <3>2, <4>1, <4>2
    <3>6. ~Retrying(r) BY <3>1, <3>2 DEF DocInv
    <3>7. due[r] = 0
      <4>1. d > 0 => docAge + d <= Span(r[2]) BY <3>3 DEF DocInv
      <4>2. ~(docAge + d <= Span(r[2])) BY <3>1, <3>2, <3>3
      <4>3. QED BY <3>3, <4>1, <4>2
    <3>8. ~InPlay(r) BY <3>4, <3>7 DEF InPlay, Waiting, Claimable
    <3>9. QED BY <3>5, <3>6, <3>8
  <2>3. QED BY <2>1, <2>2
<1>3. QED BY <1>2 DEF Drained

\* So is one without pending runs whose last activity is that old.
LEMMA IdleIsDrained ==
    ASSUME DrainAssumption, Context, IngestInv, ActInv, ~Pending,
           activity >= CompletionTimeout
    PROVE  Drained
<1>1. TypeOK BY DEF Context
<1>2. /\ Budget(Lost) \in Nat /\ Budget(Lost) >= RetryDelay
      /\ Budget(Lost) + 1 + CallMax < CompletionTimeout
      /\ CallMax \in Nat /\ CompletionTimeout \in Nat /\ RetryDelay \in Nat
      /\ activity \in Int
  <2>1. Lost \in Nat /\ Budget(Lost) + 1 + CallMax < CompletionTimeout
    BY <1>1, BudgetBounded
  <2>2. Budget(Lost) \in Nat /\ Budget(Lost) >= RetryDelay BY <2>1, BudgetGrows
  <2>3. activity \in Int BY <1>1, CampaignConfig DEF TypeOK, Age, Never
  <2>4. QED BY <2>1, <2>2, <2>3, CampaignConfig
<1>3. ASSUME NEW r \in Run PROVE ~InPlay(r) /\ reports[r] = 0 /\ ~Retrying(r)
  <2>1. PICK c \in Nat, d \in Nat : c = callAge[r] /\ c <= CallMax /\ d = due[r]
    BY <1>1, CampaignConfig DEF TypeOK
  <2>2. reports[r] = 0
    <3>1. reports[r] > 0 => Young(Budget(Lost) + 1 + c) BY <2>1 DEF ActInv
    <3>2. ~Young(Budget(Lost) + 1 + c) BY <1>2, <2>1 DEF Young
    <3>3. reports[r] \in Nat BY <1>1 DEF TypeOK
    <3>4. QED BY <3>1, <3>2, <3>3
  <2>3. ~Retrying(r)
    <3>1. ~Young(Budget(Lost) + 1 + CallMax) BY <1>2 DEF Young
    <3>2. QED BY <3>1 DEF ActInv
  <2>4. due[r] = 0
    <3>1. d > 0 => \/ activity + d <= RetryDelay
                   \/ Noting /\ activity < CompletionTimeout
      BY <2>1 DEF ActInv
    <3>2. ~(activity + d <= RetryDelay) /\ ~(activity < CompletionTimeout)
      BY <1>2, <2>1
    <3>3. QED BY <2>1, <3>1, <3>2
  <2>5. ~InPlay(r) BY <2>4 DEF InPlay, Pending, Claimable
  <2>6. QED BY <2>2, <2>3, <2>5
<1>4. QED BY <1>3 DEF Drained

\* What the sweep decides on is drained.
LEMMA SweepKeeps ==
    ASSUME DrainAssumption, Context, TypeOK', IngestInv, DocInv, ActInv, SweepInv,
           api # "resume", Next, ~Tick
    PROVE  SweepInv'
<1> USE DEF storeVars, docVars, runVars, callVars, batchVars, memVars, apiVars,
            jobVars, orchVars, outerVars
<1> DEFINE Held == {"look", "idle_check", "recheck", "seal"}
           pc == task["sweep"]
<1>0. /\ TypeOK /\ "sweep" \in Task /\ CompletionTimeout \in Nat
      /\ seen \in Nat /\ docAge \in Nat /\ seen' \in Nat
  <2>1. TypeOK BY DEF Context
  <2>2. seen \in 0..CompletionTimeout /\ docAge \in 0..CompletionTimeout BY <2>1 DEF TypeOK
  <2>3. seen' \in 0..CompletionTimeout BY DEF TypeOK
  <2>4. QED BY <2>1, <2>2, <2>3, CampaignConfig DEF Task
<1>1. Step BY NextStep
<1>2. Drained /\ (Ingested \/ sync = "done") => Drained' BY <1>1, DrainedStays
<1>3. Ingested => Ingested' BY <1>1, IngestedStays DEF Step
<1>4. sync = "done" => sync' = "done"
  <2>1. ASSUME sync = "done" PROVE sync' = "done"
    <3>1. ~StartSend BY <2>1 DEF StartSend, IngestInv
    <3>2. ASSUME NEW op, Request(op) PROVE sync' = sync BY <3>2 DEF Request
    <3>3. ASSUME Api PROVE sync' = sync
      BY <3>1, <3>2, <3>3 DEF Api, StartWrite, PauseWrite, ResumeWrite, ResumeReset
    <3>4. ~Sync
      BY <2>1 DEF Sync, SyncTake, SyncInsert, SyncFinish, SyncPublish, SyncEmpty,
                  SyncFails, SyncCancelled, SyncCrash
    <3>5. ASSUME Sweep PROVE sync' = sync
      BY <3>5 DEF Sweep, SweepRead, SweepLook, SweepIdleCheck, SweepRecheck, SweepSeal
    <3>6. QED BY <1>0, <2>1, <3>3, <3>4, <3>5, OthersLeave
  <2>2. QED BY <2>1
<1>5. pc \in Held => Ingested BY DEF IngestInv
<1>6. state = "completed" /\ state' = "completed" => Drained' /\ (Ingested' \/ sync' = "done")
  BY <1>2, <1>3, <1>4 DEF SweepInv
\* The steps that leave the sweep where it is, or take it elsewhere.
<1>7. ASSUME seen' = seen, task'["sweep"] \notin Held \/ task'["sweep"] = pc,
             state' = "completed" => state = "completed"
      PROVE  SweepInv'
  BY <1>2, <1>5, <1>6, <1>7 DEF SweepInv
<1>8. CASE Api
  <2>1. ASSUME NEW op, Request(op) PROVE UNCHANGED <<seen, task, state>>
    BY <2>1 DEF Request
  <2>2. UNCHANGED <<seen, task>> /\ (state' = "completed" => state = "completed")
    BY <1>8, <2>1 DEF Api, StartWrite, StartSend, PauseWrite, ResumeWrite, ResumeReset
  <2>3. QED BY <1>7, <2>2
<1>9. CASE Sync
  <2>1. UNCHANGED <<seen, task>>
    BY <1>9 DEF Sync, SyncTake, SyncInsert, SyncFinish, SyncPublish, SyncEmpty,
                SyncFails, SyncCancelled, SyncCrash
  <2>2. CASE SyncEmpty
    <3>1. sync = "fetching" /\ sync' = "done" /\ "empty" \in Fault
      BY <2>2 DEF SyncEmpty, Happens
    <3>2. ~Losing /\ ~Redial BY <3>1 DEF DrainAssumption, IngestInv
    <3>3. \A r \in Run : runs[r] = "none" /\ reports[r] = 0 /\ ~Retrying(r)
      BY <3>1, <3>2 DEF IngestInv
    <3>4. UNCHANGED <<runs, reports, report, chan>> BY <2>2 DEF SyncEmpty
    <3>5. Drained' BY <3>3, <3>4, SameEvents DEF Drained, InPlay, Retrying
    <3>6. QED BY <1>5, <2>1, <3>1, <3>5 DEF SweepInv
  <2>3. CASE ~SyncEmpty
    <3>1. state' = "completed" => state = "completed"
      BY <1>9, <2>3 DEF Sync, SyncTake, SyncInsert, SyncFinish, SyncPublish,
                        SyncFails, SyncCancelled, SyncCrash
    <3>2. QED BY <1>7, <2>1, <3>1
  <2>4. QED BY <2>2, <2>3
<1>10. CASE Sweep
  <2>1. CASE SweepRead
    <3>1. /\ task'["sweep"] = "look" /\ seen' = docAge /\ state' = state
          /\ state = "running"
      BY <1>0, <2>1, TaskGoes DEF SweepRead
    <3>2. seen' >= CompletionTimeout => Drained BY <3>1, OldIsDrained
    <3>3. Ingested BY <3>1 DEF IngestInv
    <3>4. QED BY <1>2, <3>1, <3>2, <3>3 DEF SweepInv
  <2>2. CASE SweepLook
    <3>1. seen' = seen /\ state' = state /\ pc = "look" BY <2>2 DEF SweepLook
    <3>2. task'["sweep"] \notin Held \/ task'["sweep"] = "idle_check"
      <4>1. CASE EnterSchedule("sweep")
        <5>1. batch' \in {batch, Never} BY <2>2 DEF SweepLook
        <5>2. QED BY <1>0, <4>1, <5>1, EnterGoes
      <4>2. QED BY <1>0, <2>2, <4>1, TaskGoes DEF SweepLook
    <3>3. QED BY <1>2, <1>5, <1>6, <3>1, <3>2 DEF SweepInv
  <2>3. CASE SweepIdleCheck
    <3>1. seen' = seen /\ state' = state /\ pc = "idle_check" BY <2>3 DEF SweepIdleCheck
    <3>2. CASE ~IdleLongEnough
      <4>1. task'["sweep"] = "idle" BY <1>0, <2>3, <3>2, TaskGoes DEF SweepIdleCheck
      <4>2. QED BY <1>7, <3>1, <4>1
    <3>3. CASE IdleLongEnough
      <4>1. task'["sweep"] = "recheck" BY <1>0, <2>3, <3>3, TaskGoes DEF SweepIdleCheck
      <4>2. Drained
        BY <3>1, <3>3, IdleIsDrained DEF IdleLongEnough, SweepInv
      <4>3. QED BY <1>2, <1>5, <1>6, <3>1, <4>1, <4>2 DEF SweepInv
    <3>4. QED BY <3>2, <3>3
  <2>4. CASE SweepRecheck
    <3>1. seen' = seen /\ state' = state /\ pc = "recheck" BY <2>4 DEF SweepRecheck
    <3>2. task'["sweep"] \in {"idle", "seal"} BY <1>0, <2>4, TaskGoes DEF SweepRecheck
    <3>3. QED BY <1>2, <1>5, <1>6, <3>1, <3>2 DEF SweepInv
  <2>5. CASE SweepSeal
    <3>1. pc = "seal" BY <2>5 DEF SweepSeal
    <3>2. task'["sweep"] = "idle" BY <1>0, <2>5, TaskGoes DEF SweepSeal
    <3>3. Drained' /\ Ingested' BY <1>2, <1>3, <1>5, <3>1 DEF SweepInv
    <3>4. QED BY <3>2, <3>3 DEF SweepInv
  <2>6. QED BY <1>10, <2>1, <2>2, <2>3, <2>4, <2>5 DEF Sweep
<1>11. CASE ~Api /\ ~Sync /\ ~Sweep
  <2>1. /\ seen' = seen /\ state' \in {state, "paused", "failed"}
        /\ task'["sweep"] \in {pc, "idle", "note", "gate", "trip", "offer", "mark"}
    BY <1>0, <1>11, OthersLeave
  <2>2. QED BY <1>7, <2>1
<1>12. QED BY <1>8, <1>9, <1>10, <1>11

----------------------------------------------------------------------------
(* The invariant is kept by Tick, which waits for everything that is prompt *)

\* Time passes only when everybody has done what is prompt.
LEMMA TickWaits ==
    ASSUME TypeOK, Tick
    PROVE  /\ ~Noting /\ ~Loading /\ ~Marking
           /\ task["sweep"] = "idle" /\ task'["sweep"] = "idle"
           /\ \A r \in Run : ~Retrying(r) /\ ~Retrying(r)'
           /\ state = "running" /\ Pending => BatchInProgress
           /\ (Scheduling' <=> state = "running") /\ ~Marking' /\ ~Loading'
           /\ (Alive' <=> Alive) /\ Tired = 0 /\ (Alive => Tired' = 1)
           /\ \A w \in Worker : wpc[w] # "failing" /\ wpc'[w] # "failing"
           /\ Lost' = Lost
<1>1. /\ chan = <<>> /\ chan' = <<>> /\ task = [t \in Task |-> "idle"] /\ task' = task
      /\ report = [r \in Run |-> "idle"] /\ report' = report /\ jobs = 0 /\ slow = {}
      /\ UNCHANGED <<jobs, wpc, sync, owed, state, faults>>
      /\ owed = {} /\ sync \in {"none", "done"}
      /\ slow' = {w \in Worker : wpc[w] = "dial"}
      /\ \A w \in Worker : wpc[w] \in {"idle", "dial"}
  BY DEF Tick, Prompt, apiVars
<1>2. Events = {} /\ Events' = {} BY <1>1, NoEvents
<1>3. \A t \in Task : task[t] = "idle" /\ task'[t] = "idle" BY <1>1
<1>4. "listen" \in Task /\ "sweep" \in Task BY DEF Task
<1>5. ~Noting BY <1>2, <1>3, <1>4 DEF Noting
<1>6. \A r \in Run : ~Retrying(r) /\ ~Retrying(r)' BY <1>1, <1>2 DEF Retrying
<1>7. (Scheduling' <=> state = "running") /\ ~Marking' /\ ~Marking
  BY <1>1, <1>3 DEF Scheduling, Marking
<1>8. (Alive' <=> Alive) /\ Tired = 0 BY <1>1 DEF Alive, Tired
<1>9. Alive => Tired' = 1
  <2>1. ASSUME Alive PROVE slow' # {} BY <1>1, <2>1 DEF Alive
  <2>2. QED BY <2>1 DEF Tired
<1>10. ~Loading /\ ~Loading' BY <1>1 DEF Loading
<1>11. state = "running" /\ Pending => BatchInProgress BY DEF Tick, Prompt
<1>12. Lost' = Lost BY <1>1 DEF Lost
<1>13. QED
  BY <1>1, <1>3, <1>4, <1>5, <1>6, <1>7, <1>8, <1>9, <1>10, <1>11, <1>12

\* An age grows by one, or has reached its top or is none.
LEMMA Ages ==
    ASSUME NEW top \in Nat, NEW age \in Age(top)
    PROVE  /\ age \in Int /\ age >= -1 /\ (age # Never => age >= 0)
           /\ Older(age, top) \in {age, age + 1}
           /\ age = Never => Older(age, top) = Never
           /\ age # Never /\ Older(age, top) < top => Older(age, top) = age + 1
BY DEF Age, Never, Older

\* What a tick does to the clocks.
LEMMA TickAges ==
    ASSUME TypeOK, Tick
    PROVE  /\ docAge \in Nat /\ docAge' \in {docAge, docAge + 1}
           /\ activity \in Int /\ activity >= -1 /\ activity' \in {activity, activity + 1}
           /\ activity = Never => activity' = Never
           /\ batch \in Int /\ batch >= -1
           /\ BatchInProgress' => BatchInProgress /\ batch' = batch + 1
           /\ \A r \in Run :
                 /\ due[r] \in Nat /\ due[r] <= RetryDelay
                 /\ due'[r] > 0 => due'[r] = due[r] - 1
                 /\ due'[r] = 0 => due[r] \in {0, 1}
                 /\ reports'[r] > 0 => reports[r] > 0 /\ callAge'[r] = callAge[r] + 1
                 /\ callAge[r] \in Nat
<1>1. /\ docAge \in Age(CompletionTimeout) /\ docAge \in Nat
      /\ activity \in Age(CompletionTimeout) /\ batch \in Age(BatchTimeout)
      /\ CompletionTimeout \in Nat /\ BatchTimeout \in Nat /\ RetryDelay \in Nat
      /\ \A r \in Run : due[r] \in 0..RetryDelay /\ callAge[r] \in Nat /\ reports[r] \in Nat
  BY CampaignConfig DEF TypeOK, Age
<1>2. /\ docAge' = Older(docAge, CompletionTimeout)
      /\ activity' = Older(activity, CompletionTimeout)
      /\ batch' = Older(batch, BatchTimeout)
      /\ due' = [r \in Run |-> IF due[r] > 0 THEN due[r] - 1 ELSE 0]
      /\ callAge' = [r \in Run |-> IF reports[r] > 0 THEN callAge[r] + 1 ELSE callAge[r]]
      /\ reports' = reports
  BY DEF Tick
<1>3. /\ docAge' \in {docAge, docAge + 1}
      /\ activity \in Int /\ activity >= -1 /\ activity' \in {activity, activity + 1}
      /\ activity = Never => activity' = Never
      /\ batch \in Int /\ batch >= -1
  BY <1>1, <1>2, Ages
<1>4. BatchInProgress' => BatchInProgress /\ batch' = batch + 1
  BY <1>1, <1>2, <1>3, Ages DEF BatchInProgress
<1>5. ASSUME NEW r \in Run
      PROVE  /\ due[r] \in Nat /\ due[r] <= RetryDelay
             /\ due'[r] > 0 => due'[r] = due[r] - 1
             /\ due'[r] = 0 => due[r] \in {0, 1}
             /\ reports'[r] > 0 => reports[r] > 0 /\ callAge'[r] = callAge[r] + 1
  BY <1>1, <1>2
<1>6. QED BY <1>1, <1>3, <1>4, <1>5

\* Time does not touch the rows.
LEMMA TickIngest ==
    ASSUME TypeOK, IngestInv, SweepInv, Tick
    PROVE  IngestInv' /\ SweepInv'
<1>1. UNCHANGED <<state, runs, reports, report, chan, owed, sync, task, faults>>
  BY DEF Tick, apiVars
<1>2. Events' = Events BY <1>1, SameEvents
<1>3. Drained' = Drained /\ Ingested' = Ingested
  BY <1>1, <1>2 DEF Drained, InPlay, Retrying, Ingested
<1>4. \A r \in Run : Retrying(r)' = Retrying(r) BY <1>1, <1>2 DEF Retrying
<1>5. IngestInv' BY <1>1, <1>3, <1>4 DEF IngestInv
<1>6. task'["sweep"] = "idle" BY TickWaits
<1>7. SweepInv' BY <1>1, <1>3, <1>6 DEF SweepInv
<1>8. QED BY <1>5, <1>7

\* The document grows older only while a batch is dialling or a call goes on.
LEMMA TickDoc ==
    ASSUME TypeOK, DocInv, Tick
    PROVE  DocInv'
<1>1. UNCHANGED <<state, runs>> BY DEF Tick
<1>2. BatchTimeout \in Nat /\ CallMax \in Nat /\ \A r \in Run : r[2] \in Nat
  BY CampaignConfig DEF Run
<1>3. /\ docAge \in Nat /\ docAge' \in {docAge, docAge + 1} /\ batch \in Int
      /\ BatchInProgress' => BatchInProgress /\ batch' = batch + 1
  BY TickAges
<1>4. ASSUME state = "running", NEW r \in Run
      PROVE  /\ Waiting(r)' => docAge' <= Span(r[2])
             /\ reports'[r] > 0 => docAge' <= Span(r[2]) + callAge'[r]
             /\ due'[r] > 0 => docAge' + due'[r] <= Span(r[2])
  <2>1. Span(r[2]) \in Nat /\ Span(r[2]) >= BatchTimeout BY <1>2, SpanGrows
  <2>2. PICK d \in Nat, c \in Nat : d = due[r] /\ c = callAge[r] BY TickAges
  <2>3. d > 0 => docAge + d <= Span(r[2]) BY <1>4, <2>2 DEF DocInv
  <2>4. ASSUME Waiting(r)' PROVE docAge' <= Span(r[2])
    <3>1. CASE Waiting(r)
      <4>1. BatchInProgress BY <1>4, <3>1, TickWaits DEF Waiting, Pending
      <4>2. docAge <= batch /\ batch < BatchTimeout
        BY <4>1 DEF DocInv, BatchInProgress
      <4>3. QED BY <1>2, <1>3, <2>1, <4>2
    <3>2. CASE ~Waiting(r)
      <4>1. runs[r] = "queued" /\ due[r] # 0 /\ due'[r] = 0
        BY <1>1, <2>4, <3>2 DEF Waiting, Claimable
      <4>2. d = 1 BY <2>2, <4>1, TickAges
      <4>3. QED BY <1>3, <2>1, <2>3, <4>2
    <3>3. QED BY <3>1, <3>2
  <2>5. ASSUME reports'[r] > 0 PROVE docAge' <= Span(r[2]) + callAge'[r]
    <3>1. reports[r] > 0 /\ callAge'[r] = c + 1 BY <2>2, <2>5, TickAges
    <3>2. docAge <= Span(r[2]) + c BY <1>4, <2>2, <3>1 DEF DocInv
    <3>3. docAge' <= Span(r[2]) + (c + 1) BY <1>3, <2>1, <2>2, <3>2
    <3>4. QED BY <3>1, <3>3
  <2>6. ASSUME due'[r] > 0 PROVE docAge' + due'[r] <= Span(r[2])
    <3>1. due'[r] = d - 1 BY <2>2, <2>6, TickAges
    <3>2. d > 0 BY <2>2, <2>6, <3>1
    <3>3. docAge' + (d - 1) <= Span(r[2]) BY <1>3, <2>1, <2>3, <3>2
    <3>4. QED BY <3>1, <3>3
  <2>7. QED BY <2>4, <2>5, <2>6
<1>5. ASSUME NEW r \in Run
      PROVE  /\ due'[r] > 0 => r[2] >= 1 /\ runs'[r] # "none"
             /\ reports'[r] > 0 => runs'[r] # "none"
  <2>1. due'[r] > 0 => due[r] > 0
    <3>1. due[r] \in Nat /\ (due'[r] > 0 => due'[r] = due[r] - 1) BY TickAges
    <3>2. QED BY <3>1
  <2>2. reports'[r] > 0 => reports[r] > 0 BY TickAges
  <2>3. QED BY <1>1, <2>1, <2>2 DEF DocInv
<1>6. BatchInProgress' => docAge' <= batch' BY <1>3 DEF DocInv
<1>7. ~Loading' /\ \A r \in Run : ~Retrying(r)' BY TickWaits
<1>8. QED BY <1>1, <1>4, <1>5, <1>6, <1>7 DEF DocInv

\* So does the last activity.
LEMMA TickAct ==
    ASSUME DrainAssumption, TypeOK, IngestInv, ActInv, Tick
    PROVE  ActInv'
<1> DEFINE B == Budget(Lost)
<1>1. UNCHANGED <<state, runs, task, wpc>> BY DEF Tick
<1>2. ~Noting /\ Lost' = Lost /\ Tired = 0 /\ (Alive => Tired' = 1) /\ (Alive' <=> Alive)
  BY TickWaits
<1>3. /\ B \in Nat /\ B >= BatchTimeout /\ B >= RetryDelay
      /\ BatchTimeout \in Nat /\ RetryDelay \in Nat /\ Tired' \in {0, 1}
  <2>1. Lost \in Nat BY BudgetBounded
  <2>2. QED BY <2>1, BudgetGrows, CampaignConfig DEF Tired
<1>4. B' = B BY <1>2
<1>5. /\ activity \in Int /\ activity >= -1
      /\ activity' = activity \/ activity' = activity + 1
      /\ batch \in Int /\ batch >= -1
      /\ BatchInProgress' => BatchInProgress /\ batch' = batch + 1
  BY TickAges
<1> HIDE DEF B
<1>6. Alive' => Active'
  <2>1. ASSUME Alive' PROVE Active'
    <3>1. activity <= B + 0 BY <1>2, <2>1 DEF ActInv, Active, Young, B
    <3>2. activity' <= B' + 1 BY <1>3, <1>4, <1>5, <3>1
    <3>3. QED BY <1>2, <2>1, <3>2 DEF Active, Young, B
  <2>2. QED BY <2>1
<1>7. Pending' /\ Scheduling' => Active'
  <2>1. ASSUME Pending', Scheduling' PROVE Active'
    <3>1. state = "running" BY <2>1, TickWaits
    <3>2. ASSUME activity <= B - 1 PROVE Active'
      <4>1. activity' <= B' + Tired' BY <1>3, <1>4, <1>5, <3>2
      <4>2. QED BY <4>1 DEF Active, Young, B
    <3>3. CASE Pending
      <4>1. BatchInProgress BY <3>1, <3>3, TickWaits
      <4>2. CASE Alive BY <1>2, <1>6, <4>2
      <4>3. CASE ~Alive
        <5>1. activity <= batch \/ activity + BatchTimeout <= B + batch
          BY <1>2, <4>1, <4>3 DEF ActInv, Orphaned, Young, B
        <5>2. batch < BatchTimeout BY <4>1 DEF BatchInProgress
        <5>3. QED BY <1>3, <1>5, <3>2, <5>1, <5>2
      <4>4. QED BY <4>2, <4>3
    <3>4. CASE ~Pending
      <4>1. PICK r \in Run : runs[r] = "queued" /\ due[r] # 0 /\ due'[r] = 0
        BY <1>1, <2>1, <3>4 DEF Pending, Claimable
      <4>2. due[r] = 1 BY <4>1, TickAges
      <4>3. activity + 1 <= RetryDelay BY <1>2, <4>2 DEF ActInv
      <4>4. QED BY <1>3, <1>5, <3>2, <4>3
    <3>5. QED BY <3>3, <3>4
  <2>2. QED BY <2>1
<1>8. ASSUME NEW r \in Run
      PROVE  /\ due'[r] > 0 => activity' + due'[r] <= RetryDelay
             /\ reports'[r] > 0 => activity' <= B' + 1 + callAge'[r]
  <2>1. PICK d \in Nat, c \in Nat : d = due[r] /\ c = callAge[r] BY TickAges
  <2>2. ASSUME due'[r] > 0 PROVE activity' + due'[r] <= RetryDelay
    <3>1. due'[r] = d - 1 BY <2>1, <2>2, TickAges
    <3>2. d > 0 BY <2>1, <2>2, <3>1
    <3>3. activity + d <= RetryDelay BY <1>2, <2>1, <3>2 DEF ActInv
    <3>4. activity' + (d - 1) <= RetryDelay BY <1>3, <1>5, <2>1, <3>3
    <3>5. QED BY <3>1, <3>4
  <2>3. ASSUME reports'[r] > 0 PROVE activity' <= B' + 1 + callAge'[r]
    <3>1. reports[r] > 0 /\ callAge'[r] = c + 1 BY <2>1, <2>3, TickAges
    <3>2. activity <= B + 1 + c BY <1>2, <2>1, <3>1 DEF ActInv, Young, B
    <3>3. activity' <= B' + 1 + (c + 1) BY <1>3, <1>4, <1>5, <2>1, <3>2
    <3>4. QED BY <3>1, <3>3
  <2>4. QED BY <2>2, <2>3
<1>9. BatchInProgress' /\ ~Alive' => Orphaned(batch)'
  <2>1. ASSUME BatchInProgress', ~Alive' PROVE Orphaned(batch)'
    <3>1. activity <= batch \/ activity + BatchTimeout <= B + batch
      BY <1>2, <1>5, <2>1 DEF ActInv, Orphaned, Young, B
    <3>2. activity' <= batch' \/ activity' + BatchTimeout <= B' + batch'
      BY <1>3, <1>4, <1>5, <2>1, <3>1
    <3>3. QED BY <3>2 DEF Orphaned, Young, B
  <2>2. QED BY <2>1
<1>10. state' = "created" => activity' = Never BY <1>1, TickAges DEF ActInv
<1>11. /\ ~Marking' /\ ~Loading' /\ task'["sweep"] = "idle"
       /\ \A r \in Run : ~Retrying(r)'
       /\ \A w \in Worker : wpc'[w] # "failing"
  BY TickWaits
<1>12. QED BY <1>6, <1>7, <1>8, <1>9, <1>10, <1>11 DEF ActInv, Young, B

----------------------------------------------------------------------------
(* The theorems *)

\* Nothing has happened yet.
LEMMA InitDrain ==
    ASSUME Init
    PROVE  DrainInv
<1>1. Events = {} BY NoEvents DEF Init
<1>2. \A r \in Run : ~Retrying(r) BY <1>1 DEF Init, Retrying
<1>3. DownInv BY DEF Init, DownInv
<1>4. IngestInv
  <2>1. \A c \in Contact : <<c, 0>> \in Run /\ <<c, 0>>[2] = 0
    BY CampaignConfig DEF Run
  <2>2. Redial => Ingested BY <2>1 DEF Init, Ingested
  <2>3. MaxFaults \in Nat BY CampaignConfig
  <2>4. QED BY <1>2, <2>2, <2>3 DEF Init, IngestInv, Task
<1>5. ~Loading /\ ~BatchInProgress /\ ~Alive /\ ~Marking /\ ~Scheduling
  BY DEF Init, Loading, BatchInProgress, Alive, Marking, Scheduling, Task
<1>6. DocInv BY <1>2, <1>5 DEF Init, DocInv
<1>7. ActInv BY <1>2, <1>5 DEF Init, ActInv, Task
<1>8. SweepInv BY DEF Init, SweepInv, Task
<1>9. QED BY <1>3, <1>4, <1>6, <1>7, <1>8 DEF DrainInv

\* Nothing happens.
LEMMA IdleDrain ==
    ASSUME DrainInv, UNCHANGED vars
    PROVE  DrainInv'
<1> USE DEF vars, storeVars, docVars, runVars, callVars, batchVars, memVars, apiVars,
            jobVars, orchVars, outerVars
<1>1. Events' = Events BY SameEvents
<1>2. \A r \in Run : Retrying(r)' = Retrying(r) BY <1>1 DEF Retrying
<1>3. DownInv' BY DEF DrainInv, DownInv
<1>4. Drained' = Drained /\ Ingested' = Ingested
  BY <1>2 DEF Drained, InPlay, Ingested
<1>5. IngestInv' BY <1>2, <1>4 DEF DrainInv, IngestInv
<1>6. /\ Loading' = Loading /\ BatchInProgress' = BatchInProgress
      /\ \A r \in Run : Waiting(r)' = Waiting(r)
  BY DEF Loading, BatchInProgress, Waiting, Claimable
<1>7. DocInv' BY <1>2, <1>6 DEF DrainInv, DocInv
<1>8. /\ Noting' = Noting /\ Alive' = Alive /\ Lost' = Lost /\ Tired' = Tired
      /\ Pending' = Pending /\ Scheduling' = Scheduling /\ Marking' = Marking
  BY <1>1 DEF Noting, Alive, Lost, Tired, Pending, Claimable, Scheduling, Marking
<1>9. ActInv' BY <1>2, <1>6, <1>8 DEF DrainInv, ActInv, Active, Young, Orphaned
<1>10. SweepInv' BY <1>4 DEF DrainInv, SweepInv
<1>11. QED BY <1>3, <1>5, <1>7, <1>9, <1>10 DEF DrainInv

\* The invariant holds as long as the operator does not resume the campaign.
THEOREM DrainHolds ==
    ASSUME DrainAssumption
    PROVE  Spec /\ [](api # "resume") => []DrainInv
<1>1. ASSUME Context, Context', DrainInv, api # "resume", Next
      PROVE  DrainInv'
  <2>1. TypeOK /\ TypeOK' BY <1>1 DEF Context
  <2>2. DownInv /\ IngestInv /\ DocInv /\ ActInv /\ SweepInv BY <1>1 DEF DrainInv
  <2>3. DownInv' BY <1>1, <2>2, DownKeeps
  <2>4. CASE Tick
    <3>1. IngestInv' /\ SweepInv' BY <2>1, <2>2, <2>4, TickIngest
    <3>2. DocInv' BY <2>1, <2>2, <2>4, TickDoc
    <3>3. ActInv' BY <2>1, <2>2, <2>4, TickAct, DrainAssumption
    <3>4. QED BY <2>3, <3>1, <3>2, <3>3 DEF DrainInv
  <2>5. CASE ~Tick
    <3>1. Step BY <1>1, <2>2, <2>5, NextStep
    <3>2. IngestInv' BY <1>1, <2>1, <2>2, <2>5, IngestKeeps
    <3>3. DocInv' BY <1>1, <2>2, <3>1, DocKeeps
    <3>4. ActInv' BY <1>1, <2>2, <3>1, ActKeeps, DrainAssumption
    <3>5. SweepInv' BY <1>1, <2>1, <2>2, <2>5, SweepKeeps, DrainAssumption
    <3>6. QED BY <2>3, <3>2, <3>3, <3>4, <3>5 DEF DrainInv
  <2>6. QED BY <2>4, <2>5
<1>2. TypeOK /\ RunInv /\ StartInv <=> Context BY DEF Context
<1>3. Context /\ Context' /\ DrainInv /\ api # "resume" /\ [Next]_vars => DrainInv'
  BY <1>1, IdleDrain
<1>4. Init => DrainInv BY InitDrain
<1>5. QED
  BY <1>2, <1>3, <1>4, CampaignTypes, RunsHeld, StartsHold, PTL DEF Spec

\* What is drained has no retry to come either.
LEMMA DrainedAtTheEnd == TypeOK /\ DrainInv => CompletedIsDrained
<1> SUFFICES ASSUME TypeOK, DrainInv, state = "completed"
             PROVE  /\ \A r \in Run : runs[r] \notin {"queued", "processing"}
                    /\ \A i \in 1..Len(chan) : chan[i].kind # "retry"
  BY DEF CompletedIsDrained
<1>1. Drained BY DEF DrainInv, SweepInv
<1>2. \A r \in Run : runs[r] \notin {"queued", "processing"}
  BY <1>1 DEF Drained, InPlay
<1>3. ASSUME NEW i \in 1..Len(chan), chan[i].kind = "retry" PROVE FALSE
  <2>1. chan[i] \in Event /\ chan[i] \in Events BY <1>3 DEF TypeOK, Events
  <2>2. chan[i].run \in Run BY <1>3, <2>1 DEF Event
  <2>3. QED BY <1>1, <1>3, <2>1, <2>2 DEF Drained, Retrying
<1>4. QED BY <1>2, <1>3

\* A campaign that is completed has nobody left to call, whatever the order of
\* its batches, retries, reports, losses and restarts, unless it was resumed.
THEOREM CompletedMeansDrained ==
    ASSUME DrainAssumption
    PROVE  Spec /\ [](api # "resume") => []CompletedIsDrained
BY DrainHolds, CampaignTypes, DrainedAtTheEnd, PTL

Unresumed == api # "resume"

\* Where nobody may resume the campaign, nobody does.
THEOREM NeverResumed ==
    ASSUME "resume" \notin Fault
    PROVE  Spec => []Unresumed
<1> USE DEF storeVars, docVars, runVars, outerVars, callVars, apiVars, jobVars,
            batchVars, orchVars, memVars
<1>1. Init => Unresumed BY DEF Init, Unresumed
<1>2. ASSUME Unresumed, Next PROVE Unresumed'
  <2>1. ASSUME Api PROVE Unresumed'
    BY <1>2, <2>1 DEF Unresumed, Api, Request, StartWrite, StartSend, PauseWrite, ResumeWrite,
                      ResumeReset
  <2>2. ASSUME NEW r \in Run, ReportStep(r) PROVE api' = api
    BY <2>2 DEF ReportStep, ReportArrives, Evaluate, AskRetry
  <2>3. ASSUME Sync PROVE api' = api
    BY <2>3 DEF Sync, SyncTake, SyncInsert, SyncFinish, SyncPublish, SyncEmpty,
                SyncFails, SyncCancelled, SyncCrash
  <2>4. ASSUME NEW w \in Worker, Work(w) \/ WorkerFault(w) PROVE api' = api
    BY <2>4
       DEF Work, TakeJob, ClaimEnds, MarkProcessed, CountProcessed, BatchEnds,
           FailCampaign, Claim, Dial, WorkerFault, NoSlot, NoNumber, BatchRaises,
           CancelBatch, CrashBatch, MarkFailed
  <2>5. ASSUME NEW t \in Task, Schedule(t) PROVE api' = api
    BY <2>5 DEF Schedule, ReadCampaign, CheckBreaker, Trip, Offer, MarkBatch
  <2>6. ASSUME Listen PROVE api' = api
    BY <2>6 DEF Listen, OnSyncCompleted, OnBatchCompleted, CheckRunning, OnBatchFailed,
                OnTripped, OnRetryExhausted, OnRetry, OnRetryDuplicate, NoteActivity
  <2>7. ASSUME Sweep PROVE api' = api
    BY <2>7 DEF Sweep, SweepRead, SweepLook, SweepIdleCheck, SweepRecheck, SweepSeal
  <2>8. ASSUME WindowPasses \/ Unlock \/ OrchestratorDies \/ OrchestratorRestarts \/ Tick
        PROVE  api' = api
    BY <2>8 DEF WindowPasses, Unlock, OrchestratorDies, OrchestratorRestarts, Tick
  <2>9. QED BY <1>2, <2>1, <2>2, <2>3, <2>4, <2>5, <2>6, <2>7, <2>8 DEF Unresumed, Next
<1>3. Unresumed /\ UNCHANGED vars => Unresumed' BY DEF vars, Unresumed
<1>4. QED BY <1>1, <1>2, <1>3, PTL DEF Spec

\* So such a campaign is drained when it is completed.
THEOREM UnresumedMeansDrained ==
    ASSUME DrainAssumption, "resume" \notin Fault
    PROVE  Spec => []CompletedIsDrained
<1>1. Unresumed => api # "resume" BY DEF Unresumed
<1>2. QED BY <1>1, NeverResumed, CompletedMeansDrained, PTL
=============================================================================
