------------------------- MODULE RunDispatchProofs -------------------------
(***************************************************************************)
(* Dispatchers, Redis and workers drive the tables only through the stored *)
(* functions, so every theorem about RunLifecycle holds of RunDispatch;    *)
(* and theorems about what those processes hold in their hands.            *)
(***************************************************************************)
EXTENDS RunDispatch, RunSafetyProofs

-----------------------------------------------------------------------------
(* Steps of the processes are steps of the tables. *)

\* A row a dispatcher is working on names a dispatch and a claim.
LEMMA CarriedTyped ==
  ASSUME DispatchTypeOK, NEW d \in Dispatchers, carried[d].stage # "idle"
  PROVE  carried[d] \in CarriedRows
BY DEF DispatchTypeOK, Idle

\* A delivery names a dispatch and an attempt.
LEMMA DeliveryTyped ==
  ASSUME DispatchTypeOK, NEW w \in Workers, deliveries[w].stage # "idle"
  PROVE  deliveries[w] \in DeliveryRows
BY DEF DispatchTypeOK, Idle

\* What a dispatcher does to the tables is a step of RunLifecycle.
LEMMA DispatcherTables ==
  ASSUME DispatchTypeOK, NEW d \in Dispatchers, DispatcherActs(d)
  PROVE  Next \/ UNCHANGED vars
<1>1. ASSUME NEW r \in Runs, NEW g \in Generations, TakeRow(d, r, g) PROVE Next
  BY <1>1 DEF TakeRow, Next, RunStep, DispatcherStep
<1>2. CASE Publish(d)
  BY <1>2 DEF Publish, tables
<1>3. CASE ProvePublished(d)
  BY <1>3 DEF ProvePublished, tables
<1>4. CASE SettleRow(d)
  <2>1. carried[d] \in CarriedRows
    BY <1>4, CarriedTyped DEF SettleRow
  <2>2. /\ carried[d].run \in Runs /\ carried[d].generation \in Generations
        /\ carried[d].token \in ClaimTokens
    BY <2>1 DEF CarriedRows
  <2> QED
    BY <1>4, <2>2 DEF SettleRow, Next, RunStep, DispatcherStep, tables
<1> QED
  BY <1>1, <1>2, <1>3, <1>4 DEF DispatcherActs

\* An attempt whose number a delivery carries and that has authority was made.
LEMMA AttemptMade ==
  ASSUME TypeOK, Agreement, NEW r \in Runs, NEW n \in 0..MaxAttempts, HoldsAuthority(r, n)
  PROVE  n \in AttemptNumbers
<1>1. RowsAgree(runs[r], attempts[r], outbox[r], results[r]) /\ runs[r] \in RunRows
  BY DEF Agreement, TypeOK
<1>2. runs[r].lease # 0 /\ runs[r].lease_token = n
  BY <1>1 DEF HoldsAuthority, LeaseLive, RunRows
<1>3. n # 0
  BY <1>1, <1>2 DEF RowsAgree, AuthorityAgrees
<1> QED
  BY <1>3, CapsAssumption DEF AttemptNumbers

\* What a worker does to the tables is a step of RunLifecycle.
LEMMA WorkerTables ==
  ASSUME DispatchTypeOK, Agreement, NEW w \in Workers, WorkerActs(w)
  PROVE  Next \/ UNCHANGED vars
<1> DEFINE e == deliveries[w]
<1>0. TypeOK
  BY DEF DispatchTypeOK
<1>1. ASSUME NEW r \in Runs, NEW g \in Generations, Deliver(w, r, g) PROVE UNCHANGED vars
  BY <1>1 DEF Deliver, tables
<1>2. ASSUME e.stage # "idle"
      PROVE  e.run \in Runs /\ e.generation \in Generations /\ e.attempt \in 0..MaxAttempts
  BY <1>2, DeliveryTyped DEF DeliveryRows
<1>3. CASE ClaimDelivery(w)
  BY <1>2, <1>3 DEF ClaimDelivery, Next, RunStep, WorkerStep, tables
<1>4. CASE Renew(w)
  <2>1. CASE HeartbeatRunExecution(e.run, e.attempt)
    <3>1. e.run \in Runs /\ e.attempt \in AttemptNumbers
      BY <1>0, <1>2, <1>4, <2>1, AttemptMade DEF Renew, HeartbeatRunExecution
    <3> QED
      BY <2>1, <3>1 DEF Next, RunStep, WorkerStep
  <2> QED
    BY <1>4, <2>1 DEF Renew, tables
<1>5. CASE Publishes(w)
  <2>1. CASE CompleteRunExecution(e.run, e.attempt)
    <3>1. e.run \in Runs /\ e.attempt \in AttemptNumbers
      BY <1>0, <1>2, <1>5, <2>1, AttemptMade DEF Publishes, CompleteRunExecution
    <3> QED
      BY <2>1, <3>1 DEF Next, RunStep, WorkerStep
  <2> QED
    BY <1>5, <2>1 DEF Publishes, tables
<1>6. ASSUME NEW retryable \in BOOLEAN, FailsToEvaluate(w, retryable) PROVE Next \/ UNCHANGED vars
  <2>1. CASE FailRunExecution(e.run, e.attempt, retryable)
    <3>1. e.run \in Runs /\ e.attempt \in AttemptNumbers
      BY <1>0, <1>2, <1>6, <2>1, AttemptMade DEF FailsToEvaluate, FailRunExecution
    <3> QED
      BY <2>1, <3>1 DEF Next, RunStep, WorkerStep
  <2> QED
    BY <1>6, <2>1 DEF FailsToEvaluate, tables
<1>7. CASE ReturnDelivery(w)
  BY <1>7 DEF ReturnDelivery, tables
<1> QED
  BY <1>1, <1>3, <1>4, <1>5, <1>6, <1>7 DEF WorkerActs, Evaluates

\* Every step of the composition is a step of the tables, or leaves them alone.
LEMMA TablesStep ==
  ASSUME DispatchTypeOK, Agreement, [DispatchNext]_allvars
  PROVE  [Next]_vars
<1>1. ASSUME NEW d \in Dispatchers, DispatcherActs(d) PROVE [Next]_vars
  BY <1>1, DispatcherTables
<1>2. ASSUME NEW w \in Workers, WorkerActs(w) PROVE [Next]_vars
  BY <1>2, WorkerTables
<1>3. ASSUME NEW r \in Runs, Sweep(r) PROVE [Next]_vars
  BY <1>3 DEF Sweep, Next, RunStep, DispatcherStep
<1>4. ASSUME NEW r \in Runs, NEW g \in Generations, RedisActs(r, g) PROVE [Next]_vars
  BY <1>4 DEF RedisActs, DelayEnds, Stall, LateAdd, tables
<1>5. CASE Outside
  BY <1>5 DEF Outside, Next, RunStep, ApiStep
<1>6. CASE Breaks
  BY <1>6 DEF Breaks, PublishThrows, AbandonRow, HandlerThrows, CrashWorker, LoseJob, tables
<1>7. CASE UNCHANGED allvars
  BY <1>7 DEF allvars, tables
<1> QED
  BY <1>1, <1>2, <1>3, <1>4, <1>5, <1>6, <1>7 DEF DispatchNext

-----------------------------------------------------------------------------
(* Types of what the processes and Redis hold. *)

\* The jobs a step of the composition writes are jobs.
LEMMA JobsTyped ==
  ASSUME DispatchTypeOK, [DispatchNext]_allvars
  PROVE  jobs' \in [Runs -> [Generations -> JobRows]]
<1>0. /\ jobs \in [Runs -> [Generations -> JobRows]]
      /\ {"absent", "waiting", "delayed", "active", "finished"} = Places
  BY DEF DispatchTypeOK, Places
<1>1. ASSUME NEW job \in JobRows
      PROVE  Added(job) \in JobRows /\ Stalled(job) \in JobRows /\ Delivered(job) \in JobRows
  <2>1. /\ "waiting" \in Places /\ "active" \in Places /\ "finished" \in Places
        /\ 0 \in Nat /\ 0 \in 0..MaxStalls
    BY TriesAssumption DEF Places
  <2>2. Added(job) \in JobRows
    BY <1>1, <2>1 DEF Added, JobRows
  <2>3. job.stalls < MaxStalls => job.stalls + 1 \in 0..MaxStalls
    BY <1>1, TriesAssumption DEF JobRows
  <2>4. Stalled(job) \in JobRows
    BY <1>1, <2>1, <2>3 DEF Stalled, JobRows
  <2>5. job.tries + 1 \in Nat
    BY <1>1 DEF JobRows
  <2>6. Delivered(job) \in JobRows
    BY <1>1, <2>1, <2>5 DEF Delivered, JobRows
  <2> QED
    BY <2>2, <2>4, <2>6
<1>2. ASSUME NEW r \in Runs, NEW g \in Generations, NEW job \in JobRows,
             jobs' = [jobs EXCEPT ![r][g] = job]
      PROVE  jobs' \in [Runs -> [Generations -> JobRows]]
  BY <1>0, <1>2
<1>3. ASSUME NEW r \in Runs, NEW g \in Generations, NEW place \in Places
      PROVE  [jobs[r][g] EXCEPT !.place = place] \in JobRows
  <2>1. jobs[r][g] \in JobRows
    BY <1>0
  <2> QED
    BY <2>1 DEF JobRows
<1>4. ASSUME NEW r \in Runs, NEW g \in Generations,
             NEW try, NEW place \in Places, MoveJob(r, g, try, place)
      PROVE  jobs' \in [Runs -> [Generations -> JobRows]]
  BY <1>0, <1>3, <1>4 DEF MoveJob
<1>5. ASSUME NEW d \in Dispatchers, DispatcherActs(d) \/ PublishThrows(d)
      PROVE  jobs' \in [Runs -> [Generations -> JobRows]]
  <2>1. CASE jobs' = jobs
    BY <1>0, <2>1
  <2>2. CASE jobs' # jobs
    <3>1. Publish(d) \/ PublishThrows(d)
      BY <1>5, <2>2 DEF DispatcherActs, TakeRow, ProvePublished, SettleRow
    <3>2. carried[d] \in CarriedRows
      BY <3>1, CarriedTyped DEF Publish, PublishThrows
    <3> DEFINE r == carried[d].run
               g == carried[d].generation
    <3>3. r \in Runs /\ g \in Generations
      BY <3>2 DEF CarriedRows
    <3>4. jobs[r][g] \in JobRows
      BY <1>0, <3>3
    <3>5. Added(jobs[r][g]) \in JobRows /\ [jobs[r][g] EXCEPT !.late = TRUE] \in JobRows
      BY <1>1, <3>4 DEF JobRows
    <3>6. \/ jobs' = [jobs EXCEPT ![r][g] = Added(jobs[r][g])]
          \/ jobs' = [jobs EXCEPT ![r][g] = [jobs[r][g] EXCEPT !.late = TRUE]]
      BY <1>0, <2>2, <3>1, <3>3 DEF Publish, PublishThrows
    <3> HIDE DEF r, g
    <3> QED
      BY <1>2, <3>3, <3>5, <3>6
  <2> QED
    BY <2>1, <2>2
<1>6. ASSUME NEW w \in Workers, WorkerActs(w)
      PROVE  jobs' \in [Runs -> [Generations -> JobRows]]
  <2>1. ASSUME NEW r \in Runs, NEW g \in Generations, Deliver(w, r, g)
        PROVE  jobs' \in [Runs -> [Generations -> JobRows]]
    <3>1. jobs[r][g] \in JobRows
      BY <1>0
    <3> QED
      BY <1>0, <1>1, <1>2, <2>1, <3>1 DEF Deliver
  <2>2. CASE ReturnDelivery(w)
    <3>1. deliveries[w] \in DeliveryRows
      BY <2>2, DeliveryTyped DEF ReturnDelivery
    <3> QED
      BY <1>0, <1>4, <2>2, <3>1 DEF ReturnDelivery, DeliveryRows
  <2>3. CASE ClaimDelivery(w) \/ Renew(w) \/ Evaluates(w)
    BY <1>0, <2>3 DEF ClaimDelivery, Renew, Evaluates, Publishes, FailsToEvaluate
  <2> QED
    BY <1>6, <2>1, <2>2, <2>3 DEF WorkerActs
<1>7. ASSUME NEW r \in Runs, NEW g \in Generations, RedisActs(r, g) \/ LoseJob(r, g)
      PROVE  jobs' \in [Runs -> [Generations -> JobRows]]
  <2>1. jobs[r][g] \in JobRows
    BY <1>0
  <2>2. [Added(jobs[r][g]) EXCEPT !.late = FALSE] \in JobRows
    BY <1>1, <2>1 DEF JobRows
  <2>3. CASE DelayEnds(r, g) \/ LoseJob(r, g)
    BY <1>0, <1>2, <1>3, <2>3 DEF DelayEnds, LoseJob
  <2>4. CASE Stall(r, g)
    BY <1>0, <1>1, <1>2, <2>1, <2>4 DEF Stall
  <2>5. CASE LateAdd(r, g)
    BY <1>0, <1>2, <2>2, <2>5 DEF LateAdd
  <2> QED
    BY <1>7, <2>3, <2>4, <2>5 DEF RedisActs
<1>8. CASE jobs' = jobs
  BY <1>0, <1>8
<1> QED
  BY <1>5, <1>6, <1>7, <1>8 DEF DispatchNext, Sweep, Outside, Breaks, AbandonRow,
     HandlerThrows, CrashWorker, transport, allvars

\* So are the rows dispatchers carry.
LEMMA CarriedRowsTyped ==
  ASSUME DispatchTypeOK, [DispatchNext]_allvars
  PROVE  carried' \in [Dispatchers -> {Idle} \cup CarriedRows]
<1>0. /\ carried \in [Dispatchers -> {Idle} \cup CarriedRows]
      /\ outbox \in [Runs -> [Generations -> OutboxRows]]
  BY DEF DispatchTypeOK, TypeOK
<1>1. ASSUME NEW d \in Dispatchers, NEW row \in {Idle} \cup CarriedRows,
             carried' = [carried EXCEPT ![d] = row]
      PROVE  carried' \in [Dispatchers -> {Idle} \cup CarriedRows]
  BY <1>0, <1>1
<1>2. ASSUME NEW d \in Dispatchers, carried[d].stage # "idle",
             NEW stage \in {"published", "unsure", "proved", "missing"}, Carry(d, stage)
      PROVE  carried' \in [Dispatchers -> {Idle} \cup CarriedRows]
  <2>1. carried[d] \in CarriedRows
    BY <1>2, CarriedTyped
  <2>2. [carried[d] EXCEPT !.stage = stage] \in CarriedRows
    BY <2>1 DEF CarriedRows
  <2> QED
    BY <1>1, <1>2, <2>2 DEF Carry
<1>3. ASSUME NEW d \in Dispatchers, NEW r \in Runs, NEW g \in Generations, TakeRow(d, r, g)
      PROVE  carried' \in [Dispatchers -> {Idle} \cup CarriedRows]
  <2>1. outbox[r][g] \in OutboxRows /\ outbox[r][g].count < MaxDispatches
    BY <1>0, <1>3 DEF TakeRow, ClaimDueRunOutbox
  <2>2. outbox'[r][g] = Taken(outbox[r][g])
    BY <1>0, <1>3 DEF TakeRow, ClaimDueRunOutbox
  <2>3. outbox'[r][g].count \in ClaimTokens
    BY <2>1, <2>2, CapsAssumption DEF Taken, OutboxRows, ClaimTokens
  <2>4. [stage |-> "claimed", run |-> r, generation |-> g, token |-> outbox'[r][g].count]
          \in CarriedRows
    BY <2>3 DEF CarriedRows
  <2> QED
    BY <1>1, <1>3, <2>4 DEF TakeRow
<1>4. ASSUME NEW d \in Dispatchers, Publish(d) \/ PublishThrows(d) \/ ProvePublished(d)
      PROVE  carried' \in [Dispatchers -> {Idle} \cup CarriedRows]
  BY <1>1, <1>2, <1>4 DEF Publish, PublishThrows, ProvePublished, Evidence, PutDown
<1>5. ASSUME NEW d \in Dispatchers, SettleRow(d) \/ AbandonRow(d)
      PROVE  carried' \in [Dispatchers -> {Idle} \cup CarriedRows]
  BY <1>1, <1>5 DEF SettleRow, AbandonRow, PutDown
<1>6. CASE carried' = carried
  BY <1>0, <1>6
<1>7. ASSUME NEW w \in Workers, WorkerActs(w) PROVE carried' = carried
  BY <1>7 DEF WorkerActs, Deliver, ClaimDelivery, Renew, Evaluates, Publishes,
     FailsToEvaluate, ReturnDelivery
<1>8. ASSUME NEW r \in Runs, NEW g \in Generations, RedisActs(r, g) \/ LoseJob(r, g)
      PROVE  carried' = carried
  BY <1>8 DEF RedisActs, DelayEnds, Stall, LateAdd, LoseJob
<1> QED
  BY <1>3, <1>4, <1>5, <1>6, <1>7, <1>8 DEF DispatchNext, DispatcherActs, Sweep, Outside,
     Breaks, HandlerThrows, CrashWorker, transport, allvars

\* And the deliveries workers hold.
LEMMA DeliveriesTyped ==
  ASSUME DispatchTypeOK, Agreement, [DispatchNext]_allvars
  PROVE  deliveries' \in [Workers -> {Idle} \cup DeliveryRows]
<1>0. /\ deliveries \in [Workers -> {Idle} \cup DeliveryRows]
      /\ jobs \in [Runs -> [Generations -> JobRows]]
      /\ TypeOK
  BY DEF DispatchTypeOK
<1>1. ASSUME NEW w \in Workers, NEW row \in {Idle} \cup DeliveryRows,
             deliveries' = [deliveries EXCEPT ![w] = row]
      PROVE  deliveries' \in [Workers -> {Idle} \cup DeliveryRows]
  BY <1>0, <1>1
<1>2. ASSUME NEW w \in Workers, deliveries[w].stage # "idle",
             NEW stage \in {"delivered", "claimed", "evaluating", "deferring", "returning"},
             Turn(w, stage)
      PROVE  deliveries' \in [Workers -> {Idle} \cup DeliveryRows]
  <2>1. deliveries[w] \in DeliveryRows
    BY <1>2, DeliveryTyped
  <2>2. [deliveries[w] EXCEPT !.stage = stage] \in DeliveryRows
    BY <2>1 DEF DeliveryRows
  <2> QED
    BY <1>1, <1>2, <2>2 DEF Turn
<1>3. ASSUME NEW w \in Workers, NEW r \in Runs, NEW g \in Generations, Deliver(w, r, g)
      PROVE  deliveries' \in [Workers -> {Idle} \cup DeliveryRows]
  <2>1. jobs[r][g].tries + 1 \in Nat
    BY <1>0 DEF JobRows
  <2>2. [stage |-> "delivered", run |-> r, generation |-> g,
         try |-> jobs[r][g].tries + 1, attempt |-> 0] \in DeliveryRows
    BY <2>1, CapsAssumption DEF DeliveryRows
  <2> QED
    BY <1>1, <1>3, <2>2 DEF Deliver
<1>4. ASSUME NEW w \in Workers, ClaimDelivery(w)
      PROVE  deliveries' \in [Workers -> {Idle} \cup DeliveryRows]
  <2> DEFINE e == deliveries[w]
  <2>1. e \in DeliveryRows
    BY <1>4, DeliveryTyped DEF ClaimDelivery
  <2>2. CASE ClaimRunExecution(e.run, e.generation) /\
             deliveries' = [deliveries EXCEPT ![w] =
               [e EXCEPT !.stage = "claimed", !.attempt = runs'[e.run].lease_token]]
    <3>1. e.run \in Runs /\ e.generation \in Generations
      BY <2>1 DEF DeliveryRows
    <3>2. TypeOK'
      BY <1>0, <2>2, <3>1, WorkerTyped DEF WorkerStep
    <3>3. runs'[e.run].lease_token \in 0..MaxAttempts
      BY <3>1, <3>2 DEF TypeOK, RunRows
    <3>4. [e EXCEPT !.stage = "claimed", !.attempt = runs'[e.run].lease_token] \in DeliveryRows
      BY <2>1, <3>3 DEF DeliveryRows
    <3> QED
      BY <1>1, <2>2, <3>4
  <2>3. CASE Turn(w, "deferring") \/ Turn(w, "returning")
    BY <1>2, <1>4, <2>3 DEF ClaimDelivery
  <2> QED
    BY <1>4, <2>2, <2>3 DEF ClaimDelivery
<1>5. ASSUME NEW w \in Workers, Renew(w) \/ Evaluates(w) \/ HandlerThrows(w)
      PROVE  deliveries' \in [Workers -> {Idle} \cup DeliveryRows]
  BY <1>2, <1>5 DEF Renew, Evaluates, Publishes, FailsToEvaluate, HandlerThrows
<1>6. ASSUME NEW w \in Workers, ReturnDelivery(w) \/ CrashWorker(w)
      PROVE  deliveries' \in [Workers -> {Idle} \cup DeliveryRows]
  BY <1>1, <1>6 DEF ReturnDelivery, CrashWorker, Finish
<1>7. ASSUME NEW w \in Workers, WorkerActs(w)
      PROVE  deliveries' \in [Workers -> {Idle} \cup DeliveryRows]
  BY <1>3, <1>4, <1>5, <1>6, <1>7 DEF WorkerActs
<1>8. CASE deliveries' = deliveries
  BY <1>0, <1>8
<1>9. ASSUME NEW r \in Runs, NEW g \in Generations, RedisActs(r, g) \/ LoseJob(r, g)
      PROVE  deliveries' = deliveries
  BY <1>9 DEF RedisActs, DelayEnds, Stall, LateAdd, LoseJob
<1> QED
  BY <1>5, <1>6, <1>7, <1>8, <1>9 DEF DispatchNext, DispatcherActs, TakeRow, Publish,
     ProvePublished, SettleRow, Sweep, Outside, Breaks, PublishThrows, AbandonRow,
     transport, allvars

\* Faults are counted one by one.
LEMMA FaultsCounted ==
  ASSUME [DispatchNext]_allvars
  PROVE  faults' = faults \/ Fault
<1>1. ASSUME NEW r \in Runs, NEW g \in Generations, RedisActs(r, g)
      PROVE  Fault \/ faults' = faults
  BY <1>1 DEF RedisActs, DelayEnds, Stall, LateAdd
<1>2. ASSUME NEW w \in Workers, WorkerActs(w) PROVE faults' = faults
  BY <1>2 DEF WorkerActs, Deliver, ClaimDelivery, Renew, Evaluates, Publishes,
     FailsToEvaluate, ReturnDelivery
<1>3. ASSUME NEW d \in Dispatchers, DispatcherActs(d) PROVE faults' = faults
  BY <1>3 DEF DispatcherActs, TakeRow, Publish, ProvePublished, SettleRow
<1> QED
  BY <1>1, <1>2, <1>3 DEF DispatchNext, Sweep, Outside, Breaks, PublishThrows,
     AbandonRow, HandlerThrows, CrashWorker, LoseJob, transport, allvars

\* And stay within their budget.
LEMMA FaultsTyped ==
  ASSUME DispatchTypeOK, [DispatchNext]_allvars
  PROVE  faults' \in 0..MaxFaults
<1>1. faults \in 0..MaxFaults
  BY DEF DispatchTypeOK
<1> QED
  BY <1>1, FaultsCounted, TriesAssumption DEF Fault

\* The composition starts typed and in agreement.
LEMMA DispatchInitTyped == DispatchInit => DispatchTypeOK /\ Agreement
<1> SUFFICES ASSUME DispatchInit PROVE DispatchTypeOK /\ Agreement
  OBVIOUS
<1>1. TypeOK /\ Agreement
  BY InitTyped, InitAgrees DEF DispatchInit
<1>2. NoJob \in JobRows
  BY TriesAssumption DEF NoJob, JobRows, Places
<1>3. 0 \in 0..MaxFaults
  BY TriesAssumption
<1> QED
  BY <1>1, <1>2, <1>3 DEF DispatchInit, DispatchTypeOK

\* And stays so.
LEMMA DispatchNextTyped ==
  DispatchTypeOK /\ Agreement /\ [DispatchNext]_allvars => DispatchTypeOK' /\ Agreement'
<1> SUFFICES ASSUME DispatchTypeOK, Agreement, [DispatchNext]_allvars
             PROVE  DispatchTypeOK' /\ Agreement'
  OBVIOUS
<1>1. TypeOK' /\ Agreement'
  BY TablesStep, NextTyped, NextAgrees DEF DispatchTypeOK
<1> QED
  BY <1>1, JobsTyped, CarriedRowsTyped, DeliveriesTyped, FaultsTyped DEF DispatchTypeOK

\* Types of the composition, with the agreement of the rows beneath it.
THEOREM DispatchTyping == DispatchSpec => [](DispatchTypeOK /\ Agreement)
BY DispatchInitTyped, DispatchNextTyped, PTL DEF DispatchSpec

\* Whatever dispatchers, Redis and workers do, the tables go through a behaviour
\* of RunLifecycle: the theorems about it hold of the whole system.
THEOREM Composition == DispatchSpec => Spec
<1>1. DispatchInit => Init
  BY DEF DispatchInit
<1>2. DispatchTypeOK /\ Agreement /\ [DispatchNext]_allvars => [Next]_vars
  BY TablesStep
<1> QED
  BY <1>1, <1>2, DispatchTyping, PTL DEF DispatchSpec, Spec

-----------------------------------------------------------------------------
(* Publication before confirmation. *)

\* No other write of an outbox row makes it dispatched.
LEMMA RowsNotDispatched ==
  ASSUME NEW row \in OutboxRows, NEW error
  PROVE  /\ Taken(row).status # "dispatched"
         /\ Returned(row).status # "dispatched"
         /\ Closed(row, error).status # "dispatched"
         /\ NewOutbox.status # "dispatched"
BY DEF Taken, Returned, Closed, NewOutbox, OutboxRows

\* The functions of the dispatcher other than the confirmation.
LEMMA OthersDoNotConfirm ==
  ASSUME TypeOK, NEW q \in Runs, NEW r \in Runs, NEW g \in Generations,
         \/ \E h \in Generations : ClaimDueRunOutbox(q, h)
         \/ \E h \in Generations, t \in ClaimTokens : FailRunDispatch(q, h, t)
         \/ FinalizeRequestedCancellation(q)
         \/ FinalizePoisonedDispatch(q)
         \/ ReconcileRunDispatch(q, FALSE),
         outbox'[r][g].status = "dispatched"
  PROVE  outbox[r][g].status = "dispatched"
<1>0. /\ outbox \in [Runs -> [Generations -> OutboxRows]]
      /\ outbox[r][g] \in OutboxRows
  BY DEF TypeOK
<1>1. ASSUME NEW h \in Generations, ClaimDueRunOutbox(q, h)
      PROVE  outbox[r][g].status = "dispatched"
  <2>1. outbox'[r][g] = outbox[r][g] \/ outbox'[r][g] = Taken(outbox[r][g])
    BY <1>0, <1>1 DEF ClaimDueRunOutbox
  <2> QED
    BY <1>0, <2>1, RowsNotDispatched
<1>2. ASSUME NEW h \in Generations, NEW t \in ClaimTokens, FailRunDispatch(q, h, t)
      PROVE  outbox[r][g].status = "dispatched"
  <2>1. \/ outbox'[r][g] = outbox[r][g]
        \/ outbox'[r][g] = Returned(outbox[r][g])
        \/ outbox'[r][g] = Closed(outbox[r][g], "dispatch_exhausted")
    BY <1>0, <1>2 DEF FailRunDispatch
  <2> QED
    BY <1>0, <2>1, RowsNotDispatched
<1>3. CASE FinalizeRequestedCancellation(q)
  <2>1. \/ outbox'[r][g] = outbox[r][g]
        \/ outbox'[r][g] = Closed(outbox[r][g], "canceled")
    BY <1>0, <1>3 DEF FinalizeRequestedCancellation, AllCanceled
  <2> QED
    BY <1>0, <2>1, RowsNotDispatched
<1>4. CASE FinalizePoisonedDispatch(q)
  <2>1. \/ outbox'[r][g] = outbox[r][g]
        \/ outbox'[r][g] = Closed(outbox[r][g], "dispatch_exhausted")
    BY <1>0, <1>4 DEF FinalizePoisonedDispatch
  <2> QED
    BY <1>0, <2>1, RowsNotDispatched
<1>5. CASE ReconcileRunDispatch(q, FALSE)
  <2>1. \/ outbox'[r][g] = outbox[r][g]
        \/ outbox'[r][g] = NewOutbox
        \/ \E error : outbox'[r][g] = Closed(outbox[r][g], error)
    <3>1. CASE RecoveryExhausted(q)
      BY <1>0, <1>5, <3>1 DEF ReconcileRunDispatch
    <3>2. CASE ~RecoveryExhausted(q)
      <4>1. outbox' = [outbox EXCEPT ![q][Generation(q)] = Closed(@, "recovery_replaced"),
                                     ![q][Generation(q) + 1] = NewOutbox]
        BY <1>5, <3>2 DEF ReconcileRunDispatch
      <4> HIDE DEF Generation
      <4> QED
        BY <1>0, <4>1
    <3> QED
      BY <3>1, <3>2
  <2> QED
    BY <1>0, <2>1, RowsNotDispatched
<1> QED
  BY <1>1, <1>2, <1>3, <1>4, <1>5

\* Only the dispatcher that carries a row it has seen in Redis confirms it.
LEMMA ConfirmersHaveSeen ==
  ASSUME DispatchTypeOK, [DispatchNext]_allvars, NEW r \in Runs, NEW g \in Generations,
         outbox'[r][g].status = "dispatched"
  PROVE  \/ outbox[r][g].status = "dispatched"
         \/ \E d \in Dispatchers :
              carried[d].stage = "proved" /\ carried[d].run = r /\ carried[d].generation = g
<1>0. /\ TypeOK /\ outbox \in [Runs -> [Generations -> OutboxRows]]
      /\ outbox[r][g] \in OutboxRows
  BY DEF DispatchTypeOK, TypeOK
<1>1. ASSUME NEW d \in Dispatchers, DispatcherActs(d)
      PROVE  \/ outbox[r][g].status = "dispatched"
             \/ carried[d].stage = "proved" /\ carried[d].run = r /\ carried[d].generation = g
  <2>1. ASSUME NEW q \in Runs, NEW h \in Generations, TakeRow(d, q, h)
        PROVE  outbox[r][g].status = "dispatched"
    BY <1>0, <2>1, OthersDoNotConfirm DEF TakeRow
  <2>2. CASE SettleRow(d)
    <3>1. carried[d] \in CarriedRows
      BY <2>2, CarriedTyped DEF SettleRow
    <3>2. /\ carried[d].run \in Runs /\ carried[d].generation \in Generations
          /\ carried[d].token \in ClaimTokens
      BY <3>1 DEF CarriedRows
    <3>3. CASE carried[d].stage = "missing"
      BY <1>0, <2>2, <3>2, <3>3, OthersDoNotConfirm DEF SettleRow, tables, vars
    <3>4. CASE carried[d].stage = "proved" /\ outbox' # outbox
      <4>1. outbox' = [outbox EXCEPT ![carried[d].run][carried[d].generation] = Confirmed(@)]
        BY <2>2, <3>4 DEF SettleRow, ConfirmRunDispatch, tables, vars
      <4> QED
        BY <1>0, <3>2, <3>4, <4>1
    <3> QED
      BY <2>2, <3>3, <3>4 DEF SettleRow
  <2>3. CASE Publish(d) \/ ProvePublished(d)
    BY <2>3 DEF Publish, ProvePublished, tables, vars
  <2> QED
    BY <1>1, <2>1, <2>2, <2>3 DEF DispatcherActs
<1>2. ASSUME NEW w \in Workers, WorkerActs(w) PROVE outbox[r][g].status = "dispatched"
  <2>1. outbox' = outbox \/ \E q : outbox' = [outbox EXCEPT ![q] = AllCanceled(q)]
    BY <1>2 DEF WorkerActs, Deliver, ClaimDelivery, ClaimRunExecution, Renew,
       HeartbeatRunExecution, Evaluates, Publishes, CompleteRunExecution, FailsToEvaluate,
       FailRunExecution, CancelAtCheckpoint, ReturnDelivery, tables, vars
  <2>2. \/ outbox'[r][g] = outbox[r][g]
        \/ outbox'[r][g] = Closed(outbox[r][g], "canceled")
    BY <1>0, <2>1 DEF AllCanceled
  <2> QED
    BY <1>0, <2>2, RowsNotDispatched
<1>3. ASSUME NEW q \in Runs, Sweep(q) PROVE outbox[r][g].status = "dispatched"
  BY <1>0, <1>3, OthersDoNotConfirm DEF Sweep
<1>4. ASSUME NEW q \in Runs, NEW h \in Generations, RedisActs(q, h)
      PROVE  outbox[r][g].status = "dispatched"
  BY <1>4 DEF RedisActs, DelayEnds, Stall, LateAdd, tables, vars
<1>5. CASE Outside
  <2>1. \/ outbox'[r][g] = outbox[r][g]
        \/ outbox'[r][g] = NewOutbox
        \/ outbox'[r][g] =
             [outbox[r][g] EXCEPT !.claim = Sooner(@), !.next = Sooner(@)]
    <3>1. ASSUME NEW q \in Runs, CreateRun(q)
          PROVE  outbox'[r][g] = outbox[r][g] \/ outbox'[r][g] = NewOutbox
      <4>1. outbox' = [outbox EXCEPT ![q][1] = NewOutbox]
        BY <3>1 DEF CreateRun
      <4> QED
        BY <1>0, <4>1
    <3>2. ASSUME Tick
          PROVE  outbox'[r][g] = [outbox[r][g] EXCEPT !.claim = Sooner(@), !.next = Sooner(@)]
      BY <3>2 DEF Tick
    <3> QED
      BY <1>5, <3>1, <3>2 DEF Outside, RequestCancel
  <2> QED
    BY <1>0, <2>1, RowsNotDispatched DEF OutboxRows
<1>6. CASE Breaks
  BY <1>6 DEF Breaks, PublishThrows, AbandonRow, HandlerThrows, CrashWorker, LoseJob,
     tables, vars
<1>7. CASE UNCHANGED allvars
  BY <1>7 DEF allvars, tables, vars
<1> QED
  BY <1>1, <1>2, <1>3, <1>4, <1>5, <1>6, <1>7 DEF DispatchNext

\* Redis may forget a job, but not that it was added; and a job comes to be
\* there only by an add.
LEMMA AddsAreRemembered ==
  ASSUME DispatchTypeOK, [DispatchNext]_allvars, NEW r \in Runs, NEW g \in Generations
  PROVE  /\ jobs[r][g].added => jobs'[r][g].added
         /\ Present(r, g)' => Present(r, g) \/ jobs'[r][g].added
<1>0. /\ jobs \in [Runs -> [Generations -> JobRows]]
      /\ jobs[r][g] \in JobRows
  BY DEF DispatchTypeOK
<1>1. ASSUME NEW d \in Dispatchers, DispatcherActs(d) \/ PublishThrows(d)
      PROVE  \/ jobs'[r][g] = jobs[r][g]
             \/ jobs'[r][g] = Added(jobs[r][g])
             \/ jobs'[r][g] = [jobs[r][g] EXCEPT !.late = TRUE]
  <2>1. CASE Publish(d)
    <3>1. jobs' = [jobs EXCEPT ![carried[d].run][carried[d].generation] = Added(@)]
      BY <2>1 DEF Publish
    <3> QED
      BY <1>0, <3>1
  <2>2. CASE PublishThrows(d)
    <3>1. \/ jobs' = jobs
          \/ jobs' = [jobs EXCEPT ![carried[d].run][carried[d].generation] = Added(@)]
          \/ jobs' = [jobs EXCEPT ![carried[d].run][carried[d].generation].late = TRUE]
      BY <2>2 DEF PublishThrows
    <3>2. CASE jobs' = [jobs EXCEPT ![carried[d].run][carried[d].generation].late = TRUE]
      <4>1. jobs'[r] = [jobs[r] EXCEPT ![carried[d].generation].late = TRUE] \/ jobs'[r] = jobs[r]
        BY <1>0, <3>2
      <4> QED
        BY <1>0, <4>1
    <3>3. CASE jobs' = [jobs EXCEPT ![carried[d].run][carried[d].generation] = Added(@)]
      BY <1>0, <3>3
    <3> QED
      BY <3>1, <3>2, <3>3
  <2> QED
    BY <1>1, <2>1, <2>2 DEF DispatcherActs, TakeRow, ProvePublished, SettleRow
<1>2. ASSUME NEW w \in Workers, WorkerActs(w)
      PROVE  \/ jobs'[r][g] = jobs[r][g]
             \/ jobs[r][g].place # "absent" /\
                  \/ jobs'[r][g] = Delivered(jobs[r][g])
                  \/ \E place \in Places : jobs'[r][g] = [jobs[r][g] EXCEPT !.place = place]
  <2>1. ASSUME NEW q \in Runs, NEW h \in Generations, Deliver(w, q, h)
        PROVE  \/ jobs'[r][g] = jobs[r][g]
               \/ jobs[r][g].place # "absent" /\ jobs'[r][g] = Delivered(jobs[r][g])
    BY <1>0, <2>1 DEF Deliver
  <2>2. CASE ReturnDelivery(w)
    BY <1>0, <2>2 DEF ReturnDelivery, MoveJob, Locked, Places
  <2>3. CASE ClaimDelivery(w) \/ Renew(w) \/ Evaluates(w)
    BY <2>3 DEF ClaimDelivery, Renew, Evaluates, Publishes, FailsToEvaluate
  <2> QED
    BY <1>2, <2>1, <2>2, <2>3 DEF WorkerActs
<1>3. ASSUME NEW q \in Runs, NEW h \in Generations, RedisActs(q, h) \/ LoseJob(q, h)
      PROVE  \/ jobs'[r][g] = jobs[r][g]
             \/ jobs[r][g].place # "absent" /\
                  \E place \in Places : jobs'[r][g] = [jobs[r][g] EXCEPT !.place = place]
             \/ jobs[r][g].place # "absent" /\ jobs'[r][g] = Stalled(jobs[r][g])
             \/ jobs'[r][g] = [Added(jobs[r][g]) EXCEPT !.late = FALSE]
  <2>1. CASE DelayEnds(q, h)
    BY <1>0, <2>1 DEF DelayEnds, Places
  <2>2. CASE LoseJob(q, h)
    BY <1>0, <2>2 DEF LoseJob, Present, Places
  <2>3. CASE Stall(q, h)
    BY <1>0, <2>3 DEF Stall
  <2>4. CASE LateAdd(q, h)
    <3>1. jobs' = [jobs EXCEPT ![q][h] = [Added(jobs[q][h]) EXCEPT !.late = FALSE]]
      BY <1>0, <2>4 DEF LateAdd
    <3> QED
      BY <1>0, <3>1
  <2> QED
    BY <1>3, <2>1, <2>2, <2>3, <2>4 DEF RedisActs
<1>4. CASE \/ jobs'[r][g] = jobs[r][g]
           \/ jobs'[r][g] = Added(jobs[r][g])
           \/ jobs'[r][g] = [jobs[r][g] EXCEPT !.late = TRUE]
           \/ jobs'[r][g] = [Added(jobs[r][g]) EXCEPT !.late = FALSE]
  BY <1>0, <1>4 DEF Added, JobRows, Present
<1>5. CASE /\ jobs[r][g].place # "absent"
           /\ \/ jobs'[r][g] = Delivered(jobs[r][g])
              \/ jobs'[r][g] = Stalled(jobs[r][g])
              \/ \E place \in Places : jobs'[r][g] = [jobs[r][g] EXCEPT !.place = place]
  BY <1>0, <1>5 DEF Delivered, Stalled, JobRows, Present
<1> QED
  BY <1>1, <1>2, <1>3, <1>4, <1>5 DEF DispatchNext, Sweep, Outside, Breaks, AbandonRow,
     HandlerThrows, CrashWorker, transport, allvars

\* A row becomes proved only while its job is in Redis.
LEMMA ProofsAreSeen ==
  ASSUME DispatchTypeOK, [DispatchNext]_allvars, NEW d \in Dispatchers,
         carried'[d].stage = "proved"
  PROVE  \/ carried'[d] = carried[d]
         \/ /\ carried[d] \in CarriedRows
            /\ carried'[d].run = carried[d].run /\ carried'[d].generation = carried[d].generation
            /\ Present(carried[d].run, carried[d].generation)
<1>0. carried \in [Dispatchers -> {Idle} \cup CarriedRows]
  BY DEF DispatchTypeOK
<1>1. ASSUME NEW c \in Dispatchers, DispatcherActs(c) \/ PublishThrows(c) \/ AbandonRow(c), c # d
      PROVE  carried'[d] = carried[d]
  BY <1>0, <1>1 DEF DispatcherActs, TakeRow, Publish, ProvePublished, SettleRow, PublishThrows,
     AbandonRow, Carry, PutDown
<1>2. CASE ProvePublished(d)
  <2>1. carried[d] \in CarriedRows
    BY <1>2, CarriedTyped DEF ProvePublished
  <2>2. carried' = [carried EXCEPT ![d] = Idle] => carried'[d].stage = "idle"
    BY <1>0 DEF Idle
  <2>3. /\ carried' = [carried EXCEPT ![d].stage = Evidence(carried[d])]
        /\ carried'[d].stage = Evidence(carried[d])
    BY <1>0, <1>2, <2>1, <2>2 DEF ProvePublished, Carry, PutDown, CarriedRows
  <2> QED
    BY <1>0, <2>1, <2>3 DEF Evidence, CarriedRows
<1>3. CASE \/ \E q \in Runs, h \in Generations : TakeRow(d, q, h)
           \/ Publish(d) \/ PublishThrows(d) \/ SettleRow(d) \/ AbandonRow(d)
  <2>1. ~ \E q \in Runs, h \in Generations : TakeRow(d, q, h)
    BY <1>0 DEF TakeRow
  <2>2. ~(SettleRow(d) \/ AbandonRow(d))
    BY <1>0 DEF SettleRow, AbandonRow, PutDown, Idle
  <2>3. CASE Publish(d) \/ PublishThrows(d)
    <3>1. carried[d] \in CarriedRows
      BY <2>3, CarriedTyped DEF Publish, PublishThrows
    <3> QED
      BY <1>0, <2>3, <3>1 DEF Publish, PublishThrows, Carry, CarriedRows
  <2> QED
    BY <1>3, <2>1, <2>2, <2>3
<1>4. ASSUME NEW w \in Workers, WorkerActs(w) PROVE carried' = carried
  BY <1>4 DEF WorkerActs, Deliver, ClaimDelivery, Renew, Evaluates, Publishes,
     FailsToEvaluate, ReturnDelivery
<1>5. ASSUME NEW r \in Runs, NEW g \in Generations, RedisActs(r, g) \/ LoseJob(r, g)
      PROVE  carried' = carried
  BY <1>5 DEF RedisActs, DelayEnds, Stall, LateAdd, LoseJob
<1> QED
  BY <1>1, <1>2, <1>3, <1>4, <1>5 DEF DispatchNext, DispatcherActs, Sweep, Outside, Breaks,
     HandlerThrows, CrashWorker, transport, allvars

\* A confirmed row was published, whatever failed or was lost on the way.
THEOREM Published == DispatchSpec => []ConfirmedWasPublished
<1>1. DispatchInit => PublicationAgrees
  BY DEF DispatchInit, Init, PublicationAgrees, ConfirmedWasPublished, Present, NoJob, NoOutbox, Idle
<1>2. DispatchTypeOK /\ PublicationAgrees /\ [DispatchNext]_allvars => PublicationAgrees'
  <2> SUFFICES ASSUME DispatchTypeOK, PublicationAgrees, [DispatchNext]_allvars
               PROVE  PublicationAgrees'
    OBVIOUS
  <2>1. ASSUME NEW r \in Runs, NEW g \in Generations, Present(r, g)'
        PROVE  jobs'[r][g].added
    BY <2>1, AddsAreRemembered DEF PublicationAgrees
  <2>2. ASSUME NEW d \in Dispatchers, carried'[d].stage = "proved"
        PROVE  jobs'[carried'[d].run][carried'[d].generation].added
    <3>1. /\ carried[d].run = carried'[d].run /\ carried[d].generation = carried'[d].generation
          /\ carried[d].stage = "proved" \/ Present(carried[d].run, carried[d].generation)
      BY <2>2, ProofsAreSeen
    <3>2. carried[d] \in CarriedRows
      <4>1. CASE carried[d] = Idle
        BY <2>2, <4>1, ProofsAreSeen DEF Idle
      <4> QED
        BY <4>1 DEF DispatchTypeOK
    <3>3. carried[d].run \in Runs /\ carried[d].generation \in Generations
      BY <3>2 DEF CarriedRows
    <3>4. jobs[carried[d].run][carried[d].generation].added
      BY <3>1, <3>3 DEF PublicationAgrees
    <3> QED
      BY <3>1, <3>3, <3>4, AddsAreRemembered
  <2>3. ASSUME NEW r \in Runs, NEW g \in Generations, outbox'[r][g].status = "dispatched"
        PROVE  jobs'[r][g].added
    BY <2>3, ConfirmersHaveSeen, AddsAreRemembered DEF PublicationAgrees, ConfirmedWasPublished
  <2> QED
    BY <2>1, <2>2, <2>3 DEF PublicationAgrees, ConfirmedWasPublished
<1>3. PublicationAgrees => ConfirmedWasPublished
  BY DEF PublicationAgrees
<1> QED
  BY <1>1, <1>2, <1>3, DispatchTyping, PTL DEF DispatchSpec

-----------------------------------------------------------------------------
(* Deliveries and attempts. *)

\* Attempts are only added, and a lease that is not new is under the dispatch it
\* was given under.
LEMMA LeasesKeepTheirDispatch ==
  ASSUME TypeOK, Agreement, [Next]_vars, NEW r \in Runs
  PROVE  \/ /\ runs'[r].attempt_count = runs[r].attempt_count
            /\ \/ runs'[r].lease_token = 0
               \/ /\ runs'[r].lease_token = runs[r].lease_token
                  /\ Generation(r)' = Generation(r)
         \/ /\ runs'[r].attempt_count = runs[r].attempt_count + 1
            /\ runs'[r].lease_token = runs[r].attempt_count + 1
            /\ Generation(r)' = Generation(r)
<1>0. /\ runs \in [Runs -> RunRows] /\ runs[r] \in RunRows
      /\ RowsAgree(runs[r], attempts[r], outbox[r], results[r])
  BY DEF TypeOK, Agreement
<1>1. ASSUME NEW s, runs' = [runs EXCEPT ![r] = Released(r, s)]
      PROVE  runs'[r].lease_token = 0 /\ runs'[r].attempt_count = runs[r].attempt_count
  BY <1>0, <1>1 DEF Released, RunRows
<1>2. CASE ApiStep(r)
  <2>1. runs[r].state = "absent" => runs[r].lease_token = 0
    BY <1>0 DEF RowsAgree, AuthorityAgrees
  <2>2. CASE CreateRun(r)
    <3>1. runs'[r] = [runs[r] EXCEPT !.state = "queued", !.dispatch_generation = 1,
                                     !.quiet = StaleTicks]
      BY <1>0, <2>2 DEF CreateRun
    <3> QED
      BY <1>0, <2>1, <2>2, <3>1 DEF CreateRun, RunRows
  <2>3. CASE RequestCancel(r)
    BY <1>0, <2>3 DEF RequestCancel, Generation, RunRows
  <2> QED
    BY <1>2, <2>2, <2>3 DEF ApiStep
<1>3. CASE DispatcherStep(r)
  <2>1. CASE runs' = runs
    BY <2>1 DEF Generation
  <2>2. ASSUME NEW force \in BOOLEAN, ReconcileRunDispatch(r, force)
        PROVE  runs'[r].lease_token = 0 /\ runs'[r].attempt_count = runs[r].attempt_count
    <3>1. CASE RecoveryExhausted(r)
      BY <1>1, <2>2, <3>1 DEF ReconcileRunDispatch
    <3>2. CASE ~RecoveryExhausted(r)
      <4>1. runs'[r] = [Released(r, RecoveredState(r)) EXCEPT
                          !.dispatch_generation = Generation(r) + 1, !.quiet = StaleTicks]
        BY <1>0, <2>2, <3>2 DEF ReconcileRunDispatch
      <4> QED
        BY <1>0, <4>1 DEF Released, RunRows
    <3> QED
      BY <3>1, <3>2
  <2> QED
    BY <1>1, <1>3, <2>1, <2>2 DEF DispatcherStep, ClaimDueRunOutbox, ConfirmRunDispatch,
       FailRunDispatch, FinalizeRequestedCancellation, FinalizePoisonedDispatch
<1>4. CASE WorkerStep(r)
  <2>1. ASSUME NEW g \in Generations, ClaimRunExecution(r, g)
        PROVE  /\ runs'[r].attempt_count = runs[r].attempt_count + 1
               /\ runs'[r].lease_token = runs[r].attempt_count + 1
               /\ Generation(r)' = Generation(r)
    BY <1>0, <2>1 DEF ClaimRunExecution, NextAttempt, Generation, RunRows
  <2>2. ASSUME NEW n \in AttemptNumbers, HeartbeatRunExecution(r, n)
        PROVE  /\ runs'[r].attempt_count = runs[r].attempt_count
               /\ runs'[r].lease_token = runs[r].lease_token
               /\ Generation(r)' = Generation(r)
    BY <1>0, <2>2 DEF HeartbeatRunExecution, Generation, RunRows
  <2>3. ASSUME NEW n \in AttemptNumbers, CompleteRunExecution(r, n)
        PROVE  runs'[r].lease_token = 0 /\ runs'[r].attempt_count = runs[r].attempt_count
    BY <1>1, <2>3 DEF CompleteRunExecution, CancelAtCheckpoint, CloseAttempt
  <2>4. ASSUME NEW n \in AttemptNumbers, NEW retryable \in BOOLEAN,
               FailRunExecution(r, n, retryable)
        PROVE  runs'[r].lease_token = 0 /\ runs'[r].attempt_count = runs[r].attempt_count
    BY <1>1, <2>4 DEF FailRunExecution, CancelAtCheckpoint, CloseAttempt
  <2> QED
    BY <1>4, <2>1, <2>2, <2>3, <2>4 DEF WorkerStep
<1>5. CASE Tick
  BY <1>0, <1>5 DEF Tick, Generation, RunRows
<1> QED
  BY <1>2, <1>3, <1>4, <1>5, SeenFromRun DEF RunStep, Generation

\* A delivery keeps its dispatch, and its attempt is drawn by its own claim.
LEMMA DeliveriesKeepTheirAttempt ==
  ASSUME DispatchTypeOK, [DispatchNext]_allvars, NEW w \in Workers, deliveries'[w] # Idle
  PROVE  \/ /\ deliveries[w] # Idle
            /\ deliveries'[w].run = deliveries[w].run
            /\ deliveries'[w].generation = deliveries[w].generation
            /\ \/ deliveries'[w].attempt = deliveries[w].attempt
               \/ /\ ClaimRunExecution(deliveries[w].run, deliveries[w].generation)
                  /\ deliveries'[w].attempt = runs'[deliveries[w].run].lease_token
                  /\ \A v \in Workers : v # w => deliveries'[v] = deliveries[v]
         \/ deliveries'[w].attempt = 0
<1>0. deliveries \in [Workers -> {Idle} \cup DeliveryRows]
  BY DEF DispatchTypeOK
<1>1. ASSUME NEW v \in Workers, WorkerActs(v) \/ HandlerThrows(v) \/ CrashWorker(v), v # w
      PROVE  deliveries'[w] = deliveries[w]
  BY <1>0, <1>1 DEF WorkerActs, Deliver, ClaimDelivery, Renew, Evaluates, Publishes,
     FailsToEvaluate, ReturnDelivery, HandlerThrows, CrashWorker, Turn, Finish
<1>2. ASSUME NEW stage, Turn(w, stage), deliveries[w].stage # "idle"
      PROVE  /\ deliveries[w] # Idle
             /\ deliveries'[w].run = deliveries[w].run
             /\ deliveries'[w].generation = deliveries[w].generation
             /\ deliveries'[w].attempt = deliveries[w].attempt
  <2>1. deliveries[w] \in DeliveryRows
    BY <1>2, DeliveryTyped
  <2>2. deliveries[w] # Idle
    BY <1>2 DEF Idle
  <2> QED
    BY <1>0, <1>2, <2>1, <2>2 DEF Turn, DeliveryRows
<1>3. ASSUME NEW r \in Runs, NEW g \in Generations, Deliver(w, r, g)
      PROVE  deliveries'[w].attempt = 0
  BY <1>0, <1>3 DEF Deliver
<1>4. CASE ClaimDelivery(w)
  <2>1. CASE deliveries' = [deliveries EXCEPT ![w] =
               [@ EXCEPT !.stage = "claimed", !.attempt = runs'[deliveries[w].run].lease_token]]
             /\ ClaimRunExecution(deliveries[w].run, deliveries[w].generation)
    <3>1. deliveries[w] \in DeliveryRows /\ deliveries[w] # Idle
      BY <1>4, DeliveryTyped DEF ClaimDelivery, Idle
    <3> QED
      BY <1>0, <2>1, <3>1 DEF DeliveryRows
  <2>2. CASE Turn(w, "deferring") \/ Turn(w, "returning")
    BY <1>2, <1>4, <2>2 DEF ClaimDelivery
  <2> QED
    BY <1>4, <2>1, <2>2 DEF ClaimDelivery
<1>5. CASE Renew(w) \/ Evaluates(w) \/ HandlerThrows(w)
  BY <1>2, <1>5 DEF Renew, Evaluates, Publishes, FailsToEvaluate, HandlerThrows
<1>6. ~(ReturnDelivery(w) \/ CrashWorker(w))
  BY <1>0 DEF ReturnDelivery, CrashWorker, Finish
<1>7. CASE deliveries'[w] = deliveries[w]
  BY <1>7
<1>8. ASSUME NEW r \in Runs, NEW g \in Generations, RedisActs(r, g) \/ LoseJob(r, g)
      PROVE  deliveries' = deliveries
  BY <1>8 DEF RedisActs, DelayEnds, Stall, LateAdd, LoseJob
<1>9. ASSUME NEW d \in Dispatchers, DispatcherActs(d) \/ PublishThrows(d) \/ AbandonRow(d)
      PROVE  deliveries' = deliveries
  BY <1>9 DEF DispatcherActs, TakeRow, Publish, ProvePublished, SettleRow, PublishThrows, AbandonRow
<1> QED
  BY <1>1, <1>3, <1>4, <1>5, <1>6, <1>7, <1>8, <1>9 DEF DispatchNext, WorkerActs, Sweep,
     Outside, Breaks, transport, allvars

\* Every delivery has an attempt of its own, the current one under its dispatch.
LEMMA DispatchNextAgrees ==
  ASSUME DispatchTypeOK, Agreement, DeliveriesAgree, [DispatchNext]_allvars
  PROVE  DeliveriesAgree'
<1>0. /\ TypeOK /\ [Next]_vars
      /\ runs \in [Runs -> RunRows]
      /\ deliveries \in [Workers -> {Idle} \cup DeliveryRows]
      /\ DispatchTypeOK'
  BY TablesStep, DispatchNextTyped DEF DispatchTypeOK, TypeOK
<1>1. /\ runs' \in [Runs -> RunRows]
      /\ deliveries' \in [Workers -> {Idle} \cup DeliveryRows]
  BY <1>0 DEF DispatchTypeOK, TypeOK
<1>2. ASSUME NEW w \in Workers, deliveries'[w] # Idle
      PROVE  /\ deliveries'[w].attempt <= runs'[deliveries'[w].run].attempt_count
             /\ (deliveries'[w].attempt # 0
                   /\ runs'[deliveries'[w].run].lease_token = deliveries'[w].attempt)
                  => deliveries'[w].generation = runs'[deliveries'[w].run].dispatch_generation
  <2>0. PICK r \in Runs : r = deliveries'[w].run
    BY <1>1, <1>2 DEF DeliveryRows
  <2>1. deliveries'[w].attempt \in Nat
    BY <1>1, <1>2 DEF DeliveryRows
  <2>2. /\ runs[r].attempt_count \in Nat /\ runs'[r].attempt_count \in Nat
        /\ runs[r].lease_token \in Nat /\ runs'[r].lease_token \in Nat
    BY <1>0, <1>1 DEF RunRows
  <2>3. CASE deliveries'[w].attempt = 0
    BY <2>0, <2>2, <2>3
  <2>4. CASE /\ deliveries[w] # Idle /\ deliveries[w].run = r
             /\ deliveries'[w].generation = deliveries[w].generation
             /\ deliveries'[w].attempt = deliveries[w].attempt
    <3>1. /\ deliveries'[w].attempt <= runs[r].attempt_count
          /\ (deliveries'[w].attempt # 0 /\ runs[r].lease_token = deliveries'[w].attempt)
               => deliveries'[w].generation = Generation(r)
      BY <2>4 DEF DeliveriesAgree
    <3> QED
      BY <1>0, <2>0, <2>1, <2>2, <2>4, <3>1, LeasesKeepTheirDispatch DEF Generation
  <2>5. CASE /\ deliveries[w] # Idle /\ deliveries[w].run = r
             /\ deliveries'[w].generation = deliveries[w].generation
             /\ ClaimRunExecution(deliveries[w].run, deliveries[w].generation)
             /\ deliveries'[w].attempt = runs'[r].lease_token
    <3>1. /\ runs'[r].attempt_count = runs'[r].lease_token
          /\ runs'[r].dispatch_generation = runs[r].dispatch_generation
          /\ deliveries'[w].generation = runs[r].dispatch_generation
      BY <1>0, <2>5 DEF ClaimRunExecution, ClaimStatus, NextAttempt, Generation, RunRows
    <3> QED
      BY <2>0, <2>2, <2>5, <3>1 DEF Generation
  <2> QED
    BY <1>2, <2>0, <2>3, <2>4, <2>5, DeliveriesKeepTheirAttempt
<1>3. ASSUME NEW v \in Workers, NEW w \in Workers, v # w, deliveries'[v] # Idle,
             deliveries'[w] # Idle, deliveries'[v].run = deliveries'[w].run,
             deliveries'[v].attempt # 0
      PROVE  deliveries'[v].attempt # deliveries'[w].attempt
  <2>1. ASSUME NEW x \in Workers, NEW y \in Workers, x # y, deliveries[y] # Idle,
               deliveries[x].run = deliveries[y].run, deliveries[x] # Idle,
               ClaimRunExecution(deliveries[x].run, deliveries[x].generation)
        PROVE  runs'[deliveries[x].run].lease_token # deliveries[y].attempt
    <3> DEFINE r == deliveries[x].run
    <3>1. /\ r \in Runs /\ deliveries[y].attempt \in Nat
      BY <1>0, <2>1 DEF DeliveryRows
    <3>2. runs'[r].lease_token = runs[r].attempt_count + 1 /\ runs[r].attempt_count \in Nat
      BY <1>0, <2>1, <3>1 DEF ClaimRunExecution, NextAttempt, RunRows
    <3>3. deliveries[y].attempt <= runs[r].attempt_count
      BY <2>1 DEF DeliveriesAgree
    <3> QED
      BY <3>1, <3>2, <3>3
  <2>2. CASE deliveries'[w].attempt = 0
    BY <1>3, <2>2
  <2>3. CASE /\ deliveries[v] # Idle /\ deliveries[v].run = deliveries'[v].run
             /\ deliveries[w] # Idle /\ deliveries[w].run = deliveries'[w].run
             /\ deliveries[v].attempt = deliveries'[v].attempt
             /\ deliveries[w].attempt = deliveries'[w].attempt
    BY <1>3, <2>3 DEF DeliveriesAgree, AttemptHasOneWorker
  <2>4. CASE /\ deliveries[v] # Idle /\ deliveries[v].run = deliveries'[v].run
             /\ ClaimRunExecution(deliveries[v].run, deliveries[v].generation)
             /\ deliveries'[v].attempt = runs'[deliveries[v].run].lease_token
             /\ deliveries'[w] = deliveries[w]
    BY <1>3, <2>1, <2>4
  <2>5. CASE /\ deliveries[w] # Idle /\ deliveries[w].run = deliveries'[w].run
             /\ ClaimRunExecution(deliveries[w].run, deliveries[w].generation)
             /\ deliveries'[w].attempt = runs'[deliveries[w].run].lease_token
             /\ deliveries'[v] = deliveries[v]
    BY <1>3, <2>1, <2>5
  <2> QED
    BY <1>3, <2>2, <2>3, <2>4, <2>5, DeliveriesKeepTheirAttempt
<1> QED
  BY <1>2, <1>3 DEF DeliveriesAgree, AttemptHasOneWorker, Generation

\* What workers hold agrees with the tables in every reachable state.
THEOREM DeliveriesAgreeing == DispatchSpec => [](DispatchTypeOK /\ Agreement /\ DeliveriesAgree)
<1>1. DispatchInit => DeliveriesAgree
  BY DEF DispatchInit, DeliveriesAgree, AttemptHasOneWorker
<1> QED
  BY <1>1, DispatchNextAgrees, DispatchTyping, PTL DEF DispatchSpec

\* No two deliveries carry the same attempt.
THEOREM SeparateAttempts == DispatchSpec => []AttemptHasOneWorker
<1>1. DeliveriesAgree => AttemptHasOneWorker
  BY DEF DeliveriesAgree
<1> QED
  BY <1>1, DeliveriesAgreeing, PTL

\* A worker with authority works under the current dispatch.
THEOREM CurrentAuthority == DispatchSpec => []AuthorityIsCurrent
<1>1. DispatchTypeOK /\ Agreement /\ DeliveriesAgree => AuthorityIsCurrent
  <2> SUFFICES ASSUME DispatchTypeOK, Agreement, DeliveriesAgree, NEW w \in Workers,
                      deliveries[w] # Idle, HoldsAuthority(deliveries[w].run, deliveries[w].attempt)
               PROVE  deliveries[w].generation = Generation(deliveries[w].run)
    BY DEF AuthorityIsCurrent
  <2>1. /\ TypeOK /\ deliveries[w].run \in Runs /\ deliveries[w].attempt \in 0..MaxAttempts
    BY DEF DispatchTypeOK, DeliveryRows
  <2>2. deliveries[w].attempt # 0
    BY <2>1, AttemptMade DEF AttemptNumbers
  <2> QED
    BY <2>2 DEF DeliveriesAgree, HoldsAuthority
<1> QED
  BY <1>1, DeliveriesAgreeing, PTL

\* The delivery of a replaced dispatch changes no table.
THEOREM Inert == DispatchSpec => StaleDeliveryIsInert
<1>1. DispatchTypeOK /\ Agreement /\ DeliveriesAgree /\ [DispatchNext]_allvars =>
        \A w \in Workers :
          ( /\ deliveries[w] # Idle /\ deliveries'[w] # deliveries[w]
            /\ deliveries[w].generation # Generation(deliveries[w].run) )
             => UNCHANGED tables
  <2> SUFFICES ASSUME DispatchTypeOK, Agreement, DeliveriesAgree, [DispatchNext]_allvars,
                      NEW w \in Workers, deliveries[w] # Idle, deliveries'[w] # deliveries[w],
                      deliveries[w].generation # Generation(deliveries[w].run)
               PROVE  UNCHANGED tables
    OBVIOUS
  <2>0. deliveries \in [Workers -> {Idle} \cup DeliveryRows]
    BY DEF DispatchTypeOK
  <2>1. ~HoldsAuthority(deliveries[w].run, deliveries[w].attempt)
    <3>1. /\ TypeOK /\ deliveries[w].run \in Runs /\ deliveries[w].attempt \in 0..MaxAttempts
      BY DEF DispatchTypeOK, DeliveryRows
    <3> QED
      BY <3>1, AttemptMade DEF AttemptNumbers, DeliveriesAgree, HoldsAuthority
  <2>2. ~ClaimRunExecution(deliveries[w].run, deliveries[w].generation)
    BY DEF ClaimRunExecution, ClaimStatus
  <2>3. ASSUME NEW v \in Workers, WorkerActs(v), v # w PROVE FALSE
    BY <2>0, <2>3 DEF WorkerActs, Deliver, ClaimDelivery, Renew, Evaluates, Publishes,
       FailsToEvaluate, ReturnDelivery, Turn, Finish
  <2>4. CASE WorkerActs(w)
    BY <2>1, <2>2, <2>4 DEF WorkerActs, Deliver, ClaimDelivery, Renew, HeartbeatRunExecution,
       Evaluates, Publishes, CompleteRunExecution, FailsToEvaluate, FailRunExecution, ReturnDelivery
  <2>5. ASSUME NEW r \in Runs, NEW g \in Generations, RedisActs(r, g) PROVE FALSE
    BY <2>5 DEF RedisActs, DelayEnds, Stall, LateAdd
  <2>6. ASSUME NEW d \in Dispatchers, DispatcherActs(d) PROVE FALSE
    BY <2>6 DEF DispatcherActs, TakeRow, Publish, ProvePublished, SettleRow
  <2>7. CASE Breaks
    BY <2>7 DEF Breaks, PublishThrows, AbandonRow, HandlerThrows, CrashWorker, LoseJob
  <2> QED
    BY <2>3, <2>4, <2>5, <2>6, <2>7 DEF DispatchNext, Sweep, Outside, transport, allvars
<1> QED
  BY <1>1, DeliveriesAgreeing, PTL DEF DispatchSpec, StaleDeliveryIsInert

-----------------------------------------------------------------------------
(* Deliveries and their number. *)

\* The allowance of a run never shrinks: a fault adds to it, and so does an
\* attempt.
LEMMA AllowanceGrows ==
  ASSUME DispatchTypeOK, Agreement, [DispatchNext]_allvars, NEW r \in Runs
  PROVE  /\ Allowance(r) \in Nat /\ Allowance(r)' \in Nat
         /\ CapacityTries <= Allowance(r)
         /\ Allowance(r) <= Allowance(r)'
         /\ Fault => Allowance(r) + 1 <= Allowance(r)'
         /\ runs'[r].attempt_count = runs[r].attempt_count + 1 => Allowance(r) + 1 <= Allowance(r)'
<1>1. /\ TypeOK /\ TypeOK' /\ [Next]_vars
      /\ faults \in Nat /\ faults' \in Nat /\ CapacityTries \in Nat
  BY TablesStep, DispatchNextTyped, TriesAssumption DEF DispatchTypeOK
<1>2. runs[r].attempt_count \in Nat /\ runs'[r].attempt_count \in Nat
  BY <1>1 DEF TypeOK, RunRows
<1>3. \/ runs'[r].attempt_count = runs[r].attempt_count
      \/ runs'[r].attempt_count = runs[r].attempt_count + 1
  BY <1>1, LeasesKeepTheirDispatch
<1>4. faults' = faults \/ faults' = faults + 1
  BY FaultsCounted DEF Fault
<1>5. Fault => faults' = faults + 1
  BY DEF Fault
<1> QED
  BY <1>1, <1>2, <1>3, <1>4, <1>5 DEF Allowance

\* A job that is to be delivered has had no more deliveries than its run is
\* allowed, and only a delivery makes it active.
LEMMA JobsKeepTheirTries ==
  ASSUME DispatchTypeOK, Agreement, TriesAgree, [DispatchNext]_allvars,
         NEW r \in Runs, NEW g \in Generations
  PROVE  \/ jobs'[r][g].place = jobs[r][g].place /\ jobs'[r][g].tries = jobs[r][g].tries
         \/ jobs'[r][g].place \in {"absent", "finished"}
         \/ jobs'[r][g].place \in {"waiting", "delayed"} /\ jobs'[r][g].tries <= Allowance(r)'
         \/ \E w \in Workers : Deliver(w, r, g)
<1> DEFINE Goal == \/ jobs'[r][g].place = jobs[r][g].place /\ jobs'[r][g].tries = jobs[r][g].tries
                   \/ jobs'[r][g].place \in {"absent", "finished"}
                   \/ jobs'[r][g].place \in {"waiting", "delayed"} /\ jobs'[r][g].tries <= Allowance(r)'
                   \/ \E w \in Workers : Deliver(w, r, g)
<1>0. /\ jobs \in [Runs -> [Generations -> JobRows]]
      /\ jobs[r][g] \in JobRows /\ jobs[r][g].tries \in Nat
  BY DEF DispatchTypeOK, JobRows
<1>1. /\ Allowance(r) \in Nat /\ Allowance(r)' \in Nat /\ Allowance(r) <= Allowance(r)'
      /\ Fault => Allowance(r) + 1 <= Allowance(r)'
  BY AllowanceGrows
<1>2. CASE jobs' = jobs
  BY <1>2
<1>3. ASSUME jobs'[r][g] = Added(jobs[r][g]) \/ jobs'[r][g] = [Added(jobs[r][g]) EXCEPT !.late = FALSE]
      PROVE  Goal
  <2>1. CASE jobs[r][g].place = "absent"
    <3>1. jobs'[r][g].place = "waiting" /\ jobs'[r][g].tries = 0
      BY <1>0, <1>3, <2>1 DEF Added, JobRows
    <3> QED
      BY <1>1, <3>1
  <2>2. CASE jobs[r][g].place # "absent"
    BY <1>0, <1>3, <2>2 DEF Added, JobRows
  <2> QED
    BY <2>1, <2>2
<1>4. ASSUME NEW d \in Dispatchers, DispatcherActs(d) \/ PublishThrows(d)
      PROVE  Goal
  <2>1. CASE jobs' = [jobs EXCEPT ![carried[d].run][carried[d].generation] = Added(@)]
    <3>1. jobs'[r][g] = jobs[r][g] \/ jobs'[r][g] = Added(jobs[r][g])
      BY <1>0, <2>1
    <3> QED
      BY <1>3, <3>1
  <2>2. CASE jobs' = [jobs EXCEPT ![carried[d].run][carried[d].generation].late = TRUE]
    <3>1. jobs'[r] = [jobs[r] EXCEPT ![carried[d].generation].late = TRUE] \/ jobs'[r] = jobs[r]
      BY <1>0, <2>2
    <3>2. jobs'[r][g] = jobs[r][g] \/ jobs'[r][g] = [jobs[r][g] EXCEPT !.late = TRUE]
      BY <1>0, <3>1
    <3> QED
      BY <1>0, <3>2 DEF JobRows
  <2> QED
    BY <1>2, <1>4, <2>1, <2>2 DEF DispatcherActs, TakeRow, Publish, PublishThrows,
       ProvePublished, SettleRow
<1>5. ASSUME NEW w \in Workers, NEW q \in Runs, NEW h \in Generations, Deliver(w, q, h)
      PROVE  Goal
  <2>1. CASE q = r /\ h = g
    BY <1>5, <2>1
  <2>2. CASE ~(q = r /\ h = g)
    <3>1. jobs' = [jobs EXCEPT ![q][h] = Delivered(@)]
      BY <1>5 DEF Deliver
    <3>2. jobs'[r][g] = jobs[r][g]
      BY <1>0, <2>2, <3>1
    <3> QED
      BY <3>2
  <2> QED
    BY <2>1, <2>2
<1>6. ASSUME NEW w \in Workers, ReturnDelivery(w)
      PROVE  Goal
  <2> DEFINE e == deliveries[w]
  <2>1. e \in DeliveryRows
    BY <1>6, DeliveryTyped DEF ReturnDelivery
  <2>2. e.run \in Runs /\ e.generation \in Generations
    BY <2>1 DEF DeliveryRows
  <2>3. CASE Locked(e.run, e.generation, e.try) /\ e.run = r /\ e.generation = g
    <3>1. jobs[r][g].tries = e.try
      BY <2>3 DEF Locked
    <3>2. CASE e.stage = "deferring"
      <4>1. jobs' = [jobs EXCEPT ![r][g].place = "delayed"]
        BY <1>6, <2>3, <3>2 DEF ReturnDelivery, MoveJob
      <4>2. jobs'[r][g].place = "delayed" /\ jobs'[r][g].tries = jobs[r][g].tries
        BY <1>0, <4>1 DEF JobRows
      <4>3. e.try <= Allowance(r)
        BY <2>3, <3>2 DEF TriesAgree, JobWithinAllowance, DeliveryWithinAllowance
      <4> QED
        BY <1>0, <1>1, <3>1, <4>2, <4>3
    <3>3. CASE e.stage = "returning"
      <4>1. jobs' = [jobs EXCEPT ![r][g].place = "finished"]
        BY <1>6, <2>3, <3>3 DEF ReturnDelivery, MoveJob
      <4> QED
        BY <1>0, <4>1 DEF JobRows
    <3> QED
      BY <1>6, <3>2, <3>3 DEF ReturnDelivery
  <2>4. CASE ~(Locked(e.run, e.generation, e.try) /\ e.run = r /\ e.generation = g)
    <3>1. jobs'[r][g] = jobs[r][g]
      BY <1>0, <1>6, <2>2, <2>4 DEF ReturnDelivery, MoveJob
    <3> QED
      BY <3>1
  <2> QED
    BY <2>3, <2>4
<1>7. ASSUME NEW w \in Workers, WorkerActs(w)
      PROVE  Goal
  BY <1>2, <1>5, <1>6, <1>7 DEF WorkerActs, ClaimDelivery, Renew, Evaluates, Publishes,
     FailsToEvaluate
<1>8. ASSUME NEW q \in Runs, NEW h \in Generations, RedisActs(q, h) \/ LoseJob(q, h)
      PROVE  Goal
  <2>1. CASE ~(q = r /\ h = g)
    <3>1. jobs'[r][g] = jobs[r][g]
      BY <1>0, <1>8, <2>1 DEF RedisActs, DelayEnds, Stall, LateAdd, LoseJob
    <3> QED
      BY <3>1
  <2>2. CASE q = r /\ h = g /\ LoseJob(r, g)
    BY <1>0, <2>2 DEF LoseJob, JobRows
  <2>3. CASE q = r /\ h = g /\ DelayEnds(r, g)
    <3>1. jobs'[r][g].place = "waiting" /\ jobs'[r][g].tries = jobs[r][g].tries
      BY <1>0, <2>3 DEF DelayEnds, JobRows
    <3>2. jobs[r][g].tries <= Allowance(r)
      BY <2>3 DEF DelayEnds, TriesAgree, JobWithinAllowance
    <3> QED
      BY <1>0, <1>1, <3>1, <3>2
  <2>4. CASE q = r /\ h = g /\ LateAdd(r, g)
    <3>1. jobs'[r][g] = [Added(jobs[r][g]) EXCEPT !.late = FALSE]
      BY <1>0, <2>4 DEF LateAdd
    <3> QED
      BY <1>3, <3>1
  <2>5. CASE q = r /\ h = g /\ Stall(r, g)
    <3>1. jobs'[r][g] = Stalled(jobs[r][g])
      BY <1>0, <2>5 DEF Stall
    <3>2. /\ jobs'[r][g].place = "waiting" \/ jobs'[r][g].place = "finished"
          /\ jobs'[r][g].tries = jobs[r][g].tries
      BY <1>0, <3>1 DEF Stalled, JobRows
    <3>3. /\ jobs[r][g].tries <= Allowance(r) + 1
          /\ AtWork(r, g) \/ jobs[r][g].tries <= Allowance(r)
      BY <2>5 DEF Stall, TriesAgree, JobWithinAllowance
    <3>4. AtWork(r, g) => Fault
      BY <2>5 DEF Stall
    <3>5. jobs[r][g].tries <= Allowance(r)'
      BY <1>0, <1>1, <3>3, <3>4
    <3> QED
      BY <3>2, <3>5
  <2> QED
    BY <1>8, <2>1, <2>2, <2>3, <2>4, <2>5 DEF RedisActs
<1> QED
  BY <1>2, <1>4, <1>5, <1>7, <1>8 DEF DispatchNext, Sweep, Outside, Breaks, AbandonRow,
     HandlerThrows, CrashWorker, transport, allvars

\* What a step may make of the delivery of one worker.
LEMMA DeliveryMoves ==
  ASSUME DispatchTypeOK, [DispatchNext]_allvars, NEW w \in Workers
  PROVE  \/ deliveries'[w] = deliveries[w]
         \/ WorkerActs(w)
         \/ HandlerThrows(w)
         \/ CrashWorker(w)
<1>0. deliveries \in [Workers -> {Idle} \cup DeliveryRows]
  BY DEF DispatchTypeOK
<1>1. ASSUME NEW v \in Workers, WorkerActs(v) \/ HandlerThrows(v) \/ CrashWorker(v), v # w
      PROVE  deliveries'[w] = deliveries[w]
  BY <1>0, <1>1 DEF WorkerActs, Deliver, ClaimDelivery, Renew, Evaluates, Publishes,
     FailsToEvaluate, ReturnDelivery, HandlerThrows, CrashWorker, Turn, Finish
<1>2. ASSUME NEW r \in Runs, NEW g \in Generations, RedisActs(r, g) \/ LoseJob(r, g)
      PROVE  deliveries' = deliveries
  BY <1>2 DEF RedisActs, DelayEnds, Stall, LateAdd, LoseJob
<1>3. ASSUME NEW d \in Dispatchers, DispatcherActs(d) \/ PublishThrows(d) \/ AbandonRow(d)
      PROVE  deliveries' = deliveries
  BY <1>3 DEF DispatcherActs, TakeRow, Publish, ProvePublished, SettleRow, PublishThrows, AbandonRow
<1> QED
  BY <1>1, <1>2, <1>3 DEF DispatchNext, Sweep, Outside, Breaks, transport, allvars

\* A worker that turns to another stage keeps its delivery.
LEMMA TurnedDelivery ==
  ASSUME DispatchTypeOK, NEW w \in Workers, NEW stage, Turn(w, stage),
         deliveries[w].stage # "idle", stage # "idle"
  PROVE  /\ deliveries'[w] # Idle
         /\ deliveries'[w].stage = stage
         /\ deliveries'[w].run = deliveries[w].run
         /\ deliveries'[w].generation = deliveries[w].generation
         /\ deliveries'[w].try = deliveries[w].try
<1>1. deliveries[w] \in DeliveryRows /\ deliveries \in [Workers -> {Idle} \cup DeliveryRows]
  BY DeliveryTyped DEF DispatchTypeOK
<1> QED
  BY <1>1 DEF Turn, DeliveryRows, Idle

\* A claim gives the delivery its attempt and leaves the rest.
LEMMA ClaimedDelivery ==
  ASSUME DispatchTypeOK, NEW w \in Workers, NEW n, deliveries[w].stage # "idle",
         deliveries' = [deliveries EXCEPT ![w] = [@ EXCEPT !.stage = "claimed", !.attempt = n]]
  PROVE  /\ deliveries'[w] # Idle
         /\ deliveries'[w].stage = "claimed"
         /\ deliveries'[w].run = deliveries[w].run
         /\ deliveries'[w].generation = deliveries[w].generation
         /\ deliveries'[w].try = deliveries[w].try
<1>1. deliveries[w] \in DeliveryRows /\ deliveries \in [Workers -> {Idle} \cup DeliveryRows]
  BY DeliveryTyped DEF DispatchTypeOK
<1> QED
  BY <1>1 DEF DeliveryRows, Idle

\* A worker keeps its delivery until it returns it or is gone.
LEMMA WorkersStayAtWork ==
  ASSUME DispatchTypeOK, [DispatchNext]_allvars, NEW w \in Workers, deliveries[w] # Idle
  PROVE  \/ /\ deliveries'[w] # Idle
            /\ deliveries'[w].run = deliveries[w].run
            /\ deliveries'[w].generation = deliveries[w].generation
            /\ deliveries'[w].try = deliveries[w].try
         \/ ReturnDelivery(w)
         \/ Fault
<1>0. deliveries[w].stage # "idle"
  BY DEF DispatchTypeOK, DeliveryRows
<1>1. ASSUME NEW stage \in {"evaluating", "deferring", "returning"}, Turn(w, stage)
      PROVE  /\ deliveries'[w] # Idle
             /\ deliveries'[w].run = deliveries[w].run
             /\ deliveries'[w].generation = deliveries[w].generation
             /\ deliveries'[w].try = deliveries[w].try
  BY <1>0, <1>1, TurnedDelivery
<1>2. CASE CrashWorker(w) \/ HandlerThrows(w)
  BY <1>2 DEF CrashWorker, HandlerThrows
<1>3. ~ \E r \in Runs, g \in Generations : Deliver(w, r, g)
  BY DEF Deliver
<1>4. CASE ClaimDelivery(w)
  <2>1. CASE deliveries' = [deliveries EXCEPT ![w] =
               [@ EXCEPT !.stage = "claimed", !.attempt = runs'[deliveries[w].run].lease_token]]
    BY <1>0, <2>1, ClaimedDelivery
  <2>2. CASE Turn(w, "deferring") \/ Turn(w, "returning")
    BY <1>1, <2>2
  <2> QED
    BY <1>4, <2>1, <2>2 DEF ClaimDelivery
<1>5. CASE Renew(w) \/ Evaluates(w)
  BY <1>1, <1>5 DEF Renew, Evaluates, Publishes, FailsToEvaluate
<1>6. CASE deliveries'[w] = deliveries[w]
  BY <1>6
<1> QED
  BY <1>2, <1>3, <1>4, <1>5, <1>6, DeliveryMoves DEF WorkerActs

\* A delivery's number stays within what its run is allowed: it is deferred only
\* below a limit, or after an attempt of its own, and that attempt counts.
LEMMA DeliveriesKeepTheirTries ==
  ASSUME DispatchTypeOK, Agreement, TriesAgree, [DispatchNext]_allvars, NEW w \in Workers
  PROVE  DeliveryWithinAllowance(w)'
<1> DEFINE e == deliveries[w]
           Goal == DeliveryWithinAllowance(w)'
<1>0. /\ deliveries \in [Workers -> {Idle} \cup DeliveryRows]
      /\ jobs \in [Runs -> [Generations -> JobRows]]
      /\ TypeOK /\ [Next]_vars
  BY TablesStep DEF DispatchTypeOK
<1>1. /\ e.stage = "delivered" => e.try <= Allowance(e.run) + 1
      /\ e.stage \in {"claimed", "evaluating", "deferring"} => e.try <= Allowance(e.run)
  BY DEF TriesAgree, JobWithinAllowance, DeliveryWithinAllowance
<1>2. ASSUME NEW r \in Runs
      PROVE  /\ Allowance(r) \in Nat /\ Allowance(r)' \in Nat /\ Allowance(r) <= Allowance(r)'
             /\ CapacityTries <= Allowance(r)
             /\ runs'[r].attempt_count = runs[r].attempt_count + 1
                  => Allowance(r) + 1 <= Allowance(r)'
  BY AllowanceGrows
<1>3. e.stage # "idle" => e.run \in Runs /\ e.try \in Nat /\ e.generation \in Generations
  BY DeliveryTyped DEF DeliveryRows
<1>4. ASSUME deliveries'[w].stage \notin {"delivered", "claimed", "evaluating", "deferring"}
      PROVE  Goal
  BY <1>4 DEF DeliveryWithinAllowance
<1>5. ASSUME NEW r \in Runs, deliveries'[w].run = r,
              \/ deliveries'[w].stage = "delivered" /\ deliveries'[w].try <= Allowance(r)' + 1
              \/ /\ deliveries'[w].stage \in {"claimed", "evaluating", "deferring"}
                 /\ deliveries'[w].try <= Allowance(r)'
       PROVE  Goal
  BY <1>5 DEF DeliveryWithinAllowance, Allowance
<1>6. ASSUME Turn(w, "returning"), e.stage # "idle" PROVE Goal
  BY <1>4, <1>6, TurnedDelivery
<1>7. ASSUME NEW stage \in {"evaluating", "deferring"}, Turn(w, stage),
             e.stage \in {"claimed", "evaluating"}
      PROVE  Goal
  <2>1. deliveries'[w].stage = stage /\ deliveries'[w].run = e.run /\ deliveries'[w].try = e.try
    BY <1>7, TurnedDelivery
  <2>2. PICK r \in Runs : r = e.run
    BY <1>3, <1>7
  <2>3. e.try <= Allowance(r)'
    BY <1>1, <1>2, <1>3, <1>7, <2>2
  <2> QED
    BY <1>7, <1>5, <2>1, <2>2, <2>3
<1>8. ASSUME NEW r \in Runs, NEW g \in Generations, Deliver(w, r, g) PROVE Goal
  <2>1. /\ deliveries'[w].stage = "delivered" /\ deliveries'[w].run = r
        /\ deliveries'[w].try = jobs[r][g].tries + 1
    BY <1>0, <1>8 DEF Deliver
  <2>2. jobs[r][g].tries <= Allowance(r) /\ jobs[r][g].tries \in Nat
    BY <1>0, <1>8 DEF Deliver, TriesAgree, JobWithinAllowance, JobRows
  <2>3. jobs[r][g].tries + 1 <= Allowance(r)' + 1
    BY <1>2, <2>2
  <2> QED
    BY <1>5, <2>1, <2>3
<1>9. CASE ClaimDelivery(w)
  <2>0. /\ e.stage = "delivered" /\ e.run \in Runs /\ e.try \in Nat /\ e.generation \in Generations
        /\ e.try <= Allowance(e.run) + 1
    BY <1>1, <1>3, <1>9 DEF ClaimDelivery
  <2> PICK r \in Runs : r = e.run
    BY <2>0
  <2>1. CASE /\ ClaimRunExecution(e.run, e.generation)
             /\ deliveries' = [deliveries EXCEPT ![w] =
                  [@ EXCEPT !.stage = "claimed", !.attempt = runs'[e.run].lease_token]]
    <3>1. deliveries'[w].stage = "claimed" /\ deliveries'[w].run = e.run /\ deliveries'[w].try = e.try
      BY <2>0, <2>1, ClaimedDelivery
    <3>2. runs'[r].attempt_count = runs[r].attempt_count + 1
      BY <1>0, <2>0, <2>1 DEF ClaimRunExecution, NextAttempt, TypeOK, RunRows
    <3>3. e.try <= Allowance(r)'
      BY <1>2, <2>0, <3>2
    <3> QED
      BY <1>5, <2>0, <3>1, <3>3
  <2>2. CASE Deferred(e) /\ Turn(w, "deferring")
    <3>1. deliveries'[w].stage = "deferring" /\ deliveries'[w].run = e.run /\ deliveries'[w].try = e.try
      BY <2>0, <2>2, TurnedDelivery
    <3>2. e.try <= CapacityTries
      BY <2>0, <2>2, TriesAssumption DEF Deferred
    <3>3. e.try <= Allowance(r)'
      BY <1>2, <2>0, <3>2, TriesAssumption
    <3> QED
      BY <1>5, <2>0, <3>1, <3>3
  <2>3. CASE Turn(w, "returning")
    BY <1>6, <2>0, <2>3
  <2> QED
    BY <1>9, <2>1, <2>2, <2>3 DEF ClaimDelivery
<1>10. CASE Renew(w) \/ Evaluates(w) \/ HandlerThrows(w)
  BY <1>6, <1>7, <1>10 DEF Renew, Evaluates, Publishes, FailsToEvaluate, HandlerThrows
<1>11. CASE ReturnDelivery(w) \/ CrashWorker(w)
  BY <1>0, <1>4, <1>11 DEF ReturnDelivery, CrashWorker, Finish, Idle
<1>12. CASE deliveries'[w] = e
  <2>1. CASE e.stage \in {"delivered", "claimed", "evaluating", "deferring"}
    <3>1. PICK r \in Runs : r = e.run
      BY <1>3, <2>1
    <3>2. /\ e.stage = "delivered" => e.try <= Allowance(r)' + 1
          /\ e.stage \in {"claimed", "evaluating", "deferring"} => e.try <= Allowance(r)'
      BY <1>1, <1>2, <1>3, <2>1, <3>1
    <3> QED
      BY <1>12, <1>5, <2>1, <3>1, <3>2
  <2> QED
    BY <1>4, <1>12, <2>1
<1> QED
  BY <1>8, <1>9, <1>10, <1>11, <1>12, DeliveryMoves DEF WorkerActs

\* A worker is at the job it is given.
LEMMA DeliveredIsAtWork ==
  ASSUME DispatchTypeOK, Agreement, TriesAgree, [DispatchNext]_allvars,
         NEW w \in Workers, NEW r \in Runs, NEW g \in Generations, Deliver(w, r, g)
  PROVE  /\ AtWork(r, g)'
         /\ jobs'[r][g].tries <= Allowance(r)' + 1
<1>1. /\ jobs \in [Runs -> [Generations -> JobRows]]
      /\ deliveries \in [Workers -> {Idle} \cup DeliveryRows]
      /\ jobs[r][g] \in JobRows
  BY DEF DispatchTypeOK
<1>2. jobs'[r][g].tries = jobs[r][g].tries + 1 /\ jobs[r][g].tries \in Nat
  BY <1>1 DEF Deliver, Delivered, JobRows
<1>3. /\ deliveries'[w].run = r /\ deliveries'[w].generation = g
      /\ deliveries'[w].try = jobs[r][g].tries + 1 /\ deliveries'[w] # Idle
  BY <1>1 DEF Deliver, Idle
<1>4. jobs[r][g].tries <= Allowance(r)
  BY DEF Deliver, TriesAgree, JobWithinAllowance
<1> QED
  BY <1>2, <1>3, <1>4, AllowanceGrows DEF AtWork

\* A step keeps the numbers of the deliveries within the allowance.
LEMMA DispatchNextTries ==
  ASSUME DispatchTypeOK, Agreement, TriesAgree, [DispatchNext]_allvars
  PROVE  TriesAgree'
<1>0. /\ jobs \in [Runs -> [Generations -> JobRows]]
      /\ deliveries \in [Workers -> {Idle} \cup DeliveryRows]
  BY DEF DispatchTypeOK
<1>1. ASSUME NEW r \in Runs, NEW g \in Generations
      PROVE  JobWithinAllowance(r, g)'
  <2>1. /\ Allowance(r) \in Nat /\ Allowance(r)' \in Nat /\ Allowance(r) <= Allowance(r)'
        /\ Fault => Allowance(r) + 1 <= Allowance(r)'
    BY AllowanceGrows
  <2>2. jobs[r][g].tries \in Nat
    BY <1>0 DEF JobRows
  <2>3. CASE jobs'[r][g].place = jobs[r][g].place /\ jobs'[r][g].tries = jobs[r][g].tries
    <3>1. CASE jobs[r][g].place \in {"waiting", "delayed"}
      <4>1. jobs[r][g].tries <= Allowance(r)
        BY <3>1 DEF TriesAgree, JobWithinAllowance, DeliveryWithinAllowance
      <4> QED
        BY <2>1, <2>2, <2>3, <3>1, <4>1 DEF JobWithinAllowance
    <3>2. CASE jobs[r][g].place = "active"
      <4>1. /\ jobs[r][g].tries <= Allowance(r) + 1
            /\ AtWork(r, g) \/ jobs[r][g].tries <= Allowance(r)
        BY <3>2 DEF TriesAgree, JobWithinAllowance, DeliveryWithinAllowance
      <4>2. CASE jobs[r][g].tries <= Allowance(r) \/ Fault
        <5>1. jobs[r][g].tries <= Allowance(r)'
          BY <2>1, <2>2, <4>1, <4>2
        <5> QED
          BY <2>1, <2>2, <2>3, <3>2, <5>1 DEF JobWithinAllowance
      <4>3. CASE AtWork(r, g) /\ ~Fault
        <5>1. PICK v \in Workers :
                /\ deliveries[v] # Idle
                /\ deliveries[v].run = r /\ deliveries[v].generation = g
                /\ deliveries[v].try = jobs[r][g].tries
          BY <4>3 DEF AtWork
        <5>2. ~ReturnDelivery(v)
          <6>1. Locked(r, g, deliveries[v].try)
            BY <3>2, <5>1 DEF Locked
          <6> QED
            <7> SUFFICES ASSUME ReturnDelivery(v) PROVE FALSE
              OBVIOUS
            <7>1. \/ jobs' = [jobs EXCEPT ![r][g].place = "delayed"]
                  \/ jobs' = [jobs EXCEPT ![r][g].place = "finished"]
              BY <5>1, <6>1 DEF ReturnDelivery, MoveJob
            <7>2. jobs'[r][g].place # "active"
              BY <1>0, <7>1 DEF JobRows
            <7> QED
              BY <2>3, <3>2, <7>2
        <5>3. /\ deliveries'[v] # Idle
              /\ deliveries'[v].run = r /\ deliveries'[v].generation = g
              /\ deliveries'[v].try = jobs'[r][g].tries
          BY <2>3, <4>3, <5>1, <5>2, WorkersStayAtWork
        <5>4. AtWork(r, g)'
          BY <5>3 DEF AtWork
        <5> QED
          BY <2>1, <2>2, <2>3, <3>2, <4>1, <5>4 DEF JobWithinAllowance
      <4> QED
        BY <4>1, <4>2, <4>3
    <3> QED
      BY <2>3, <3>1, <3>2 DEF JobWithinAllowance
  <2>4. ASSUME NEW w \in Workers, Deliver(w, r, g)
        PROVE  jobs'[r][g].place = "active" /\ jobs'[r][g].tries <= Allowance(r)' + 1 /\ AtWork(r, g)'
    <3>1. jobs'[r][g].place = "active"
      BY <1>0, <2>4 DEF Deliver, Delivered, JobRows
    <3> QED
      BY <2>4, <3>1, DeliveredIsAtWork
  <2> QED
    BY <2>3, <2>4, JobsKeepTheirTries DEF JobWithinAllowance
<1> QED
  BY <1>1, DeliveriesKeepTheirTries DEF TriesAgree, JobWithinAllowance, DeliveryWithinAllowance

\* A delivery that could execute its run is refused for its number only when
\* faults, and no fewer than the deliveries that are missing, have used it up.
THEOREM EnoughTries == DispatchSpec => []TriesSuffice
<1>1. DispatchInit => TriesAgree
  BY DEF DispatchInit, TriesAgree, JobWithinAllowance, DeliveryWithinAllowance, NoJob, Idle
<1>2. DispatchTypeOK /\ Agreement /\ TriesAgree /\ [DispatchNext]_allvars => TriesAgree'
  BY DispatchNextTries
<1>3. DispatchTypeOK /\ TriesAgree => TriesSuffice
  <2> SUFFICES ASSUME DispatchTypeOK, TriesAgree, NEW w \in Workers,
                      deliveries[w] # Idle, deliveries[w].stage = "delivered",
                      ClaimStatus(deliveries[w].run, deliveries[w].generation) = "claimed"
               PROVE  deliveries[w].try <= MaxTries + faults
    BY DEF TriesSuffice
  <2> DEFINE r == deliveries[w].run
  <2>1. r \in Runs /\ deliveries[w].try \in Nat
    BY DeliveryTyped DEF DeliveryRows
  <2>2. runs[r].attempt_count \in Nat /\ faults \in Nat
    BY <2>1 DEF DispatchTypeOK, TypeOK, RunRows
  <2>3. runs[r].attempt_count < MaxAttempts
    BY <2>2, CapsAssumption DEF ClaimStatus
  <2>4. deliveries[w].try <= CapacityTries + runs[r].attempt_count + faults + 1
    BY <2>1 DEF TriesAgree, DeliveryWithinAllowance, Allowance
  <2> QED
    BY <2>1, <2>2, <2>3, <2>4, TriesAssumption, CapsAssumption
<1> QED
  BY <1>1, <1>2, <1>3, DispatchTyping, PTL DEF DispatchSpec

=============================================================================
