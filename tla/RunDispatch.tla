---------------------------- MODULE RunDispatch ----------------------------
(***************************************************************************)
(* The processes above the tables of RunLifecycle: dispatchers that carry  *)
(* claimed outbox rows to Redis, Redis with one BullMQ job per dispatch    *)
(* generation, and workers that take deliveries, claim, evaluate and       *)
(* settle them.                                                            *)
(*                                                                         *)
(* The database is authority and Redis is transport: everything a process  *)
(* or Redis can forget, repeat or delay is forgotten, repeated or delayed  *)
(* here.  Faults are drawn from a budget, MaxFaults, to keep the states    *)
(* few.                                                                    *)
(*                                                                         *)
(* Between two steps of a process anything may happen, its own crash       *)
(* included: a step is one call to the database or to Redis.               *)
(***************************************************************************)
EXTENDS RunLifecycle

CONSTANTS
  Dispatchers,   \* dispatcher processes
  Workers,       \* worker slots (four per worker process)
  AwaitTries,    \* deliveries deferred while unconfirmed    (3 in the code)
  CapacityTries, \* deliveries deferred for want of capacity (13)
  MaxTries,      \* deliveries of one job                    (16)
  MaxStalls,     \* redeliveries of a stalled job            (1)
  MaxFaults      \* bound of the model: faults of one behaviour

ASSUME TriesAssumption ==
  /\ AwaitTries \in Nat /\ CapacityTries \in Nat /\ AwaitTries <= CapacityTries
  /\ MaxTries = CapacityTries + MaxAttempts
  /\ MaxStalls \in Nat /\ MaxFaults \in Nat

VARIABLES
  jobs,       \* jobs[r][g]: the BullMQ job of run r and generation g
  carried,    \* carried[d]: the claimed row dispatcher d is working on
  deliveries, \* deliveries[w]: the delivery worker slot w is working on
  faults      \* faults so far

tables    == vars
transport == <<jobs, carried, deliveries, faults>>
allvars   == <<tables, transport>>

-----------------------------------------------------------------------------
(* Redis. *)

\* A finished job is kept for a while under its identity, and so is a failed
\* one.  "late" marks an add that timed out and may still arrive; "added" that
\* the job was in Redis once.
Places == {"absent", "waiting", "delayed", "active", "finished"}

JobRows ==
  [place : Places, tries : Nat, stalls : 0..MaxStalls, late : BOOLEAN, added : BOOLEAN]

NoJob == [place |-> "absent", tries |-> 0, stalls |-> 0, late |-> FALSE, added |-> FALSE]

\* Adding a job whose identity is known to Redis changes nothing.
Added(job) ==
  IF job.place = "absent"
  THEN [job EXCEPT !.place = "waiting", !.tries = 0, !.stalls = 0, !.added = TRUE]
  ELSE job

Present(r, g) == jobs[r][g].place # "absent"

\* The job is still in the hands of the delivery of this number.
Locked(r, g, try) == jobs[r][g].place = "active" /\ jobs[r][g].tries = try

\* Move the job if the lock is still held: BullMQ refuses otherwise.
MoveJob(r, g, try, place) ==
  jobs' = IF Locked(r, g, try) THEN [jobs EXCEPT ![r][g].place = place] ELSE jobs

Idle == [stage |-> "idle"]

CarriedRows ==
  [stage : {"claimed", "published", "unsure", "proved", "missing"},
   run : Runs, generation : Generations, token : ClaimTokens]

DeliveryRows ==
  [stage : {"delivered", "claimed", "evaluating", "deferring", "returning"},
   run : Runs, generation : Generations, try : Nat, attempt : 0..MaxAttempts]

DispatchInit ==
  /\ Init
  /\ jobs = [r \in Runs |-> [g \in Generations |-> NoJob]]
  /\ carried = [d \in Dispatchers |-> Idle]
  /\ deliveries = [w \in Workers |-> Idle]
  /\ faults = 0

Fault == faults < MaxFaults /\ faults' = faults + 1

-----------------------------------------------------------------------------
(* A dispatcher's pass over one claimed row.  The stages are "claimed",      *)
(* "published" (add returned), "unsure" (add threw), "proved" (the job was   *)
(* seen) and "missing" (it was not, after add threw).                        *)

Carry(d, stage) == carried' = [carried EXCEPT ![d].stage = stage]
PutDown(d)      == carried' = [carried EXCEPT ![d] = Idle]

TakeRow(d, r, g) ==
  /\ carried[d] = Idle
  /\ ClaimDueRunOutbox(r, g)
  /\ carried' = [carried EXCEPT ![d] =
       [stage |-> "claimed", run |-> r, generation |-> g, token |-> outbox'[r][g].count]]
  /\ UNCHANGED <<jobs, deliveries, faults>>

Publish(d) ==
  LET c == carried[d] IN
  /\ c.stage = "claimed"
  /\ jobs' = [jobs EXCEPT ![c.run][c.generation] = Added(@)]
  /\ Carry(d, "published")
  /\ UNCHANGED <<tables, deliveries, faults>>

\* The call fails: before Redis saw it, after Redis obeyed it, or with the add
\* still under way.
PublishThrows(d) ==
  LET c == carried[d] IN
  /\ c.stage = "claimed"
  /\ Fault
  /\ Carry(d, "unsure")
  /\ \/ UNCHANGED jobs
     \/ jobs' = [jobs EXCEPT ![c.run][c.generation] = Added(@)]
     \/ jobs' = [jobs EXCEPT ![c.run][c.generation].late = TRUE]
  /\ UNCHANGED <<tables, deliveries>>

\* Fault: after a failed add the dispatcher confirms without looking.
Evidence_Trusting(c) ==
  IF Present(c.run, c.generation) \/ c.stage = "unsure" THEN "proved"
  ELSE IF c.stage = "unsure" THEN "missing" ELSE "idle"

\* What the proof of publication makes of a row: seen, or missing and to be
\* handed back, or missing after a successful add, which is left to the claim's
\* expiry.
Evidence(c) ==
  IF Present(c.run, c.generation) THEN "proved"
  ELSE IF c.stage = "unsure" THEN "missing" ELSE "idle"

ProvePublished(d) ==
  LET c == carried[d] IN
  /\ c.stage \in {"published", "unsure"}
  /\ IF Evidence(c) = "idle" THEN PutDown(d) ELSE Carry(d, Evidence(c))
  /\ UNCHANGED <<tables, jobs, deliveries, faults>>

\* A confirmation or failure that comes after the claim was lost changes nothing.
SettleRow(d) ==
  LET c == carried[d] IN
  /\ \/ /\ c.stage = "proved"
        /\ \/ ConfirmRunDispatch(c.run, c.generation, c.token)
           \/ /\ ~(Claims(c.run, c.generation, c.token) /\ outbox[c.run][c.generation].claim > 0)
              /\ UNCHANGED tables
     \/ /\ c.stage = "missing"
        /\ \/ FailRunDispatch(c.run, c.generation, c.token)
           \/ ~Claims(c.run, c.generation, c.token) /\ UNCHANGED tables
  /\ PutDown(d)
  /\ UNCHANGED <<jobs, deliveries, faults>>

\* A crash, or a proof or settlement that throws: the pass moves on.
AbandonRow(d) ==
  /\ carried[d] # Idle
  /\ Fault
  /\ PutDown(d)
  /\ UNCHANGED <<tables, jobs, deliveries>>

\* The passes that need no row in hand.
Sweep(r) ==
  /\ \/ FinalizeRequestedCancellation(r)
     \/ FinalizePoisonedDispatch(r)
     \/ ReconcileRunDispatch(r, FALSE)
  /\ UNCHANGED transport

-----------------------------------------------------------------------------
(* A worker's delivery.  The stages are "delivered", "claimed", "evaluating",*)
(* "deferring" (the job is to be delayed) and "returning" (it is to be       *)
(* finished).                                                                *)

Turn(w, stage) == deliveries' = [deliveries EXCEPT ![w].stage = stage]
Finish(w)      == deliveries' = [deliveries EXCEPT ![w] = Idle]

\* A worker takes the job, for the next time.
Delivered(job) == [job EXCEPT !.place = "active", !.tries = @ + 1]

Deliver(w, r, g) ==
  /\ deliveries[w] = Idle
  /\ jobs[r][g].place = "waiting"
  /\ jobs' = [jobs EXCEPT ![r][g] = Delivered(@)]
  /\ deliveries' = [deliveries EXCEPT ![w] =
       [stage |-> "delivered", run |-> r, generation |-> g,
        try |-> jobs[r][g].tries + 1, attempt |-> 0]]
  /\ UNCHANGED <<tables, carried, faults>>

\* A delivery past the limit is refused before the database is asked.
Refused(e) == e.try > MaxTries

\* Fault: a delivery is deferred for capacity as long as there are any.
Deferred_ToTheLast(e) ==
  \/ ClaimStatus(e.run, e.generation) = "awaiting_confirmation" /\ e.try <= AwaitTries
  \/ ClaimStatus(e.run, e.generation) = "organization_capacity" /\ e.try <= MaxTries

\* A rejected claim is deferred or given up by what was answered and how many
\* deliveries there were.
Deferred(e) ==
  \/ ClaimStatus(e.run, e.generation) = "awaiting_confirmation" /\ e.try <= AwaitTries
  \/ ClaimStatus(e.run, e.generation) = "organization_capacity" /\ e.try <= CapacityTries

ClaimDelivery(w) ==
  LET e == deliveries[w] IN
  /\ e.stage = "delivered"
  /\ \/ /\ ~Refused(e)
        /\ ClaimRunExecution(e.run, e.generation)
        /\ deliveries' = [deliveries EXCEPT ![w] =
             [@ EXCEPT !.stage = "claimed", !.attempt = runs'[e.run].lease_token]]
     \/ /\ Refused(e) \/ ClaimStatus(e.run, e.generation) # "claimed"
        /\ Turn(w, IF ~Refused(e) /\ Deferred(e) THEN "deferring" ELSE "returning")
        /\ UNCHANGED tables
  /\ UNCHANGED <<jobs, carried, faults>>

\* Before the evaluation and every five seconds during it.  Without the lease,
\* or once a cancellation was requested, the worker stops where it is.
Renew(w) ==
  LET e == deliveries[w] IN
  /\ e.stage \in {"claimed", "evaluating"}
  /\ \/ HeartbeatRunExecution(e.run, e.attempt) /\ Turn(w, "evaluating")
     \/ /\ ~(runs[e.run].state = "running" /\ HoldsAuthority(e.run, e.attempt))
        /\ Turn(w, "returning")
        /\ UNCHANGED tables
  /\ UNCHANGED <<jobs, carried, faults>>

\* The evaluation ends, and its result is published or refused.
Publishes(w) ==
  LET e == deliveries[w] IN
  /\ e.stage = "evaluating"
  /\ \/ CompleteRunExecution(e.run, e.attempt)
     \/ ~HoldsAuthority(e.run, e.attempt) /\ UNCHANGED tables
  /\ Turn(w, "returning")
  /\ UNCHANGED <<jobs, carried, faults>>

\* The evaluation fails, or its deadline passes, or, before it could begin, there
\* is no engine for it.  A retry the database authorizes goes back to Redis with
\* its delay.
FailsToEvaluate(w, retryable) ==
  LET e == deliveries[w] IN
  /\ e.stage \in {"claimed", "evaluating"}
  /\ e.stage = "claimed" => retryable
  /\ \/ /\ FailRunExecution(e.run, e.attempt, retryable)
        /\ Turn(w, IF runs'[e.run].state = "retrying" THEN "deferring" ELSE "returning")
     \/ /\ ~HoldsAuthority(e.run, e.attempt)
        /\ Turn(w, "returning")
        /\ UNCHANGED tables
  /\ UNCHANGED <<jobs, carried, faults>>

\* What BullMQ is told at the end, if the job is still this delivery's.
ReturnDelivery(w) ==
  LET e == deliveries[w] IN
  /\ \/ e.stage = "deferring" /\ MoveJob(e.run, e.generation, e.try, "delayed")
     \/ e.stage = "returning" /\ MoveJob(e.run, e.generation, e.try, "finished")
  /\ Finish(w)
  /\ UNCHANGED <<tables, carried, faults>>

\* The handler throws, for instance when an answer of the database is lost: the
\* job has one attempt and is failed.
HandlerThrows(w) ==
  /\ deliveries[w].stage \in {"delivered", "claimed", "evaluating", "deferring"}
  /\ Fault
  /\ Turn(w, "returning")
  /\ UNCHANGED <<tables, jobs, carried>>

CrashWorker(w) ==
  /\ deliveries[w] # Idle
  /\ Fault
  /\ Finish(w)
  /\ UNCHANGED <<tables, jobs, carried>>

-----------------------------------------------------------------------------
(* Redis on its own. *)

DelayEnds(r, g) ==
  /\ jobs[r][g].place = "delayed"
  /\ jobs' = [jobs EXCEPT ![r][g].place = "waiting"]
  /\ UNCHANGED <<tables, carried, deliveries, faults>>

AtWork(r, g) ==
  \E w \in Workers :
    /\ deliveries[w] # Idle
    /\ deliveries[w].run = r /\ deliveries[w].generation = g
    /\ deliveries[w].try = jobs[r][g].tries

\* A stalled job is delivered again, and failed when it stalls once more.
Stalled(job) ==
  IF job.stalls < MaxStalls
  THEN [job EXCEPT !.place = "waiting", !.stalls = @ + 1]
  ELSE [job EXCEPT !.place = "finished"]

\* The lock of an active job runs out: its worker is gone, or, as a fault, too
\* slow to renew it.
Stall(r, g) ==
  /\ jobs[r][g].place = "active"
  /\ IF AtWork(r, g) THEN Fault ELSE UNCHANGED faults
  /\ jobs' = [jobs EXCEPT ![r][g] = Stalled(@)]
  /\ UNCHANGED <<tables, carried, deliveries>>

\* Redis loses a job, or forgets a finished one.
LoseJob(r, g) ==
  /\ Present(r, g)
  /\ Fault
  /\ jobs' = [jobs EXCEPT ![r][g].place = "absent"]
  /\ UNCHANGED <<tables, carried, deliveries>>

\* An add that had timed out arrives.
LateAdd(r, g) ==
  /\ jobs[r][g].late
  /\ jobs' = [jobs EXCEPT ![r][g] = [Added(@) EXCEPT !.late = FALSE]]
  /\ UNCHANGED <<tables, carried, deliveries, faults>>

-----------------------------------------------------------------------------
(* The system. *)

DispatcherActs(d) ==
  \/ \E r \in Runs, g \in Generations : TakeRow(d, r, g)
  \/ Publish(d) \/ ProvePublished(d) \/ SettleRow(d)

Evaluates(w) == Publishes(w) \/ \E retryable \in BOOLEAN : FailsToEvaluate(w, retryable)

WorkerActs(w) ==
  \/ \E r \in Runs, g \in Generations : Deliver(w, r, g)
  \/ ClaimDelivery(w) \/ Renew(w) \/ Evaluates(w) \/ ReturnDelivery(w)

RedisActs(r, g) == DelayEnds(r, g) \/ Stall(r, g) \/ LateAdd(r, g)

Outside ==
  /\ \/ \E r \in Runs : CreateRun(r) \/ RequestCancel(r)
     \/ Tick
  /\ UNCHANGED transport

Breaks ==
  \/ \E d \in Dispatchers : PublishThrows(d) \/ AbandonRow(d)
  \/ \E w \in Workers : HandlerThrows(w) \/ CrashWorker(w)
  \/ \E r \in Runs, g \in Generations : LoseJob(r, g)

DispatchNext ==
  \/ \E d \in Dispatchers : DispatcherActs(d)
  \/ \E w \in Workers : WorkerActs(w)
  \/ \E r \in Runs : Sweep(r)
  \/ \E r \in Runs, g \in Generations : RedisActs(r, g)
  \/ Outside
  \/ Breaks

DispatchSpec == DispatchInit /\ [][DispatchNext]_allvars

\* Processes that are up go on, an evaluation ends (its deadline kills it), the
\* sweeps come round, and time passes.
FairDispatchSpec ==
  /\ DispatchSpec
  /\ WF_allvars(Tick /\ UNCHANGED transport)
  /\ \A r \in Runs : WF_allvars(Sweep(r))
  /\ \A w \in Workers : WF_allvars(Evaluates(w))

-----------------------------------------------------------------------------
(* Safety. *)

DispatchTypeOK ==
  /\ TypeOK
  /\ jobs \in [Runs -> [Generations -> JobRows]]
  /\ carried \in [Dispatchers -> {Idle} \cup CarriedRows]
  /\ deliveries \in [Workers -> {Idle} \cup DeliveryRows]
  /\ faults \in 0..MaxFaults

\* A row is confirmed only after its job was in Redis, through adds that fail,
\* arrive late or are lost, and dispatchers that take over from each other: an
\* unpublished row is never mistaken for one a worker will be given.
ConfirmedWasPublished ==
  \A r \in Runs, g \in Generations :
    outbox[r][g].status = "dispatched" => jobs[r][g].added

\* No two deliveries carry the same attempt, whatever was delivered twice: each
\* evaluation is an attempt of its own, so at most one can publish.
AttemptHasOneWorker ==
  \A v, w \in Workers :
    ( /\ v # w /\ deliveries[v] # Idle /\ deliveries[w] # Idle
      /\ deliveries[v].run = deliveries[w].run )
       => deliveries[v].attempt # deliveries[w].attempt \/ deliveries[v].attempt = 0

\* A worker holds a live lease under the dispatch it was delivered, and under no
\* older one: recovery cannot renew a dispatch under a worker that still counts.
AuthorityIsCurrent ==
  \A w \in Workers :
    LET e == deliveries[w] IN
    (e # Idle /\ e.stage \in {"claimed", "evaluating"} /\ HoldsAuthority(e.run, e.attempt))
      => e.generation = Generation(e.run)

\* The delivery of a generation that was replaced changes no table.
StaleDeliveryIsInert ==
  [][\A w \in Workers :
       ( /\ deliveries[w] # Idle /\ deliveries'[w] # deliveries[w]
         /\ deliveries[w].generation # Generation(deliveries[w].run) )
          => UNCHANGED tables]_allvars

\* "preserving tries 14-16 for up to three database execution attempts": a
\* delivery that could execute its run is never refused for its number, and once
\* things fail, each fault costs a run at most one of its deliveries.
TriesSuffice ==
  \A w \in Workers :
    LET e == deliveries[w] IN
    ( /\ e # Idle /\ e.stage = "delivered"
      /\ Refused(e) /\ ClaimStatus(e.run, e.generation) = "claimed" )
       => e.try <= MaxTries + faults

-----------------------------------------------------------------------------
(* The inductive invariant of what the processes hold. *)

\* A job in Redis was added, and so was one a dispatcher has seen.
PublicationAgrees ==
  /\ \A r \in Runs, g \in Generations : Present(r, g) => jobs[r][g].added
  /\ \A d \in Dispatchers :
       carried[d].stage = "proved" => jobs[carried[d].run][carried[d].generation].added
  /\ ConfirmedWasPublished

\* A delivery carries an attempt its run has made, and no other delivery does;
\* if that attempt still has the lease, the delivery is of the current dispatch.
DeliveriesAgree ==
  /\ \A w \in Workers :
       LET e == deliveries[w] IN
       e # Idle => /\ e.attempt <= runs[e.run].attempt_count
                   /\ (e.attempt # 0 /\ runs[e.run].lease_token = e.attempt)
                         => e.generation = Generation(e.run)
  /\ AttemptHasOneWorker

\* The deliveries a run may have behind it: those deferred for want of capacity
\* (or while unconfirmed, which are fewer), one for each attempt, one for each
\* fault.
Allowance(r) == CapacityTries + runs[r].attempt_count + faults

\* A job in Redis has had no more, and only one without its worker can stall
\* without a fault.
JobWithinAllowance(r, g) ==
  /\ jobs[r][g].place \in {"waiting", "delayed"} => jobs[r][g].tries <= Allowance(r)
  /\ jobs[r][g].place = "active" =>
       /\ jobs[r][g].tries <= Allowance(r) + 1
       /\ AtWork(r, g) \/ jobs[r][g].tries <= Allowance(r)

\* A delivery not yet claimed is at most the next one.
DeliveryWithinAllowance(w) ==
  LET e == deliveries[w] IN
  /\ e.stage = "delivered" => e.try <= Allowance(e.run) + 1
  /\ e.stage \in {"claimed", "evaluating", "deferring"} => e.try <= Allowance(e.run)

TriesAgree ==
  /\ \A r \in Runs, g \in Generations : JobWithinAllowance(r, g)
  /\ \A w \in Workers : DeliveryWithinAllowance(w)

-----------------------------------------------------------------------------
(* Progress. *)

\* Every run that was created ends, whatever crashes, stalls or is lost on the
\* way, and however often it is delivered.
EveryRunEnds ==
  \A r \in Runs : (runs[r].state \in Pending) ~> (runs[r].state \in Terminal)

=============================================================================
