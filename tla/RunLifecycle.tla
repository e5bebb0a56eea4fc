---------------------------- MODULE RunLifecycle ----------------------------
(***************************************************************************)
(* The durable record of simulation runs: api.simulation_runs,             *)
(* private.run_attempts, private.run_outbox, api.simulation_results and    *)
(* the run_creation row of private.runtime_controls, with one action per   *)
(* stored function that changes them.                                      *)
(*                                                                         *)
(* The callers are left open: the API, the dispatcher and the workers may  *)
(* call any function at any moment, late or twice, with any claim token or *)
(* lease that was ever handed out.  What holds here therefore holds for    *)
(* every schedule of the processes above the database, and RunDispatch     *)
(* adds those processes.                                                   *)
(*                                                                         *)
(* A stored function is one transaction that locks the run before the      *)
(* outbox row, so it is one step.  A batch function treats its rows        *)
(* independently; it is one step per row.                                  *)
(*                                                                         *)
(* Time is a set of countdowns that Tick lowers together.  A deadline      *)
(* column holds the number of ticks left: zero is a deadline that is past, *)
(* or a NULL, or one of a closed attempt, which nothing reads again.       *)
(*                                                                         *)
(* Random tokens are named by what drew them.  claim_run_execution draws a *)
(* lease token and advances attempt_count, so the token is that number;    *)
(* claim_due_run_outbox draws a claim token and advances                   *)
(* dispatch_attempt_count, so that token is the count.                     *)
(***************************************************************************)
EXTENDS Integers, FiniteSets

CONSTANTS
  Runs,            \* run identifiers, unused ones included
  Orgs,            \* organizations
  OrgOf,           \* OrgOf[r]: the organization of run r
  MaxAttempts,     \* executions of one run               (3 in the code)
  MaxGenerations,  \* dispatch generations of one run     (3)
  MaxDispatches,   \* dispatch claims of one outbox row   (10)
  OrgCapacity,     \* executions of one organization      (3)
  PendingQuota,    \* unfinished runs of one organization (20)
  RetentionQuota,  \* runs of one organization            (100)
  LeaseTicks,      \* worker lease                        (30 seconds)
  StaleTicks,      \* silence before recovery             (120 seconds)
  ClaimTicks,      \* dispatcher claim                    (15 seconds)
  BackoffTicks     \* delay of a failed dispatch          (5 seconds)

ASSUME RunsAssumption == IsFiniteSet(Runs) /\ OrgOf \in [Runs -> Orgs]
ASSUME CapsAssumption ==
  /\ MaxAttempts \in Nat \ {0} /\ MaxGenerations \in Nat \ {0}
  /\ MaxDispatches \in Nat \ {0} /\ OrgCapacity \in Nat \ {0}
  /\ PendingQuota \in Nat /\ RetentionQuota \in Nat
ASSUME TimersAssumption ==
  /\ LeaseTicks \in Nat \ {0} /\ StaleTicks \in Nat \ {0}
  /\ ClaimTicks \in Nat \ {0} /\ BackoffTicks \in Nat \ {0}

VARIABLES runs, attempts, outbox, results, run_creation

vars == <<runs, attempts, outbox, results, run_creation>>

-----------------------------------------------------------------------------
(* Rows. *)

Waiting  == {"queued", "retrying"}
Terminal == {"succeeded", "failed", "canceled"}
Pending  == {"queued", "running", "retrying", "cancel_requested"}
RunStates == {"absent"} \cup Pending \cup Terminal

AttemptStatuses ==
  {"none", "running", "succeeded", "retrying", "failed", "canceled", "superseded"}
OutboxStatuses == {"none", "pending", "claimed", "dispatched", "terminal"}

\* terminal_error_code: why an outbox row was given up.
OutboxErrors ==
  {"none", "dispatch_exhausted", "canceled", "recovery_exhausted", "recovery_replaced"}

AttemptNumbers == 1..MaxAttempts
Generations    == 1..MaxGenerations
ClaimTokens    == 1..MaxDispatches

NoAttempt == [status |-> "none", lease |-> 0]
NoOutbox ==
  [status |-> "none", count |-> 0, claim |-> 0, next |-> 0, error |-> "none"]

\* A freshly inserted outbox row: due at once, never claimed.
NewOutbox ==
  [status |-> "pending", count |-> 0, claim |-> 0, next |-> 0, error |-> "none"]

RunRows ==
  [state : RunStates, attempt_count : 0..MaxAttempts,
   dispatch_generation : 0..MaxGenerations, lease_token : 0..MaxAttempts,
   lease : 0..LeaseTicks, quiet : 0..StaleTicks]
AttemptRows == [status : AttemptStatuses, lease : 0..LeaseTicks]
OutboxRows ==
  [status : OutboxStatuses, count : 0..MaxDispatches, claim : 0..ClaimTicks,
   next : 0..BackoffTicks, error : OutboxErrors]

TypeOK ==
  /\ runs \in [Runs -> RunRows]
  /\ attempts \in [Runs -> [AttemptNumbers -> AttemptRows]]
  /\ outbox \in [Runs -> [Generations -> OutboxRows]]
  /\ results \in [Runs -> 0..MaxAttempts]
  /\ run_creation \in BOOLEAN

Init ==
  /\ runs = [r \in Runs |-> [state |-> "absent", attempt_count |-> 0,
                             dispatch_generation |-> 0, lease_token |-> 0,
                             lease |-> 0, quiet |-> 0]]
  /\ attempts = [r \in Runs |-> [n \in AttemptNumbers |-> NoAttempt]]
  /\ outbox = [r \in Runs |-> [g \in Generations |-> NoOutbox]]
  /\ results = [r \in Runs |-> 0]
  /\ run_creation = TRUE

-----------------------------------------------------------------------------
(* What the functions read. *)

Generation(r) == runs[r].dispatch_generation
LeaseLive(r)  == runs[r].lease > 0

OrgRuns(o, states) == {r \in Runs : OrgOf[r] = o /\ runs[r].state \in states}

\* The executions that count against an organization: every running run, and
\* every run being canceled whose worker may still be at work.
Occupants(o) ==
  {r \in Runs : /\ OrgOf[r] = o
                /\ \/ runs[r].state = "running"
                   \/ runs[r].state = "cancel_requested" /\ LeaseLive(r)}

\* Fault: the deadlines are not compared with the clock.
HoldsAuthority_NoClock(r, n) ==
  runs[r].lease_token = n /\ attempts[r][n].status = "running"

\* The caller holds the current lease of the run and of the attempt, and both
\* deadlines are still ahead.
HoldsAuthority(r, n) ==
  /\ runs[r].lease_token = n
  /\ LeaseLive(r)
  /\ attempts[r][n].status = "running"
  /\ attempts[r][n].lease > 0

\* Fault: only a NULL lease counts as free, not one that ran out.
Unheld_NullOnly(r) == runs[r].lease_token = 0

\* No worker holds the run, or its lease has run out.
Unheld(r) == ~LeaseLive(r)

\* The row has had all the dispatch claims it may have.
DispatchSpent(row) == row.count >= MaxDispatches

\* Fault: the lease columns are left as they were.
Released_KeepsLease(r, state) == [runs[r] EXCEPT !.state = state]

\* What becomes of a run: the new state, and the lease given up.
Released(r, state) ==
  [runs[r] EXCEPT !.state = state, !.lease_token = 0, !.lease = 0]

\* Fault: a dispatched row is taken for a resolved one.
Closed_SparesDispatched(row, error) ==
  IF row.status \in {"none", "dispatched", "terminal"} THEN row
  ELSE [row EXCEPT !.status = "terminal", !.claim = 0, !.error = error]

\* An outbox row given up, unless it already was.
Closed(row, error) ==
  IF row.status \in {"none", "terminal"} THEN row
  ELSE [row EXCEPT !.status = "terminal", !.claim = 0, !.error = error]

\* Every unresolved outbox row of the run closed with its cancellation.
AllCanceled(r) == [g \in Generations |-> Closed(outbox[r][g], "canceled")]

\* Fault: recovery clears the run and leaves its attempts alone, as it did
\* before the hardening migration.
Abandoned_Untouched(r, status) == attempts[r]

\* Attempts whose lease ran out while they were running end with this status.
Abandoned(r, status) ==
  [n \in AttemptNumbers |->
     IF attempts[r][n].status = "running" /\ attempts[r][n].lease = 0
     THEN [status |-> status, lease |-> 0] ELSE attempts[r][n]]

-----------------------------------------------------------------------------
(* Commands of the API. *)

\* create_simulation_run_atomic, past its idempotency record: under the
\* organization's advisory lock the two quotas, then the run and its first
\* outbox row together.
CreateRun(r) ==
  LET o == OrgOf[r] IN
  /\ runs[r].state = "absent"
  /\ run_creation
  /\ Cardinality(OrgRuns(o, Pending)) < PendingQuota
  /\ Cardinality(OrgRuns(o, RunStates \ {"absent"})) < RetentionQuota
  /\ runs' = [runs EXCEPT ![r] = [@ EXCEPT !.state = "queued",
                                           !.dispatch_generation = 1,
                                           !.quiet = StaleTicks]]
  /\ outbox' = [outbox EXCEPT ![r][1] = NewOutbox]
  /\ UNCHANGED <<attempts, results, run_creation>>

\* The first cancel of an unfinished run; a later one changes nothing.  The
\* lease stays with the worker that holds it.
RequestCancel(r) ==
  /\ runs[r].state \in {"queued", "running", "retrying"}
  /\ runs' = [runs EXCEPT ![r].state = "cancel_requested"]
  /\ UNCHANGED <<attempts, outbox, results, run_creation>>

-----------------------------------------------------------------------------
(* Functions of the dispatcher. *)

\* Pending and its time has come, or claimed by a dispatcher whose claim has
\* expired.
Due(r, g) ==
  \/ outbox[r][g].status = "pending" /\ outbox[r][g].next = 0
  \/ outbox[r][g].status = "claimed" /\ outbox[r][g].claim = 0

\* A dispatcher takes the row for ClaimTicks.
Taken(row) ==
  [row EXCEPT !.status = "claimed", !.count = row.count + 1, !.claim = ClaimTicks]

ClaimDueRunOutbox(r, g) ==
  /\ Due(r, g)
  /\ outbox[r][g].count < MaxDispatches
  /\ runs[r].state \in Waiting
  /\ outbox' = [outbox EXCEPT ![r][g] = Taken(@)]
  /\ UNCHANGED <<runs, attempts, results, run_creation>>

\* The row is still claimed, and under this token.
Claims(r, g, t) == outbox[r][g].status = "claimed" /\ outbox[r][g].count = t

\* The message is known to be in Redis.
Confirmed(row) == [row EXCEPT !.status = "dispatched", !.claim = 0]

\* The run is not consulted: it may have been canceled since the claim.
ConfirmRunDispatch(r, g, t) ==
  /\ Claims(r, g, t)
  /\ outbox[r][g].claim > 0
  /\ outbox' = [outbox EXCEPT ![r][g] = Confirmed(@)]
  /\ UNCHANGED <<runs, attempts, results, run_creation>>

\* latch_run_creation_for_poison: no run is admitted until an operator says so.
LatchRunCreation == run_creation' = FALSE

\* A dispatcher hands the row back, to be tried again after BackoffTicks.
Returned(row) == [row EXCEPT !.status = "pending", !.claim = 0, !.next = BackoffTicks]

\* The claim may have expired, as long as nobody has claimed the row again.
FailRunDispatch(r, g, t) ==
  /\ Claims(r, g, t)
  /\ IF DispatchSpent(outbox[r][g])
     THEN /\ outbox' = [outbox EXCEPT ![r][g] = Closed(@, "dispatch_exhausted")]
          /\ runs' = IF runs[r].state \in Waiting /\ Unheld(r)
                     THEN [runs EXCEPT ![r] = Released(r, "failed")]
                     ELSE runs
          /\ LatchRunCreation
     ELSE /\ outbox' = [outbox EXCEPT ![r][g] = Returned(@)]
          /\ UNCHANGED <<runs, run_creation>>
  /\ UNCHANGED <<attempts, results>>

\* A cancellation no worker will close: attempts and outbox rows end with it.
FinalizeRequestedCancellation(r) ==
  /\ runs[r].state = "cancel_requested"
  /\ Unheld(r)
  /\ runs' = [runs EXCEPT ![r] = Released(r, "canceled")]
  /\ attempts' = [attempts EXCEPT ![r] = Abandoned(r, "canceled")]
  /\ outbox' = [outbox EXCEPT ![r] = AllCanceled(r)]
  /\ UNCHANGED <<results, run_creation>>

\* The last permitted claim expired without a word from its dispatcher.
Poisoned(r, g) ==
  /\ outbox[r][g].status = "claimed"
  /\ DispatchSpent(outbox[r][g])
  /\ outbox[r][g].claim = 0

FinalizePoisonedDispatch(r) ==
  /\ runs[r].state \in Waiting
  /\ Unheld(r)
  /\ Poisoned(r, Generation(r))
  /\ runs' = [runs EXCEPT ![r] = Released(r, "failed")]
  /\ outbox' = [outbox EXCEPT ![r][Generation(r)] = Closed(@, "dispatch_exhausted")]
  /\ LatchRunCreation
  /\ UNCHANGED <<attempts, results>>

\* Fault: an operator's declaration waives the lease as well as the delay.
Recoverable_ForceSeizes(r, force) ==
  /\ runs[r].state \in {"queued", "running", "retrying"}
  /\ force \/ (Unheld(r) /\ runs[r].quiet = 0)

\* A run without a live lease that has shown no progress for StaleTicks; an
\* operator who declares Redis lost (force) waives the delay and nothing else.
Recoverable(r, force) ==
  /\ runs[r].state \in {"queued", "running", "retrying"}
  /\ Unheld(r)
  /\ force \/ runs[r].quiet = 0

RecoveryExhausted(r) ==
  runs[r].attempt_count >= MaxAttempts \/ Generation(r) >= MaxGenerations

RecoveredState(r) == IF runs[r].state = "running" THEN "retrying" ELSE runs[r].state

\* reconcile_run_dispatch: the current dispatch is closed and a new generation
\* takes its place, or, when the run has none left, the run fails.
ReconcileRunDispatch(r, force) ==
  LET g == Generation(r) IN
  /\ Recoverable(r, force)
  /\ attempts' = [attempts EXCEPT ![r] = Abandoned(r, "superseded")]
  /\ IF RecoveryExhausted(r)
     THEN /\ outbox' = [outbox EXCEPT ![r][g] = Closed(@, "recovery_exhausted")]
          /\ runs' = [runs EXCEPT ![r] = Released(r, "failed")]
     ELSE /\ outbox' = [outbox EXCEPT ![r][g] = Closed(@, "recovery_replaced"),
                                       ![r][g + 1] = NewOutbox]
          /\ runs' = [runs EXCEPT ![r] = [Released(r, RecoveredState(r)) EXCEPT
                         !.dispatch_generation = g + 1, !.quiet = StaleTicks]]
  /\ UNCHANGED <<results, run_creation>>

-----------------------------------------------------------------------------
(* Functions of the worker. *)

\* Fault: the job's generation picks no row, the run's current one is taken.
ClaimStatus_CurrentRow(r, g) ==
  IF outbox[r][Generation(r)].status # "dispatched" THEN "awaiting_confirmation"
  ELSE IF runs[r].state \notin Waiting THEN "no_work"
  ELSE IF runs[r].attempt_count >= MaxAttempts THEN "no_work"
  ELSE IF Cardinality(Occupants(OrgOf[r])) >= OrgCapacity THEN "organization_capacity"
  ELSE "claimed"

\* Fault: a run being canceled frees its slot at once.
ClaimStatus_RunningOnly(r, g) ==
  IF outbox[r][g].status # "dispatched" \/ Generation(r) # g THEN "no_work"
  ELSE IF runs[r].state \notin Waiting \/ runs[r].attempt_count >= MaxAttempts THEN "no_work"
  ELSE IF Cardinality(OrgRuns(OrgOf[r], {"running"})) >= OrgCapacity THEN "organization_capacity"
  ELSE "claimed"

\* What claim_run_execution answers to the job of generation g, in the order
\* of its checks.
ClaimStatus(r, g) ==
  IF outbox[r][g].status = "none" \/ Generation(r) # g THEN "no_work"
  ELSE IF outbox[r][g].status # "dispatched" THEN "awaiting_confirmation"
  ELSE IF runs[r].state \notin Waiting THEN "no_work"
  ELSE IF LeaseLive(r) THEN "busy"
  ELSE IF runs[r].attempt_count >= MaxAttempts THEN "no_work"
  ELSE IF Cardinality(Occupants(OrgOf[r])) >= OrgCapacity THEN "organization_capacity"
  ELSE "claimed"

\* Fault: a recovered run takes up the attempt it lost.
NextAttempt_Resumed(r) ==
  LET n == runs[r].attempt_count IN
  IF n > 0 /\ attempts[r][n].status = "superseded" THEN n ELSE n + 1

NextAttempt(r) == runs[r].attempt_count + 1

ClaimRunExecution(r, g) ==
  LET n == NextAttempt(r) IN
  /\ ClaimStatus(r, g) = "claimed"
  /\ runs' = [runs EXCEPT ![r] = [@ EXCEPT !.state = "running", !.attempt_count = n,
                                           !.lease_token = n, !.lease = LeaseTicks,
                                           !.quiet = StaleTicks]]
  /\ attempts' = [attempts EXCEPT ![r][n] = [status |-> "running", lease |-> LeaseTicks]]
  /\ UNCHANGED <<outbox, results, run_creation>>

HeartbeatRunExecution(r, n) ==
  /\ runs[r].state = "running"
  /\ HoldsAuthority(r, n)
  /\ runs' = [runs EXCEPT ![r] = [@ EXCEPT !.lease = LeaseTicks, !.quiet = StaleTicks]]
  /\ attempts' = [attempts EXCEPT ![r][n].lease = LeaseTicks]
  /\ UNCHANGED <<outbox, results, run_creation>>

\* Fault: the run is ended and the attempt forgotten.
CloseAttempt_RunOnly(r, n, status, state) ==
  /\ runs' = [runs EXCEPT ![r] = Released(r, state)]
  /\ UNCHANGED attempts

\* The end of an attempt: its row, its run and its lease together.
CloseAttempt(r, n, status, state) ==
  /\ attempts' = [attempts EXCEPT ![r][n] = [status |-> status, lease |-> 0]]
  /\ runs' = [runs EXCEPT ![r] = Released(r, state)]

\* The cancellation checkpoint both complete and fail pass through.
CancelAtCheckpoint(r, n) ==
  /\ CloseAttempt(r, n, "canceled", "canceled")
  /\ outbox' = [outbox EXCEPT ![r] = AllCanceled(r)]
  /\ UNCHANGED results

\* complete_run_execution with an artifact that passes its contract; with any
\* other the function raises and nothing changes.
CompleteRunExecution(r, n) ==
  /\ HoldsAuthority(r, n)
  /\ \/ /\ runs[r].state = "cancel_requested"
        /\ CancelAtCheckpoint(r, n)
     \/ /\ runs[r].state = "running"
        /\ results[r] = 0
        /\ results' = [results EXCEPT ![r] = n]
        /\ CloseAttempt(r, n, "succeeded", "succeeded")
        /\ UNCHANGED outbox
  /\ UNCHANGED run_creation

\* Fault: off by one, the last attempt is retried too.
RetryAllowed_OffByOne(r, retryable) ==
  runs[r].state = "running" /\ retryable /\ runs[r].attempt_count <= MaxAttempts

RetryAllowed(r, retryable) ==
  runs[r].state = "running" /\ retryable /\ runs[r].attempt_count < MaxAttempts

\* fail_run_execution.  A retry keeps the dispatched outbox row: the job that
\* carried this attempt carries the next.
FailRunExecution(r, n, retryable) ==
  /\ HoldsAuthority(r, n)
  /\ \/ /\ runs[r].state = "cancel_requested"
        /\ CancelAtCheckpoint(r, n)
     \/ /\ RetryAllowed(r, retryable)
        /\ CloseAttempt(r, n, "retrying", "retrying")
        /\ UNCHANGED <<outbox, results>>
     \/ /\ runs[r].state \in {"running", "retrying"}
        /\ ~RetryAllowed(r, retryable)
        /\ CloseAttempt(r, n, "failed", "failed")
        /\ UNCHANGED <<outbox, results>>
  /\ UNCHANGED run_creation

-----------------------------------------------------------------------------
(* The operator's switch, and the passing of time. *)

SetRunCreationControl(enabled) ==
  /\ run_creation # enabled
  /\ run_creation' = enabled
  /\ UNCHANGED <<runs, attempts, outbox, results>>

Sooner(t) == IF t > 0 THEN t - 1 ELSE 0

Tick ==
  /\ runs' = [r \in Runs |-> [runs[r] EXCEPT !.lease = Sooner(@), !.quiet = Sooner(@)]]
  /\ attempts' = [r \in Runs |-> [n \in AttemptNumbers |->
                    [attempts[r][n] EXCEPT !.lease = Sooner(@)]]]
  /\ outbox' = [r \in Runs |-> [g \in Generations |->
                  [outbox[r][g] EXCEPT !.claim = Sooner(@), !.next = Sooner(@)]]]
  /\ UNCHANGED <<results, run_creation>>

-----------------------------------------------------------------------------
(* The specification. *)

ApiStep(r) == CreateRun(r) \/ RequestCancel(r)

DispatcherStep(r) ==
  \/ \E g \in Generations : ClaimDueRunOutbox(r, g)
  \/ \E g \in Generations, t \in ClaimTokens : ConfirmRunDispatch(r, g, t)
  \/ \E g \in Generations, t \in ClaimTokens : FailRunDispatch(r, g, t)
  \/ FinalizeRequestedCancellation(r)
  \/ FinalizePoisonedDispatch(r)
  \/ \E force \in BOOLEAN : ReconcileRunDispatch(r, force)

WorkerStep(r) ==
  \/ \E g \in Generations : ClaimRunExecution(r, g)
  \/ \E n \in AttemptNumbers : HeartbeatRunExecution(r, n)
  \/ \E n \in AttemptNumbers : CompleteRunExecution(r, n)
  \/ \E n \in AttemptNumbers, retryable \in BOOLEAN : FailRunExecution(r, n, retryable)

RunStep(r) == ApiStep(r) \/ DispatcherStep(r) \/ WorkerStep(r)

Next ==
  \/ \E r \in Runs : RunStep(r)
  \/ \E enabled \in BOOLEAN : SetRunCreationControl(enabled)
  \/ Tick

Spec == Init /\ [][Next]_vars

\* What the dispatcher loop owes a run without any worker: time passes, and
\* its passes over cancellations, poison and silence keep coming.
Housekeeping(r) ==
  /\ WF_vars(FinalizeRequestedCancellation(r))
  /\ WF_vars(FinalizePoisonedDispatch(r))
  /\ WF_vars(ReconcileRunDispatch(r, FALSE))

FairSpec == Spec /\ WF_vars(Tick) /\ \A r \in Runs : Housekeeping(r)

-----------------------------------------------------------------------------
(* Safety. *)

\* At most one attempt of a run can still act, and it is the one the run's
\* lease names, with the same deadline: heartbeat, complete, fail and the two
\* recovery passes always close the attempt together with the run's lease, so
\* a run that was retried, recovered or ended leaves no running attempt behind.
SoleAuthority ==
  \A r \in Runs, n \in AttemptNumbers :
    /\ attempts[r][n].status = "running" <=> runs[r].lease_token = n
    /\ runs[r].lease_token = n => /\ n = runs[r].attempt_count
                                  /\ attempts[r][n].lease = runs[r].lease
                                  /\ runs[r].state \in {"running", "cancel_requested"}

\* A running run always has a lease to lose; otherwise reconcile, which closes
\* the attempt whose lease ran out, would leave it running unattended.
RunningHoldsLease ==
  \A r \in Runs : runs[r].state = "running" => runs[r].lease_token # 0

\* One dispatch of a run is open at a time: the row of the current generation.
\* Every earlier row was replaced by recovery, a waiting run has a row somebody
\* can still act on, and a run executes only under a confirmed dispatch.
OneOpenDispatch ==
  \A r \in Runs, g \in Generations :
    /\ g > Generation(r) => outbox[r][g] = NoOutbox
    /\ g < Generation(r) => /\ outbox[r][g].status = "terminal"
                            /\ outbox[r][g].error = "recovery_replaced"
    /\ g = Generation(r) =>
         /\ runs[r].state \in Waiting => outbox[r][g].status \in {"pending", "claimed", "dispatched"}
         /\ runs[r].state = "running" => outbox[r][g].status = "dispatched"

\* A waiting run can still be executed: it has an attempt left, and its row is
\* never pending with the dispatch budget spent (nothing would claim it again).
WaitingCanProceed ==
  \A r \in Runs : runs[r].state \in Waiting =>
    /\ runs[r].attempt_count < MaxAttempts
    /\ outbox[r][Generation(r)].status = "pending" =>
         outbox[r][Generation(r)].count < MaxDispatches

\* The claims of any number of workers, and cancellations whose workers are
\* still busy, never put more than OrgCapacity executions in an organization.
OccupancyBounded ==
  \A o \in Orgs : Cardinality(Occupants(o)) <= OrgCapacity

\* A run has a result exactly when it succeeded, and the result is that of its
\* one succeeded attempt, the last it made.
ResultIsWitnessed ==
  \A r \in Runs :
    /\ results[r] # 0 <=> runs[r].state = "succeeded"
    /\ \A n \in AttemptNumbers :
         attempts[r][n].status = "succeeded" <=> results[r] = n
    /\ results[r] # 0 => results[r] = runs[r].attempt_count

\* A finished run leaves nothing for the dispatcher to publish, and a canceled
\* one not even a dispatched row that a late delivery could match.
FinishedIsQuiet ==
  \A r \in Runs, g \in Generations :
    /\ runs[r].state \in Terminal => outbox[r][g].status \notin {"pending", "claimed"}
    /\ runs[r].state = "canceled" => outbox[r][g].status \in {"none", "terminal"}

-----------------------------------------------------------------------------
(* The inductive invariant: how the rows of one run agree with each other. *)
(* It speaks of rows, not of the variables, so that a step on one run      *)
(* plainly leaves the others in agreement.                                 *)

AuthorityAgrees(run, tries) ==
  /\ run.lease_token = 0 => run.lease = 0
  /\ run.lease_token # 0 => /\ run.state \in {"running", "cancel_requested"}
                            /\ run.lease_token = run.attempt_count
                            /\ tries[run.lease_token].lease = run.lease
  /\ run.state = "running" => run.lease_token # 0
  /\ \A n \in AttemptNumbers : tries[n].status = "running" <=> run.lease_token = n
  /\ \A n \in AttemptNumbers : n > run.attempt_count => tries[n].status = "none"

DispatchAgrees(run, rows) ==
  \A g \in Generations :
    /\ g > run.dispatch_generation => rows[g] = NoOutbox
    /\ g < run.dispatch_generation =>
         rows[g].status = "terminal" /\ rows[g].error = "recovery_replaced"
    /\ g = run.dispatch_generation =>
         /\ rows[g].status # "none"
         /\ run.state \in Waiting => rows[g].status \in {"pending", "claimed", "dispatched"}
         /\ rows[g].status = "pending" => rows[g].count < MaxDispatches
         /\ run.state \in {"running", "succeeded"} => rows[g].status = "dispatched"
         /\ run.state = "failed" => rows[g].status \in {"dispatched", "terminal"}
         /\ run.state = "canceled" => rows[g].status = "terminal"

ResultAgrees(run, tries, result) ==
  /\ result # 0 <=> run.state = "succeeded"
  /\ result # 0 => result = run.attempt_count
  /\ \A n \in AttemptNumbers : tries[n].status = "succeeded" <=> result = n

\* A run that was never created has spent nothing; one that waits has an
\* attempt left.
CountsAgree(run) ==
  /\ run.state = "absent" <=> run.dispatch_generation = 0
  /\ run.state = "absent" => run.attempt_count = 0
  /\ run.state \in Waiting => run.attempt_count < MaxAttempts

RowsAgree(run, tries, rows, result) ==
  /\ AuthorityAgrees(run, tries)
  /\ DispatchAgrees(run, rows)
  /\ ResultAgrees(run, tries, result)
  /\ CountsAgree(run)

Agreement == \A r \in Runs : RowsAgree(runs[r], attempts[r], outbox[r], results[r])

-----------------------------------------------------------------------------
(* What a step may never do. *)

\* A finished run is history: no late function, recovery pass or claim changes
\* its row, its result, the fate of its attempts or the state of its outbox.
FinishedIsFinal ==
  [][\A r \in Runs : runs[r].state \in Terminal =>
       /\ runs'[r].state = runs[r].state
       /\ runs'[r].attempt_count = runs[r].attempt_count
       /\ runs'[r].dispatch_generation = runs[r].dispatch_generation
       /\ results'[r] = results[r]
       /\ \A n \in AttemptNumbers : attempts'[r][n].status = attempts[r][n].status
       /\ \A g \in Generations : outbox'[r][g].status = outbox[r][g].status]_vars

\* "Expired worker authority is never renewable or mutation-capable": an attempt
\* whose lease ran out is only ever closed by recovery or by cancellation.
ExpiredIsPowerless ==
  [][\A r \in Runs, n \in AttemptNumbers :
       (attempts[r][n].status = "running" /\ attempts[r][n].lease = 0) =>
         /\ attempts'[r][n].lease = 0
         /\ attempts'[r][n].status \in {"running", "superseded", "canceled"}]_vars

\* Once a cancellation is accepted the run can only become canceled: no
\* completion, retry or recovery wins against it, and no result is published.
CancelWins ==
  [][\A r \in Runs : runs[r].state = "cancel_requested" =>
       /\ runs'[r].state \in {"cancel_requested", "canceled"}
       /\ results'[r] = results[r]
       /\ runs'[r].attempt_count = runs[r].attempt_count]_vars

\* A new generation never appears, and an attempt is never superseded, while
\* a worker holds a live lease, whatever an operator declares lost.
RecoverySparesLiveWork ==
  [][\A r \in Runs : LeaseLive(r) =>
       /\ runs'[r].dispatch_generation = runs[r].dispatch_generation
       /\ \A n \in AttemptNumbers :
            attempts[r][n].status = "running" => attempts'[r][n].status # "superseded"]_vars

\* Giving a dispatch up as exhausted stops the admission of runs in the same
\* transaction, from either function that can do it.
PoisonStopsAdmission ==
  [][\A r \in Runs, g \in Generations :
       (outbox'[r][g].error = "dispatch_exhausted" /\ outbox[r][g].error = "none")
          => ~run_creation']_vars

-----------------------------------------------------------------------------
(* The promise of ADR-0006, read off the rows. *)

Promise == INSTANCE RunStateMachine WITH
  state     <- [r \in Runs |-> runs[r].state],
  tries     <- [r \in Runs |-> runs[r].attempt_count],
  executing <- {r \in Runs : LeaseLive(r)},
  result    <- results

\* The stored functions implement the state machine of ADR-0006: each of their
\* steps is a permitted transition of one run, or changes nothing a user of the
\* run can see.
KeepsPromise == Promise!Spec

-----------------------------------------------------------------------------
(* Progress, from the dispatcher's passes alone. *)

\* An accepted cancellation ends, even if no worker ever answers again.
CancellationEnds ==
  \A r \in Runs : (runs[r].state = "cancel_requested") ~> (runs[r].state = "canceled")

\* Every run ends, even if Redis loses every job and every worker stops, unless
\* some worker renews the run's lease for ever.
RunSettles ==
  \A r \in Runs :
    \/ []<><<\E n \in AttemptNumbers : HeartbeatRunExecution(r, n)>>_vars
    \/ (runs[r].state \in Pending) ~> (runs[r].state \in Terminal)

=============================================================================
