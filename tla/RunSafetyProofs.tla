-------------------------- MODULE RunSafetyProofs --------------------------
(***************************************************************************)
(* What follows from the agreement of the rows: the safety invariants of   *)
(* RunLifecycle, what its steps may never do, and that every step on the   *)
(* tables is a transition ADR-0006 permits or one its users cannot see:    *)
(* RunLifecycle implements RunStateMachine.                                *)
(***************************************************************************)
EXTENDS RunLifecycleProofs

-----------------------------------------------------------------------------
(* Invariants. *)

\* claim, heartbeat, complete, fail and both recovery passes keep one attempt in
\* power at most: the one the run's lease names.
THEOREM Authority == Spec => []SoleAuthority
<1>1. TypeOK /\ Agreement => SoleAuthority
  <2> SUFFICES ASSUME TypeOK, Agreement, NEW r \in Runs, NEW n \in AttemptNumbers
               PROVE  /\ attempts[r][n].status = "running" <=> runs[r].lease_token = n
                      /\ runs[r].lease_token = n =>
                           /\ n = runs[r].attempt_count
                           /\ attempts[r][n].lease = runs[r].lease
                           /\ runs[r].state \in {"running", "cancel_requested"}
    BY DEF SoleAuthority
  <2> QED
    BY Rows DEF AuthorityAgrees, AttemptNumbers
<1> QED
  BY <1>1, Agreeing, PTL

\* A running run has a lease that can expire, so recovery can find it.
THEOREM Leased == Spec => []RunningHoldsLease
<1>1. TypeOK /\ Agreement => RunningHoldsLease
  BY Rows DEF AuthorityAgrees, RunningHoldsLease
<1> QED
  BY <1>1, Agreeing, PTL

\* Recovery replaces a dispatch and never adds a second open one.
THEOREM SingleDispatch == Spec => []OneOpenDispatch
<1>1. TypeOK /\ Agreement => OneOpenDispatch
  BY Rows DEF DispatchAgrees, OneOpenDispatch, Generation
<1> QED
  BY <1>1, Agreeing, PTL

\* A waiting run has an attempt left and a row that can still be claimed.
THEOREM Proceeding == Spec => []WaitingCanProceed
<1>1. TypeOK /\ Agreement => WaitingCanProceed
  <2> SUFFICES ASSUME TypeOK, Agreement, NEW r \in Runs, runs[r].state \in Waiting
               PROVE  /\ runs[r].attempt_count < MaxAttempts
                      /\ outbox[r][Generation(r)].status = "pending" =>
                           outbox[r][Generation(r)].count < MaxDispatches
    BY DEF WaitingCanProceed
  <2>1. runs[r].dispatch_generation \in Generations
    BY Rows, CapsAssumption DEF CountsAgree, Waiting, RunRows, Generations
  <2> QED
    BY <2>1, Rows DEF CountsAgree, DispatchAgrees, Generation
<1> QED
  BY <1>1, Agreeing, PTL

\* A result is the result of the run's one succeeded attempt.
THEOREM Witnessed == Spec => []ResultIsWitnessed
<1>1. TypeOK /\ Agreement => ResultIsWitnessed
  BY Rows DEF ResultAgrees, ResultIsWitnessed
<1> QED
  BY <1>1, Agreeing, PTL

\* A finished run leaves nothing to publish.
THEOREM Quiet == Spec => []FinishedIsQuiet
<1>1. TypeOK /\ Agreement => FinishedIsQuiet
  <2> SUFFICES ASSUME TypeOK, Agreement, NEW r \in Runs, NEW g \in Generations
               PROVE  /\ runs[r].state \in Terminal => outbox[r][g].status \notin {"pending", "claimed"}
                      /\ runs[r].state = "canceled" => outbox[r][g].status \in {"none", "terminal"}
    BY DEF FinishedIsQuiet
  <2>1. /\ runs[r].dispatch_generation \in Nat /\ g \in Nat
        /\ DispatchAgrees(runs[r], outbox[r])
    BY Rows, CapsAssumption DEF RunRows, Generations
  <2>2. runs[r].state \in Terminal => outbox[r][g].status \notin {"pending", "claimed"}
    BY ClaimableRow DEF Terminal
  <2>3. CASE g > runs[r].dispatch_generation
    BY <2>1, <2>2, <2>3 DEF DispatchAgrees, NoOutbox
  <2>4. CASE g < runs[r].dispatch_generation
    BY <2>1, <2>2, <2>4 DEF DispatchAgrees
  <2>5. CASE g = runs[r].dispatch_generation
    BY <2>1, <2>2, <2>5 DEF DispatchAgrees
  <2> QED
    BY <2>1, <2>2, <2>3, <2>4, <2>5
<1> QED
  BY <1>1, Agreeing, PTL

-----------------------------------------------------------------------------
(* Steps. *)

\* A function called for one run leaves the rows of the others alone.
LEMMA OnlyItsRows ==
  ASSUME TypeOK, NEW q \in Runs, RunStep(q), NEW r \in Runs, r # q
  PROVE  /\ runs'[r] = runs[r] /\ attempts'[r] = attempts[r]
         /\ outbox'[r] = outbox[r] /\ results'[r] = results[r]
<1>1. CASE ApiStep(q)
  BY <1>1 DEF ApiStep, CreateRun, RequestCancel, TypeOK
<1>2. CASE DispatcherStep(q)
  <2>1. CASE \E g \in Generations : ClaimDueRunOutbox(q, g)
    BY <2>1 DEF ClaimDueRunOutbox, TypeOK
  <2>2. CASE \E g \in Generations, t \in ClaimTokens : ConfirmRunDispatch(q, g, t)
    BY <2>2 DEF ConfirmRunDispatch, TypeOK
  <2>3. CASE \E g \in Generations, t \in ClaimTokens : FailRunDispatch(q, g, t)
    BY <2>3 DEF FailRunDispatch, TypeOK
  <2>4. CASE FinalizeRequestedCancellation(q) \/ FinalizePoisonedDispatch(q)
    BY <2>4 DEF FinalizeRequestedCancellation, FinalizePoisonedDispatch, TypeOK
  <2>5. CASE \E force \in BOOLEAN : ReconcileRunDispatch(q, force)
    <3> PICK force \in BOOLEAN : ReconcileRunDispatch(q, force)
      BY <2>5
    <3>1. attempts'[r] = attempts[r] /\ runs'[r] = runs[r] /\ results'[r] = results[r]
      BY DEF ReconcileRunDispatch, TypeOK
    <3>2. outbox'[r] = outbox[r]
      BY DEF ReconcileRunDispatch, TypeOK
    <3> QED
      BY <3>1, <3>2
  <2> QED
    BY <1>2, <2>1, <2>2, <2>3, <2>4, <2>5 DEF DispatcherStep
<1>3. CASE WorkerStep(q)
  BY <1>3 DEF WorkerStep, ClaimRunExecution, HeartbeatRunExecution, CompleteRunExecution,
     FailRunExecution, CancelAtCheckpoint, CloseAttempt, TypeOK
<1> QED
  BY <1>1, <1>2, <1>3 DEF RunStep

\* Nothing can be done to a finished run.
LEMMA FinishedHasNoStep ==
  ASSUME TypeOK, Agreement, NEW r \in Runs, runs[r].state \in Terminal
  PROVE  ~RunStep(r)
<1>1. ~ApiStep(r)
  BY DEF ApiStep, CreateRun, RequestCancel, Terminal
<1>2. ~DispatcherStep(r)
  <2>1. \A g \in Generations : outbox[r][g].status \notin {"pending", "claimed"}
    BY ClaimableRow DEF Terminal
  <2> QED
    BY <2>1 DEF DispatcherStep, ClaimDueRunOutbox, Due, ConfirmRunDispatch, FailRunDispatch, Claims,
       FinalizeRequestedCancellation, FinalizePoisonedDispatch, ReconcileRunDispatch, Recoverable,
       Waiting, Terminal
<1>3. ~WorkerStep(r)
  <2>1. \A n \in AttemptNumbers : ~HoldsAuthority(r, n)
    BY AuthorityIsLast DEF Terminal
  <2>2. \A g \in Generations : ~ClaimRunExecution(r, g)
    BY DEF ClaimRunExecution, ClaimStatus, Waiting, Terminal
  <2> QED
    BY <2>1, <2>2 DEF WorkerStep, HeartbeatRunExecution, CompleteRunExecution, FailRunExecution
<1> QED
  BY <1>1, <1>2, <1>3 DEF RunStep

\* What the passing of time changes: the countdowns.
LEMMA TickRows ==
  ASSUME TypeOK, Tick, NEW r \in Runs
  PROVE  /\ runs'[r].state = runs[r].state
         /\ runs'[r].attempt_count = runs[r].attempt_count
         /\ runs'[r].dispatch_generation = runs[r].dispatch_generation
         /\ results'[r] = results[r]
         /\ \A n \in AttemptNumbers : /\ attempts'[r][n].status = attempts[r][n].status
                                      /\ attempts'[r][n].lease = Sooner(attempts[r][n].lease)
         /\ \A g \in Generations : /\ outbox'[r][g].status = outbox[r][g].status
                                   /\ outbox'[r][g].error = outbox[r][g].error
<1>1. runs'[r].state = runs[r].state /\ runs'[r].attempt_count = runs[r].attempt_count
      /\ runs'[r].dispatch_generation = runs[r].dispatch_generation /\ results'[r] = results[r]
  BY DEF Tick, TypeOK, RunRows
<1>2. \A n \in AttemptNumbers : /\ attempts'[r][n].status = attempts[r][n].status
                                /\ attempts'[r][n].lease = Sooner(attempts[r][n].lease)
  <2> SUFFICES ASSUME NEW n \in AttemptNumbers
               PROVE  /\ attempts'[r][n].status = attempts[r][n].status
                      /\ attempts'[r][n].lease = Sooner(attempts[r][n].lease)
    OBVIOUS
  <2>1. attempts[r][n] \in AttemptRows
    BY DEF TypeOK
  <2>2. attempts'[r][n] = [attempts[r][n] EXCEPT !.lease = Sooner(attempts[r][n].lease)]
    BY DEF Tick
  <2> QED
    BY <2>1, <2>2 DEF AttemptRows
<1>3. \A g \in Generations : /\ outbox'[r][g].status = outbox[r][g].status
                             /\ outbox'[r][g].error = outbox[r][g].error
  <2> SUFFICES ASSUME NEW g \in Generations
               PROVE  /\ outbox'[r][g].status = outbox[r][g].status
                      /\ outbox'[r][g].error = outbox[r][g].error
    OBVIOUS
  <2>1. outbox[r][g] \in OutboxRows
    BY DEF TypeOK
  <2>2. outbox'[r][g] = [outbox[r][g] EXCEPT !.claim = Sooner(outbox[r][g].claim),
                                             !.next = Sooner(outbox[r][g].next)]
    BY DEF Tick
  <2> QED
    BY <2>1, <2>2 DEF OutboxRows
<1> QED
  BY <1>1, <1>2, <1>3

\* A step of the system, seen from one run: its own functions, time, or nothing.
LEMMA SeenFromRun ==
  ASSUME TypeOK, [Next]_vars, NEW r \in Runs
  PROVE  \/ RunStep(r)
         \/ Tick
         \/ /\ runs'[r] = runs[r] /\ attempts'[r] = attempts[r]
            /\ outbox'[r] = outbox[r] /\ results'[r] = results[r]
<1>1. CASE \E q \in Runs : RunStep(q)
  BY <1>1, OnlyItsRows
<1>2. CASE \E enabled \in BOOLEAN : SetRunCreationControl(enabled)
  BY <1>2 DEF SetRunCreationControl
<1>3. CASE UNCHANGED vars
  BY <1>3 DEF vars
<1> QED
  BY <1>1, <1>2, <1>3 DEF Next

\* A finished run is history for every function, however late it is called.
THEOREM Finality == Spec => FinishedIsFinal
<1>1. TypeOK /\ Agreement /\ [Next]_vars =>
        \A r \in Runs : runs[r].state \in Terminal =>
          /\ runs'[r].state = runs[r].state
          /\ runs'[r].attempt_count = runs[r].attempt_count
          /\ runs'[r].dispatch_generation = runs[r].dispatch_generation
          /\ results'[r] = results[r]
          /\ \A n \in AttemptNumbers : attempts'[r][n].status = attempts[r][n].status
          /\ \A g \in Generations : outbox'[r][g].status = outbox[r][g].status
  BY SeenFromRun, FinishedHasNoStep, TickRows
<1> QED
  BY <1>1, Agreeing, PTL DEF Spec, FinishedIsFinal

\* What a run being canceled can still meet: its dispatcher's answers, its
\* worker's checkpoint, and the finalizer.
LEMMA CanceledRunSteps ==
  ASSUME TypeOK, Agreement, NEW r \in Runs, runs[r].state = "cancel_requested", RunStep(r)
  PROVE  /\ results' = results
         /\ \/ runs' = runs
            \/ runs' = [runs EXCEPT ![r] = Released(r, "canceled")]
<1>1. CASE ApiStep(r)
  BY <1>1 DEF ApiStep, CreateRun, RequestCancel
<1>2. CASE DispatcherStep(r)
  <2>1. ~ (\E force \in BOOLEAN : ReconcileRunDispatch(r, force)) /\ ~FinalizePoisonedDispatch(r)
    BY DEF ReconcileRunDispatch, Recoverable, FinalizePoisonedDispatch, Waiting
  <2> QED
    BY <1>2, <2>1 DEF DispatcherStep, ClaimDueRunOutbox, ConfirmRunDispatch, FailRunDispatch,
       FinalizeRequestedCancellation, Waiting
<1>3. CASE WorkerStep(r)
  <2>1. \A g \in Generations : ~ClaimRunExecution(r, g)
    BY DEF ClaimRunExecution, ClaimStatus, Waiting
  <2> QED
    BY <1>3, <2>1 DEF WorkerStep, HeartbeatRunExecution, CompleteRunExecution, FailRunExecution,
       RetryAllowed, CancelAtCheckpoint, CloseAttempt
<1> QED
  BY <1>1, <1>2, <1>3 DEF RunStep

\* An accepted cancellation cannot be overtaken by completion, retry or recovery.
THEOREM Cancellation == Spec => CancelWins
<1>1. TypeOK /\ Agreement /\ [Next]_vars =>
        \A r \in Runs : runs[r].state = "cancel_requested" =>
          /\ runs'[r].state \in {"cancel_requested", "canceled"}
          /\ results'[r] = results[r]
          /\ runs'[r].attempt_count = runs[r].attempt_count
  <2> SUFFICES ASSUME TypeOK, Agreement, [Next]_vars, NEW r \in Runs,
                      runs[r].state = "cancel_requested"
               PROVE  /\ runs'[r].state \in {"cancel_requested", "canceled"}
                      /\ results'[r] = results[r]
                      /\ runs'[r].attempt_count = runs[r].attempt_count
    OBVIOUS
  <2>1. CASE RunStep(r)
    <3>1. /\ Released(r, "canceled").state = "canceled"
          /\ Released(r, "canceled").attempt_count = runs[r].attempt_count
      BY DEF Released, TypeOK, RunRows
    <3>2. results'[r] = results[r] /\ (runs'[r] = runs[r] \/ runs'[r] = Released(r, "canceled"))
      BY <2>1, CanceledRunSteps DEF TypeOK
    <3> QED
      BY <3>1, <3>2
  <2>2. CASE Tick
    BY <2>2, TickRows
  <2> QED
    BY <2>1, <2>2, SeenFromRun
<1> QED
  BY <1>1, Agreeing, PTL DEF Spec, CancelWins

\* An operator's declaration that Redis is lost does not take a run from a worker
\* whose lease is live: recovery waits for the lease.
THEOREM Sparing == Spec => RecoverySparesLiveWork
<1>1. TypeOK /\ Agreement /\ [Next]_vars =>
        \A r \in Runs : LeaseLive(r) =>
          /\ runs'[r].dispatch_generation = runs[r].dispatch_generation
          /\ \A n \in AttemptNumbers :
               attempts[r][n].status = "running" => attempts'[r][n].status # "superseded"
  <2> SUFFICES ASSUME TypeOK, Agreement, [Next]_vars, NEW r \in Runs, LeaseLive(r)
               PROVE  /\ runs'[r].dispatch_generation = runs[r].dispatch_generation
                      /\ \A n \in AttemptNumbers :
                           attempts[r][n].status = "running" => attempts'[r][n].status # "superseded"
    OBVIOUS
  <2>1. /\ runs[r].state \in {"running", "cancel_requested"} /\ runs[r].lease # 0
        /\ runs[r] \in RunRows /\ attempts[r] \in [AttemptNumbers -> AttemptRows]
    BY Rows DEF LeaseLive, AuthorityAgrees, RunRows
  <2>2. CASE ApiStep(r)
    <3>1. RequestCancel(r)
      BY <2>1, <2>2 DEF ApiStep, CreateRun
    <3>2. attempts' = attempts /\ runs'[r] = [runs[r] EXCEPT !.state = "cancel_requested"]
      BY <3>1 DEF RequestCancel, TypeOK
    <3>3. runs'[r].dispatch_generation = runs[r].dispatch_generation
      BY <2>1, <3>2 DEF RunRows
    <3> QED
      BY <3>2, <3>3
  <2>3. CASE DispatcherStep(r)
    <3>1. /\ ~ \E force \in BOOLEAN : ReconcileRunDispatch(r, force)
          /\ ~FinalizePoisonedDispatch(r) /\ ~FinalizeRequestedCancellation(r)
      BY DEF ReconcileRunDispatch, Recoverable, Unheld, FinalizePoisonedDispatch,
         FinalizeRequestedCancellation
    <3>2. UNCHANGED <<runs, attempts>>
      BY <2>1, <2>3, <3>1 DEF DispatcherStep, ClaimDueRunOutbox, ConfirmRunDispatch,
         FailRunDispatch, Waiting
    <3> QED
      BY <2>1, <3>2
  <2>4. CASE WorkerStep(r)
    <3>1. ASSUME NEW n \in AttemptNumbers, NEW status \in AttemptStatuses, NEW s \in RunStates,
                 CloseAttempt(r, n, status, s), status # "superseded"
          PROVE  /\ runs'[r].dispatch_generation = runs[r].dispatch_generation
                 /\ \A k \in AttemptNumbers :
                      attempts[r][k].status = "running" => attempts'[r][k].status # "superseded"
      BY <2>1, <3>1 DEF CloseAttempt, Released, TypeOK, RunRows
    <3>2. \A g \in Generations : ~ClaimRunExecution(r, g)
      BY <2>1 DEF ClaimRunExecution, ClaimStatus, Waiting
    <3>3. ASSUME NEW n \in AttemptNumbers, HeartbeatRunExecution(r, n)
          PROVE  /\ runs'[r].dispatch_generation = runs[r].dispatch_generation
                 /\ \A k \in AttemptNumbers : attempts'[r][k].status = attempts[r][k].status
      BY <2>1, <3>3 DEF HeartbeatRunExecution, TypeOK, RunRows, AttemptRows
    <3> QED
      BY <2>4, <3>1, <3>2, <3>3, StatusNames, StateNames
      DEF WorkerStep, CompleteRunExecution, FailRunExecution, CancelAtCheckpoint
  <2>5. CASE Tick
    BY <2>5, TickRows
  <2> QED
    BY <2>2, <2>3, <2>4, <2>5, SeenFromRun DEF RunStep
<1> QED
  BY <1>1, Agreeing, PTL DEF Spec, RecoverySparesLiveWork

\* A worker that lets its lease run out can do nothing more with its attempt: no
\* heartbeat revives it, no completion or failure is accepted from it.
THEOREM Powerless == Spec => ExpiredIsPowerless
<1>1. TypeOK /\ Agreement /\ [Next]_vars =>
        \A r \in Runs, n \in AttemptNumbers :
          (attempts[r][n].status = "running" /\ attempts[r][n].lease = 0) =>
            /\ attempts'[r][n].lease = 0
            /\ attempts'[r][n].status \in {"running", "superseded", "canceled"}
  <2> SUFFICES ASSUME TypeOK, Agreement, [Next]_vars, NEW r \in Runs, NEW n \in AttemptNumbers,
                      attempts[r][n].status = "running", attempts[r][n].lease = 0
               PROVE  /\ attempts'[r][n].lease = 0
                      /\ attempts'[r][n].status \in {"running", "superseded", "canceled"}
    OBVIOUS
  <2>1. /\ runs[r].lease_token = n /\ n # 0 /\ runs[r].lease = 0
        /\ runs[r].state \in {"running", "cancel_requested"}
        /\ attempts[r] \in [AttemptNumbers -> AttemptRows]
    BY Rows DEF AuthorityAgrees, AttemptNumbers
  <2>2. ~WorkerStep(r)
    BY <2>1 DEF WorkerStep, ClaimRunExecution, ClaimStatus, Waiting, HeartbeatRunExecution,
       CompleteRunExecution, FailRunExecution, HoldsAuthority, LeaseLive
  <2>3. CASE ApiStep(r)
    <3>1. attempts' = attempts
      BY <2>3 DEF ApiStep, CreateRun, RequestCancel
    <3> QED
      BY <3>1
  <2>4. CASE DispatcherStep(r)
    <3>1. attempts'[r] \in {attempts[r], Abandoned(r, "canceled"), Abandoned(r, "superseded")}
      BY <2>4 DEF DispatcherStep, ClaimDueRunOutbox, ConfirmRunDispatch, FailRunDispatch,
         FinalizeRequestedCancellation, FinalizePoisonedDispatch, ReconcileRunDispatch, TypeOK
    <3> QED
      BY <2>1, <3>1 DEF Abandoned
  <2>5. CASE Tick
    <3>1. Sooner(0) = 0
      BY DEF Sooner
    <3> QED
      BY <2>5, <3>1, TickRows
  <2> QED
    BY <2>2, <2>3, <2>4, <2>5, SeenFromRun DEF RunStep
<1> QED
  BY <1>1, Agreeing, PTL DEF Spec, ExpiredIsPowerless

-----------------------------------------------------------------------------
(* The capacity of an organization. *)

\* A run that does not count against its organization comes to count only by a
\* claim: a cancellation keeps the slot of the run it finds executing.
LEMMA OnlyClaimsOccupy ==
  ASSUME TypeOK, Agreement, [Next]_vars, NEW o \in Orgs, NEW r \in Runs,
         \A g \in Generations : ~ClaimRunExecution(r, g),
         r \in Occupants(o)'
  PROVE  r \in Occupants(o)
<1>1. /\ OrgOf[r] = o
      /\ \/ runs'[r].state = "running"
         \/ runs'[r].state = "cancel_requested" /\ runs'[r].lease > 0
  BY DEF Occupants, LeaseLive
<1>2. runs[r] \in RunRows /\ AuthorityAgrees(runs[r], attempts[r])
  BY Rows
<1>3. CASE RequestCancel(r)
  <2>1. runs'[r] = [runs[r] EXCEPT !.state = "cancel_requested"]
    BY <1>3 DEF RequestCancel, TypeOK
  <2>2. runs'[r].state = "cancel_requested" /\ runs[r].lease > 0
    BY <1>1, <1>2, <2>1 DEF RunRows
  <2>3. runs[r].state = "running"
    BY <1>2, <1>3, <2>2, WaitingIsUnheld DEF RequestCancel, Waiting
  <2> QED
    BY <1>1, <2>3 DEF Occupants
<1>4. CASE CreateRun(r)
  <2>1. runs'[r].state = "queued"
    BY <1>2, <1>4 DEF CreateRun, TypeOK, RunRows
  <2> QED
    BY <1>1, <2>1
<1>5. CASE DispatcherStep(r)
  <2>1. \/ runs'[r] = runs[r]
        \/ runs'[r].state \in {"failed", "canceled", "queued", "retrying"}
    <3>1. \A s \in RunStates : Released(r, s).state = s
      BY <1>2 DEF Released, RunRows
    <3>2. ASSUME NEW force \in BOOLEAN, ReconcileRunDispatch(r, force)
          PROVE  runs'[r].state \in {"failed", "queued", "retrying"}
      <4>1. CASE RecoveryExhausted(r)
        BY <3>1, <3>2, <4>1, StateNames DEF ReconcileRunDispatch, TypeOK
      <4>2. CASE ~RecoveryExhausted(r)
        <5> DEFINE row == Released(r, RecoveredState(r))
        <5>1. RecoveredState(r) \in {"queued", "retrying"} /\ row \in RunRows
          BY <3>2, ReleasedType, StateNames DEF ReconcileRunDispatch, Recoverable, RecoveredState
        <5>2. row.state = RecoveredState(r)
          BY <3>1, <5>1, StateNames
        <5> HIDE DEF row
        <5>3. runs'[r] = [row EXCEPT !.dispatch_generation = Generation(r) + 1, !.quiet = StaleTicks]
          BY <3>2, <4>2 DEF ReconcileRunDispatch, TypeOK, row
        <5> QED
          BY <5>1, <5>2, <5>3 DEF RunRows
      <4> QED
        BY <4>1, <4>2
    <3> QED
      BY <1>5, <3>1, <3>2, StateNames DEF DispatcherStep, ClaimDueRunOutbox, ConfirmRunDispatch,
         FailRunDispatch, FinalizeRequestedCancellation, FinalizePoisonedDispatch, TypeOK
  <2> QED
    BY <1>1, <2>1 DEF Occupants, LeaseLive
<1>6. CASE WorkerStep(r)
  <2>1. PICK n \in AttemptNumbers : HoldsAuthority(r, n)
    BY <1>6 DEF WorkerStep, HeartbeatRunExecution, CompleteRunExecution, FailRunExecution
  <2> QED
    BY <1>1, <2>1, AuthorityIsLast DEF HoldsAuthority, Occupants
<1>7. CASE Tick
  <2>1. runs'[r].state = runs[r].state /\ runs'[r].lease = Sooner(runs[r].lease)
    BY <1>2, <1>7 DEF Tick, RunRows
  <2> QED
    BY <1>1, <1>2, <2>1 DEF Occupants, LeaseLive, Sooner, RunRows
<1>8. CASE runs'[r] = runs[r]
  BY <1>1, <1>8 DEF Occupants, LeaseLive
<1> QED
  BY <1>3, <1>4, <1>5, <1>6, <1>7, <1>8, SeenFromRun DEF RunStep, ApiStep

\* However many workers claim, an organization never executes more than its
\* capacity, cancellations still at work included.
THEOREM Capacity == Spec => []OccupancyBounded
<1>1. ASSUME NEW o \in Orgs
      PROVE  IsFiniteSet(Occupants(o)) /\ IsFiniteSet(Occupants(o)')
  <2>1. Occupants(o) \subseteq Runs /\ Occupants(o)' \subseteq Runs
    BY DEF Occupants
  <2> QED
    BY <2>1, RunsAssumption, FS_Subset
<1>2. Init => OccupancyBounded
  <2> SUFFICES ASSUME Init, NEW o \in Orgs
               PROVE  Cardinality(Occupants(o)) <= OrgCapacity
    BY DEF OccupancyBounded
  <2>1. Occupants(o) = {}
    BY DEF Init, Occupants
  <2> QED
    BY <2>1, FS_EmptySet, CapsAssumption
<1>3. TypeOK /\ Agreement /\ OccupancyBounded /\ [Next]_vars => OccupancyBounded'
  <2> SUFFICES ASSUME TypeOK, Agreement, OccupancyBounded, [Next]_vars, NEW o \in Orgs
               PROVE  Cardinality(Occupants(o)') <= OrgCapacity
    BY DEF OccupancyBounded
  <2>1. Cardinality(Occupants(o)) \in Nat /\ Cardinality(Occupants(o)') \in Nat
    BY <1>1, FS_CardinalityType
  <2>2. Occupants(o) \subseteq Runs /\ Occupants(o)' \subseteq Runs
    BY DEF Occupants
  <2>3. CASE \E r \in Runs, g \in Generations : ClaimRunExecution(r, g) /\ OrgOf[r] = o
    <3> PICK r \in Runs, g \in Generations : ClaimRunExecution(r, g) /\ OrgOf[r] = o
      BY <2>3
    <3>1. Cardinality(Occupants(o)) < OrgCapacity
      BY <2>1, CapsAssumption DEF ClaimRunExecution, ClaimStatus
    <3>2. Occupants(o)' \subseteq Occupants(o) \cup {r}
      <4>1. \A q \in Runs : q # r => runs'[q] = runs[q]
        BY DEF ClaimRunExecution, TypeOK
      <4> QED
        BY <4>1 DEF Occupants, LeaseLive
    <3>3. /\ IsFiniteSet(Occupants(o) \cup {r})
          /\ Cardinality(Occupants(o) \cup {r}) <= Cardinality(Occupants(o)) + 1
          /\ Cardinality(Occupants(o) \cup {r}) \in Nat
      <4>1. /\ IsFiniteSet(Occupants(o) \cup {r})
            /\ Cardinality(Occupants(o) \cup {r}) =
                 IF r \in Occupants(o) THEN Cardinality(Occupants(o))
                 ELSE Cardinality(Occupants(o)) + 1
        BY <1>1, FS_AddElement
      <4> QED
        BY <2>1, <4>1
    <3>4. Cardinality(Occupants(o)') <= Cardinality(Occupants(o) \cup {r})
      BY <3>2, <3>3, FS_Subset
    <3> QED
      BY <2>1, <3>1, <3>3, <3>4, CapsAssumption
  <2>4. CASE ~ \E r \in Runs, g \in Generations : ClaimRunExecution(r, g) /\ OrgOf[r] = o
    <3>1. Occupants(o)' \subseteq Occupants(o)
      <4> SUFFICES ASSUME NEW r \in Occupants(o)' PROVE r \in Occupants(o)
        OBVIOUS
      <4>1. r \in Runs /\ OrgOf[r] = o
        BY DEF Occupants
      <4> QED
        BY <2>4, <4>1, OnlyClaimsOccupy
    <3>2. Cardinality(Occupants(o)') <= Cardinality(Occupants(o))
      BY <1>1, <3>1, FS_Subset
    <3> QED
      BY <2>1, <3>2, CapsAssumption DEF OccupancyBounded
  <2> QED
    BY <2>3, <2>4
<1> QED
  BY <1>2, <1>3, Agreeing, PTL DEF Spec

-----------------------------------------------------------------------------
(* Poison. *)

\* Which writes of an outbox row can give it the error of an exhausted dispatch.
LEMMA ExhaustedRows ==
  ASSUME NEW row \in OutboxRows, row.error # "dispatch_exhausted"
  PROVE  /\ Taken(row).error # "dispatch_exhausted"
         /\ Confirmed(row).error # "dispatch_exhausted"
         /\ Returned(row).error # "dispatch_exhausted"
         /\ [row EXCEPT !.claim = Sooner(@), !.next = Sooner(@)].error # "dispatch_exhausted"
         /\ \A error : error # "dispatch_exhausted" =>
              Closed(row, error).error # "dispatch_exhausted"
BY DEF Taken, Confirmed, Returned, Closed, OutboxRows

\* A dispatch is given up as exhausted only together with the latch.
THEOREM Poison == Spec => PoisonStopsAdmission
<1>1. TypeOK /\ [Next]_vars =>
        \A r \in Runs, g \in Generations :
          (outbox'[r][g].error = "dispatch_exhausted" /\ outbox[r][g].error = "none")
             => ~run_creation'
  <2> SUFFICES ASSUME TypeOK, [Next]_vars, NEW r \in Runs, NEW g \in Generations,
                      outbox'[r][g].error = "dispatch_exhausted", outbox[r][g].error = "none"
               PROVE  ~run_creation'
    OBVIOUS
  <2>0. /\ outbox \in [Runs -> [Generations -> OutboxRows]]
        /\ outbox[r][g] \in OutboxRows /\ outbox[r][g].error # "dispatch_exhausted"
        /\ NewOutbox.error # "dispatch_exhausted"
    BY DEF TypeOK, NewOutbox
  <2>1. CASE ApiStep(r)
    <3>1. outbox'[r][g] = outbox[r][g] \/ outbox'[r][g] = NewOutbox
      BY <2>0, <2>1 DEF ApiStep, CreateRun, RequestCancel
    <3> QED
      BY <2>0, <3>1
  <2>2. CASE WorkerStep(r)
    <3>1. outbox'[r][g] = outbox[r][g] \/ outbox'[r][g] = Closed(outbox[r][g], "canceled")
      BY <2>0, <2>2 DEF WorkerStep, ClaimRunExecution, HeartbeatRunExecution, CompleteRunExecution,
         FailRunExecution, CancelAtCheckpoint, AllCanceled
    <3> QED
      BY <2>0, <3>1, ExhaustedRows
  <2>3. ASSUME NEW h \in Generations, ClaimDueRunOutbox(r, h) PROVE FALSE
    <3>1. outbox'[r][g] = outbox[r][g] \/ outbox'[r][g] = Taken(outbox[r][g])
      BY <2>0, <2>3 DEF ClaimDueRunOutbox
    <3> QED
      BY <2>0, <3>1, ExhaustedRows
  <2>4. ASSUME NEW h \in Generations, NEW t \in ClaimTokens, ConfirmRunDispatch(r, h, t) PROVE FALSE
    <3>1. outbox'[r][g] = outbox[r][g] \/ outbox'[r][g] = Confirmed(outbox[r][g])
      BY <2>0, <2>4 DEF ConfirmRunDispatch
    <3> QED
      BY <2>0, <3>1, ExhaustedRows
  <2>5. ASSUME NEW h \in Generations, NEW t \in ClaimTokens, FailRunDispatch(r, h, t)
        PROVE  ~run_creation'
    <3>1. CASE DispatchSpent(outbox[r][h])
      BY <2>5, <3>1 DEF FailRunDispatch, LatchRunCreation
    <3>2. CASE ~DispatchSpent(outbox[r][h])
      <4>1. outbox'[r][g] = outbox[r][g] \/ outbox'[r][g] = Returned(outbox[r][g])
        BY <2>0, <2>5, <3>2 DEF FailRunDispatch
      <4> QED
        BY <2>0, <4>1, ExhaustedRows
    <3> QED
      BY <3>1, <3>2
  <2>6. CASE FinalizeRequestedCancellation(r)
    <3>1. outbox'[r][g] = Closed(outbox[r][g], "canceled")
      BY <2>0, <2>6 DEF FinalizeRequestedCancellation, AllCanceled
    <3> QED
      BY <2>0, <3>1, ExhaustedRows
  <2>7. CASE FinalizePoisonedDispatch(r)
    BY <2>7 DEF FinalizePoisonedDispatch, LatchRunCreation
  <2>8. ASSUME NEW force \in BOOLEAN, ReconcileRunDispatch(r, force) PROVE FALSE
    <3>1. \/ outbox'[r][g] \in {outbox[r][g], NewOutbox}
          \/ outbox'[r][g] = Closed(outbox[r][g], "recovery_exhausted")
          \/ outbox'[r][g] = Closed(outbox[r][g], "recovery_replaced")
      <4>1. CASE RecoveryExhausted(r)
        BY <2>0, <2>8, <4>1 DEF ReconcileRunDispatch
      <4>2. CASE ~RecoveryExhausted(r)
        <5>1. outbox' = [outbox EXCEPT ![r][Generation(r)] = Closed(@, "recovery_replaced"),
                                       ![r][Generation(r) + 1] = NewOutbox]
          BY <2>8, <4>2 DEF ReconcileRunDispatch
        <5> QED
          BY <2>0, <5>1
      <4> QED
        BY <4>1, <4>2
    <3> QED
      BY <2>0, <3>1, ExhaustedRows
  <2>9. CASE Tick
    <3>1. outbox'[r][g] = [outbox[r][g] EXCEPT !.claim = Sooner(@), !.next = Sooner(@)]
      BY <2>9 DEF Tick
    <3> QED
      BY <2>0, <3>1, ExhaustedRows
  <2> QED
    BY <2>0, <2>1, <2>2, <2>3, <2>4, <2>5, <2>6, <2>7, <2>8, <2>9, SeenFromRun
    DEF RunStep, DispatcherStep
<1> QED
  BY <1>1, Typing, PTL DEF Spec, PoisonStopsAdmission

-----------------------------------------------------------------------------
(* The refinement of RunStateMachine. *)

\* What the users see of the tables.
seen_state == [r \in Runs |-> runs[r].state]
seen_tries == [r \in Runs |-> runs[r].attempt_count]
at_work    == {r \in Runs : LeaseLive(r)}

\* What users see of a step on one run.
LEMMA SeenRows ==
  ASSUME TypeOK, TypeOK', NEW q \in Runs, RunStep(q)
  PROVE  /\ seen_state' = [seen_state EXCEPT ![q] = runs'[q].state]
         /\ seen_tries' = [seen_tries EXCEPT ![q] = runs'[q].attempt_count]
         /\ results' = [results EXCEPT ![q] = results'[q]]
         /\ at_work' = IF runs'[q].lease > 0 THEN at_work \cup {q} ELSE at_work \ {q}
<1>1. \A r \in Runs : r # q => runs'[r] = runs[r] /\ results'[r] = results[r]
  BY OnlyItsRows
<1>2. seen_state' = [seen_state EXCEPT ![q] = runs'[q].state]
  BY <1>1 DEF seen_state
<1>3. seen_tries' = [seen_tries EXCEPT ![q] = runs'[q].attempt_count]
  BY <1>1 DEF seen_tries
<1>4. results' = [results EXCEPT ![q] = results'[q]]
  BY <1>1 DEF TypeOK
<1>5. at_work' = IF runs'[q].lease > 0 THEN at_work \cup {q} ELSE at_work \ {q}
  BY <1>1 DEF at_work, LeaseLive
<1> QED
  BY <1>2, <1>3, <1>4, <1>5

\* The row of the run after a step that ends its lease.
LEMMA ReleasedRow ==
  ASSUME TypeOK, NEW q \in Runs, NEW s, runs' = [runs EXCEPT ![q] = Released(q, s)]
  PROVE  /\ runs'[q].state = s /\ runs'[q].lease = 0
         /\ runs'[q].attempt_count = runs[q].attempt_count
<1>1. runs \in [Runs -> RunRows] /\ runs[q] \in RunRows
  BY DEF TypeOK
<1> QED
  BY <1>1 DEF Released, RunRows

\* A step that leaves the visible columns of the run as they are is a stutter.
LEMMA Unseen ==
  ASSUME TypeOK, TypeOK', NEW q \in Runs, RunStep(q),
         runs'[q].state = runs[q].state, runs'[q].attempt_count = runs[q].attempt_count,
         runs'[q].lease > 0 <=> runs[q].lease > 0, results'[q] = results[q]
  PROVE  UNCHANGED Promise!abstract
<1>1. /\ seen_state' = [seen_state EXCEPT ![q] = runs[q].state]
      /\ seen_tries' = [seen_tries EXCEPT ![q] = runs[q].attempt_count]
      /\ results' = [results EXCEPT ![q] = results[q]]
  BY SeenRows
<1>2. seen_state' = seen_state /\ seen_tries' = seen_tries
  BY <1>1 DEF seen_state, seen_tries
<1>3. results' = results
  BY <1>1 DEF TypeOK
<1>4. at_work' = at_work
  BY SeenRows DEF at_work, LeaseLive
<1> QED
  BY <1>2, <1>3, <1>4 DEF Promise!abstract, seen_state, seen_tries, at_work

\* A visible step of the API.
LEMMA ApiPromise ==
  ASSUME TypeOK, TypeOK', Agreement, NEW q \in Runs, ApiStep(q)
  PROVE  Promise!RunMoves(q)
<1>0. /\ RunStep(q) /\ runs \in [Runs -> RunRows] /\ runs[q] \in RunRows
  BY DEF RunStep, TypeOK
<1>1. CASE CreateRun(q)
  <2>1. runs'[q] = [runs[q] EXCEPT !.state = "queued", !.dispatch_generation = 1,
                                   !.quiet = StaleTicks]
    BY <1>0, <1>1 DEF CreateRun
  <2>2. /\ runs[q].state = "absent" /\ runs'[q].state = "queued" /\ results' = results
        /\ runs'[q].attempt_count = runs[q].attempt_count /\ runs'[q].lease = runs[q].lease
    BY <1>0, <1>1, <2>1 DEF CreateRun, RunRows
  <2>3. seen_tries' = seen_tries /\ at_work' = at_work
    BY <1>0, <2>2, SeenRows DEF seen_tries, at_work, LeaseLive
  <2>4. Promise!Admit(q)
    BY <1>0, <2>2, <2>3, SeenRows DEF Promise!Admit, Promise!Move, seen_state, seen_tries, at_work
  <2> QED
    BY <2>4 DEF Promise!RunMoves
<1>2. CASE RequestCancel(q)
  <2>1. runs'[q] = [runs[q] EXCEPT !.state = "cancel_requested"]
    BY <1>0, <1>2 DEF RequestCancel
  <2>2. /\ runs[q].state \in {"queued", "running", "retrying"}
        /\ runs'[q].state = "cancel_requested" /\ results' = results
        /\ runs'[q].attempt_count = runs[q].attempt_count /\ runs'[q].lease = runs[q].lease
    BY <1>0, <1>2, <2>1 DEF RequestCancel, RunRows
  <2>3. seen_tries' = seen_tries /\ at_work' = at_work
    BY <1>0, <2>2, SeenRows DEF seen_tries, at_work, LeaseLive
  <2>4. Promise!RequestCancel(q)
    BY <1>0, <2>2, <2>3, SeenRows DEF Promise!RequestCancel, Promise!Move, seen_state, seen_tries, at_work
  <2> QED
    BY <2>4 DEF Promise!RunMoves
<1> QED
  BY <1>1, <1>2 DEF ApiStep

\* A run that leaves its state without a result, its lease gone.
LEMMA EndsWithout ==
  ASSUME TypeOK, TypeOK', NEW q \in Runs, RunStep(q), NEW s,
         runs' = [runs EXCEPT ![q] = Released(q, s)]
  PROVE  /\ seen_state' = [seen_state EXCEPT ![q] = s]
         /\ seen_tries' = seen_tries
         /\ at_work' = at_work \ {q}
<1>0. /\ runs'[q].state = s /\ runs'[q].lease = 0
      /\ runs'[q].attempt_count = runs[q].attempt_count
  BY ReleasedRow
<1>1. /\ seen_state' = [seen_state EXCEPT ![q] = s]
      /\ seen_tries' = [seen_tries EXCEPT ![q] = runs[q].attempt_count]
      /\ at_work' = at_work \ {q}
  BY <1>0, SeenRows
<1> QED
  BY <1>1 DEF seen_tries

\* A failed run.
LEMMA FailPromise ==
  ASSUME TypeOK, TypeOK', NEW q \in Runs, RunStep(q),
         runs[q].state \in {"queued", "running", "retrying"},
         runs' = [runs EXCEPT ![q] = Released(q, "failed")], results' = results
  PROVE  Promise!RunMoves(q)
<1>1. Promise!Fail(q)
  BY EndsWithout DEF Promise!Fail, Promise!Move, seen_state, seen_tries, at_work
<1> QED
  BY <1>1 DEF Promise!RunMoves

\* A canceled run.
LEMMA CancelPromise ==
  ASSUME TypeOK, TypeOK', NEW q \in Runs, RunStep(q),
         runs[q].state = "cancel_requested",
         runs' = [runs EXCEPT ![q] = Released(q, "canceled")], results' = results
  PROVE  Promise!RunMoves(q)
<1>1. Promise!Cancel(q)
  BY EndsWithout DEF Promise!Cancel, Promise!Move, seen_state, seen_tries, at_work
<1> QED
  BY <1>1 DEF Promise!RunMoves

\* A running run that will be tried again.
LEMMA RetryPromise ==
  ASSUME TypeOK, TypeOK', NEW q \in Runs, RunStep(q), runs[q].state = "running",
         runs[q].attempt_count < MaxAttempts, results' = results,
         seen_state' = [seen_state EXCEPT ![q] = "retrying"],
         seen_tries' = seen_tries, at_work' = at_work \ {q}
  PROVE  Promise!RunMoves(q)
<1>1. Promise!Retry(q)
  BY DEF Promise!Retry, Promise!Move, seen_state, seen_tries, at_work
<1> QED
  BY <1>1 DEF Promise!RunMoves

\* A step of the dispatcher.
LEMMA DispatcherPromise ==
  ASSUME TypeOK, TypeOK', Agreement, NEW q \in Runs, DispatcherStep(q)
  PROVE  Promise!RunMoves(q) \/ UNCHANGED Promise!abstract
<1>0. /\ RunStep(q) /\ runs \in [Runs -> RunRows] /\ runs[q] \in RunRows
      /\ results' = results
  BY DEF RunStep, TypeOK, DispatcherStep, ClaimDueRunOutbox, ConfirmRunDispatch, FailRunDispatch,
     FinalizeRequestedCancellation, FinalizePoisonedDispatch, ReconcileRunDispatch
<1>1. CASE runs' = runs
  BY <1>0, <1>1 DEF Promise!abstract, LeaseLive
<1>2. ASSUME NEW g \in Generations, NEW t \in ClaimTokens, FailRunDispatch(q, g, t), runs' # runs
      PROVE  Promise!RunMoves(q)
  <2>1. /\ runs[q].state \in Waiting /\ runs' = [runs EXCEPT ![q] = Released(q, "failed")]
    BY <1>2 DEF FailRunDispatch
  <2> QED
    BY <1>0, <2>1, FailPromise DEF Waiting
<1>3. CASE FinalizeRequestedCancellation(q)
  BY <1>0, <1>3, CancelPromise DEF FinalizeRequestedCancellation
<1>4. CASE FinalizePoisonedDispatch(q)
  BY <1>0, <1>4, FailPromise DEF FinalizePoisonedDispatch, Waiting
<1>5. ASSUME NEW force \in BOOLEAN, ReconcileRunDispatch(q, force)
      PROVE  Promise!RunMoves(q) \/ UNCHANGED Promise!abstract
  <2>1. /\ runs[q].state \in {"queued", "running", "retrying"}
        /\ ~LeaseLive(q)
    BY <1>5 DEF ReconcileRunDispatch, Recoverable, Unheld
  <2>2. CASE RecoveryExhausted(q)
    BY <1>0, <1>5, <2>1, <2>2, FailPromise DEF ReconcileRunDispatch
  <2>3. CASE ~RecoveryExhausted(q)
    <3>1. runs'[q] = [Released(q, RecoveredState(q)) EXCEPT
                        !.dispatch_generation = Generation(q) + 1, !.quiet = StaleTicks]
      BY <1>0, <1>5, <2>3 DEF ReconcileRunDispatch
    <3>2. /\ runs'[q].state = RecoveredState(q) /\ runs'[q].lease = 0
          /\ runs'[q].attempt_count = runs[q].attempt_count
      BY <1>0, <3>1 DEF Released, RunRows
    <3>3. CASE runs[q].state = "running"
      <4>1. /\ seen_state' = [seen_state EXCEPT ![q] = "retrying"]
            /\ seen_tries' = [seen_tries EXCEPT ![q] = runs[q].attempt_count]
            /\ at_work' = at_work \ {q}
        BY <1>0, <3>2, <3>3, SeenRows DEF RecoveredState
      <4>2. seen_tries' = seen_tries
        BY <4>1 DEF seen_tries
      <4>3. runs[q].attempt_count < MaxAttempts
        BY <1>0, <2>3, CapsAssumption DEF RecoveryExhausted, RunRows
      <4> QED
        BY <1>0, <3>3, <4>1, <4>2, <4>3, RetryPromise
    <3>4. CASE runs[q].state # "running"
      <4>1. runs[q].lease = 0
        BY <1>0, <2>1 DEF LeaseLive, RunRows
      <4> QED
        BY <1>0, <3>2, <3>4, <4>1, Unseen DEF RecoveredState
    <3> QED
      BY <3>3, <3>4
  <2> QED
    BY <2>2, <2>3
<1> QED
  BY <1>1, <1>2, <1>3, <1>4, <1>5 DEF DispatcherStep, ClaimDueRunOutbox, ConfirmRunDispatch

\* The instance counts as the module does.
LEMMA SameCount ==
  ASSUME NEW S
  PROVE  Promise!Cardinality(S) = Cardinality(S)
BY DEF Promise!Cardinality, Cardinality

\* A step of a worker.
LEMMA WorkerPromise ==
  ASSUME TypeOK, TypeOK', Agreement, NEW q \in Runs, WorkerStep(q)
  PROVE  Promise!RunMoves(q) \/ UNCHANGED Promise!abstract
<1>0. /\ RunStep(q) /\ runs \in [Runs -> RunRows] /\ runs[q] \in RunRows
      /\ results \in [Runs -> 0..MaxAttempts]
      /\ RowsAgree(runs[q], attempts[q], outbox[q], results[q])
  BY DEF RunStep, TypeOK, Agreement
<1>1. ASSUME NEW g \in Generations, ClaimRunExecution(q, g) PROVE Promise!RunMoves(q)
  <2>1. /\ runs'[q].state = "running" /\ runs'[q].lease = LeaseTicks /\ results' = results
        /\ runs'[q].attempt_count = runs[q].attempt_count + 1
    BY <1>0, <1>1 DEF ClaimRunExecution, NextAttempt, RunRows
  <2>2. /\ runs[q].state \in {"queued", "retrying"} /\ runs[q].attempt_count < MaxAttempts
        /\ Cardinality(Occupants(OrgOf[q])) < OrgCapacity
    <3>1. /\ runs[q].state \in {"queued", "retrying"}
          /\ ~(runs[q].attempt_count >= MaxAttempts)
          /\ ~(Cardinality(Occupants(OrgOf[q])) >= OrgCapacity)
      BY <1>1 DEF ClaimRunExecution, ClaimStatus, Waiting
    <3>2. Cardinality(Occupants(OrgOf[q])) \in Nat
      BY RunsAssumption, FS_Subset, FS_CardinalityType DEF Occupants
    <3> QED
      BY <1>0, <3>1, <3>2, CapsAssumption DEF RunRows
  <2>3. /\ seen_state' = [seen_state EXCEPT ![q] = "running"]
        /\ seen_tries' = [seen_tries EXCEPT ![q] = runs[q].attempt_count + 1]
        /\ at_work' = at_work \cup {q}
    BY <1>0, <2>1, SeenRows, TimersAssumption
  <2>4. seen_tries' = [seen_tries EXCEPT ![q] = @ + 1]
    BY <2>3 DEF seen_tries
  <2>5. Occupants(OrgOf[q]) = Promise!Active(OrgOf[q])
    BY DEF Occupants, Promise!Active, LeaseLive
  <2>6. Promise!Start(q)
    <3>1. Promise!Cardinality(Promise!Active(OrgOf[q])) < OrgCapacity
      BY <2>2, <2>5, SameCount
    <3>2. seen_tries[q] < MaxAttempts
      BY <2>2 DEF seen_tries
    <3>3. Promise!Move(q, {"queued", "retrying"}, "running")
      BY <2>2, <2>3 DEF Promise!Move, seen_state
    <3> QED
      BY <2>1, <2>3, <2>4, <3>1, <3>2, <3>3 DEF Promise!Start, seen_tries, at_work
  <2> QED
    BY <2>6 DEF Promise!RunMoves
<1>2. ASSUME NEW n \in AttemptNumbers, HeartbeatRunExecution(q, n) PROVE UNCHANGED Promise!abstract
  <2>1. /\ runs'[q].state = runs[q].state /\ runs'[q].attempt_count = runs[q].attempt_count
        /\ runs'[q].lease > 0 /\ runs[q].lease > 0 /\ results' = results
    BY <1>0, <1>2, TimersAssumption DEF HeartbeatRunExecution, HoldsAuthority, LeaseLive, RunRows
  <2> QED
    BY <1>0, <2>1, Unseen
<1>3. ASSUME NEW n \in AttemptNumbers, CompleteRunExecution(q, n) PROVE Promise!RunMoves(q)
  <2>1. CASE runs[q].state = "cancel_requested"
    BY <1>0, <1>3, <2>1, CancelPromise DEF CompleteRunExecution, CancelAtCheckpoint, CloseAttempt
  <2>2. CASE runs[q].state # "cancel_requested"
    <3>1. /\ runs[q].state = "running" /\ results[q] = 0 /\ LeaseLive(q)
          /\ runs[q].lease_token = n
          /\ results' = [results EXCEPT ![q] = n]
          /\ runs' = [runs EXCEPT ![q] = Released(q, "succeeded")]
      BY <1>3, <2>2 DEF CompleteRunExecution, CloseAttempt, HoldsAuthority
    <3>2. n = runs[q].attempt_count
      BY <1>0, <3>1 DEF RowsAgree, AuthorityAgrees, AttemptNumbers
    <3>3. /\ seen_state' = [seen_state EXCEPT ![q] = "succeeded"]
          /\ seen_tries' = seen_tries /\ at_work' = at_work \ {q}
      BY <1>0, <3>1, EndsWithout
    <3>4. seen_tries[q] = n
      BY <3>2 DEF seen_tries
    <3>5. Promise!Succeed(q)
      BY <3>1, <3>3, <3>4 DEF Promise!Succeed, Promise!Move, seen_state, seen_tries, at_work
    <3> QED
      BY <3>5 DEF Promise!RunMoves
  <2> QED
    BY <2>1, <2>2
<1>4. ASSUME NEW n \in AttemptNumbers, NEW retryable \in BOOLEAN, FailRunExecution(q, n, retryable)
      PROVE  Promise!RunMoves(q)
  <2>0. results' = results
    BY <1>4 DEF FailRunExecution, CancelAtCheckpoint
  <2>1. CASE runs[q].state = "cancel_requested"
    <3>1. runs' = [runs EXCEPT ![q] = Released(q, "canceled")]
      BY <1>4, <2>1 DEF FailRunExecution, CancelAtCheckpoint, CloseAttempt, RetryAllowed
    <3> QED
      BY <1>0, <2>0, <2>1, <3>1, CancelPromise
  <2>2. CASE RetryAllowed(q, retryable)
    <3>1. /\ runs' = [runs EXCEPT ![q] = Released(q, "retrying")]
          /\ runs[q].state = "running" /\ runs[q].attempt_count < MaxAttempts
      BY <1>4, <2>2 DEF FailRunExecution, CancelAtCheckpoint, CloseAttempt, RetryAllowed
    <3> QED
      BY <1>0, <2>0, <3>1, EndsWithout, RetryPromise
  <2>3. CASE runs[q].state # "cancel_requested" /\ ~RetryAllowed(q, retryable)
    <3>1. /\ runs' = [runs EXCEPT ![q] = Released(q, "failed")]
          /\ runs[q].state \in {"running", "retrying"}
      BY <1>4, <2>3 DEF FailRunExecution, CloseAttempt
    <3> QED
      BY <1>0, <2>0, <3>1, FailPromise
  <2> QED
    BY <2>1, <2>2, <2>3
<1> QED
  BY <1>1, <1>2, <1>3, <1>4 DEF WorkerStep

\* Time takes leases away and shows nothing else.
LEMMA TickPromise ==
  ASSUME TypeOK, Tick
  PROVE  Promise!LoseAuthority
<1>1. \A r \in Runs : /\ runs'[r].state = runs[r].state
                      /\ runs'[r].attempt_count = runs[r].attempt_count
                      /\ results'[r] = results[r]
  BY TickRows
<1>2. \A r \in Runs : runs'[r].lease > 0 => runs[r].lease > 0
  <2>1. \A r \in Runs : runs[r] \in RunRows /\ runs'[r].lease = Sooner(runs[r].lease)
    BY DEF Tick, TypeOK, RunRows
  <2> QED
    BY <2>1 DEF Sooner, RunRows
<1>3. results' = results
  BY DEF Tick
<1> QED
  BY <1>1, <1>2, <1>3 DEF Promise!LoseAuthority, LeaseLive

\* The stored functions implement the run state machine of ADR-0006.
THEOREM Keeping == Spec => KeepsPromise
<1>1. Init => Promise!Init
  BY DEF Init, Promise!Init, LeaseLive
<1>2. TypeOK /\ Agreement /\ [Next]_vars => [Promise!Next]_(Promise!abstract)
  <2> SUFFICES ASSUME TypeOK, Agreement, [Next]_vars
               PROVE  Promise!Next \/ UNCHANGED Promise!abstract
    OBVIOUS
  <2>0. TypeOK'
    BY NextTyped
  <2>1. ASSUME NEW r \in Runs, RunStep(r) PROVE Promise!RunMoves(r) \/ UNCHANGED Promise!abstract
    BY <2>0, <2>1, ApiPromise, DispatcherPromise, WorkerPromise DEF RunStep
  <2>2. CASE Tick
    BY <2>2, TickPromise DEF Promise!Next
  <2>3. ASSUME UNCHANGED <<runs, results>> PROVE UNCHANGED Promise!abstract
    BY <2>3 DEF Promise!abstract, LeaseLive
  <2> QED
    BY <2>1, <2>2, <2>3 DEF Next, SetRunCreationControl, vars, Promise!Next
<1> QED
  BY <1>1, <1>2, Agreeing, PTL DEF Spec, KeepsPromise, Promise!Spec

=============================================================================
