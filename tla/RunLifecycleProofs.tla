------------------------- MODULE RunLifecycleProofs -------------------------
(***************************************************************************)
(* Proofs about RunLifecycle for every set of runs and organizations and   *)
(* every value of the caps and deadlines: the tables keep their types, and *)
(* the rows of a run always agree with each other.                         *)
(*                                                                         *)
(* The lemmas on agreement are first about rows alone: each takes the rows *)
(* of a run that agree and shows that what a function makes of them        *)
(* agrees.                                                                 *)
(***************************************************************************)
EXTENDS RunLifecycle, FiniteSetTheorems, TLAPS

-----------------------------------------------------------------------------
(* The columns can hold what the functions write. *)

LEMMA Columns ==
  /\ 0 \in 0..LeaseTicks /\ LeaseTicks \in 0..LeaseTicks
  /\ 0 \in 0..StaleTicks /\ StaleTicks \in 0..StaleTicks
  /\ 0 \in 0..ClaimTicks /\ ClaimTicks \in 0..ClaimTicks
  /\ 0 \in 0..BackoffTicks /\ BackoffTicks \in 0..BackoffTicks
  /\ 0 \in 0..MaxAttempts /\ 0 \in 0..MaxGenerations /\ 1 \in 0..MaxGenerations
  /\ 0 \in 0..MaxDispatches /\ 1 \in Generations
BY CapsAssumption, TimersAssumption DEF Generations

LEMMA StateNames ==
  /\ Waiting \subseteq RunStates /\ Terminal \subseteq RunStates
  /\ "absent" \in RunStates /\ "queued" \in RunStates /\ "running" \in RunStates
  /\ "retrying" \in RunStates /\ "cancel_requested" \in RunStates
  /\ "succeeded" \in RunStates /\ "failed" \in RunStates /\ "canceled" \in RunStates
BY DEF RunStates, Waiting, Pending, Terminal

LEMMA StatusNames ==
  /\ "none" \in AttemptStatuses /\ "running" \in AttemptStatuses
  /\ "succeeded" \in AttemptStatuses /\ "retrying" \in AttemptStatuses
  /\ "failed" \in AttemptStatuses /\ "canceled" \in AttemptStatuses
  /\ "superseded" \in AttemptStatuses
  /\ "none" \in OutboxStatuses /\ "pending" \in OutboxStatuses
  /\ "claimed" \in OutboxStatuses /\ "dispatched" \in OutboxStatuses
  /\ "terminal" \in OutboxStatuses
  /\ "none" \in OutboxErrors /\ "dispatch_exhausted" \in OutboxErrors
  /\ "canceled" \in OutboxErrors /\ "recovery_exhausted" \in OutboxErrors
  /\ "recovery_replaced" \in OutboxErrors
BY DEF AttemptStatuses, OutboxStatuses, OutboxErrors

-----------------------------------------------------------------------------
(* The helpers return rows of the tables. *)

\* Giving up an outbox row leaves a row of the table.
LEMMA ClosedType ==
  ASSUME NEW row \in OutboxRows, NEW error \in OutboxErrors
  PROVE  Closed(row, error) \in OutboxRows
BY Columns, StatusNames DEF Closed, OutboxRows

\* Giving up the lease leaves a row of the table.
LEMMA ReleasedType ==
  ASSUME TypeOK, NEW r \in Runs, NEW s \in RunStates
  PROVE  Released(r, s) \in RunRows
<1>1. runs[r] \in RunRows
  BY DEF TypeOK
<1> QED
  BY <1>1, Columns DEF Released, RunRows

\* What the recovery passes make of the attempts are rows of the table.
LEMMA AbandonedType ==
  ASSUME TypeOK, NEW r \in Runs, NEW s \in AttemptStatuses
  PROVE  Abandoned(r, s) \in [AttemptNumbers -> AttemptRows]
BY Columns DEF Abandoned, TypeOK, AttemptRows

\* So are the outbox rows of a canceled run.
LEMMA AllCanceledType ==
  ASSUME TypeOK, NEW r \in Runs
  PROVE  AllCanceled(r) \in [Generations -> OutboxRows]
BY ClosedType, StatusNames DEF AllCanceled, TypeOK

\* A countdown never leaves its range.
LEMMA SoonerType ==
  ASSUME NEW limit \in Nat, NEW t \in 0..limit
  PROVE  Sooner(t) \in 0..limit
BY DEF Sooner

\* The end of an attempt writes rows of the tables.
LEMMA CloseAttemptType ==
  ASSUME TypeOK, NEW r \in Runs, NEW n \in AttemptNumbers,
         NEW status \in AttemptStatuses, NEW s \in RunStates,
         CloseAttempt(r, n, status, s)
  PROVE  /\ runs' \in [Runs -> RunRows]
         /\ attempts' \in [Runs -> [AttemptNumbers -> AttemptRows]]
<1>1. Released(r, s) \in RunRows
  BY ReleasedType
<1>2. [status |-> status, lease |-> 0] \in AttemptRows
  BY Columns DEF AttemptRows
<1> QED
  BY <1>1, <1>2 DEF CloseAttempt, TypeOK

-----------------------------------------------------------------------------
(* Type correctness. *)

LEMMA InitTyped == Init => TypeOK
<1> SUFFICES ASSUME Init PROVE TypeOK
  OBVIOUS
<1>1. runs \in [Runs -> RunRows]
  BY Columns, StateNames DEF Init, RunRows
<1>2. NoAttempt \in AttemptRows /\ NoOutbox \in OutboxRows
  BY Columns, StatusNames DEF NoAttempt, NoOutbox, AttemptRows, OutboxRows
<1> QED
  BY <1>1, <1>2, Columns DEF Init, TypeOK

\* Every function of the API and the dispatcher keeps the tables well typed.
LEMMA CommandTyped ==
  ASSUME TypeOK, NEW r \in Runs, ApiStep(r) \/ DispatcherStep(r)
  PROVE  TypeOK'
<1>0. /\ runs[r] \in RunRows
      /\ \A g \in Generations : outbox[r][g] \in OutboxRows
      /\ NewOutbox \in OutboxRows
  BY Columns, StatusNames DEF TypeOK, NewOutbox, OutboxRows
<1>1. CASE CreateRun(r)
  <2>1. [runs[r] EXCEPT !.state = "queued", !.dispatch_generation = 1, !.quiet = StaleTicks]
          \in RunRows
    BY <1>0, Columns, StateNames DEF RunRows
  <2> QED
    BY <1>0, <1>1, <2>1, Columns DEF CreateRun, TypeOK
<1>2. CASE RequestCancel(r)
  <2>1. [runs[r] EXCEPT !.state = "cancel_requested"] \in RunRows
    BY <1>0, StateNames DEF RunRows
  <2> QED
    BY <1>2, <2>1 DEF RequestCancel, TypeOK
<1>3. ASSUME NEW g \in Generations, ClaimDueRunOutbox(r, g) PROVE TypeOK'
  <2>1. outbox[r][g].count + 1 \in 0..MaxDispatches
    BY <1>0, <1>3, CapsAssumption DEF ClaimDueRunOutbox, OutboxRows
  <2>2. Taken(outbox[r][g]) \in OutboxRows
    BY <1>0, <2>1, Columns, StatusNames DEF Taken, OutboxRows
  <2> QED
    BY <1>3, <2>2 DEF ClaimDueRunOutbox, TypeOK
<1>4. ASSUME NEW g \in Generations, NEW t \in ClaimTokens, ConfirmRunDispatch(r, g, t)
      PROVE  TypeOK'
  <2>1. Confirmed(outbox[r][g]) \in OutboxRows
    BY <1>0, Columns, StatusNames DEF Confirmed, OutboxRows
  <2> QED
    BY <1>4, <2>1 DEF ConfirmRunDispatch, TypeOK
<1>5. ASSUME NEW g \in Generations, NEW t \in ClaimTokens, FailRunDispatch(r, g, t)
      PROVE  TypeOK'
  <2>1. Closed(outbox[r][g], "dispatch_exhausted") \in OutboxRows
    BY <1>0, ClosedType, StatusNames
  <2>2. Returned(outbox[r][g]) \in OutboxRows
    BY <1>0, Columns, StatusNames DEF Returned, OutboxRows
  <2>3. Released(r, "failed") \in RunRows
    BY ReleasedType, StateNames
  <2>4. outbox' \in [Runs -> [Generations -> OutboxRows]]
    <3>1. CASE outbox' = [outbox EXCEPT ![r][g] = Closed(@, "dispatch_exhausted")]
      BY <2>1, <3>1 DEF TypeOK
    <3>2. CASE outbox' = [outbox EXCEPT ![r][g] = Returned(@)]
      BY <2>2, <3>2 DEF TypeOK
    <3> QED
      BY <1>5, <3>1, <3>2 DEF FailRunDispatch
  <2>5. runs' \in [Runs -> RunRows]
    BY <1>5, <2>3 DEF FailRunDispatch, TypeOK
  <2> QED
    BY <1>5, <2>4, <2>5 DEF FailRunDispatch, LatchRunCreation, TypeOK
<1>6. CASE FinalizeRequestedCancellation(r)
  <2>1. Released(r, "canceled") \in RunRows
    BY ReleasedType, StateNames
  <2>2. Abandoned(r, "canceled") \in [AttemptNumbers -> AttemptRows]
    BY AbandonedType, StatusNames
  <2>3. AllCanceled(r) \in [Generations -> OutboxRows]
    BY AllCanceledType
  <2> QED
    BY <1>6, <2>1, <2>2, <2>3 DEF FinalizeRequestedCancellation, TypeOK
<1>7. CASE FinalizePoisonedDispatch(r)
  <2>1. Released(r, "failed") \in RunRows
    BY ReleasedType, StateNames
  <2>2. ASSUME NEW g \in Generations
        PROVE  Closed(outbox[r][g], "dispatch_exhausted") \in OutboxRows
    BY <1>0, ClosedType, StatusNames
  <2> QED
    BY <1>7, <2>1, <2>2 DEF FinalizePoisonedDispatch, LatchRunCreation, TypeOK
<1>8. ASSUME NEW force \in BOOLEAN, ReconcileRunDispatch(r, force) PROVE TypeOK'
  <2>1. Abandoned(r, "superseded") \in [AttemptNumbers -> AttemptRows]
    BY AbandonedType, StatusNames
  <2>2. ASSUME NEW g \in Generations
        PROVE  /\ Closed(outbox[r][g], "recovery_exhausted") \in OutboxRows
               /\ Closed(outbox[r][g], "recovery_replaced") \in OutboxRows
    BY <1>0, ClosedType, StatusNames
  <2>3. CASE RecoveryExhausted(r)
    <3>1. Released(r, "failed") \in RunRows
      BY ReleasedType, StateNames
    <3>2. runs' = [runs EXCEPT ![r] = Released(r, "failed")]
      BY <1>8, <2>3 DEF ReconcileRunDispatch
    <3>3. outbox' = [outbox EXCEPT ![r][Generation(r)] = Closed(@, "recovery_exhausted")]
      BY <1>8, <2>3 DEF ReconcileRunDispatch
    <3>4. outbox' \in [Runs -> [Generations -> OutboxRows]]
      BY <2>2, <3>3 DEF TypeOK
    <3> QED
      BY <1>8, <2>1, <3>1, <3>2, <3>4 DEF ReconcileRunDispatch, TypeOK
  <2>4. CASE ~RecoveryExhausted(r)
    <3>1. RecoveredState(r) \in RunStates
      BY <1>0, StateNames DEF RecoveredState, RunRows
    <3>2. Generation(r) + 1 \in Generations /\ Generation(r) + 1 \in 0..MaxGenerations
      BY <1>0, <2>4, CapsAssumption DEF RecoveryExhausted, Generation, Generations, RunRows
    <3>3. [Released(r, RecoveredState(r)) EXCEPT
             !.dispatch_generation = Generation(r) + 1, !.quiet = StaleTicks] \in RunRows
      <4> DEFINE row == Released(r, RecoveredState(r))
      <4>1. row \in RunRows
        BY <3>1, ReleasedType
      <4> HIDE DEF row
      <4>2. [row EXCEPT !.dispatch_generation = Generation(r) + 1, !.quiet = StaleTicks]
              \in RunRows
        <5> DEFINE g == Generation(r) + 1
        <5>1. g \in 0..MaxGenerations
          BY <3>2
        <5> HIDE DEF g
        <5>2. [row EXCEPT !.dispatch_generation = g, !.quiet = StaleTicks] \in RunRows
          BY <4>1, <5>1, Columns DEF RunRows
        <5> QED
          BY <5>2 DEF g
      <4> QED
        BY <4>2 DEF row
    <3>4. outbox' = [outbox EXCEPT ![r][Generation(r)] = Closed(@, "recovery_replaced"),
                                   ![r][Generation(r) + 1] = NewOutbox]
      BY <1>8, <2>4 DEF ReconcileRunDispatch
    <3>5. outbox' \in [Runs -> [Generations -> OutboxRows]]
      BY <1>0, <2>2, <3>2, <3>4 DEF TypeOK
    <3>6. runs' \in [Runs -> RunRows]
      BY <1>8, <2>4, <3>3 DEF ReconcileRunDispatch, TypeOK
    <3> QED
      BY <1>8, <2>1, <3>5, <3>6 DEF ReconcileRunDispatch, TypeOK
  <2> QED
    BY <2>3, <2>4
<1> QED
  BY <1>1, <1>2, <1>3, <1>4, <1>5, <1>6, <1>7, <1>8 DEF ApiStep, DispatcherStep

\* Every function of the worker keeps the tables well typed.
LEMMA WorkerTyped ==
  ASSUME TypeOK, NEW r \in Runs, WorkerStep(r)
  PROVE  TypeOK'
<1>0. /\ runs[r] \in RunRows
      /\ \A n \in AttemptNumbers : attempts[r][n] \in AttemptRows
  BY DEF TypeOK
<1>1. ASSUME NEW g \in Generations, ClaimRunExecution(r, g) PROVE TypeOK'
  <2> DEFINE n == runs[r].attempt_count + 1
  <2>1. n \in AttemptNumbers /\ n \in 0..MaxAttempts
    BY <1>0, <1>1, CapsAssumption DEF ClaimRunExecution, NextAttempt, ClaimStatus, AttemptNumbers, RunRows
  <2> HIDE DEF n
  <2>2. [runs[r] EXCEPT !.state = "running", !.attempt_count = n, !.lease_token = n,
                        !.lease = LeaseTicks, !.quiet = StaleTicks] \in RunRows
    BY <1>0, <2>1, Columns, StateNames DEF RunRows
  <2>3. [status |-> "running", lease |-> LeaseTicks] \in AttemptRows
    BY Columns, StatusNames DEF AttemptRows
  <2> QED
    BY <1>1, <2>1, <2>2, <2>3 DEF ClaimRunExecution, NextAttempt, TypeOK, n
<1>2. ASSUME NEW n \in AttemptNumbers, HeartbeatRunExecution(r, n) PROVE TypeOK'
  <2>1. [runs[r] EXCEPT !.lease = LeaseTicks, !.quiet = StaleTicks] \in RunRows
    BY <1>0, Columns DEF RunRows
  <2>2. [attempts[r][n] EXCEPT !.lease = LeaseTicks] \in AttemptRows
    BY <1>0, Columns DEF AttemptRows
  <2> QED
    BY <1>2, <2>1, <2>2 DEF HeartbeatRunExecution, TypeOK
<1>3. ASSUME NEW n \in AttemptNumbers, CancelAtCheckpoint(r, n), UNCHANGED run_creation
      PROVE  TypeOK'
  <2>1. AllCanceled(r) \in [Generations -> OutboxRows]
    BY AllCanceledType
  <2>2. /\ runs' \in [Runs -> RunRows]
        /\ attempts' \in [Runs -> [AttemptNumbers -> AttemptRows]]
    BY <1>3, CloseAttemptType, StatusNames, StateNames DEF CancelAtCheckpoint
  <2> QED
    BY <1>3, <2>1, <2>2 DEF CancelAtCheckpoint, TypeOK
<1>4. ASSUME NEW n \in AttemptNumbers, CompleteRunExecution(r, n) PROVE TypeOK'
  <2>1. CASE CancelAtCheckpoint(r, n)
    BY <1>3, <1>4, <2>1 DEF CompleteRunExecution
  <2>2. CASE /\ results' = [results EXCEPT ![r] = n]
             /\ CloseAttempt(r, n, "succeeded", "succeeded")
             /\ UNCHANGED <<outbox, run_creation>>
    <3>1. n \in 0..MaxAttempts
      BY CapsAssumption DEF AttemptNumbers
    <3> QED
      BY <2>2, <3>1, CloseAttemptType, StatusNames, StateNames DEF TypeOK
  <2> QED
    BY <1>4, <2>1, <2>2 DEF CompleteRunExecution
<1>5. ASSUME NEW n \in AttemptNumbers, NEW retryable \in BOOLEAN,
             FailRunExecution(r, n, retryable)
      PROVE  TypeOK'
  <2>1. CASE CancelAtCheckpoint(r, n)
    BY <1>3, <1>5, <2>1 DEF FailRunExecution
  <2>2. CASE CloseAttempt(r, n, "retrying", "retrying") /\ UNCHANGED <<outbox, results, run_creation>>
    BY <2>2, CloseAttemptType, StatusNames, StateNames DEF TypeOK
  <2>3. CASE CloseAttempt(r, n, "failed", "failed") /\ UNCHANGED <<outbox, results, run_creation>>
    BY <2>3, CloseAttemptType, StatusNames, StateNames DEF TypeOK
  <2> QED
    BY <1>5, <2>1, <2>2, <2>3 DEF FailRunExecution
<1> QED
  BY <1>1, <1>2, <1>4, <1>5 DEF WorkerStep

\* Time keeps every countdown in its range.
LEMMA TickTyped == TypeOK /\ Tick => TypeOK'
<1> SUFFICES ASSUME TypeOK, Tick PROVE TypeOK'
  OBVIOUS
<1>1. ASSUME NEW r \in Runs
      PROVE  [runs[r] EXCEPT !.lease = Sooner(@), !.quiet = Sooner(@)] \in RunRows
  <2>1. runs[r] \in RunRows
    BY DEF TypeOK
  <2>2. Sooner(runs[r].lease) \in 0..LeaseTicks /\ Sooner(runs[r].quiet) \in 0..StaleTicks
    BY <2>1, SoonerType, TimersAssumption DEF RunRows
  <2> QED
    BY <2>1, <2>2 DEF RunRows
<1>2. ASSUME NEW r \in Runs, NEW n \in AttemptNumbers
      PROVE  [attempts[r][n] EXCEPT !.lease = Sooner(@)] \in AttemptRows
  <2>1. attempts[r][n] \in AttemptRows
    BY DEF TypeOK
  <2>2. Sooner(attempts[r][n].lease) \in 0..LeaseTicks
    BY <2>1, SoonerType, TimersAssumption DEF AttemptRows
  <2> QED
    BY <2>1, <2>2 DEF AttemptRows
<1>3. ASSUME NEW r \in Runs, NEW g \in Generations
      PROVE  [outbox[r][g] EXCEPT !.claim = Sooner(@), !.next = Sooner(@)] \in OutboxRows
  <2>1. outbox[r][g] \in OutboxRows
    BY DEF TypeOK
  <2>2. Sooner(outbox[r][g].claim) \in 0..ClaimTicks /\ Sooner(outbox[r][g].next) \in 0..BackoffTicks
    BY <2>1, SoonerType, TimersAssumption DEF OutboxRows
  <2> QED
    BY <2>1, <2>2 DEF OutboxRows
<1> QED
  BY <1>1, <1>2, <1>3 DEF Tick, TypeOK

\* Every step keeps the tables to their columns.
LEMMA NextTyped == TypeOK /\ [Next]_vars => TypeOK'
<1> SUFFICES ASSUME TypeOK, [Next]_vars PROVE TypeOK'
  OBVIOUS
<1>1. ASSUME NEW r \in Runs, RunStep(r) PROVE TypeOK'
  BY <1>1, CommandTyped, WorkerTyped DEF RunStep
<1>2. ASSUME NEW enabled \in BOOLEAN, SetRunCreationControl(enabled) PROVE TypeOK'
  BY <1>2 DEF SetRunCreationControl, TypeOK
<1>3. CASE Tick
  BY <1>3, TickTyped
<1>4. CASE UNCHANGED vars
  BY <1>4 DEF vars, TypeOK
<1> QED
  BY <1>1, <1>2, <1>3, <1>4 DEF Next

\* Type correctness: whatever the API, the dispatcher and the workers call, in
\* any order, the tables hold what their columns allow.
THEOREM Typing == Spec => []TypeOK
BY InitTyped, NextTyped, PTL DEF Spec

-----------------------------------------------------------------------------
(* One run's rows. *)

\* A run that gives up its lease, once no attempt of it is running, agrees with
\* its attempts and with the result it does not have.
LEMMA ReleaseAgrees ==
  ASSUME TypeOK, NEW r \in Runs, Agreement, NEW run \in RunRows,
         NEW tries \in [AttemptNumbers -> AttemptRows],
         runs[r].state # "succeeded",
         run.state \notin {"running", "succeeded"},
         run.lease_token = 0, run.lease = 0,
         run.attempt_count = runs[r].attempt_count,
         \A n \in AttemptNumbers :
           /\ tries[n].status # "running"
           /\ n > runs[r].attempt_count => tries[n].status = "none"
           /\ tries[n].status = "succeeded" <=> attempts[r][n].status = "succeeded"
  PROVE  AuthorityAgrees(run, tries) /\ ResultAgrees(run, tries, results[r])
<1>1. ResultAgrees(runs[r], attempts[r], results[r]) /\ results[r] \in 0..MaxAttempts
  BY DEF TypeOK, Agreement, RowsAgree
<1>2. results[r] = 0
  BY <1>1 DEF ResultAgrees
<1> QED
  BY <1>1, <1>2 DEF AuthorityAgrees, ResultAgrees, AttemptNumbers

\* Recovery leaves no attempt running once the run's lease is past.
LEMMA AbandonedAgrees ==
  ASSUME TypeOK, NEW r \in Runs, Agreement, Unheld(r),
         NEW status \in {"canceled", "superseded"}
  PROVE  \A n \in AttemptNumbers :
           /\ Abandoned(r, status)[n].status # "running"
           /\ n > runs[r].attempt_count => Abandoned(r, status)[n].status = "none"
           /\ Abandoned(r, status)[n].status = "succeeded" <=> attempts[r][n].status = "succeeded"
<1>1. /\ runs[r] \in RunRows
      /\ attempts[r] \in [AttemptNumbers -> AttemptRows]
      /\ AuthorityAgrees(runs[r], attempts[r])
  BY DEF TypeOK, Agreement, RowsAgree
<1>2. runs[r].lease = 0
  BY <1>1 DEF Unheld, LeaseLive, RunRows
<1>3. ASSUME NEW n \in AttemptNumbers, attempts[r][n].status = "running"
      PROVE  attempts[r][n].lease = 0 /\ n = runs[r].attempt_count
  BY <1>1, <1>2, <1>3 DEF AuthorityAgrees, AttemptNumbers
<1> QED
  BY <1>1, <1>3 DEF Abandoned, AuthorityAgrees, AttemptNumbers, RunRows

\* Closing a row of the outbox, whatever it held.
LEMMA ClosedRow ==
  ASSUME NEW row \in OutboxRows, NEW error \in OutboxErrors
  PROVE  /\ row = NoOutbox => Closed(row, error) = NoOutbox
         /\ row.status = "terminal" => Closed(row, error) = row
         /\ row.status \notin {"none", "terminal"} =>
              Closed(row, error).status = "terminal" /\ Closed(row, error).error = error
         /\ Closed(row, error).status \in {"none", "terminal"}
BY Columns, StatusNames DEF Closed, NoOutbox, OutboxRows

\* A step that touches the rows of one run keeps every run in agreement when it
\* keeps that one.
LEMMA Frame ==
  ASSUME Agreement, NEW r \in Runs,
         \A q \in Runs : q # r => /\ runs'[q] = runs[q] /\ attempts'[q] = attempts[q]
                                  /\ outbox'[q] = outbox[q] /\ results'[q] = results[q],
         RowsAgree(runs'[r], attempts'[r], outbox'[r], results'[r])
  PROVE  Agreement'
BY DEF Agreement

\* The rows of one run, as facts about them.
LEMMA Rows ==
  ASSUME TypeOK, Agreement, NEW r \in Runs
  PROVE  /\ runs[r] \in RunRows
         /\ attempts[r] \in [AttemptNumbers -> AttemptRows]
         /\ outbox[r] \in [Generations -> OutboxRows]
         /\ results[r] \in 0..MaxAttempts
         /\ AuthorityAgrees(runs[r], attempts[r])
         /\ DispatchAgrees(runs[r], outbox[r])
         /\ ResultAgrees(runs[r], attempts[r], results[r])
         /\ CountsAgree(runs[r])
BY DEF TypeOK, Agreement, RowsAgree

\* A row somebody may still publish is that of the current generation, and its
\* run has not been executed under it.
LEMMA ClaimableRow ==
  ASSUME TypeOK, Agreement, NEW r \in Runs, NEW g \in Generations,
         outbox[r][g].status \in {"pending", "claimed"}
  PROVE  /\ g = runs[r].dispatch_generation
         /\ runs[r].state \in {"queued", "retrying", "cancel_requested"}
<1>1. runs[r].dispatch_generation \in Nat /\ g \in Nat /\ g > 0 /\ runs[r].state \in RunStates
  BY Rows, CapsAssumption DEF RunRows, Generations
<1>2. DispatchAgrees(runs[r], outbox[r]) /\ CountsAgree(runs[r])
  BY Rows
<1>3. ~ g > runs[r].dispatch_generation
  BY <1>2 DEF DispatchAgrees, NoOutbox
<1>4. ~ g < runs[r].dispatch_generation
  BY <1>2 DEF DispatchAgrees
<1>5. g = runs[r].dispatch_generation
  BY <1>1, <1>3, <1>4
<1> QED
  BY <1>1, <1>2, <1>5 DEF DispatchAgrees, CountsAgree, RunStates, Pending, Terminal

\* A waiting run is held by nobody.
LEMMA WaitingIsUnheld ==
  ASSUME TypeOK, Agreement, NEW r \in Runs, runs[r].state \in Waiting
  PROVE  /\ runs[r].lease_token = 0 /\ runs[r].lease = 0
         /\ \A n \in AttemptNumbers : attempts[r][n].status # "running"
BY Rows DEF AuthorityAgrees, Waiting, AttemptNumbers

-----------------------------------------------------------------------------
(* Every function keeps the rows in agreement: the API. *)

LEMMA CreateRunAgrees ==
  ASSUME TypeOK, Agreement, NEW r \in Runs, CreateRun(r)
  PROVE  Agreement'
<1>1. \A q \in Runs : q # r => /\ runs'[q] = runs[q] /\ attempts'[q] = attempts[q]
                               /\ outbox'[q] = outbox[q] /\ results'[q] = results[q]
  BY DEF CreateRun, TypeOK
<1>2. /\ runs'[r] = [runs[r] EXCEPT !.state = "queued", !.dispatch_generation = 1,
                                    !.quiet = StaleTicks]
      /\ outbox'[r] = [outbox[r] EXCEPT ![1] = NewOutbox]
      /\ attempts'[r] = attempts[r] /\ results'[r] = results[r]
      /\ runs[r].state = "absent"
  BY DEF CreateRun, TypeOK
<1>3. /\ runs'[r].state = "queued" /\ runs'[r].dispatch_generation = 1
      /\ runs'[r].attempt_count = runs[r].attempt_count
      /\ runs'[r].lease_token = runs[r].lease_token /\ runs'[r].lease = runs[r].lease
  BY <1>2, Rows DEF RunRows
<1>4. AuthorityAgrees(runs'[r], attempts'[r])
  BY <1>2, <1>3, Rows DEF AuthorityAgrees
<1>5. DispatchAgrees(runs'[r], outbox'[r])
  BY <1>2, <1>3, Rows, Columns, CapsAssumption
  DEF DispatchAgrees, CountsAgree, NewOutbox, Waiting, Generations
<1>6. ResultAgrees(runs'[r], attempts'[r], results'[r])
  BY <1>2, <1>3, Rows DEF ResultAgrees
<1>7. CountsAgree(runs'[r])
  BY <1>2, <1>3, Rows, CapsAssumption DEF CountsAgree, Waiting
<1> QED
  BY <1>1, <1>4, <1>5, <1>6, <1>7, Frame DEF RowsAgree

LEMMA RequestCancelAgrees ==
  ASSUME TypeOK, Agreement, NEW r \in Runs, RequestCancel(r)
  PROVE  Agreement'
<1>1. \A q \in Runs : q # r => /\ runs'[q] = runs[q] /\ attempts'[q] = attempts[q]
                               /\ outbox'[q] = outbox[q] /\ results'[q] = results[q]
  BY DEF RequestCancel, TypeOK
<1>2. /\ runs'[r] = [runs[r] EXCEPT !.state = "cancel_requested"]
      /\ outbox'[r] = outbox[r] /\ attempts'[r] = attempts[r] /\ results'[r] = results[r]
      /\ runs[r].state \in {"queued", "running", "retrying"}
  BY DEF RequestCancel, TypeOK
<1>3. /\ runs'[r].state = "cancel_requested"
      /\ runs'[r].dispatch_generation = runs[r].dispatch_generation
      /\ runs'[r].attempt_count = runs[r].attempt_count
      /\ runs'[r].lease_token = runs[r].lease_token /\ runs'[r].lease = runs[r].lease
  BY <1>2, Rows DEF RunRows
<1>4. AuthorityAgrees(runs'[r], attempts'[r])
  BY <1>2, <1>3, Rows DEF AuthorityAgrees
<1>5. DispatchAgrees(runs'[r], outbox'[r])
  BY <1>2, <1>3, Rows DEF DispatchAgrees, Waiting
<1>6. ResultAgrees(runs'[r], attempts'[r], results'[r])
  BY <1>2, <1>3, Rows DEF ResultAgrees
<1>7. CountsAgree(runs'[r])
  BY <1>2, <1>3, Rows DEF CountsAgree, Waiting
<1> QED
  BY <1>1, <1>4, <1>5, <1>6, <1>7, Frame DEF RowsAgree

-----------------------------------------------------------------------------
(* The dispatcher. *)

\* A step that rewrites one claimable row of a run and leaves the rest.
LEMMA OutboxStepAgrees ==
  ASSUME TypeOK, Agreement, NEW r \in Runs, NEW g \in Generations, NEW row \in OutboxRows,
         outbox' = [outbox EXCEPT ![r][g] = row],
         UNCHANGED <<runs, attempts, results>>,
         outbox[r][g].status \in {"pending", "claimed"},
         row.status # "terminal" =>
           /\ row.status \in {"pending", "claimed", "dispatched"}
           /\ row.status = "pending" => row.count < MaxDispatches,
         row.status = "terminal" => runs[r].state \notin Waiting
  PROVE  Agreement'
<1>1. \A q \in Runs : q # r => /\ runs'[q] = runs[q] /\ attempts'[q] = attempts[q]
                               /\ outbox'[q] = outbox[q] /\ results'[q] = results[q]
  BY DEF TypeOK
<1>2. /\ outbox'[r] = [outbox[r] EXCEPT ![g] = row]
      /\ runs'[r] = runs[r] /\ attempts'[r] = attempts[r] /\ results'[r] = results[r]
  BY DEF TypeOK
<1>3. g = runs[r].dispatch_generation /\ runs[r].state \in {"queued", "retrying", "cancel_requested"}
  BY ClaimableRow
<1>4. DispatchAgrees(runs'[r], outbox'[r])
  BY <1>2, <1>3, Rows DEF DispatchAgrees, Waiting
<1> QED
  BY <1>1, <1>2, <1>4, Rows, Frame DEF RowsAgree

LEMMA ClaimDueAgrees ==
  ASSUME TypeOK, Agreement, NEW r \in Runs, NEW g \in Generations, ClaimDueRunOutbox(r, g)
  PROVE  Agreement'
<1>1. outbox[r][g] \in OutboxRows
  BY DEF TypeOK
<1>2. Taken(outbox[r][g]) \in OutboxRows /\ Taken(outbox[r][g]).status = "claimed"
  <2>1. outbox[r][g].count + 1 \in 0..MaxDispatches
    BY <1>1, CapsAssumption DEF ClaimDueRunOutbox, OutboxRows
  <2> QED
    BY <1>1, <2>1, Columns, StatusNames DEF Taken, OutboxRows
<1> QED
  BY <1>2, OutboxStepAgrees DEF ClaimDueRunOutbox, Due

LEMMA ConfirmAgrees ==
  ASSUME TypeOK, Agreement, NEW r \in Runs, NEW g \in Generations, NEW t \in ClaimTokens,
         ConfirmRunDispatch(r, g, t)
  PROVE  Agreement'
<1>1. outbox[r][g] \in OutboxRows
  BY DEF TypeOK
<1>2. Confirmed(outbox[r][g]) \in OutboxRows /\ Confirmed(outbox[r][g]).status = "dispatched"
  BY <1>1, Columns, StatusNames DEF Confirmed, OutboxRows
<1> QED
  BY <1>2, OutboxStepAgrees DEF ConfirmRunDispatch, Claims

\* The two ways a waiting run fails with its dispatch: the last claim failed, or
\* it expired.
LEMMA ExhaustionAgrees ==
  ASSUME TypeOK, Agreement, NEW r \in Runs, NEW g \in Generations,
         runs[r].state \in Waiting, g = runs[r].dispatch_generation,
         outbox[r][g].status = "claimed",
         runs' = [runs EXCEPT ![r] = Released(r, "failed")],
         outbox' = [outbox EXCEPT ![r][g] = Closed(@, "dispatch_exhausted")],
         UNCHANGED <<attempts, results>>
  PROVE  Agreement'
<1>1. \A q \in Runs : q # r => /\ runs'[q] = runs[q] /\ attempts'[q] = attempts[q]
                               /\ outbox'[q] = outbox[q] /\ results'[q] = results[q]
  BY DEF TypeOK
<1>2. /\ outbox'[r] = [outbox[r] EXCEPT ![g] = Closed(outbox[r][g], "dispatch_exhausted")]
      /\ runs'[r] = Released(r, "failed")
      /\ attempts'[r] = attempts[r] /\ results'[r] = results[r]
  BY DEF TypeOK
<1>3. /\ Released(r, "failed") \in RunRows
      /\ Released(r, "failed").state = "failed"
      /\ Released(r, "failed").lease_token = 0 /\ Released(r, "failed").lease = 0
      /\ Released(r, "failed").attempt_count = runs[r].attempt_count
      /\ Released(r, "failed").dispatch_generation = runs[r].dispatch_generation
  BY ReleasedType, Rows, StateNames DEF Released, RunRows
<1>4. AuthorityAgrees(runs'[r], attempts'[r]) /\ ResultAgrees(runs'[r], attempts'[r], results'[r])
  BY <1>2, <1>3, Rows, WaitingIsUnheld, ReleaseAgrees DEF AuthorityAgrees, Waiting
<1>5. Closed(outbox[r][g], "dispatch_exhausted").status = "terminal"
  BY Rows, ClosedRow DEF OutboxErrors
<1>6. DispatchAgrees(runs'[r], outbox'[r])
  BY <1>2, <1>3, <1>5, Rows DEF DispatchAgrees, Waiting
<1>7. CountsAgree(runs'[r])
  BY <1>2, <1>3, Rows DEF CountsAgree, Waiting
<1> QED
  BY <1>1, <1>4, <1>6, <1>7, Frame DEF RowsAgree

LEMMA FailDispatchAgrees ==
  ASSUME TypeOK, Agreement, NEW r \in Runs, NEW g \in Generations, NEW t \in ClaimTokens,
         FailRunDispatch(r, g, t)
  PROVE  Agreement'
<1>1. outbox[r][g] \in OutboxRows /\ outbox[r][g].status = "claimed"
  BY DEF TypeOK, FailRunDispatch, Claims
<1>2. g = runs[r].dispatch_generation
  BY <1>1, ClaimableRow
<1>3. CASE ~DispatchSpent(outbox[r][g])
  <2>1. Returned(outbox[r][g]) \in OutboxRows
    BY <1>1, Columns, StatusNames DEF Returned, OutboxRows
  <2>2. Returned(outbox[r][g]).status = "pending" /\ Returned(outbox[r][g]).count = outbox[r][g].count
    BY <1>1 DEF Returned, OutboxRows
  <2>3. outbox[r][g].count < MaxDispatches
    BY <1>1, <1>3, CapsAssumption DEF OutboxRows, DispatchSpent
  <2> QED
    BY <1>1, <1>3, <2>1, <2>2, <2>3, OutboxStepAgrees DEF FailRunDispatch
<1>4. CASE DispatchSpent(outbox[r][g]) /\ runs[r].state \in Waiting
  <2>1. Unheld(r)
    BY <1>4, WaitingIsUnheld DEF Unheld, LeaseLive
  <2> QED
    BY <1>1, <1>2, <1>4, <2>1, ExhaustionAgrees DEF FailRunDispatch
<1>5. CASE DispatchSpent(outbox[r][g]) /\ runs[r].state \notin Waiting
  <2>1. /\ Closed(outbox[r][g], "dispatch_exhausted") \in OutboxRows
        /\ Closed(outbox[r][g], "dispatch_exhausted").status = "terminal"
    BY <1>1, ClosedRow, ClosedType DEF OutboxErrors
  <2>2. /\ outbox' = [outbox EXCEPT ![r][g] = Closed(outbox[r][g], "dispatch_exhausted")]
        /\ UNCHANGED <<runs, attempts, results>>
    BY <1>5 DEF FailRunDispatch
  <2> QED
    BY <1>1, <1>5, <2>1, <2>2, OutboxStepAgrees
<1> QED
  BY <1>3, <1>4, <1>5

LEMMA PoisonAgrees ==
  ASSUME TypeOK, Agreement, NEW r \in Runs, FinalizePoisonedDispatch(r)
  PROVE  Agreement'
<1>1. runs[r].dispatch_generation \in Generations
  BY Rows, CapsAssumption DEF FinalizePoisonedDispatch, CountsAgree, Waiting, RunRows, Generations
<1> QED
  BY <1>1, ExhaustionAgrees DEF FinalizePoisonedDispatch, Poisoned, Generation

\* The outbox rows of a run whose cancellation is finished.
LEMMA AllCanceledAgrees ==
  ASSUME TypeOK, Agreement, NEW r \in Runs, runs[r].state \in {"running", "cancel_requested"},
         NEW run \in RunRows, run.state = "canceled",
         run.dispatch_generation = runs[r].dispatch_generation
  PROVE  DispatchAgrees(run, AllCanceled(r))
<1> DEFINE rows == AllCanceled(r)
<1>1. \A g \in Generations : rows[g] = Closed(outbox[r][g], "canceled") /\ outbox[r][g] \in OutboxRows
  BY DEF AllCanceled, TypeOK
<1>2. "canceled" \in OutboxErrors
  BY StatusNames
<1>3. ASSUME NEW g \in Generations
      PROVE  /\ g > run.dispatch_generation => rows[g] = NoOutbox
             /\ g < run.dispatch_generation =>
                  rows[g].status = "terminal" /\ rows[g].error = "recovery_replaced"
             /\ rows[g].status \in {"none", "terminal"}
             /\ outbox[r][g].status # "none" => rows[g].status = "terminal"
  BY <1>1, <1>2, ClosedRow, Rows DEF DispatchAgrees
<1>4. ASSUME NEW g \in Generations, g = run.dispatch_generation
      PROVE  outbox[r][g].status # "none"
  BY <1>4, Rows DEF DispatchAgrees
<1> HIDE DEF rows
<1>5. DispatchAgrees(run, rows)
  BY <1>3, <1>4 DEF DispatchAgrees, Waiting
<1> QED
  BY <1>5 DEF rows

LEMMA FinalizeCancelAgrees ==
  ASSUME TypeOK, Agreement, NEW r \in Runs, FinalizeRequestedCancellation(r)
  PROVE  Agreement'
<1>1. \A q \in Runs : q # r => /\ runs'[q] = runs[q] /\ attempts'[q] = attempts[q]
                               /\ outbox'[q] = outbox[q] /\ results'[q] = results[q]
  BY DEF FinalizeRequestedCancellation, TypeOK
<1>2. /\ runs'[r] = Released(r, "canceled") /\ attempts'[r] = Abandoned(r, "canceled")
      /\ outbox'[r] = AllCanceled(r) /\ results'[r] = results[r]
      /\ runs[r].state = "cancel_requested" /\ Unheld(r)
  BY DEF FinalizeRequestedCancellation, TypeOK
<1>3. /\ Released(r, "canceled") \in RunRows
      /\ Released(r, "canceled").state = "canceled"
      /\ Released(r, "canceled").lease_token = 0 /\ Released(r, "canceled").lease = 0
      /\ Released(r, "canceled").attempt_count = runs[r].attempt_count
      /\ Released(r, "canceled").dispatch_generation = runs[r].dispatch_generation
  BY ReleasedType, Rows, StateNames DEF Released, RunRows
<1>4. Abandoned(r, "canceled") \in [AttemptNumbers -> AttemptRows]
  BY AbandonedType, StatusNames
<1>5. AuthorityAgrees(runs'[r], attempts'[r]) /\ ResultAgrees(runs'[r], attempts'[r], results'[r])
  BY <1>2, <1>3, <1>4, AbandonedAgrees, ReleaseAgrees
<1>6. DispatchAgrees(runs'[r], outbox'[r])
  BY <1>2, <1>3, AllCanceledAgrees
<1>7. CountsAgree(runs'[r])
  BY <1>2, <1>3, Rows DEF CountsAgree, Waiting
<1> QED
  BY <1>1, <1>5, <1>6, <1>7, Frame DEF RowsAgree

LEMMA ReconcileAgrees ==
  ASSUME TypeOK, Agreement, NEW r \in Runs, NEW force \in BOOLEAN,
         ReconcileRunDispatch(r, force)
  PROVE  Agreement'
<1> DEFINE g == runs[r].dispatch_generation
           old(error) == Closed(outbox[r][g], error)
           next == [Released(r, RecoveredState(r)) EXCEPT
                      !.dispatch_generation = g + 1, !.quiet = StaleTicks]
<1>1. \A q \in Runs : q # r => /\ runs'[q] = runs[q] /\ attempts'[q] = attempts[q]
                               /\ outbox'[q] = outbox[q] /\ results'[q] = results[q]
  BY DEF ReconcileRunDispatch, TypeOK
<1>2. /\ attempts'[r] = Abandoned(r, "superseded") /\ results'[r] = results[r]
      /\ runs[r].state \in {"queued", "running", "retrying"} /\ Unheld(r)
      /\ Abandoned(r, "superseded") \in [AttemptNumbers -> AttemptRows]
  BY AbandonedType, StatusNames DEF ReconcileRunDispatch, Recoverable, TypeOK
<1>3. g \in Generations /\ g \in 0..MaxGenerations
  BY <1>2, Rows, CapsAssumption DEF CountsAgree, RunRows, Generations
<1>4. outbox[r][g].status \notin {"none", "terminal"} /\ outbox[r][g] \in OutboxRows
  BY <1>2, <1>3, Rows DEF DispatchAgrees, Waiting
<1>5. CASE RecoveryExhausted(r)
  <2>1. /\ outbox'[r] = [outbox[r] EXCEPT ![g] = old("recovery_exhausted")]
        /\ runs'[r] = Released(r, "failed")
    BY <1>5 DEF ReconcileRunDispatch, Generation, TypeOK
  <2>2. /\ Released(r, "failed") \in RunRows
        /\ Released(r, "failed").state = "failed"
        /\ Released(r, "failed").lease_token = 0 /\ Released(r, "failed").lease = 0
        /\ Released(r, "failed").attempt_count = runs[r].attempt_count
        /\ Released(r, "failed").dispatch_generation = runs[r].dispatch_generation
    BY ReleasedType, Rows, StateNames DEF Released, RunRows
  <2>3. AuthorityAgrees(runs'[r], attempts'[r]) /\ ResultAgrees(runs'[r], attempts'[r], results'[r])
    BY <1>2, <2>1, <2>2, AbandonedAgrees, ReleaseAgrees
  <2>4. old("recovery_exhausted").status = "terminal"
    BY <1>4, ClosedRow, StatusNames
  <2> HIDE DEF old, g
  <2>5. DispatchAgrees(runs'[r], outbox'[r])
    <3>1. DispatchAgrees(runs[r], outbox[r]) /\ outbox[r] \in [Generations -> OutboxRows]
      BY Rows
    <3>2. runs'[r].dispatch_generation = g /\ runs'[r].state = "failed"
      BY <2>1, <2>2 DEF g
    <3>3. outbox'[r][g].status = "terminal"
      BY <1>3, <2>1, <2>4, <3>1
    <3>4. \A h \in Generations : h # g => outbox'[r][h] = outbox[r][h]
      BY <1>3, <2>1, <3>1
    <3>5. \A h \in Generations : /\ h > g => outbox[r][h] = NoOutbox
                                 /\ h < g => outbox[r][h].status = "terminal"
                                             /\ outbox[r][h].error = "recovery_replaced"
                                 /\ ~ g > g /\ ~ g < g
      BY <1>3, <3>1 DEF DispatchAgrees, g
    <3> QED
      BY <3>2, <3>3, <3>4, <3>5 DEF DispatchAgrees, Waiting
  <2>6. CountsAgree(runs'[r])
    BY <1>2, <2>1, <2>2, Rows DEF CountsAgree, Waiting
  <2> QED
    BY <1>1, <2>3, <2>5, <2>6, Frame DEF RowsAgree
<1>6. CASE ~RecoveryExhausted(r)
  <2>1. /\ outbox'[r] = [outbox[r] EXCEPT ![g] = old("recovery_replaced"), ![g + 1] = NewOutbox]
        /\ runs'[r] = next
        /\ g + 1 \in Generations /\ runs[r].attempt_count < MaxAttempts
    <3>1. g < MaxGenerations /\ runs[r].attempt_count < MaxAttempts
      BY <1>3, <1>6, Rows, CapsAssumption DEF RecoveryExhausted, Generation, RunRows
    <3>2. runs'[r] = next
      BY <1>6 DEF ReconcileRunDispatch, Generation, TypeOK
    <3>3. outbox' = [outbox EXCEPT ![r][g] = old("recovery_replaced"), ![r][g + 1] = NewOutbox]
      BY <1>6 DEF ReconcileRunDispatch, Generation
    <3>4. outbox'[r] = [outbox[r] EXCEPT ![g] = old("recovery_replaced"), ![g + 1] = NewOutbox]
      BY <3>3 DEF TypeOK
    <3> QED
      BY <1>3, <3>1, <3>2, <3>4, CapsAssumption DEF Generations
  <2>2. /\ next.state \in Waiting
        /\ next.lease_token = 0 /\ next.lease = 0
        /\ next.attempt_count = runs[r].attempt_count
        /\ next.dispatch_generation = g + 1
    BY <1>2, Rows DEF Released, RunRows, RecoveredState, Waiting
  <2>3. next \in RunRows
    <3>1. Released(r, RecoveredState(r)) \in RunRows
      BY <1>2, ReleasedType, StateNames DEF RecoveredState
    <3>2. g + 1 \in 0..MaxGenerations
      BY <2>1, CapsAssumption DEF Generations
    <3> QED
      BY <3>1, <3>2, Columns DEF RunRows
  <2>4. /\ old("recovery_replaced").status = "terminal"
        /\ old("recovery_replaced").error = "recovery_replaced"
    BY <1>4, ClosedRow, StatusNames
  <2> HIDE DEF old, next, g
  <2>5. AuthorityAgrees(runs'[r], attempts'[r]) /\ ResultAgrees(runs'[r], attempts'[r], results'[r])
    BY <1>2, <2>1, <2>2, <2>3, AbandonedAgrees, ReleaseAgrees DEF Waiting
  <2>6. ASSUME NEW h \in Generations
        PROVE  /\ h > next.dispatch_generation => outbox'[r][h] = NoOutbox
               /\ h < next.dispatch_generation =>
                    outbox'[r][h].status = "terminal" /\ outbox'[r][h].error = "recovery_replaced"
               /\ h = next.dispatch_generation => outbox'[r][h] = NewOutbox
    <3>1. h \in Nat /\ g \in Nat /\ g + 1 \in Generations /\ outbox[r] \in [Generations -> OutboxRows]
      BY <1>3, <2>1, Rows, CapsAssumption DEF Generations
    <3>2. CASE h > g + 1
      BY <1>3, <2>1, <2>2, <3>1, <3>2, Rows DEF DispatchAgrees, g
    <3>3. CASE h = g + 1
      BY <1>3, <2>1, <2>2, <3>1, <3>3
    <3>4. CASE h = g
      BY <1>3, <2>1, <2>2, <2>4, <3>1, <3>4
    <3>5. CASE h < g
      BY <1>3, <2>1, <2>2, <3>1, <3>5, Rows DEF DispatchAgrees, g
    <3> QED
      BY <2>2, <3>1, <3>2, <3>3, <3>4, <3>5
  <2>7. DispatchAgrees(next, outbox'[r])
    BY <2>2, <2>6, CapsAssumption DEF DispatchAgrees, NewOutbox, Waiting
  <2>8. CountsAgree(next)
    BY <1>3, <2>1, <2>2, CapsAssumption DEF CountsAgree, Waiting, Generations
  <2> QED
    BY <1>1, <2>1, <2>5, <2>7, <2>8, Frame DEF RowsAgree
<1> QED
  BY <1>5, <1>6

-----------------------------------------------------------------------------
(* The worker. *)

LEMMA ClaimExecutionAgrees ==
  ASSUME TypeOK, Agreement, NEW r \in Runs, NEW g \in Generations, ClaimRunExecution(r, g)
  PROVE  Agreement'
<1> DEFINE n == runs[r].attempt_count + 1
           attempt == [status |-> "running", lease |-> LeaseTicks]
<1>1. \A q \in Runs : q # r => /\ runs'[q] = runs[q] /\ attempts'[q] = attempts[q]
                               /\ outbox'[q] = outbox[q] /\ results'[q] = results[q]
  BY DEF ClaimRunExecution, NextAttempt, TypeOK
<1>2. /\ runs[r].state \in Waiting /\ runs[r].attempt_count < MaxAttempts
      /\ outbox[r][g].status = "dispatched" /\ runs[r].dispatch_generation = g
  BY Rows, CapsAssumption DEF ClaimRunExecution, NextAttempt, ClaimStatus, Generation, RunRows
<1>3. n \in AttemptNumbers /\ runs[r].attempt_count \in Nat
  BY <1>2, Rows, CapsAssumption DEF AttemptNumbers, RunRows
<1>4. /\ runs'[r].state = "running" /\ runs'[r].attempt_count = n
      /\ runs'[r].lease_token = n /\ runs'[r].lease = LeaseTicks
      /\ runs'[r].dispatch_generation = g
      /\ attempts'[r] = [attempts[r] EXCEPT ![n] = attempt]
      /\ outbox'[r] = outbox[r] /\ results'[r] = results[r]
  BY <1>2, Rows DEF ClaimRunExecution, NextAttempt, TypeOK, RunRows
<1>5. /\ attempts[r][n].status = "none"
      /\ \A k \in AttemptNumbers : attempts[r][k].status # "running"
  BY <1>2, <1>3, WaitingIsUnheld, Rows DEF AuthorityAgrees
<1>6. attempt.status = "running" /\ attempt.lease = LeaseTicks
  OBVIOUS
<1> HIDE DEF attempt
<1>7. AuthorityAgrees(runs'[r], attempts'[r])
  <2>1. \A k \in AttemptNumbers : k # n => attempts'[r][k] = attempts[r][k]
    BY <1>3, <1>4, Rows
  <2>2. attempts'[r][n] = attempt
    BY <1>3, <1>4, Rows
  <2>3. \A k \in AttemptNumbers : k > n => attempts[r][k].status = "none"
    BY <1>3, Rows DEF AuthorityAgrees, AttemptNumbers
  <2>4. n # 0
    BY <1>3
  <2> HIDE DEF n
  <2> QED
    BY <1>3, <1>4, <1>5, <1>6, <2>1, <2>2, <2>3, <2>4 DEF AuthorityAgrees, AttemptNumbers
<1>8. DispatchAgrees(runs'[r], outbox'[r])
  BY <1>2, <1>4, Rows DEF DispatchAgrees, Waiting
<1>9. ResultAgrees(runs'[r], attempts'[r], results'[r])
  <2>1. results[r] = 0 /\ ResultAgrees(runs[r], attempts[r], results[r])
    BY <1>2, Rows DEF ResultAgrees, Waiting
  <2> HIDE DEF n
  <2> QED
    BY <1>3, <1>4, <1>5, <1>6, <2>1, Rows DEF ResultAgrees, AttemptNumbers
<1>10. CountsAgree(runs'[r])
  BY <1>2, <1>4, CapsAssumption DEF CountsAgree, Waiting, Generations
<1> QED
  BY <1>1, <1>7, <1>8, <1>9, <1>10, Frame DEF RowsAgree

LEMMA HeartbeatAgrees ==
  ASSUME TypeOK, Agreement, NEW r \in Runs, NEW n \in AttemptNumbers,
         HeartbeatRunExecution(r, n)
  PROVE  Agreement'
<1>1. \A q \in Runs : q # r => /\ runs'[q] = runs[q] /\ attempts'[q] = attempts[q]
                               /\ outbox'[q] = outbox[q] /\ results'[q] = results[q]
  BY DEF HeartbeatRunExecution, TypeOK
<1>2. /\ runs'[r].state = runs[r].state /\ runs'[r].attempt_count = runs[r].attempt_count
      /\ runs'[r].dispatch_generation = runs[r].dispatch_generation
      /\ runs'[r].lease_token = n /\ runs[r].lease_token = n /\ runs'[r].lease = LeaseTicks
      /\ outbox'[r] = outbox[r] /\ results'[r] = results[r]
  BY Rows DEF HeartbeatRunExecution, HoldsAuthority, TypeOK, RunRows
<1>3. /\ \A k \in AttemptNumbers : attempts'[r][k].status = attempts[r][k].status
      /\ attempts'[r][n].lease = LeaseTicks
  BY Rows DEF HeartbeatRunExecution, TypeOK, AttemptRows
<1>4. AuthorityAgrees(runs'[r], attempts'[r])
  BY <1>2, <1>3, Rows DEF AuthorityAgrees, AttemptNumbers
<1>5. DispatchAgrees(runs'[r], outbox'[r])
  BY <1>2, Rows DEF DispatchAgrees
<1>6. ResultAgrees(runs'[r], attempts'[r], results'[r]) /\ CountsAgree(runs'[r])
  BY <1>2, <1>3, Rows DEF ResultAgrees, CountsAgree
<1> QED
  BY <1>1, <1>4, <1>5, <1>6, Frame DEF RowsAgree

\* The caller of complete or fail is the attempt the lease names, the run's last.
LEMMA AuthorityIsLast ==
  ASSUME TypeOK, Agreement, NEW r \in Runs, NEW n \in AttemptNumbers, HoldsAuthority(r, n)
  PROVE  /\ n = runs[r].attempt_count
         /\ runs[r].state \in {"running", "cancel_requested"}
         /\ attempts[r][n].status = "running"
         /\ results[r] = 0
         /\ runs[r].dispatch_generation \in Generations
<1>1. runs[r].lease_token = n /\ n # 0 /\ attempts[r][n].status = "running"
  BY DEF HoldsAuthority, AttemptNumbers
<1>2. n = runs[r].attempt_count /\ runs[r].state \in {"running", "cancel_requested"}
  BY <1>1, Rows DEF AuthorityAgrees
<1> QED
  BY <1>1, <1>2, Rows, CapsAssumption DEF ResultAgrees, CountsAgree, RunRows, Generations

\* What closing an attempt leaves: its row ended, its run released.
LEMMA CloseAttemptRows ==
  ASSUME TypeOK, Agreement, NEW r \in Runs, NEW n \in AttemptNumbers, HoldsAuthority(r, n),
         NEW status \in AttemptStatuses, NEW s \in RunStates, status # "running",
         CloseAttempt(r, n, status, s)
  PROVE  /\ \A q \in Runs : q # r => runs'[q] = runs[q] /\ attempts'[q] = attempts[q]
         /\ runs'[r] \in RunRows /\ attempts'[r] \in [AttemptNumbers -> AttemptRows]
         /\ runs'[r].state = s /\ runs'[r].lease_token = 0 /\ runs'[r].lease = 0
         /\ runs'[r].attempt_count = runs[r].attempt_count
         /\ runs'[r].dispatch_generation = runs[r].dispatch_generation
         /\ attempts'[r][n].status = status
         /\ \A k \in AttemptNumbers :
              /\ k # n => attempts'[r][k] = attempts[r][k]
              /\ attempts'[r][k].status # "running"
              /\ k > runs[r].attempt_count => attempts'[r][k].status = "none"
<1>1. /\ runs'[r] = Released(r, s)
      /\ attempts'[r] = [attempts[r] EXCEPT ![n] = [status |-> status, lease |-> 0]]
      /\ \A q \in Runs : q # r => runs'[q] = runs[q] /\ attempts'[q] = attempts[q]
  BY DEF CloseAttempt, TypeOK
<1>2. /\ Released(r, s).state = s
      /\ Released(r, s).lease_token = 0 /\ Released(r, s).lease = 0
      /\ Released(r, s).attempt_count = runs[r].attempt_count
      /\ Released(r, s).dispatch_generation = runs[r].dispatch_generation
  BY Rows DEF Released, RunRows
<1>3. /\ runs'[r] \in RunRows
      /\ attempts'[r] \in [AttemptNumbers -> AttemptRows]
  BY CloseAttemptType
<1>4. /\ attempts'[r][n].status = status
      /\ \A k \in AttemptNumbers : k # n => attempts'[r][k] = attempts[r][k]
  BY <1>1, Rows
<1>5. /\ n = runs[r].attempt_count
      /\ \A k \in AttemptNumbers : k # n => attempts[r][k].status # "running"
      /\ \A k \in AttemptNumbers : k > runs[r].attempt_count => attempts[r][k].status = "none"
  BY AuthorityIsLast, Rows DEF HoldsAuthority, AuthorityAgrees
<1>6. \A k \in AttemptNumbers : k > runs[r].attempt_count => k # n
  BY <1>5 DEF AttemptNumbers
<1> QED
  BY <1>1, <1>2, <1>3, <1>4, <1>5, <1>6

\* An attempt that ends without a result, its dispatch left as it was or closed.
LEMMA CloseAttemptAgrees ==
  ASSUME TypeOK, Agreement, NEW r \in Runs, NEW n \in AttemptNumbers, HoldsAuthority(r, n),
         NEW status \in AttemptStatuses, NEW s \in RunStates,
         status \notin {"running", "succeeded"}, s \in {"retrying", "failed", "canceled"},
         CloseAttempt(r, n, status, s), UNCHANGED results,
         s = "retrying" => runs[r].attempt_count < MaxAttempts,
         \/ /\ UNCHANGED outbox /\ runs[r].state = "running" /\ s # "canceled"
         \/ /\ outbox' = [outbox EXCEPT ![r] = AllCanceled(r)]
            /\ runs[r].state = "cancel_requested" /\ s = "canceled"
  PROVE  Agreement'
<1>1. \A q \in Runs : q # r => /\ runs'[q] = runs[q] /\ attempts'[q] = attempts[q]
                               /\ outbox'[q] = outbox[q] /\ results'[q] = results[q]
  BY CloseAttemptRows DEF TypeOK
<1>2. AuthorityAgrees(runs'[r], attempts'[r]) /\ ResultAgrees(runs'[r], attempts'[r], results'[r])
  <2>1. runs[r].state # "succeeded"
    BY AuthorityIsLast
  <2>2. \A k \in AttemptNumbers :
          attempts'[r][k].status = "succeeded" <=> attempts[r][k].status = "succeeded"
    BY CloseAttemptRows, AuthorityIsLast
  <2> QED
    BY <2>1, <2>2, CloseAttemptRows, ReleaseAgrees
<1>3. DispatchAgrees(runs'[r], outbox'[r])
  <2>1. CASE UNCHANGED outbox /\ runs[r].state = "running" /\ s # "canceled"
    <3>1. runs'[r].state \in {"retrying", "failed"} /\ runs[r].state = "running"
      BY <2>1, CloseAttemptRows
    <3>2. outbox'[r] = outbox[r] /\ runs'[r].dispatch_generation = runs[r].dispatch_generation
      BY <2>1, CloseAttemptRows
    <3> QED
      BY <3>1, <3>2, Rows DEF DispatchAgrees, Waiting
  <2>2. CASE outbox' = [outbox EXCEPT ![r] = AllCanceled(r)] /\ s = "canceled"
    <3>1. outbox'[r] = AllCanceled(r)
      BY <2>2 DEF TypeOK
    <3> QED
      BY <2>2, <3>1, CloseAttemptRows, AuthorityIsLast, AllCanceledAgrees
  <2> QED
    BY <2>1, <2>2
<1>4. CountsAgree(runs'[r])
  BY CloseAttemptRows, AuthorityIsLast, Rows, CapsAssumption DEF CountsAgree, Waiting
<1> QED
  BY <1>1, <1>2, <1>3, <1>4, Frame DEF RowsAgree

LEMMA CompleteAgrees ==
  ASSUME TypeOK, Agreement, NEW r \in Runs, NEW n \in AttemptNumbers,
         CompleteRunExecution(r, n)
  PROVE  Agreement'
<1>1. HoldsAuthority(r, n)
  BY DEF CompleteRunExecution
<1>2. CASE runs[r].state = "cancel_requested" /\ CancelAtCheckpoint(r, n)
  BY <1>1, <1>2, CloseAttemptAgrees, StatusNames, StateNames DEF CancelAtCheckpoint
<1>3. CASE /\ runs[r].state = "running" /\ results' = [results EXCEPT ![r] = n]
           /\ CloseAttempt(r, n, "succeeded", "succeeded") /\ UNCHANGED outbox
  <2>1. \A q \in Runs : q # r => /\ runs'[q] = runs[q] /\ attempts'[q] = attempts[q]
                                 /\ outbox'[q] = outbox[q] /\ results'[q] = results[q]
    BY <1>1, <1>3, CloseAttemptRows, StatusNames, StateNames DEF TypeOK
  <2>2. /\ runs'[r].state = "succeeded" /\ runs'[r].lease_token = 0 /\ runs'[r].lease = 0
        /\ runs'[r].attempt_count = runs[r].attempt_count
        /\ runs'[r].dispatch_generation = runs[r].dispatch_generation
        /\ attempts'[r][n].status = "succeeded"
        /\ \A k \in AttemptNumbers :
             /\ k # n => attempts'[r][k] = attempts[r][k]
             /\ attempts'[r][k].status # "running"
             /\ k > runs[r].attempt_count => attempts'[r][k].status = "none"
    BY <1>1, <1>3, CloseAttemptRows, StatusNames, StateNames
  <2>3. results'[r] = n /\ outbox'[r] = outbox[r]
    BY <1>3 DEF TypeOK
  <2>4. AuthorityAgrees(runs'[r], attempts'[r])
    BY <2>2 DEF AuthorityAgrees, AttemptNumbers
  <2>5. DispatchAgrees(runs'[r], outbox'[r])
    BY <1>3, <2>2, <2>3, Rows DEF DispatchAgrees, Waiting
  <2>6. ResultAgrees(runs'[r], attempts'[r], results'[r])
    BY <1>1, <2>2, <2>3, AuthorityIsLast, Rows DEF ResultAgrees, AttemptNumbers
  <2>7. CountsAgree(runs'[r])
    BY <1>1, <2>2, AuthorityIsLast, Rows DEF CountsAgree, Waiting
  <2> QED
    BY <2>1, <2>4, <2>5, <2>6, <2>7, Frame DEF RowsAgree
<1> QED
  BY <1>2, <1>3 DEF CompleteRunExecution

LEMMA FailExecutionAgrees ==
  ASSUME TypeOK, Agreement, NEW r \in Runs, NEW n \in AttemptNumbers,
         NEW retryable \in BOOLEAN, FailRunExecution(r, n, retryable)
  PROVE  Agreement'
<1>1. HoldsAuthority(r, n) /\ runs[r].state \in {"running", "cancel_requested"}
  BY AuthorityIsLast DEF FailRunExecution
<1>2. CASE runs[r].state = "cancel_requested" /\ CancelAtCheckpoint(r, n)
  BY <1>1, <1>2, CloseAttemptAgrees, StatusNames, StateNames DEF CancelAtCheckpoint
<1>3. CASE /\ RetryAllowed(r, retryable) /\ CloseAttempt(r, n, "retrying", "retrying")
           /\ UNCHANGED <<outbox, results>>
  BY <1>1, <1>3, CloseAttemptAgrees, StatusNames, StateNames DEF RetryAllowed
<1>4. CASE /\ runs[r].state \in {"running", "retrying"}
           /\ CloseAttempt(r, n, "failed", "failed") /\ UNCHANGED <<outbox, results>>
  BY <1>1, <1>4, CloseAttemptAgrees, StatusNames, StateNames
<1> QED
  BY <1>2, <1>3, <1>4 DEF FailRunExecution

-----------------------------------------------------------------------------
(* Time, and the invariant. *)

LEMMA TickAgrees ==
  ASSUME TypeOK, Agreement, Tick
  PROVE  Agreement'
<1> SUFFICES ASSUME NEW r \in Runs
             PROVE  RowsAgree(runs'[r], attempts'[r], outbox'[r], results'[r])
  BY DEF Agreement
<1>1. /\ runs'[r].state = runs[r].state /\ runs'[r].attempt_count = runs[r].attempt_count
      /\ runs'[r].dispatch_generation = runs[r].dispatch_generation
      /\ runs'[r].lease_token = runs[r].lease_token
      /\ runs'[r].lease = Sooner(runs[r].lease)
      /\ results'[r] = results[r]
  BY Rows DEF Tick, RunRows
<1>2. \A n \in AttemptNumbers :
        /\ attempts'[r][n].status = attempts[r][n].status
        /\ attempts'[r][n].lease = Sooner(attempts[r][n].lease)
  BY Rows DEF Tick, AttemptRows
<1>3. AuthorityAgrees(runs'[r], attempts'[r])
  <2>1. AuthorityAgrees(runs[r], attempts[r]) /\ runs[r] \in RunRows
    BY Rows
  <2>2. runs[r].lease_token # 0 => runs[r].lease_token \in AttemptNumbers
    BY <2>1, CapsAssumption DEF AttemptNumbers, RunRows
  <2>3. Sooner(0) = 0
    BY DEF Sooner
  <2> QED
    BY <1>1, <1>2, <2>1, <2>2, <2>3 DEF AuthorityAgrees
<1>4. DispatchAgrees(runs'[r], outbox'[r])
  <2>1. ASSUME NEW g \in Generations
        PROVE  /\ outbox'[r][g].status = outbox[r][g].status
               /\ outbox'[r][g].count = outbox[r][g].count
               /\ outbox'[r][g].error = outbox[r][g].error
               /\ outbox[r][g] = NoOutbox => outbox'[r][g] = NoOutbox
    <3>1. outbox[r][g] \in OutboxRows
      BY Rows
    <3>2. outbox'[r][g] = [outbox[r][g] EXCEPT !.claim = Sooner(outbox[r][g].claim),
                                               !.next = Sooner(outbox[r][g].next)]
      BY DEF Tick
    <3>3. /\ outbox'[r][g].status = outbox[r][g].status
          /\ outbox'[r][g].count = outbox[r][g].count
          /\ outbox'[r][g].error = outbox[r][g].error
      BY <3>1, <3>2 DEF OutboxRows
    <3>4. ASSUME outbox[r][g] = NoOutbox PROVE outbox'[r][g] = NoOutbox
      <4>1. Sooner(0) = 0
        BY DEF Sooner
      <4>2. outbox[r][g].claim = 0 /\ outbox[r][g].next = 0
        BY <3>4 DEF NoOutbox
      <4>3. outbox'[r][g] = outbox[r][g]
        BY <3>1, <3>2, <4>1, <4>2 DEF OutboxRows
      <4> QED
        BY <3>4, <4>3
    <3> QED
      BY <3>3, <3>4
  <2> QED
    BY <1>1, <2>1, Rows DEF DispatchAgrees
<1>5. ResultAgrees(runs'[r], attempts'[r], results'[r]) /\ CountsAgree(runs'[r])
  BY <1>1, <1>2, Rows DEF ResultAgrees, CountsAgree
<1> QED
  BY <1>3, <1>4, <1>5 DEF RowsAgree

LEMMA InitAgrees == Init => Agreement
<1> SUFFICES ASSUME Init, NEW r \in Runs
             PROVE  RowsAgree(runs[r], attempts[r], outbox[r], results[r])
  BY DEF Agreement
<1>1. /\ runs[r].state = "absent" /\ runs[r].attempt_count = 0
      /\ runs[r].dispatch_generation = 0 /\ runs[r].lease_token = 0 /\ runs[r].lease = 0
      /\ results[r] = 0
      /\ \A n \in AttemptNumbers : attempts[r][n].status = "none"
      /\ \A g \in Generations : outbox[r][g] = NoOutbox
  BY DEF Init, NoAttempt
<1>2. AuthorityAgrees(runs[r], attempts[r])
  BY <1>1 DEF AuthorityAgrees, AttemptNumbers
<1>3. DispatchAgrees(runs[r], outbox[r])
  BY <1>1, CapsAssumption DEF DispatchAgrees, Generations
<1>4. ResultAgrees(runs[r], attempts[r], results[r]) /\ CountsAgree(runs[r])
  BY <1>1 DEF ResultAgrees, CountsAgree, AttemptNumbers, Waiting
<1> QED
  BY <1>2, <1>3, <1>4 DEF RowsAgree

\* Every step keeps the rows of every run in agreement.
LEMMA NextAgrees == TypeOK /\ Agreement /\ [Next]_vars => Agreement'
<1> SUFFICES ASSUME TypeOK, Agreement, [Next]_vars PROVE Agreement'
  OBVIOUS
<1>1. ASSUME NEW r \in Runs, ApiStep(r) PROVE Agreement'
  BY <1>1, CreateRunAgrees, RequestCancelAgrees DEF ApiStep
<1>2. ASSUME NEW r \in Runs, DispatcherStep(r) PROVE Agreement'
  BY <1>2, ClaimDueAgrees, ConfirmAgrees, FailDispatchAgrees, FinalizeCancelAgrees,
     PoisonAgrees, ReconcileAgrees DEF DispatcherStep
<1>3. ASSUME NEW r \in Runs, WorkerStep(r) PROVE Agreement'
  BY <1>3, ClaimExecutionAgrees, HeartbeatAgrees, CompleteAgrees, FailExecutionAgrees
  DEF WorkerStep
<1>4. ASSUME NEW enabled \in BOOLEAN, SetRunCreationControl(enabled) PROVE Agreement'
  BY <1>4 DEF SetRunCreationControl, Agreement
<1>5. CASE Tick
  BY <1>5, TickAgrees
<1>6. CASE UNCHANGED vars
  BY <1>6 DEF vars, Agreement
<1> QED
  BY <1>1, <1>2, <1>3, <1>4, <1>5, <1>6 DEF Next, RunStep

\* The rows of every run agree in every reachable state: the inductive
\* invariant, whatever is called, in any order, and however late.
THEOREM Agreeing == Spec => [](TypeOK /\ Agreement)
BY InitAgrees, NextAgrees, Typing, PTL DEF Spec

=============================================================================
