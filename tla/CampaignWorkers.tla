--------------------------- MODULE CampaignWorkers ---------------------------
(***************************************************************************)
(* The workers of the Campaign Lab over the stored functions of            *)
(* CampaignLab: campaign_lab_loop claims one run, and                      *)
(* process_campaign_lab_claim takes it through progress, an evaluation     *)
(* under heartbeats and its completion.  One action per call of the        *)
(* database or end of the evaluation; between two of them other workers,   *)
(* users and the clock move.                                               *)
(*                                                                         *)
(* A call may fail without effect or after it; both send the worker to the *)
(* handler of the exception.  A worker may stop, its process with it, at   *)
(* any moment.  Each of these spends one of MaxFaults, and so does a       *)
(* tick that lets the lease of a working worker run out, which renews it   *)
(* five times as often.                                                     *)
(***************************************************************************)
EXTENDS CampaignLab

CONSTANTS
  Workers,    \* tasks that run campaign_lab_loop
  MaxFaults   \* bound of the model on faults

ASSUME FaultsAssumption == MaxFaults \in Nat

VARIABLES
  live,     \* runs whose request names a paid provider
  workers,  \* what each worker does, and for which claim
  charged,  \* evaluations that called the provider, by run
  faults

workVars == <<runs, secrets, campaigns, run_creation, live, workers, charged, faults>>

\* Each stage is named for the call it makes next; "evaluating" waits for the child.
Reporting == {"validating", "starting", "persisting"}
Stages == Reporting \cup {"evaluating", "completing", "canceling", "failing"}

Idle == [stage |-> "idle"]
WorkerRows ==
  {Idle} \cup [stage : Stages, run : LabRuns, token : Tokens, retryable : BOOLEAN]

WorkersTypeOK ==
  /\ LabTypeOK
  /\ live \subseteq LabRuns
  /\ workers \in [Workers -> WorkerRows]
  /\ charged \in [LabRuns -> 0..MaxClaims]
  /\ faults \in 0..MaxFaults

WorkInit ==
  /\ LabInit
  /\ live \in SUBSET LabRuns
  /\ workers = [w \in Workers |-> Idle]
  /\ charged = [r \in LabRuns |-> 0]
  /\ faults = 0

Busy(w) == workers[w] # Idle

\* The worker's token is good for a row in this status.
Accepted(w, status) == Authorized(workers[w].run, workers[w].token, status)

Enters(w, stage) == workers' = [workers EXCEPT ![w].stage = stage]

Fails(w, retryable) ==
  workers' = [workers EXCEPT ![w].stage = "failing", ![w].retryable = retryable]

Finishes(w) == workers' = [workers EXCEPT ![w] = Idle]

\* A call of a stored function that finds no row leaves everything as it was.
Either(accepted, effect) == IF accepted THEN effect ELSE UNCHANGED labVars

-----------------------------------------------------------------------------
(* A user's and the operator's commands, and retention. *)

Environment ==
  /\ \/ \E r \in LabRuns :
          \/ \E c \in Campaigns, report \in BOOLEAN, secret \in {"none", "held"} :
               CreateLabRun(r, c, report, secret)
          \/ CancelLabRun(r)
          \/ ExpireLabRun(r)
     \/ \E c \in Campaigns : UpdateCampaign(c)
     \/ SetRunCreation
  /\ UNCHANGED <<live, workers, charged, faults>>

-----------------------------------------------------------------------------
(* One claim, from the poll to its end. *)

Poll(w) ==
  /\ ~Busy(w)
  /\ \E r \in LabRuns :
       /\ ClaimLabRun(r)
       /\ workers' = [workers EXCEPT ![w] =
            [stage |-> "validating", run |-> r, token |-> runs'[r].lease_token,
             retryable |-> FALSE]]
  /\ UNCHANGED <<live, charged, faults>>

\* Fault: no refusal.
Refused_Never(w) == FALSE

\* A provider that may have been charged for this run is not called again.
Refused(w) == workers[w].run \in live /\ workers[w].token > 1

\* Progress is stored, which renews the lease, or the worker turns to a cancellation.
\* The evaluation starts with its child, and the refusal is the child's first act.
Progress(w) ==
  LET r == workers[w].run
      after == [validating |-> "starting", starting |-> "evaluating",
                persisting |-> "completing"][workers[w].stage] IN
  /\ Busy(w) /\ workers[w].stage \in Reporting
  /\ IF Accepted(w, "running")
       THEN /\ UpdateProgress(r, workers[w].token)
            /\ Enters(w, after)
            /\ charged' = IF after = "evaluating" /\ r \in live /\ ~Refused(w)
                            THEN [charged EXCEPT ![r] = @ + 1] ELSE charged
       ELSE /\ Enters(w, "canceling")
            /\ UNCHANGED <<labVars, charged>>
  /\ UNCHANGED <<live, faults>>

\* A heartbeat that is refused kills the evaluation and waits for its end.
Heartbeat(w) ==
  LET accepted == Accepted(w, "running") IN
  /\ Busy(w) /\ workers[w].stage = "evaluating"
  /\ Either(accepted, UpdateProgress(workers[w].run, workers[w].token))
  /\ IF accepted THEN UNCHANGED workers ELSE Enters(w, "canceling")
  /\ UNCHANGED <<live, charged, faults>>

\* The evaluation ends with a result, with an input that is invalid or a timeout, or
\* with any other error.
EndEvaluation(w) ==
  /\ Busy(w) /\ workers[w].stage = "evaluating"
  /\ \/ ~Refused(w) /\ Enters(w, "persisting")
     \/ \E retryable \in BOOLEAN : Fails(w, retryable)
  /\ UNCHANGED <<labVars, live, charged, faults>>

\* The stored function of the last stage, whose answer changes nothing more.
Stored(w) ==
  LET r == workers[w].run
      n == workers[w].token IN
  CASE workers[w].stage = "completing" ->
         Either(Accepted(w, "running"), CompleteLabRun(r, n))
    [] workers[w].stage = "canceling" ->
         Either(Accepted(w, "cancel_requested"), FinalizeCanceledLabRun(r, n))
    [] workers[w].stage = "failing" ->
         Either(Accepted(w, "running"), FailLabRun(r, n, workers[w].retryable))

Finish(w) ==
  /\ Busy(w) /\ workers[w].stage \in {"completing", "canceling", "failing"}
  /\ Stored(w)
  /\ Finishes(w)
  /\ UNCHANGED <<live, charged, faults>>

-----------------------------------------------------------------------------
(* Faults. *)

Spend == faults < MaxFaults /\ faults' = faults + 1

\* A call throws, having reached the database or not.  In the heartbeat that is a lost
\* lease, in the report of a failure the end, and elsewhere a failure to report.
CallThrows(w) ==
  LET stage == workers[w].stage IN
  /\ Busy(w)
  /\ Spend
  /\ \/ UNCHANGED labVars
     \/ stage \in Reporting \cup {"evaluating"}
        /\ Either(Accepted(w, "running"), UpdateProgress(workers[w].run, workers[w].token))
     \/ stage \in {"completing", "canceling", "failing"} /\ Stored(w)
  /\ CASE stage = "evaluating" -> Enters(w, "canceling")
       [] stage = "failing"    -> Finishes(w)
       [] OTHER                -> Fails(w, TRUE)
  /\ UNCHANGED <<live, charged>>

\* The process dies, is stopped or its task is canceled.
Crash(w) ==
  /\ Busy(w)
  /\ Spend
  /\ Finishes(w)
  /\ UNCHANGED <<labVars, live, charged>>

\* Somebody works under this lease.
Attended(r) == \E w \in Workers :
  Busy(w) /\ workers[w].run = r /\ workers[w].token = runs[r].lease_token

Tick ==
  /\ LabTick
  /\ IF \E r \in LabRuns : runs[r].status = "running" /\ runs[r].lease = 1 /\ Attended(r)
       THEN Spend ELSE UNCHANGED faults
  /\ UNCHANGED <<live, workers, charged>>

-----------------------------------------------------------------------------

WorkerStep(w) ==
  Poll(w) \/ Progress(w) \/ Heartbeat(w) \/ EndEvaluation(w) \/ Finish(w)

WorkNext ==
  \/ Environment
  \/ \E w \in Workers : WorkerStep(w) \/ CallThrows(w) \/ Crash(w)
  \/ Tick

\* An evaluation has a hard deadline, so it ends though heartbeats go on for ever.
WorkFairness ==
  /\ WF_workVars(Tick)
  /\ \A w \in Workers :
       /\ WF_workVars(Poll(w) \/ Progress(w) \/ Finish(w))
       /\ WF_workVars(EndEvaluation(w))

WorkSpec == WorkInit /\ [][WorkNext]_workVars
FairWorkSpec == WorkSpec /\ WorkFairness

-----------------------------------------------------------------------------
(* Properties. *)

\* A claim has one worker: however leases run out and processes die, no two workers
\* hold the same token of a run.
ClaimHasOneWorker == \A v, w \in Workers :
  Busy(v) /\ Busy(w) /\ v # w =>
    workers[v].run # workers[w].run \/ workers[v].token # workers[w].token

\* A lease is not released under a running evaluation: whoever evaluates still holds the
\* token, unless the run was claimed again or, settled by its user, removed
\* (isolated_evaluation.py: kill and reap precede the release of the lease).
EvaluatorHoldsLease == \A w \in Workers :
  Busy(w) /\ workers[w].stage = "evaluating" =>
    LET row == runs[workers[w].run] IN
    \/ row.lease_token = workers[w].token
    \/ row.attempt_count > workers[w].token
    \/ row.status = "deleted"

\* However a run is retried, reclaimed or lost, a paid provider is called for it once.
ProviderChargedOnce == \A r \in live : charged[r] <= 1

\* How a run looks to those who asked for it.
StateOf(status) ==
  CASE status = "absent"           -> "none"
    [] status \in Waiting          -> "waiting"
    [] status = "running"          -> "working"
    [] status = "cancel_requested" -> "canceling"
    [] status \in Settled          -> status
    [] status = "deleted"          -> "removed"

Life == INSTANCE LabRunLife WITH
  Runs   <- LabRuns,
  state  <- [r \in LabRuns |-> StateOf(runs[r].status)],
  claims <- [r \in LabRuns |-> runs[r].attempt_count],
  result <- [r \in LabRuns |-> runs[r].result]

\* Whatever workers, leases, retries and cancellations do to each other, a run is begun,
\* charged for and settled in order: a provider is called for it only while it is held
\* under its first claim, and no step but its holder's or its user's ends it.
LabRunsKeepOrder == Life!Spec

\* A run that has lost its worker has spent a fault for every claim beyond the retries:
\* so it can be claimed again for as long as the caps differ by more than the faults
\* (campaign_lab.py and the two caps: 10 claims, retries up to the fifth).
ClaimsSuffice == \A r \in LabRuns :
  runs[r].status = "running" /\ runs[r].lease = 0 =>
    runs[r].attempt_count < MaxRetries + faults

\* A run that a worker may still work on ends or is being canceled, whatever fails,
\* as long as there are claims for the faults and the retries.
RunsAreWorkedOff == \A r \in LabRuns :
  runs[r].status \in Waiting \cup {"running"}
    ~> runs[r].status \in Settled \cup {"cancel_requested", "deleted"}

\* A cancellation that was asked for is finalized by the worker
\* (docs/status/campaign-simulation-current-state.md:192).
CancellationIsFinalized == \A r \in LabRuns :
  runs[r].status = "cancel_requested" ~> runs[r].status # "cancel_requested"

=============================================================================
