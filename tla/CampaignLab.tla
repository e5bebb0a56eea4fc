----------------------------- MODULE CampaignLab -----------------------------
(***************************************************************************)
(* The leased runs of the Campaign Lab: api.campaign_lab_runs, the secret  *)
(* rows of private.campaign_lab_secrets and the status of the campaigns in *)
(* api.campaign_lab_campaigns, with one action per stored function.  The   *)
(* table is queue and record in one: a worker claims a row for the length  *)
(* of a lease, and the next claim draws a new lease token.                 *)
(*                                                                         *)
(* Callers are left open, as in RunLifecycle: any function at any moment,  *)
(* with any token that was ever drawn.  CampaignWorkers adds the workers.  *)
(* Every function locks the run it changes, and creation is serialized by  *)
(* an advisory lock, so each is one step.  A repeated command whose record *)
(* is found changes nothing and is left out.                               *)
(*                                                                         *)
(* A lease token is named by the claim that drew it, the attempt_count     *)
(* it left behind.  Deadlines are countdowns, and zero is past or NULL.    *)
(***************************************************************************)
EXTENDS Integers, FiniteSets

CONSTANTS
  LabRuns,         \* run identifiers, unused ones included
  Campaigns,       \* campaigns of all organizations
  AdmissionBound,  \* unfinished runs at once               (100 in the code)
  MaxClaims,       \* claims of one run                     (10)
  MaxRetries,      \* claims from which a failure is final  (5)
  LeaseTicks,      \* worker lease                          (5 minutes)
  BackoffTicks,    \* longest delay of a retry              (300 seconds)
  MaxVersion       \* bound of the model on edits of a campaign

ASSUME RunsAssumption == IsFiniteSet(LabRuns)
ASSUME ClaimsAssumption ==
  /\ MaxClaims \in Nat /\ MaxRetries \in Nat
  /\ 0 < MaxRetries /\ MaxRetries <= MaxClaims
ASSUME BoundsAssumption == AdmissionBound \in Nat /\ MaxVersion \in Nat \ {0}
ASSUME DelaysAssumption == LeaseTicks \in Nat \ {0} /\ BackoffTicks \in Nat \ {0}

VARIABLES
  runs,          \* api.campaign_lab_runs
  secrets,       \* private.campaign_lab_secrets
  campaigns,     \* api.campaign_lab_campaigns
  run_creation   \* the row of private.runtime_controls: enabled and no pressure

labVars == <<runs, secrets, campaigns, run_creation>>

-----------------------------------------------------------------------------
(* Rows. *)

Waiting    == {"queued", "retrying"}
Unfinished == Waiting \cup {"running", "cancel_requested"}
Settled    == {"succeeded", "failed", "canceled"}

\* "deleted" is a row that retention removed.
Statuses == {"absent", "deleted"} \cup Unfinished \cup Settled

Tokens == 1..MaxClaims

\* The result names the claim that published it; 0 is none.
\* Of the run types only the report matters: it completes its campaign.
RunRows ==
  [status : Statuses, campaign : Campaigns, report : BOOLEAN,
   attempt_count : 0..MaxClaims, lease_token : 0..MaxClaims,
   lease : 0..LeaseTicks, next : 0..BackoffTicks, result : 0..MaxClaims]

NewRun(c, report) ==
  [status |-> "queued", campaign |-> c, report |-> report, attempt_count |-> 0,
   lease_token |-> 0, lease |-> 0, next |-> 0, result |-> 0]

\* A run comes with secret input, held-out outcomes or survey rows, or without.
SecretStates == {"none", "held", "deleted"}

\* No function archives or blocks a campaign.
CampaignRows ==
  [status : {"draft", "active", "running", "completed"}, version : 1..MaxVersion]

LabTypeOK ==
  /\ runs \in [LabRuns -> RunRows]
  /\ secrets \in [LabRuns -> SecretStates]
  /\ campaigns \in [Campaigns -> CampaignRows]
  /\ run_creation \in BOOLEAN

\* The columns of a row that does not exist are those of a new one.
LabInit ==
  /\ \E c \in Campaigns :
       runs = [r \in LabRuns |-> [NewRun(c, FALSE) EXCEPT !.status = "absent"]]
  /\ secrets = [r \in LabRuns |-> "none"]
  /\ campaigns = [c \in Campaigns |-> [status |-> "draft", version |-> 1]]
  /\ run_creation \in BOOLEAN

-----------------------------------------------------------------------------
(* What the functions read and write. *)

\* Fault: the token alone, whatever became of the run.
Authorized_TokenOnly(r, n, status) == runs[r].lease_token = n

\* Fault: any worker that ever claimed the run.
Authorized_AnyToken(r, n, status) == runs[r].status = status

\* The caller presents the token of the last claim, and the run has this status.
\* The deadline of the lease is not looked at.
Authorized(r, n, status) == runs[r].lease_token = n /\ runs[r].status = status

\* A row that leaves the hands of its worker.
Relinquished(row, status) ==
  [row EXCEPT !.status = status, !.lease_token = 0, !.lease = 0]

\* Fault: the delete is forgotten.
WithoutSecret_Kept(r) == secrets

WithoutSecret(r) == [secrets EXCEPT ![r] = IF @ = "held" THEN "deleted" ELSE @]

CampaignBecomes(r, status) == [campaigns EXCEPT ![runs[r].campaign].status = status]

-----------------------------------------------------------------------------
(* Commands of the API. *)

\* Fault: work that is being canceled does not count.
Admitted_Live ==
  Cardinality({r \in LabRuns : runs[r].status \in Waiting \cup {"running"}}) < AdmissionBound

\* The bound of the trigger on insertions.
Admitted == Cardinality({r \in LabRuns : runs[r].status \in Unfinished}) < AdmissionBound

CreateLabRun(r, c, report, secret) ==
  /\ runs[r].status = "absent"
  /\ run_creation
  /\ Admitted
  /\ runs' = [runs EXCEPT ![r] = NewRun(c, report)]
  /\ secrets' = [secrets EXCEPT ![r] = secret]
  /\ campaigns' = [campaigns EXCEPT ![c].status = "running"]
  /\ UNCHANGED run_creation

\* Fault: a repeated cancellation takes the lease from the worker.
Canceled_Released(row) ==
  IF row.status = "running" THEN [row EXCEPT !.status = "cancel_requested"]
                            ELSE Relinquished(row, "canceled")

\* What a user's cancellation makes of a row.  The lease columns, the secret and the
\* campaign stay as they are, and a second cancellation does not wait for the worker.
Canceled(row) ==
  [row EXCEPT !.status = IF row.status = "running" THEN "cancel_requested" ELSE "canceled"]

CancelLabRun(r) ==
  /\ runs[r].status \in Unfinished
  /\ runs' = [runs EXCEPT ![r] = Canceled(@)]
  /\ UNCHANGED <<secrets, campaigns, run_creation>>

\* An edit of a campaign that nothing runs in, by the campaign's own account.
UpdateCampaign(c) ==
  /\ campaigns[c].status \notin {"running", "completed"}
  /\ campaigns[c].version < MaxVersion
  /\ campaigns' = [campaigns EXCEPT ![c] = [status |-> "active", version |-> @.version + 1]]
  /\ UNCHANGED <<runs, secrets, run_creation>>

\* The operator's switch and the pressure on the queue.
SetRunCreation ==
  /\ run_creation' = ~run_creation
  /\ UNCHANGED <<runs, secrets, campaigns>>

-----------------------------------------------------------------------------
(* Functions of the worker. *)

\* Fault: a run whose lease ran out is left to its worker.
Due_WaitingOnly(row) ==
  row.status \in Waiting /\ row.next = 0 /\ row.attempt_count < MaxClaims

\* Waiting and its time has come, or running and its lease has run out; below the cap.
Due(row) ==
  /\ \/ row.status \in Waiting /\ row.next = 0
     \/ row.status = "running" /\ row.lease = 0
  /\ row.attempt_count < MaxClaims

\* Fault: the new claim keeps the lease token of the old.
Claimed_SameToken(row) ==
  [row EXCEPT !.status = "running", !.attempt_count = @ + 1, !.lease = LeaseTicks,
              !.lease_token = IF @ = 0 THEN row.attempt_count + 1 ELSE @]

Claimed(row) ==
  [row EXCEPT !.status = "running", !.attempt_count = @ + 1, !.lease = LeaseTicks,
              !.lease_token = row.attempt_count + 1]

ClaimLabRun(r) ==
  /\ Due(runs[r])
  /\ runs' = [runs EXCEPT ![r] = Claimed(@)]
  /\ UNCHANGED <<secrets, campaigns, run_creation>>

UpdateProgress(r, n) ==
  /\ Authorized(r, n, "running")
  /\ runs' = [runs EXCEPT ![r].lease = LeaseTicks]
  /\ UNCHANGED <<secrets, campaigns, run_creation>>

CompleteLabRun(r, n) ==
  /\ Authorized(r, n, "running")
  /\ runs' = [runs EXCEPT ![r] = [Relinquished(@, "succeeded") EXCEPT !.result = n]]
  /\ campaigns' = CampaignBecomes(r, IF runs[r].report THEN "completed" ELSE "active")
  /\ secrets' = WithoutSecret(r)
  /\ UNCHANGED run_creation

\* Fault: a failure that may pass is tried again as long as claims are left.
Retried_ToTheCap(r, retryable) == retryable /\ runs[r].attempt_count < MaxClaims

\* A failure that may pass is tried again, for the first few claims.
Retried(r, retryable) == retryable /\ runs[r].attempt_count < MaxRetries

FailLabRun(r, n, retryable) ==
  /\ Authorized(r, n, "running")
  /\ \/ /\ Retried(r, retryable)
        /\ \E delay \in 1..BackoffTicks :
             runs' = [runs EXCEPT ![r] = [Relinquished(@, "retrying") EXCEPT !.next = delay]]
        /\ UNCHANGED <<secrets, campaigns>>
     \/ /\ ~Retried(r, retryable)
        /\ runs' = [runs EXCEPT ![r] = Relinquished(@, "failed")]
        /\ campaigns' = CampaignBecomes(r, "active")
        /\ secrets' = WithoutSecret(r)
  /\ UNCHANGED run_creation

FinalizeCanceledLabRun(r, n) ==
  /\ Authorized(r, n, "cancel_requested")
  /\ runs' = [runs EXCEPT ![r] = Relinquished(@, "canceled")]
  /\ campaigns' = CampaignBecomes(r, "active")
  /\ secrets' = WithoutSecret(r)
  /\ UNCHANGED run_creation

\* Retention removes a settled row at any age; the secret goes with it.
ExpireLabRun(r) ==
  /\ runs[r].status \in Settled
  /\ runs' = [runs EXCEPT ![r] = [NewRun(@.campaign, FALSE) EXCEPT !.status = "deleted"]]
  /\ secrets' = WithoutSecret(r)
  /\ UNCHANGED <<campaigns, run_creation>>

LabTick ==
  LET sooner(t) == IF t > 0 THEN t - 1 ELSE 0 IN
  /\ runs' = [r \in LabRuns |-> [runs[r] EXCEPT !.lease = sooner(@), !.next = sooner(@)]]
  /\ UNCHANGED <<secrets, campaigns, run_creation>>

-----------------------------------------------------------------------------

LabNext ==
  \/ \E r \in LabRuns :
       \/ \E c \in Campaigns, report \in BOOLEAN, secret \in {"none", "held"} :
            CreateLabRun(r, c, report, secret)
       \/ CancelLabRun(r)
       \/ ClaimLabRun(r)
       \/ \E n \in Tokens :
            \/ UpdateProgress(r, n)
            \/ CompleteLabRun(r, n)
            \/ \E retryable \in BOOLEAN : FailLabRun(r, n, retryable)
            \/ FinalizeCanceledLabRun(r, n)
       \/ ExpireLabRun(r)
  \/ \E c \in Campaigns : UpdateCampaign(c)
  \/ SetRunCreation
  \/ LabTick

LabSpec == LabInit /\ [][LabNext]_labVars

-----------------------------------------------------------------------------
(* Properties of a run. *)

\* A token on a row is the token of the last claim, so that a worker whose run was
\* claimed again can do nothing to it (the token checks of every worker function).  A
\* running run has one, and a run that is given back or finished by its worker has none.
LeaseIsLatest == \A r \in LabRuns :
  LET row == runs[r] IN
  /\ row.lease_token \in {0, row.attempt_count}
  /\ row.status = "running" => row.lease_token > 0
  /\ row.status \in Waiting \cup {"succeeded", "failed"} => row.lease_token = 0

\* Exactly the succeeded runs have a result, and it is the last claim's, also when
\* a worker whose lease ran out long ago completes a run nobody else took
\* (complete_campaign_lab_run_v3 looks at the token and the status only).
ResultIsWitnessed == \A r \in LabRuns :
  runs[r].result = IF runs[r].status = "succeeded" THEN runs[r].attempt_count ELSE 0

\* The secret input is there for every claim that may still come, and no run that its
\* worker finished keeps it (the deletes of the terminal functions).
SecretServesWork == \A r \in LabRuns :
  /\ runs[r].status \in Unfinished => secrets[r] # "deleted"
  /\ runs[r].status \in {"succeeded", "failed", "deleted"} => secrets[r] # "held"

\* A waiting run has claims to spend: the cap on retries, checked by the function
\* that fails a run, leaves room below the cap of the function that claims it.
WaitingCanBeClaimed == \A r \in LabRuns :
  runs[r].status \in Waiting => runs[r].attempt_count < MaxClaims

\* However runs are canceled, failed, retried and reclaimed, the runs that hold or may
\* get a worker stay within the bound of the admission trigger.
UnfinishedBounded == Cardinality({r \in LabRuns : runs[r].status \in Unfinished}) <= AdmissionBound

\* A settled run keeps its outcome, whatever late workers and repeated cancellations
\* present, until retention removes it.
SettledIsFinal == [][\A r \in LabRuns :
  runs[r].status \in Settled =>
    \/ runs'[r].status = "deleted"
    \/ runs'[r].status = runs[r].status /\ runs'[r].result = runs[r].result]_labVars

\* Once a cancellation is accepted the run gets no result, no retry and no new claim:
\* it waits for its worker or is canceled.
CanceledIsBarren == [][\A r \in LabRuns :
  runs[r].status = "cancel_requested" =>
    /\ runs'[r].status \in {"cancel_requested", "canceled"}
    /\ runs'[r].attempt_count = runs[r].attempt_count]_labVars

\* A run is not taken from the worker whose lease still runs.
LiveLeaseIsExclusive == [][\A r \in LabRuns :
  runs[r].status = "running" /\ runs[r].lease > 0 =>
    runs'[r].attempt_count = runs[r].attempt_count]_labVars

=============================================================================
