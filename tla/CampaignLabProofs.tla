-------------------------- MODULE CampaignLabProofs --------------------------
(***************************************************************************)
(* Proofs about CampaignLab: its rows stay in their types and agree with   *)
(* each other, for any number of runs, campaigns, claims and retries.      *)
(*                                                                         *)
(* The row-level lemmas come first: what an edit of a row leaves of its    *)
(* type and its fields.  LabInv is inductive: a result agrees with the     *)
(* attempt only because the token does, which is why they go together.     *)
(***************************************************************************)
EXTENDS CampaignLab, FiniteSetTheorems, TLAPS

-----------------------------------------------------------------------------
(* Rows. *)

\* What the properties say of one run and its secret.
RowOK(row, secret) ==
  /\ row \in RunRows
  /\ secret \in SecretStates
  /\ row.lease_token \in {0, row.attempt_count}
  /\ row.status = "running" => row.lease_token > 0
  /\ row.status \in Waiting \cup {"succeeded", "failed"} => row.lease_token = 0
  /\ row.result = IF row.status = "succeeded" THEN row.attempt_count ELSE 0
  /\ row.status \in Unfinished => secret # "deleted"
  /\ row.status \in {"succeeded", "failed", "deleted"} => secret # "held"
  /\ row.status \in Waiting => row.attempt_count < MaxClaims

LabInv == LabTypeOK /\ \A r \in LabRuns : RowOK(runs[r], secrets[r])

\* The columns can hold what the functions write.
LEMMA Columns ==
  /\ Unfinished \subseteq Statuses /\ Settled \subseteq Statuses
  /\ "absent" \in Statuses /\ "deleted" \in Statuses
  /\ 0 \in 0..MaxClaims /\ 0 \in 0..LeaseTicks /\ 0 \in 0..BackoffTicks
  /\ LeaseTicks \in 0..LeaseTicks /\ 1..BackoffTicks \subseteq 0..BackoffTicks
BY ClaimsAssumption, DelaysAssumption DEF Statuses

\* A row has eight columns of these types.
LEMMA RowFields ==
  ASSUME NEW row \in RunRows
  PROVE  /\ row.status \in Statuses /\ row.campaign \in Campaigns /\ row.report \in BOOLEAN
         /\ row.attempt_count \in 0..MaxClaims /\ row.lease_token \in 0..MaxClaims
         /\ row.lease \in 0..LeaseTicks /\ row.next \in 0..BackoffTicks
         /\ row.result \in 0..MaxClaims
BY DEF RunRows

\* A row whose status, token, lease and countdown are written is a row.
LEMMA EditType ==
  ASSUME NEW row \in RunRows, NEW a \in Statuses, NEW d \in 0..MaxClaims,
         NEW e \in 0..MaxClaims, NEW f \in 0..LeaseTicks
  PROVE  /\ [row EXCEPT !.status = a] \in RunRows
         /\ [row EXCEPT !.lease = f] \in RunRows
         /\ [row EXCEPT !.status = a, !.lease_token = e, !.lease = f] \in RunRows
         /\ [row EXCEPT !.status = a, !.attempt_count = d, !.lease = f, !.lease_token = e] \in RunRows
         /\ \A g \in 0..BackoffTicks : [row EXCEPT !.next = g] \in RunRows
         /\ \A h \in 0..MaxClaims : [row EXCEPT !.result = h] \in RunRows
         /\ \A g \in 0..BackoffTicks : [row EXCEPT !.lease = f, !.next = g] \in RunRows
BY RowFields DEF RunRows

-----------------------------------------------------------------------------
(* What each function makes of a row. *)

\* Creation.
LEMMA NewRunOK ==
  ASSUME NEW c \in Campaigns, NEW report \in BOOLEAN, NEW secret \in {"none", "held"}
  PROVE  RowOK(NewRun(c, report), secret)
<1>1. NewRun(c, report) \in RunRows
  BY Columns DEF NewRun, RunRows, Statuses, Unfinished, Waiting
<1> QED
  BY <1>1, ClaimsAssumption DEF RowOK, NewRun, Waiting, Unfinished, SecretStates

\* Retention.
LEMMA DeletedOK ==
  ASSUME NEW c \in Campaigns, NEW secret \in {"none", "deleted"}
  PROVE  RowOK([NewRun(c, FALSE) EXCEPT !.status = "deleted"], secret)
<1>1. NewRun(c, FALSE) \in RunRows
  BY Columns DEF NewRun, RunRows, Statuses, Unfinished, Waiting
<1>2. [NewRun(c, FALSE) EXCEPT !.status = "deleted"] \in RunRows
  BY <1>1, EditType, Columns
<1> QED
  BY <1>2 DEF RowOK, NewRun, Waiting, Unfinished, SecretStates

\* A user's cancellation.
LEMMA CanceledOK ==
  ASSUME NEW row, NEW secret, RowOK(row, secret), row.status \in Unfinished
  PROVE  RowOK(Canceled(row), secret)
<1>1. row \in RunRows
  BY DEF RowOK
<1>2. Canceled(row) \in RunRows
  BY <1>1, EditType, Columns DEF Canceled, Unfinished, Settled
<1>3. /\ Canceled(row).status \in {"cancel_requested", "canceled"}
      /\ Canceled(row).attempt_count = row.attempt_count
      /\ Canceled(row).lease_token = row.lease_token
      /\ Canceled(row).result = row.result
  BY <1>1 DEF Canceled, RunRows
<1> QED
  BY <1>2, <1>3 DEF RowOK, Waiting, Unfinished

\* A claim of a run that is due.
LEMMA ClaimedOK ==
  ASSUME NEW row, NEW secret, RowOK(row, secret), Due(row)
  PROVE  RowOK(Claimed(row), secret)
<1>1. row \in RunRows
  BY DEF RowOK
<1>2. row.attempt_count + 1 \in 0..MaxClaims /\ row.attempt_count + 1 > 0
  BY <1>1, RowFields, ClaimsAssumption DEF Due
<1>3. Claimed(row) \in RunRows
  BY <1>1, <1>2, EditType, Columns DEF Claimed, Unfinished
<1>4. /\ Claimed(row).status = "running" /\ Claimed(row).result = row.result
      /\ Claimed(row).attempt_count = row.attempt_count + 1
      /\ Claimed(row).lease_token = row.attempt_count + 1
  BY <1>1 DEF Claimed, RunRows
<1> QED
  BY <1>2, <1>3, <1>4 DEF RowOK, Due, Waiting, Unfinished

\* The lease of a running run is renewed, and countdowns go on in any row.
LEMMA CountdownOK ==
  ASSUME NEW row, NEW secret, RowOK(row, secret),
         NEW f \in 0..LeaseTicks, NEW g \in 0..BackoffTicks
  PROVE  /\ RowOK([row EXCEPT !.lease = f], secret)
         /\ RowOK([row EXCEPT !.lease = f, !.next = g], secret)
<1>1. row \in RunRows
  BY DEF RowOK
<1>2. /\ [row EXCEPT !.lease = f] \in RunRows
      /\ [row EXCEPT !.lease = f, !.next = g] \in RunRows
  BY <1>1, EditType, RowFields
<1> QED
  BY <1>1, <1>2 DEF RowOK, RunRows

\* What a worker gives back keeps its result and its attempts.
LEMMA RelinquishedFields ==
  ASSUME NEW row \in RunRows, NEW status \in Statuses
  PROVE  /\ Relinquished(row, status) \in RunRows
         /\ Relinquished(row, status).status = status
         /\ Relinquished(row, status).lease_token = 0
         /\ Relinquished(row, status).attempt_count = row.attempt_count
         /\ Relinquished(row, status).result = row.result
BY EditType, Columns DEF Relinquished, RunRows

\* A worker ends a run without a result.
LEMMA EndedOK ==
  ASSUME NEW row, NEW secret, RowOK(row, secret), row.status \in {"running", "cancel_requested"},
         NEW status \in {"failed", "canceled"}, NEW left \in {"none", "deleted"}
  PROVE  RowOK(Relinquished(row, status), left)
<1>1. row \in RunRows /\ status \in Statuses /\ row.result = 0
  BY Columns DEF RowOK, Settled
<1> QED
  BY <1>1, RelinquishedFields DEF RowOK, Waiting, Unfinished, SecretStates

\* A worker gives a run back to be retried.
LEMMA RetriedOK ==
  ASSUME NEW row, NEW secret, RowOK(row, secret), row.status = "running",
         row.attempt_count < MaxRetries, NEW delay \in 1..BackoffTicks
  PROVE  RowOK([Relinquished(row, "retrying") EXCEPT !.next = delay], secret)
<1> DEFINE back == Relinquished(row, "retrying")
           later == [back EXCEPT !.next = delay]
<1>1. row \in RunRows /\ "retrying" \in Statuses /\ row.result = 0
  BY Columns DEF RowOK, Unfinished, Waiting
<1>2. /\ back \in RunRows /\ back.status = "retrying" /\ back.lease_token = 0
      /\ back.attempt_count = row.attempt_count /\ back.result = 0
  BY <1>1, RelinquishedFields
<1>3. delay \in 0..BackoffTicks
  BY Columns
<1> HIDE DEF back
<1>4. later \in RunRows
  BY <1>2, <1>3, EditType, RowFields
<1>5. /\ later.status = "retrying" /\ later.lease_token = 0
      /\ later.attempt_count = row.attempt_count /\ later.result = 0
  BY <1>2 DEF RunRows
<1>6. row.attempt_count < MaxClaims
  BY <1>1, RowFields, ClaimsAssumption
<1>7. RowOK(later, secret)
  BY <1>4, <1>5, <1>6 DEF RowOK, Waiting, Unfinished
<1> QED
  BY <1>7 DEF back

\* A worker completes the run it holds the token of.
LEMMA CompletedOK ==
  ASSUME NEW row, NEW secret, RowOK(row, secret), row.status = "running",
         NEW left \in {"none", "deleted"}
  PROVE  RowOK([Relinquished(row, "succeeded") EXCEPT !.result = row.lease_token], left)
<1> DEFINE back == Relinquished(row, "succeeded")
           done == [back EXCEPT !.result = row.lease_token]
<1>1. /\ row \in RunRows /\ "succeeded" \in Statuses
      /\ row.lease_token = row.attempt_count /\ row.lease_token \in 0..MaxClaims
  BY Columns, RowFields DEF RowOK, Settled
<1>2. /\ back \in RunRows /\ back.status = "succeeded" /\ back.lease_token = 0
      /\ back.attempt_count = row.attempt_count
  BY <1>1, RelinquishedFields
<1> HIDE DEF back
<1>3. done \in RunRows
  <2>1. /\ \A h \in 0..MaxClaims : [back EXCEPT !.result = h] \in RunRows
    BY <1>2, EditType, Columns
  <2> QED
    BY <1>1, <2>1
<1>4. /\ done.status = "succeeded" /\ done.lease_token = 0
      /\ done.attempt_count = row.attempt_count /\ done.result = row.attempt_count
  BY <1>1, <1>2 DEF RunRows
<1>5. RowOK(done, left)
  BY <1>3, <1>4 DEF RowOK, Waiting, Unfinished, SecretStates
<1> QED
  BY <1>5 DEF back

-----------------------------------------------------------------------------
(* The steps. *)

\* A step that writes one run and its secret, and writes them well.
LEMMA OneRun ==
  ASSUME LabInv, NEW r \in LabRuns,
         runs' = [runs EXCEPT ![r] = runs'[r]],
         secrets' = [secrets EXCEPT ![r] = secrets'[r]],
         RowOK(runs'[r], secrets'[r]),
         campaigns' \in [Campaigns -> CampaignRows], run_creation' \in BOOLEAN
  PROVE  LabInv'
<1>1. runs'[r] \in RunRows /\ secrets'[r] \in SecretStates
  BY DEF RowOK
<1>2. /\ runs' \in [LabRuns -> RunRows] /\ secrets' \in [LabRuns -> SecretStates]
      /\ \A s \in LabRuns : s # r => runs'[s] = runs[s] /\ secrets'[s] = secrets[s]
  BY <1>1 DEF LabInv, LabTypeOK
<1>3. \A s \in LabRuns : RowOK(runs'[s], secrets'[s])
  <2>1. \A s \in LabRuns : s # r => RowOK(runs[s], secrets[s])
    BY DEF LabInv
  <2> QED
    BY <1>2, <2>1
<1> QED
  BY <1>2, <1>3 DEF LabInv, LabTypeOK

\* The secret of the run a function finishes is gone, and no other.
LEMMA SecretGoes ==
  ASSUME LabInv, NEW r \in LabRuns, secrets' = WithoutSecret(r)
  PROVE  /\ secrets' = [secrets EXCEPT ![r] = secrets'[r]]
         /\ secrets'[r] \in {"none", "deleted"}
BY DEF WithoutSecret, LabInv, LabTypeOK, SecretStates

\* A secret nobody touches.
LEMMA SecretStays ==
  ASSUME LabInv, NEW r \in LabRuns, UNCHANGED secrets
  PROVE  secrets' = [secrets EXCEPT ![r] = secrets'[r]] /\ secrets'[r] = secrets[r]
BY DEF LabInv, LabTypeOK

\* The campaign of a run takes the status its function gives it.
LEMMA CampaignType ==
  ASSUME LabInv, NEW c \in Campaigns, NEW status \in {"active", "running", "completed"}
  PROVE  [campaigns EXCEPT ![c].status = status] \in [Campaigns -> CampaignRows]
<1>1. campaigns[c] \in CampaignRows
  BY DEF LabInv, LabTypeOK
<1>2. [campaigns[c] EXCEPT !.status = status] \in CampaignRows
  BY <1>1 DEF CampaignRows
<1> QED
  BY <1>2 DEF LabInv, LabTypeOK

\* What the invariant says of one run.
LEMMA OfRun ==
  ASSUME LabInv, NEW r \in LabRuns
  PROVE  /\ RowOK(runs[r], secrets[r]) /\ runs[r] \in RunRows
         /\ runs[r].campaign \in Campaigns
         /\ campaigns \in [Campaigns -> CampaignRows] /\ run_creation \in BOOLEAN
BY RowFields DEF LabInv, LabTypeOK

LEMMA CreateStep ==
  ASSUME LabInv, NEW r \in LabRuns, NEW c \in Campaigns, NEW report \in BOOLEAN,
         NEW secret \in {"none", "held"}, CreateLabRun(r, c, report, secret)
  PROVE  LabInv'
<1>1. /\ runs' = [runs EXCEPT ![r] = runs'[r]] /\ runs'[r] = NewRun(c, report)
      /\ secrets' = [secrets EXCEPT ![r] = secrets'[r]] /\ secrets'[r] = secret
  BY DEF CreateLabRun, LabInv, LabTypeOK
<1>2. RowOK(NewRun(c, report), secret)
  BY NewRunOK
<1>3. campaigns' \in [Campaigns -> CampaignRows] /\ run_creation' \in BOOLEAN
  BY CampaignType, OfRun DEF CreateLabRun
<1> QED
  BY <1>1, <1>2, <1>3, OneRun

LEMMA CancelStep ==
  ASSUME LabInv, NEW r \in LabRuns, CancelLabRun(r)
  PROVE  LabInv'
<1>1. runs' = [runs EXCEPT ![r] = runs'[r]] /\ runs'[r] = Canceled(runs[r])
  BY DEF CancelLabRun, LabInv, LabTypeOK
<1>2. RowOK(Canceled(runs[r]), secrets[r])
  BY OfRun, CanceledOK DEF CancelLabRun
<1> QED
  BY <1>1, <1>2, OneRun, SecretStays, OfRun DEF CancelLabRun

LEMMA ClaimStep ==
  ASSUME LabInv, NEW r \in LabRuns, ClaimLabRun(r)
  PROVE  LabInv'
<1>1. runs' = [runs EXCEPT ![r] = runs'[r]] /\ runs'[r] = Claimed(runs[r])
  BY DEF ClaimLabRun, LabInv, LabTypeOK
<1>2. RowOK(Claimed(runs[r]), secrets[r])
  BY OfRun, ClaimedOK DEF ClaimLabRun
<1> QED
  BY <1>1, <1>2, OneRun, SecretStays, OfRun DEF ClaimLabRun

LEMMA ProgressStep ==
  ASSUME LabInv, NEW r \in LabRuns, NEW n \in Tokens, UpdateProgress(r, n)
  PROVE  LabInv'
<1>1. /\ runs' = [runs EXCEPT ![r] = runs'[r]]
      /\ runs'[r] = [runs[r] EXCEPT !.lease = LeaseTicks]
  BY DEF UpdateProgress, LabInv, LabTypeOK
<1>2. RowOK([runs[r] EXCEPT !.lease = LeaseTicks], secrets[r])
  BY OfRun, CountdownOK, Columns
<1> QED
  BY <1>1, <1>2, OneRun, SecretStays, OfRun DEF UpdateProgress

LEMMA CompleteStep ==
  ASSUME LabInv, NEW r \in LabRuns, NEW n \in Tokens, CompleteLabRun(r, n)
  PROVE  LabInv'
<1>1. /\ runs[r].status = "running" /\ n = runs[r].lease_token
      /\ runs' = [runs EXCEPT ![r] = runs'[r]]
      /\ runs'[r] = [Relinquished(runs[r], "succeeded") EXCEPT !.result = runs[r].lease_token]
  BY DEF CompleteLabRun, Authorized, LabInv, LabTypeOK
<1>2. /\ secrets' = [secrets EXCEPT ![r] = secrets'[r]]
      /\ secrets'[r] \in {"none", "deleted"}
  BY SecretGoes DEF CompleteLabRun
<1>3. \A left \in {"none", "deleted"} :
        RowOK([Relinquished(runs[r], "succeeded") EXCEPT !.result = runs[r].lease_token], left)
  BY <1>1, OfRun, CompletedOK
<1>4. campaigns' \in [Campaigns -> CampaignRows] /\ run_creation' \in BOOLEAN
  BY CampaignType, OfRun DEF CompleteLabRun, CampaignBecomes
<1> QED
  BY <1>1, <1>2, <1>3, <1>4, OneRun

\* Failing a run for good and finalizing its cancellation end it the same way.
LEMMA EndStep ==
  ASSUME LabInv, NEW r \in LabRuns, runs[r].status \in {"running", "cancel_requested"},
         NEW status \in {"failed", "canceled"},
         runs' = [runs EXCEPT ![r] = Relinquished(@, status)],
         campaigns' = CampaignBecomes(r, "active"),
         secrets' = WithoutSecret(r), UNCHANGED run_creation
  PROVE  LabInv'
<1>1. runs' = [runs EXCEPT ![r] = runs'[r]] /\ runs'[r] = Relinquished(runs[r], status)
  BY DEF LabInv, LabTypeOK
<1>2. /\ secrets' = [secrets EXCEPT ![r] = secrets'[r]]
      /\ secrets'[r] \in {"none", "deleted"}
  BY SecretGoes
<1>3. \A left \in {"none", "deleted"} : RowOK(Relinquished(runs[r], status), left)
  BY OfRun, EndedOK
<1>4. campaigns' \in [Campaigns -> CampaignRows] /\ run_creation' \in BOOLEAN
  BY CampaignType, OfRun DEF CampaignBecomes
<1> QED
  BY <1>1, <1>2, <1>3, <1>4, OneRun

LEMMA FailStep ==
  ASSUME LabInv, NEW r \in LabRuns, NEW n \in Tokens, NEW retryable \in BOOLEAN,
         FailLabRun(r, n, retryable)
  PROVE  LabInv'
<1>1. CASE Retried(r, retryable)
  <2>1. PICK delay \in 1..BackoffTicks :
          runs' = [runs EXCEPT ![r] = [Relinquished(@, "retrying") EXCEPT !.next = delay]]
    BY <1>1 DEF FailLabRun
  <2>2. /\ runs' = [runs EXCEPT ![r] = runs'[r]]
        /\ runs'[r] = [Relinquished(runs[r], "retrying") EXCEPT !.next = delay]
    BY <2>1 DEF LabInv, LabTypeOK
  <2>3. RowOK([Relinquished(runs[r], "retrying") EXCEPT !.next = delay], secrets[r])
    BY <1>1, OfRun, RetriedOK DEF FailLabRun, Authorized, Retried
  <2>4. UNCHANGED <<secrets, campaigns, run_creation>>
    BY <1>1 DEF FailLabRun
  <2> QED
    BY <2>2, <2>3, <2>4, OneRun, SecretStays, OfRun
<1>2. CASE ~Retried(r, retryable)
  BY <1>2, EndStep DEF FailLabRun, Authorized
<1> QED
  BY <1>1, <1>2

LEMMA FinalizeStep ==
  ASSUME LabInv, NEW r \in LabRuns, NEW n \in Tokens, FinalizeCanceledLabRun(r, n)
  PROVE  LabInv'
BY EndStep DEF FinalizeCanceledLabRun, Authorized

LEMMA ExpireStep ==
  ASSUME LabInv, NEW r \in LabRuns, ExpireLabRun(r)
  PROVE  LabInv'
<1>1. /\ runs' = [runs EXCEPT ![r] = runs'[r]]
      /\ runs'[r] = [NewRun(runs[r].campaign, FALSE) EXCEPT !.status = "deleted"]
  BY DEF ExpireLabRun, LabInv, LabTypeOK
<1>2. /\ secrets' = [secrets EXCEPT ![r] = secrets'[r]]
      /\ secrets'[r] \in {"none", "deleted"}
  BY SecretGoes DEF ExpireLabRun
<1>3. \A left \in {"none", "deleted"} :
        RowOK([NewRun(runs[r].campaign, FALSE) EXCEPT !.status = "deleted"], left)
  BY OfRun, DeletedOK
<1> QED
  BY <1>1, <1>2, <1>3, OneRun, OfRun DEF ExpireLabRun

LEMMA TickStep ==
  ASSUME LabInv, LabTick
  PROVE  LabInv'
<1> DEFINE sooner(t) == IF t > 0 THEN t - 1 ELSE 0
<1>1. /\ runs' = [r \in LabRuns |->
           [runs[r] EXCEPT !.lease = sooner(runs[r].lease), !.next = sooner(runs[r].next)]]
      /\ UNCHANGED <<secrets, campaigns, run_creation>>
  BY DEF LabTick
<1>2. ASSUME NEW r \in LabRuns PROVE RowOK(runs'[r], secrets'[r])
  <2>1. /\ sooner(runs[r].lease) \in 0..LeaseTicks
        /\ sooner(runs[r].next) \in 0..BackoffTicks
    BY OfRun, RowFields, DelaysAssumption
  <2> HIDE DEF sooner
  <2>2. RowOK([runs[r] EXCEPT !.lease = sooner(runs[r].lease),
                              !.next = sooner(runs[r].next)], secrets[r])
    BY <2>1, OfRun, CountdownOK
  <2> QED
    BY <1>1, <2>2
<1>3. runs' \in [LabRuns -> RunRows]
  BY <1>1, <1>2 DEF RowOK
<1> HIDE DEF sooner
<1> QED
  BY <1>1, <1>2, <1>3 DEF LabInv, LabTypeOK

LEMMA UpdateStep ==
  ASSUME LabInv, NEW c \in Campaigns, UpdateCampaign(c)
  PROVE  LabInv'
<1>1. campaigns[c] \in CampaignRows /\ campaigns[c].version + 1 \in 1..MaxVersion
  BY BoundsAssumption DEF LabInv, LabTypeOK, CampaignRows, UpdateCampaign
<1>2. campaigns' \in [Campaigns -> CampaignRows]
  BY <1>1 DEF UpdateCampaign, LabInv, LabTypeOK, CampaignRows
<1> QED
  BY <1>2 DEF UpdateCampaign, LabInv, LabTypeOK

-----------------------------------------------------------------------------
(* The invariant. *)

LEMMA InitEstablishes == LabInit => LabInv
<1> SUFFICES ASSUME LabInit PROVE LabInv
  OBVIOUS
<1>1. PICK c \in Campaigns :
        runs = [r \in LabRuns |-> [NewRun(c, FALSE) EXCEPT !.status = "absent"]]
  BY DEF LabInit
<1>2. RowOK([NewRun(c, FALSE) EXCEPT !.status = "absent"], "none")
  <2>1. RowOK(NewRun(c, FALSE), "none") /\ NewRun(c, FALSE) \in RunRows
    BY NewRunOK DEF RowOK
  <2>2. [NewRun(c, FALSE) EXCEPT !.status = "absent"] \in RunRows
    BY <2>1, EditType, Columns
  <2> QED
    BY <2>2 DEF RowOK, NewRun, Waiting, Unfinished, SecretStates
<1>3. \A r \in LabRuns : RowOK(runs[r], secrets[r])
  BY <1>1, <1>2 DEF LabInit
<1>4. runs \in [LabRuns -> RunRows]
  BY <1>1, <1>2 DEF RowOK
<1>5. campaigns \in [Campaigns -> CampaignRows]
  <2>1. [status |-> "draft", version |-> 1] \in CampaignRows
    BY BoundsAssumption DEF CampaignRows
  <2> QED
    BY <2>1 DEF LabInit
<1>6. secrets \in [LabRuns -> SecretStates] /\ run_creation \in BOOLEAN
  BY DEF LabInit, SecretStates
<1> QED
  BY <1>3, <1>4, <1>5, <1>6 DEF LabInv, LabTypeOK

LEMMA StepPreserves == LabInv /\ [LabNext]_labVars => LabInv'
<1> SUFFICES ASSUME LabInv, [LabNext]_labVars PROVE LabInv'
  OBVIOUS
<1>1. CASE \E r \in LabRuns, c \in Campaigns, report \in BOOLEAN, secret \in {"none", "held"} :
             CreateLabRun(r, c, report, secret)
  BY <1>1, CreateStep
<1>2. CASE \E r \in LabRuns : CancelLabRun(r) \/ ClaimLabRun(r) \/ ExpireLabRun(r)
  BY <1>2, CancelStep, ClaimStep, ExpireStep
<1>3. CASE \E r \in LabRuns, n \in Tokens :
             UpdateProgress(r, n) \/ CompleteLabRun(r, n) \/ FinalizeCanceledLabRun(r, n)
  BY <1>3, ProgressStep, CompleteStep, FinalizeStep
<1>4. CASE \E r \in LabRuns, n \in Tokens, retryable \in BOOLEAN : FailLabRun(r, n, retryable)
  BY <1>4, FailStep
<1>5. CASE \E c \in Campaigns : UpdateCampaign(c)
  BY <1>5, UpdateStep
<1>6. CASE SetRunCreation
  BY <1>6 DEF SetRunCreation, LabInv, LabTypeOK
<1>7. CASE LabTick
  BY <1>7, TickStep
<1>8. CASE UNCHANGED labVars
  BY <1>8 DEF labVars, LabInv, LabTypeOK
<1> QED
  BY <1>1, <1>2, <1>3, <1>4, <1>5, <1>6, <1>7, <1>8 DEF LabNext

\* The inductive invariant holds of every behavior of the stored functions.
THEOREM LabInvariant == LabSpec => []LabInv
BY InitEstablishes, StepPreserves, PTL DEF LabSpec

\* Every column keeps to the values its table admits, the attempts to their cap.
THEOREM LabTypes == LabSpec => []LabTypeOK
<1>1. LabInv => LabTypeOK
  BY DEF LabInv
<1> QED
  BY <1>1, LabInvariant, PTL

\* The token on a row is the last claim's, so a superseded worker can do nothing.
THEOREM LeaseLatest == LabSpec => []LeaseIsLatest
<1>1. LabInv => LeaseIsLatest
  BY DEF LabInv, LeaseIsLatest, RowOK
<1> QED
  BY <1>1, LabInvariant, PTL

\* Exactly the succeeded runs have a result, and the last claim published it.
THEOREM ResultWitnessed == LabSpec => []ResultIsWitnessed
<1>1. LabInv => ResultIsWitnessed
  BY DEF LabInv, ResultIsWitnessed, RowOK
<1> QED
  BY <1>1, LabInvariant, PTL

\* The secret is there for every claim to come, and gone when its worker is done.
THEOREM SecretServes == LabSpec => []SecretServesWork
<1>1. LabInv => SecretServesWork
  BY DEF LabInv, SecretServesWork, RowOK
<1> QED
  BY <1>1, LabInvariant, PTL

\* A waiting run can be claimed once more, for any caps with retries below claims.
THEOREM WaitingClaimable == LabSpec => []WaitingCanBeClaimed
<1>1. LabInv => WaitingCanBeClaimed
  BY DEF LabInv, WaitingCanBeClaimed, RowOK
<1> QED
  BY <1>1, LabInvariant, PTL

-----------------------------------------------------------------------------
(* What a step can do to a run, and the action properties. *)

\* The moves of a run: nothing that matters, its creation, a claim, a step out of
\* "running", the end of a cancellation or of a wait, and its removal.
Move(r) ==
  LET a == runs[r]
      b == runs'[r]
      same == b.attempt_count = a.attempt_count IN
  \/ b.status = a.status /\ b.result = a.result /\ same
  \/ a.status = "absent"
  \/ a.status \in Waiting /\ b.status = "running"
  \/ a.status = "running" /\ a.lease = 0 /\ b.status = "running"
  \/ a.status = "running" /\ same
       /\ b.status \in {"succeeded", "failed", "retrying", "cancel_requested"}
  \/ a.status \in Waiting \cup {"cancel_requested"} /\ b.status = "canceled" /\ same
  \/ a.status \in Settled /\ b.status = "deleted"

\* A function leaves every other run alone.
LEMMA OthersRest ==
  ASSUME LabInv, NEW r \in LabRuns, NEW s \in LabRuns, s # r,
         runs' = [runs EXCEPT ![r] = runs'[r]]
  PROVE  Move(s)
BY DEF Move, LabInv, LabTypeOK

LEMMA CommandMoves ==
  ASSUME LabInv, NEW r \in LabRuns, NEW s \in LabRuns,
         \/ \E c \in Campaigns, report \in BOOLEAN, secret \in {"none", "held"} :
              CreateLabRun(r, c, report, secret)
         \/ CancelLabRun(r) \/ ClaimLabRun(r) \/ ExpireLabRun(r)
  PROVE  Move(s)
<1>1. runs' = [runs EXCEPT ![r] = runs'[r]]
  BY DEF CreateLabRun, CancelLabRun, ClaimLabRun, ExpireLabRun, LabInv, LabTypeOK
<1>2. SUFFICES Move(r)
  BY <1>1, OthersRest
<1>3. runs[r] \in RunRows
  BY OfRun
<1>4. CASE \E c \in Campaigns, report \in BOOLEAN, secret \in {"none", "held"} :
             CreateLabRun(r, c, report, secret)
  BY <1>4 DEF CreateLabRun, Move
<1>5. CASE CancelLabRun(r)
  <2>1. runs'[r] = Canceled(runs[r]) /\ runs[r].status \in Unfinished
    BY <1>5 DEF CancelLabRun, LabInv, LabTypeOK
  <2>2. /\ runs'[r].attempt_count = runs[r].attempt_count
        /\ runs'[r].status = IF runs[r].status = "running" THEN "cancel_requested" ELSE "canceled"
    BY <1>3, <2>1 DEF Canceled, RunRows
  <2> QED
    BY <2>1, <2>2 DEF Move, Unfinished
<1>6. CASE ClaimLabRun(r)
  <2>1. runs'[r] = Claimed(runs[r]) /\ Due(runs[r])
    BY <1>6 DEF ClaimLabRun, LabInv, LabTypeOK
  <2>2. runs'[r].status = "running"
    BY <1>3, <2>1 DEF Claimed, RunRows
  <2> QED
    BY <2>1, <2>2 DEF Move, Due
<1>7. CASE ExpireLabRun(r)
  <2>1. /\ runs'[r] = [NewRun(runs[r].campaign, FALSE) EXCEPT !.status = "deleted"]
        /\ runs[r].status \in Settled
    BY <1>7 DEF ExpireLabRun, LabInv, LabTypeOK
  <2>2. runs'[r].status = "deleted"
    BY <2>1 DEF NewRun
  <2> QED
    BY <2>1, <2>2 DEF Move
<1> QED
  BY <1>4, <1>5, <1>6, <1>7

LEMMA WorkerMoves ==
  ASSUME LabInv, NEW r \in LabRuns, NEW s \in LabRuns, NEW n \in Tokens,
         \/ UpdateProgress(r, n) \/ CompleteLabRun(r, n) \/ FinalizeCanceledLabRun(r, n)
         \/ \E retryable \in BOOLEAN : FailLabRun(r, n, retryable)
  PROVE  Move(s)
<1>1. runs' = [runs EXCEPT ![r] = runs'[r]]
  BY DEF UpdateProgress, CompleteLabRun, FailLabRun, FinalizeCanceledLabRun, LabInv, LabTypeOK
<1>2. SUFFICES Move(r)
  BY <1>1, OthersRest
<1>3. runs[r] \in RunRows
  BY OfRun
<1>4. CASE UpdateProgress(r, n)
  <2>1. runs'[r] = [runs[r] EXCEPT !.lease = LeaseTicks]
    BY <1>4 DEF UpdateProgress, LabInv, LabTypeOK
  <2>2. /\ runs'[r].status = runs[r].status /\ runs'[r].result = runs[r].result
        /\ runs'[r].attempt_count = runs[r].attempt_count
    BY <1>3, <2>1 DEF RunRows
  <2> QED
    BY <2>2 DEF Move
<1>5. CASE CompleteLabRun(r, n)
  <2>1. /\ runs'[r] = [Relinquished(runs[r], "succeeded") EXCEPT !.result = n]
        /\ runs[r].status = "running"
    BY <1>5 DEF CompleteLabRun, Authorized, LabInv, LabTypeOK
  <2>2. /\ runs'[r].status = "succeeded"
        /\ runs'[r].attempt_count = runs[r].attempt_count
    BY <1>3, <2>1 DEF Relinquished, RunRows
  <2> QED
    BY <2>1, <2>2 DEF Move
<1>6. CASE FinalizeCanceledLabRun(r, n)
  <2>1. runs'[r] = Relinquished(runs[r], "canceled") /\ runs[r].status = "cancel_requested"
    BY <1>6 DEF FinalizeCanceledLabRun, Authorized, LabInv, LabTypeOK
  <2>2. /\ runs'[r].status = "canceled"
        /\ runs'[r].attempt_count = runs[r].attempt_count
    BY <1>3, <2>1 DEF Relinquished, RunRows
  <2> QED
    BY <2>1, <2>2 DEF Move
<1>7. CASE \E retryable \in BOOLEAN : FailLabRun(r, n, retryable)
  <2>1. /\ runs[r].status = "running"
        /\ \/ runs'[r] = Relinquished(runs[r], "failed")
           \/ \E delay \in 1..BackoffTicks :
                runs'[r] = [Relinquished(runs[r], "retrying") EXCEPT !.next = delay]
    BY <1>7 DEF FailLabRun, Authorized, LabInv, LabTypeOK
  <2>2. /\ runs'[r].status \in {"failed", "retrying"}
        /\ runs'[r].attempt_count = runs[r].attempt_count
    BY <1>3, <2>1 DEF Relinquished, RunRows
  <2> QED
    BY <2>1, <2>2 DEF Move
<1> QED
  BY <1>4, <1>5, <1>6, <1>7

\* Every step moves every run this way.
LEMMA StepMoves ==
  ASSUME LabInv, [LabNext]_labVars, NEW s \in LabRuns
  PROVE  Move(s)
<1>1. CASE \E r \in LabRuns :
             \/ \E c \in Campaigns, report \in BOOLEAN, secret \in {"none", "held"} :
                  CreateLabRun(r, c, report, secret)
             \/ CancelLabRun(r) \/ ClaimLabRun(r) \/ ExpireLabRun(r)
  BY <1>1, CommandMoves
<1>2. CASE \E r \in LabRuns, n \in Tokens :
             \/ UpdateProgress(r, n) \/ CompleteLabRun(r, n) \/ FinalizeCanceledLabRun(r, n)
             \/ \E retryable \in BOOLEAN : FailLabRun(r, n, retryable)
  BY <1>2, WorkerMoves
<1>3. CASE UNCHANGED runs
  BY <1>3 DEF Move
<1>4. CASE LabTick
  <2>1. runs[s] \in RunRows
    BY OfRun
  <2>2. /\ runs'[s].status = runs[s].status /\ runs'[s].result = runs[s].result
        /\ runs'[s].attempt_count = runs[s].attempt_count
    BY <1>4, <2>1 DEF LabTick, RunRows
  <2> QED
    BY <2>2 DEF Move
<1> QED
  BY <1>1, <1>2, <1>3, <1>4 DEF LabNext, UpdateCampaign, SetRunCreation, labVars

\* A settled run keeps its outcome until retention removes it.
THEOREM SettledFinal == LabSpec => SettledIsFinal
<1>1. LabInv /\ [LabNext]_labVars =>
        [\A r \in LabRuns : runs[r].status \in Settled =>
           \/ runs'[r].status = "deleted"
           \/ runs'[r].status = runs[r].status /\ runs'[r].result = runs[r].result]_labVars
  BY StepMoves DEF Move, Settled, Waiting
<1> QED
  BY <1>1, LabInvariant, PTL DEF LabSpec, SettledIsFinal

\* An accepted cancellation leaves no way to a result, a retry or a new claim.
THEOREM CanceledBarren == LabSpec => CanceledIsBarren
<1>1. LabInv /\ [LabNext]_labVars =>
        [\A r \in LabRuns : runs[r].status = "cancel_requested" =>
           /\ runs'[r].status \in {"cancel_requested", "canceled"}
           /\ runs'[r].attempt_count = runs[r].attempt_count]_labVars
  BY StepMoves DEF Move, Settled, Waiting
<1> QED
  BY <1>1, LabInvariant, PTL DEF LabSpec, CanceledIsBarren

\* No claim takes a run from a worker whose lease still runs.
THEOREM LiveLeaseExclusive == LabSpec => LiveLeaseIsExclusive
<1>1. LabInv /\ [LabNext]_labVars =>
        [\A r \in LabRuns : runs[r].status = "running" /\ runs[r].lease > 0 =>
           runs'[r].attempt_count = runs[r].attempt_count]_labVars
  BY StepMoves DEF Move, Settled, Waiting
<1> QED
  BY <1>1, LabInvariant, PTL DEF LabSpec, LiveLeaseIsExclusive

-----------------------------------------------------------------------------
(* The bound of admission. *)

Open == {r \in LabRuns : runs[r].status \in Unfinished}

LEMMA StepKeepsBound ==
  ASSUME LabInv, UnfinishedBounded, [LabNext]_labVars
  PROVE  UnfinishedBounded'
<1>1. /\ IsFiniteSet(Open) /\ Cardinality(Open) \in Nat
      /\ Cardinality(Open) <= AdmissionBound
  BY RunsAssumption, FS_Subset, FS_CardinalityType DEF Open, UnfinishedBounded
<1>2. UnfinishedBounded' <=> Cardinality(Open') <= AdmissionBound
  BY DEF Open, UnfinishedBounded
<1>3. CASE \E r \in LabRuns, c \in Campaigns, report \in BOOLEAN, secret \in {"none", "held"} :
             CreateLabRun(r, c, report, secret)
  <2>1. PICK r \in LabRuns : /\ Cardinality(Open) < AdmissionBound
                             /\ \A s \in LabRuns : s # r => runs'[s] = runs[s]
    BY <1>3 DEF CreateLabRun, Admitted, Open, LabInv, LabTypeOK
  <2>2. Open' \subseteq Open \cup {r}
    BY <2>1 DEF Open
  <2>3. /\ IsFiniteSet(Open \cup {r})
        /\ Cardinality(Open \cup {r}) <= Cardinality(Open) + 1
    BY <1>1, FS_AddElement
  <2>4. Cardinality(Open') <= Cardinality(Open \cup {r}) /\ Cardinality(Open') \in Nat
    BY <2>2, <2>3, FS_Subset, FS_CardinalityType
  <2>5. Cardinality(Open \cup {r}) \in Nat
    BY <2>3, FS_CardinalityType
  <2> QED
    BY <1>1, <1>2, <2>1, <2>3, <2>4, <2>5, BoundsAssumption
<1>4. CASE ~ \E r \in LabRuns, c \in Campaigns, report \in BOOLEAN, secret \in {"none", "held"} :
               CreateLabRun(r, c, report, secret)
  <2>1. \A s \in LabRuns : runs'[s].status \in Unfinished => runs[s].status \in Unfinished
    <3>1. ASSUME NEW s \in LabRuns, runs[s].status = "absent" PROVE runs'[s].status = "absent"
      <4>1. runs[s] \in RunRows
        BY OfRun
      <4>2. CASE UNCHANGED runs
        BY <3>1, <4>2
      <4>3. CASE LabTick
        BY <3>1, <4>1, <4>3 DEF LabTick, RunRows
      <4>4. CASE \E r \in LabRuns : CancelLabRun(r) \/ ClaimLabRun(r) \/ ExpireLabRun(r)
        BY <3>1, <4>4 DEF CancelLabRun, ClaimLabRun, ExpireLabRun, Due, Unfinished, Waiting,
             Settled, LabInv, LabTypeOK
      <4>5. CASE \E r \in LabRuns, n \in Tokens :
                   \/ UpdateProgress(r, n) \/ CompleteLabRun(r, n) \/ FinalizeCanceledLabRun(r, n)
                   \/ \E retryable \in BOOLEAN : FailLabRun(r, n, retryable)
        BY <3>1, <4>5 DEF UpdateProgress, CompleteLabRun, FinalizeCanceledLabRun, FailLabRun,
             Authorized, LabInv, LabTypeOK
      <4> QED
        BY <1>4, <4>2, <4>3, <4>4, <4>5 DEF LabNext, UpdateCampaign, SetRunCreation, labVars
    <3> QED
      BY <3>1, StepMoves DEF Move, Unfinished, Waiting, Settled
  <2>2. Open' \subseteq Open
    BY <2>1 DEF Open
  <2>3. Cardinality(Open') <= Cardinality(Open) /\ Cardinality(Open') \in Nat
    BY <1>1, <2>2, FS_Subset, FS_CardinalityType
  <2> QED
    BY <1>1, <1>2, <2>3, BoundsAssumption
<1> QED
  BY <1>3, <1>4

\* However runs are canceled, retried and reclaimed, the unfinished ones stay within
\* the bound of the admission trigger, for every bound.
THEOREM AdmissionHolds == LabSpec => []UnfinishedBounded
<1>1. LabInit => UnfinishedBounded
  <2> SUFFICES ASSUME LabInit PROVE UnfinishedBounded
    OBVIOUS
  <2>1. {r \in LabRuns : runs[r].status \in Unfinished} = {}
    BY DEF LabInit, NewRun, Unfinished, Waiting
  <2> QED
    BY <2>1, FS_EmptySet, BoundsAssumption DEF UnfinishedBounded
<1>2. LabInv /\ UnfinishedBounded /\ [LabNext]_labVars => UnfinishedBounded'
  BY StepKeepsBound
<1> QED
  BY <1>1, <1>2, LabInvariant, PTL DEF LabSpec

=============================================================================
