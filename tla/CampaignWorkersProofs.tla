------------------------ MODULE CampaignWorkersProofs ------------------------
(***************************************************************************)
(* Proofs about CampaignWorkers: the workers take only steps of            *)
(* CampaignLab, so that what CampaignLabProofs proves of the tables holds  *)
(* with them too, and they keep to their claims and charge a provider      *)
(* once, for any number of runs, workers, claims, retries and faults.      *)
(*                                                                         *)
(* WorkInv adds that a worker's token is not newer than its run, which is  *)
(* why a claim is always a new one, and that a run once charged for has    *)
(* been claimed, which is why no later claim is the first.  ClaimsInv      *)
(* counts claims against faults: it follows a worker from the fault that   *)
(* costs it its run.  The last section maps every step to one of           *)
(* LabRunLife.                                                             *)
(***************************************************************************)
EXTENDS CampaignWorkers, CampaignLabProofs

-----------------------------------------------------------------------------
(* Workers' rows. *)

LEMMA WorkerRow ==
  ASSUME NEW row \in WorkerRows, row # Idle
  PROVE  row.stage \in Stages /\ row.run \in LabRuns /\ row.token \in Tokens
BY DEF WorkerRows

LEMMA EnteredRow ==
  ASSUME NEW row \in WorkerRows, row # Idle, NEW stage \in Stages
  PROVE  /\ [row EXCEPT !.stage = stage] \in WorkerRows
         /\ [row EXCEPT !.stage = stage] # Idle
         /\ [row EXCEPT !.stage = stage].stage = stage
         /\ [row EXCEPT !.stage = stage].run = row.run
         /\ [row EXCEPT !.stage = stage].token = row.token
<1>1. row \in [stage : Stages, run : LabRuns, token : Tokens, retryable : BOOLEAN]
  BY DEF WorkerRows
<1>2. [row EXCEPT !.stage = stage] \in
        [stage : Stages, run : LabRuns, token : Tokens, retryable : BOOLEAN]
  BY <1>1
<1>3. stage # "idle"
  BY DEF Stages, Reporting
<1> QED
  BY <1>1, <1>2, <1>3 DEF WorkerRows, Idle

LEMMA FailingRow ==
  ASSUME NEW row \in WorkerRows, row # Idle, NEW retryable \in BOOLEAN
  PROVE  /\ [row EXCEPT !.stage = "failing", !.retryable = retryable] \in WorkerRows
         /\ [row EXCEPT !.stage = "failing", !.retryable = retryable] # Idle
         /\ [row EXCEPT !.stage = "failing", !.retryable = retryable].stage = "failing"
         /\ [row EXCEPT !.stage = "failing", !.retryable = retryable].run = row.run
         /\ [row EXCEPT !.stage = "failing", !.retryable = retryable].token = row.token
<1>1. row \in [stage : Stages, run : LabRuns, token : Tokens, retryable : BOOLEAN]
  BY DEF WorkerRows
<1>2. "failing" \in Stages
  BY DEF Stages
<1>3. [row EXCEPT !.stage = "failing", !.retryable = retryable] \in
        [stage : Stages, run : LabRuns, token : Tokens, retryable : BOOLEAN]
  BY <1>1, <1>2
<1> QED
  BY <1>1, <1>3 DEF WorkerRows, Idle

\* A worker goes on with its claim.
LEMMA EntersRow ==
  ASSUME workers \in [Workers -> WorkerRows], NEW w \in Workers, Busy(w),
         NEW stage \in Stages, Enters(w, stage)
  PROVE  /\ workers' \in [Workers -> WorkerRows]
         /\ workers'[w] # Idle /\ workers'[w].stage = stage
         /\ workers'[w].run = workers[w].run /\ workers'[w].token = workers[w].token
         /\ \A v \in Workers : v # w => workers'[v] = workers[v]
<1>1. /\ workers[w] \in WorkerRows /\ workers[w] # Idle
      /\ workers' = [workers EXCEPT ![w] = [workers[w] EXCEPT !.stage = stage]]
  BY DEF Busy, Enters
<1>2. /\ [workers[w] EXCEPT !.stage = stage] \in WorkerRows
      /\ [workers[w] EXCEPT !.stage = stage] # Idle
      /\ [workers[w] EXCEPT !.stage = stage].stage = stage
      /\ [workers[w] EXCEPT !.stage = stage].run = workers[w].run
      /\ [workers[w] EXCEPT !.stage = stage].token = workers[w].token
  BY <1>1, EnteredRow
<1>3. workers'[w] = [workers[w] EXCEPT !.stage = stage]
  BY <1>1
<1>4. workers' \in [Workers -> WorkerRows]
  BY <1>1, <1>2
<1>5. \A v \in Workers : v # w => workers'[v] = workers[v]
  BY <1>1
<1> QED
  BY <1>2, <1>3, <1>4, <1>5

LEMMA FailsRow ==
  ASSUME workers \in [Workers -> WorkerRows], NEW w \in Workers, Busy(w),
         NEW retryable \in BOOLEAN, Fails(w, retryable)
  PROVE  /\ workers' \in [Workers -> WorkerRows]
         /\ workers'[w] # Idle /\ workers'[w].stage = "failing"
         /\ workers'[w].run = workers[w].run /\ workers'[w].token = workers[w].token
         /\ \A v \in Workers : v # w => workers'[v] = workers[v]
<1> DEFINE row == [workers[w] EXCEPT !.stage = "failing", !.retryable = retryable]
<1>1. workers[w] \in WorkerRows /\ workers[w] # Idle
  BY DEF Busy
<1>2. workers' = [workers EXCEPT ![w] = row]
  BY <1>1 DEF Fails
<1>3. /\ row \in WorkerRows /\ row # Idle /\ row.stage = "failing"
      /\ row.run = workers[w].run /\ row.token = workers[w].token
  BY <1>1, FailingRow
<1> HIDE DEF row
<1>4. workers'[w] = row
  BY <1>2
<1>5. workers' \in [Workers -> WorkerRows]
  BY <1>2, <1>3
<1>6. \A v \in Workers : v # w => workers'[v] = workers[v]
  BY <1>2
<1> QED
  BY <1>3, <1>4, <1>5, <1>6

LEMMA FinishesRow ==
  ASSUME workers \in [Workers -> WorkerRows], NEW w \in Workers, Finishes(w)
  PROVE  /\ workers' \in [Workers -> WorkerRows] /\ workers'[w] = Idle
         /\ \A v \in Workers : v # w => workers'[v] = workers[v]
BY DEF Finishes, WorkerRows

-----------------------------------------------------------------------------
(* What the stored functions do to tokens. *)

\* The functions that give a run back or finish it.
Releases(r, n) ==
  \/ CompleteLabRun(r, n) \/ FinalizeCanceledLabRun(r, n)
  \/ \E retryable \in BOOLEAN : FailLabRun(r, n, retryable)

\* Of the run's last claim a step that is neither a claim nor a release changes nothing,
\* unless retention removes the row; and it is never absent again.
Undisturbed(r) ==
  \/ runs[r].status = "absent"
  \/ runs[r].status # "deleted" /\ runs'[r].status = "deleted"
  \/ /\ runs'[r].status # "absent"
     /\ runs[r].status = "deleted" => runs'[r].status = "deleted"
     /\ runs'[r].attempt_count = runs[r].attempt_count
     /\ runs'[r].lease_token = runs[r].lease_token

Quiet ==
  \/ \E r \in LabRuns :
       \/ \E c \in Campaigns, report \in BOOLEAN, secret \in {"none", "held"} :
            CreateLabRun(r, c, report, secret)
       \/ CancelLabRun(r) \/ ExpireLabRun(r)
       \/ \E n \in Tokens : UpdateProgress(r, n)
  \/ \E c \in Campaigns : UpdateCampaign(c)
  \/ SetRunCreation \/ LabTick \/ UNCHANGED labVars

LEMMA QuietStep ==
  ASSUME LabInv, Quiet, NEW s \in LabRuns
  PROVE  Undisturbed(s)
<1>1. runs[s] \in RunRows
  BY OfRun
<1>2. CASE runs'[s] = runs[s]
  BY <1>2 DEF Undisturbed
<1>3. CASE \E c \in Campaigns, report \in BOOLEAN, secret \in {"none", "held"} :
             CreateLabRun(s, c, report, secret)
  BY <1>3 DEF CreateLabRun, Undisturbed
<1>4. CASE CancelLabRun(s)
  <2>1. runs'[s] = Canceled(runs[s]) /\ runs[s].status \in Unfinished
    BY <1>4 DEF CancelLabRun, LabInv, LabTypeOK
  <2>2. /\ runs'[s].attempt_count = runs[s].attempt_count
        /\ runs'[s].lease_token = runs[s].lease_token
        /\ runs'[s].status \in {"cancel_requested", "canceled"}
    BY <1>1, <2>1 DEF Canceled, RunRows
  <2> QED
    BY <2>1, <2>2 DEF Undisturbed, Unfinished, Waiting
<1>5. CASE ExpireLabRun(s)
  <2>1. runs'[s].status = "deleted" /\ runs[s].status \in Settled
    BY <1>5 DEF ExpireLabRun, LabInv, LabTypeOK, NewRun
  <2> QED
    BY <2>1 DEF Undisturbed, Settled
<1>6. CASE \E n \in Tokens : UpdateProgress(s, n)
  <2>1. runs'[s] = [runs[s] EXCEPT !.lease = LeaseTicks]
    BY <1>6 DEF UpdateProgress, LabInv, LabTypeOK
  <2>2. /\ runs'[s].status = runs[s].status
        /\ runs'[s].attempt_count = runs[s].attempt_count
        /\ runs'[s].lease_token = runs[s].lease_token
    BY <1>1, <2>1 DEF RunRows
  <2> QED
    BY <2>2 DEF Undisturbed
<1>7. CASE LabTick
  <2>1. /\ runs'[s].status = runs[s].status
        /\ runs'[s].attempt_count = runs[s].attempt_count
        /\ runs'[s].lease_token = runs[s].lease_token
    BY <1>1, <1>7 DEF LabTick, RunRows
  <2> QED
    BY <2>1 DEF Undisturbed
<1>8. ASSUME NEW r \in LabRuns, r # s, runs' = [runs EXCEPT ![r] = runs'[r]]
      PROVE  runs'[s] = runs[s]
  BY <1>8 DEF LabInv, LabTypeOK
<1>9. ASSUME NEW r \in LabRuns, r # s,
             \/ \E c \in Campaigns, report \in BOOLEAN, secret \in {"none", "held"} :
                  CreateLabRun(r, c, report, secret)
             \/ CancelLabRun(r) \/ ExpireLabRun(r)
             \/ \E n \in Tokens : UpdateProgress(r, n)
      PROVE  runs'[s] = runs[s]
  BY <1>9 DEF CreateLabRun, CancelLabRun, ExpireLabRun, UpdateProgress, LabInv, LabTypeOK
<1> QED
  BY <1>2, <1>3, <1>4, <1>5, <1>6, <1>7, <1>9 DEF Quiet, UpdateCampaign, SetRunCreation, labVars

LEMMA ReleaseStep ==
  ASSUME LabInv, NEW r \in LabRuns, NEW n \in Tokens, Releases(r, n)
  PROVE  /\ runs[r].lease_token = n /\ runs[r].status \in {"running", "cancel_requested"}
         /\ runs'[r].attempt_count = runs[r].attempt_count
         /\ runs'[r].status \notin {"absent", "deleted"}
         /\ \A s \in LabRuns : s # r => runs'[s] = runs[s]
<1>1. runs[r] \in RunRows
  BY OfRun
<1>2. /\ runs[r].lease_token = n /\ runs[r].status \in {"running", "cancel_requested"}
      /\ \/ runs'[r] = [Relinquished(runs[r], "succeeded") EXCEPT !.result = n]
         \/ runs'[r] = Relinquished(runs[r], "failed")
         \/ runs'[r] = Relinquished(runs[r], "canceled")
         \/ \E delay \in 1..BackoffTicks :
              runs'[r] = [Relinquished(runs[r], "retrying") EXCEPT !.next = delay]
  BY DEF Releases, CompleteLabRun, FinalizeCanceledLabRun, FailLabRun, Authorized, LabInv,
         LabTypeOK
<1>3. runs'[r].attempt_count = runs[r].attempt_count
      /\ runs'[r].status \in {"succeeded", "failed", "canceled", "retrying"}
  BY <1>1, <1>2 DEF Relinquished, RunRows
<1>4. \A s \in LabRuns : s # r => runs'[s] = runs[s]
  BY DEF Releases, CompleteLabRun, FinalizeCanceledLabRun, FailLabRun, LabInv, LabTypeOK
<1> QED
  BY <1>2, <1>3, <1>4

LEMMA ClaimMoves ==
  ASSUME LabInv, NEW r \in LabRuns, ClaimLabRun(r)
  PROVE  /\ runs[r].status \in Waiting \cup {"running"} /\ runs'[r].status = "running"
         /\ runs'[r].attempt_count = runs[r].attempt_count + 1
         /\ runs'[r].lease_token = runs[r].attempt_count + 1
         /\ runs[r].attempt_count + 1 \in Tokens
         /\ \A s \in LabRuns : s # r => runs'[s] = runs[s]
<1>1. runs[r] \in RunRows /\ Due(runs[r]) /\ runs'[r] = Claimed(runs[r])
  BY OfRun DEF ClaimLabRun, LabInv, LabTypeOK
<1>2. /\ runs'[r].status = "running" /\ runs'[r].attempt_count = runs[r].attempt_count + 1
      /\ runs'[r].lease_token = runs[r].attempt_count + 1
  BY <1>1 DEF Claimed, RunRows
<1>3. runs[r].attempt_count + 1 \in Tokens /\ runs[r].status \in Waiting \cup {"running"}
  BY <1>1, RowFields, ClaimsAssumption DEF Due, Tokens
<1>4. \A s \in LabRuns : s # r => runs'[s] = runs[s]
  BY DEF ClaimLabRun, LabInv, LabTypeOK
<1> QED
  BY <1>2, <1>3, <1>4

-----------------------------------------------------------------------------
(* The invariant. *)

\* A worker's token was drawn by a claim of its run, and the run is still there or was
\* removed.
TokenOK(v) == Busy(v) =>
  LET row == runs[workers[v].run] IN
  /\ row.status # "absent"
  /\ row.status = "deleted" \/ workers[v].token <= row.attempt_count

EvaluatorOK(v) == Busy(v) /\ workers[v].stage = "evaluating" =>
  LET row == runs[workers[v].run] IN
  \/ row.lease_token = workers[v].token
  \/ row.attempt_count > workers[v].token
  \/ row.status = "deleted"

\* A run charged for was claimed before.
ChargeOK(r) ==
  /\ charged[r] \in {0, 1}
  /\ charged[r] = 1 => /\ runs[r].status # "absent"
                       /\ runs[r].status = "deleted" \/ runs[r].attempt_count > 0

Early == {"validating", "starting"}

\* The first claim of a run with a paid provider finds it not charged for.
FirstOK(v) ==
  Busy(v) /\ workers[v].stage \in Early /\ workers[v].token = 1 => charged[workers[v].run] = 0

WorkInv ==
  /\ LabInv /\ WorkersTypeOK
  /\ ClaimHasOneWorker
  /\ \A v \in Workers : TokenOK(v) /\ EvaluatorOK(v) /\ FirstOK(v)
  /\ \A r \in LabRuns : ChargeOK(r)

LEMMA OfWorker ==
  ASSUME WorkInv, NEW v \in Workers, Busy(v)
  PROVE  /\ workers[v].stage \in Stages /\ workers[v].run \in LabRuns
         /\ workers[v].token \in Tokens /\ workers[v].token \in Nat
         /\ runs[workers[v].run] \in RunRows
         /\ runs[workers[v].run].attempt_count \in Nat
<1>1. workers[v] \in WorkerRows /\ workers[v] # Idle
  BY DEF WorkInv, WorkersTypeOK, Busy
<1>2. /\ workers[v].stage \in Stages /\ workers[v].run \in LabRuns
      /\ workers[v].token \in Tokens
  BY <1>1, WorkerRow
<1>3. LabInv
  BY DEF WorkInv
<1>4. runs[workers[v].run] \in RunRows
  BY <1>2, <1>3, OfRun
<1>5. runs[workers[v].run].attempt_count \in Nat
  BY <1>4, RowFields, ClaimsAssumption
<1> QED
  BY <1>2, <1>4, <1>5, ClaimsAssumption DEF Tokens

\* A worker keeps to its claim or drops it, and begins to evaluate under its token only.
Keeps(v) == workers'[v] # Idle =>
  /\ workers[v] # Idle
  /\ workers'[v].run = workers[v].run /\ workers'[v].token = workers[v].token
  /\ workers'[v].stage \in Early => workers[v].stage \in Early
  /\ workers'[v].stage = "evaluating" =>
       \/ workers[v].stage = "evaluating"
       \/ runs[workers[v].run].lease_token = workers[v].token

\* A run is given back under a token nobody evaluates with.
GivenBack(s) ==
  /\ runs[s].status \notin {"absent", "deleted"} /\ runs'[s].status \notin {"absent", "deleted"}
  /\ runs'[s].attempt_count = runs[s].attempt_count
  /\ \A v \in Workers :
       workers'[v] # Idle /\ workers'[v].stage = "evaluating" /\ workers'[v].run = s =>
         workers'[v].token # runs[s].lease_token

LEMMA KeptClaims ==
  ASSUME WorkInv, \A v \in Workers : Keeps(v)
  PROVE  ClaimHasOneWorker'
<1> SUFFICES ASSUME NEW v \in Workers, NEW w \in Workers, workers'[v] # Idle,
                    workers'[w] # Idle, v # w
             PROVE  workers'[v].run # workers'[w].run \/ workers'[v].token # workers'[w].token
  BY DEF ClaimHasOneWorker, Busy
<1>1. Keeps(v) /\ Keeps(w)
  OBVIOUS
<1>2. /\ workers[v] # Idle /\ workers'[v].run = workers[v].run
      /\ workers'[v].token = workers[v].token
      /\ workers[w] # Idle /\ workers'[w].run = workers[w].run
      /\ workers'[w].token = workers[w].token
  BY <1>1 DEF Keeps
<1>3. workers[v].run # workers[w].run \/ workers[v].token # workers[w].token
  BY <1>2 DEF WorkInv, ClaimHasOneWorker, Busy
<1> QED
  BY <1>2, <1>3

LEMMA KeptWorker ==
  ASSUME WorkInv, NEW v \in Workers, Keeps(v),
         \A s \in LabRuns : Undisturbed(s) \/ GivenBack(s)
  PROVE  TokenOK(v)' /\ EvaluatorOK(v)'
<1>1. CASE workers'[v] = Idle
  BY <1>1 DEF TokenOK, EvaluatorOK, Busy
<1>2. CASE workers'[v] # Idle
  <2> DEFINE r == workers[v].run
  <2>1. /\ Busy(v) /\ workers'[v].run = r /\ workers'[v].token = workers[v].token
        /\ workers'[v].stage = "evaluating" =>
             workers[v].stage = "evaluating" \/ runs[r].lease_token = workers[v].token
    BY <1>2 DEF Keeps, Busy
  <2>2. r \in LabRuns /\ TokenOK(v) /\ EvaluatorOK(v)
    BY <2>1, OfWorker DEF WorkInv
  <2>3. PICK k \in LabRuns : k = r
    BY <2>2
  <2>4. PICK n : n = workers[v].token
    OBVIOUS
  <2> HIDE DEF r
  <2>5. /\ runs[k].status # "absent"
        /\ runs[k].status = "deleted" \/ n <= runs[k].attempt_count
        /\ workers[v].stage = "evaluating" =>
             runs[k].lease_token = n \/ runs[k].attempt_count > n \/ runs[k].status = "deleted"
    BY <2>1, <2>2, <2>3, <2>4 DEF TokenOK, EvaluatorOK, r
  <2>6. workers'[v].stage = "evaluating" =>
          runs[k].lease_token = n \/ runs[k].attempt_count > n \/ runs[k].status = "deleted"
    BY <2>1, <2>3, <2>4, <2>5
  <2>7. workers'[v].run = k /\ workers'[v].token = n
    BY <2>1, <2>3, <2>4
  <2>8. Undisturbed(k) \/ GivenBack(k)
    OBVIOUS
  <2>9. /\ runs'[k].status # "absent"
        /\ runs'[k].status = "deleted" \/ n <= runs'[k].attempt_count
    BY <2>5, <2>8 DEF Undisturbed, GivenBack
  <2>10. workers'[v].stage = "evaluating" =>
           runs'[k].lease_token = n \/ runs'[k].attempt_count > n \/ runs'[k].status = "deleted"
    <3>1. CASE Undisturbed(k)
      BY <3>1, <2>5, <2>6 DEF Undisturbed
    <3>2. CASE GivenBack(k)
      BY <3>2, <1>2, <2>5, <2>6, <2>7 DEF GivenBack
    <3> QED
      BY <2>8, <3>1, <3>2
  <2> QED
    BY <2>7, <2>9, <2>10 DEF TokenOK, EvaluatorOK
<1> QED
  BY <1>1, <1>2

LEMMA KeptCharges ==
  ASSUME WorkInv, \A v \in Workers : Keeps(v), UNCHANGED charged,
         \A s \in LabRuns : Undisturbed(s) \/ GivenBack(s)
  PROVE  /\ \A v \in Workers : FirstOK(v)'
         /\ \A r \in LabRuns : ChargeOK(r)'
<1>1. ASSUME NEW v \in Workers
      PROVE  FirstOK(v)'
  BY <1>1 DEF WorkInv, Keeps, FirstOK, Busy
<1>2. ASSUME NEW r \in LabRuns
      PROVE  ChargeOK(r)'
  <2>1. ChargeOK(r) /\ (Undisturbed(r) \/ GivenBack(r))
    BY DEF WorkInv
  <2> QED
    BY <2>1 DEF ChargeOK, Undisturbed, GivenBack
<1> QED
  BY <1>1, <1>2

\* Whoever keeps to its claim keeps the invariant.
LEMMA KeptStep ==
  ASSUME WorkInv, \A v \in Workers : Keeps(v), UNCHANGED charged,
         \A s \in LabRuns : Undisturbed(s) \/ GivenBack(s), LabInv', WorkersTypeOK'
  PROVE  WorkInv'
BY KeptClaims, KeptWorker, KeptCharges DEF WorkInv

-----------------------------------------------------------------------------
(* Steps of the tables. *)

LEMMA QuietIsLab == Quiet => [LabNext]_labVars
BY DEF Quiet, LabNext

LEMMA ReleaseIsLab ==
  ASSUME NEW r \in LabRuns, NEW n \in Tokens, Releases(r, n)
  PROVE  LabNext
BY DEF Releases, LabNext

LEMMA Rests ==
  ASSUME NEW v, workers'[v] = workers[v]
  PROVE  Keeps(v)
BY DEF Keeps

\* A step that leaves the claims alone, taken by a worker or by nobody.
LEMMA QuietKeeps ==
  ASSUME WorkInv, Quiet, \A v \in Workers : Keeps(v), UNCHANGED charged, WorkersTypeOK'
  PROVE  WorkInv'
<1>1. LabInv
  BY DEF WorkInv
<1>2. \A s \in LabRuns : Undisturbed(s)
  BY <1>1, QuietStep
<1>3. LabInv'
  BY <1>1, QuietIsLab, StepPreserves
<1> QED
  BY <1>2, <1>3, KeptStep

\* A worker gives its run back, and is done or reports the failure of the call.
LEMMA ReleaseKeeps ==
  ASSUME WorkInv, NEW w \in Workers, Busy(w),
         Releases(workers[w].run, workers[w].token),
         Keeps(w), workers'[w] # Idle => workers'[w].stage # "evaluating",
         \A v \in Workers : v # w => workers'[v] = workers[v],
         UNCHANGED charged, WorkersTypeOK'
  PROVE  WorkInv'
<1>1. /\ LabInv /\ workers[w].run \in LabRuns /\ workers[w].token \in Tokens
      /\ ClaimHasOneWorker
  BY OfWorker DEF WorkInv
<1>2. LabInv'
  BY <1>1, ReleaseIsLab, StepPreserves
<1>3. \A v \in Workers : Keeps(v)
  BY Rests
<1>4. PICK k \in LabRuns : k = workers[w].run
  BY <1>1
<1>5. PICK n \in Tokens : n = workers[w].token
  BY <1>1
<1>6. Releases(k, n)
  BY <1>4, <1>5
<1>7. /\ runs[k].lease_token = n /\ runs[k].status \in {"running", "cancel_requested"}
      /\ runs'[k].attempt_count = runs[k].attempt_count
      /\ runs'[k].status \notin {"absent", "deleted"}
      /\ \A s \in LabRuns : s # k => runs'[s] = runs[s]
  BY <1>1, <1>6, ReleaseStep
<1>8. ASSUME NEW v \in Workers, workers'[v] # Idle, workers'[v].stage = "evaluating",
             workers'[v].run = k
      PROVE  workers'[v].token # runs[k].lease_token
  <2>1. v # w
    BY <1>8
  <2>2. workers'[v] = workers[v]
    BY <2>1
  <2>3. Busy(v) /\ workers[v].run = workers[w].run
    BY <1>4, <1>8, <2>2 DEF Busy
  <2>4. workers[v].token # workers[w].token
    BY <1>1, <2>1, <2>3 DEF ClaimHasOneWorker
  <2> QED
    BY <1>5, <1>7, <2>2, <2>4
<1>9. GivenBack(k)
  BY <1>7, <1>8 DEF GivenBack
<1>10. \A s \in LabRuns : s # k => Undisturbed(s)
  BY <1>7 DEF Undisturbed
<1> QED
  BY <1>2, <1>3, <1>9, <1>10, KeptStep

\* The charge of an evaluation that begins: of a first claim, hence the first charge.
LEMMA ChargeKeeps ==
  ASSUME WorkInv, NEW w \in Workers, Busy(w), workers[w].stage \in Early,
         workers[w].token <= 1, Accepted(w, "running"),
         UpdateProgress(workers[w].run, workers[w].token),
         Keeps(w), workers'[w] # Idle, workers'[w].stage = "evaluating",
         \A v \in Workers : v # w => workers'[v] = workers[v],
         charged' = [charged EXCEPT ![workers[w].run] = @ + 1]
  PROVE  /\ charged' \in [LabRuns -> 0..MaxClaims]
         /\ WorkersTypeOK' => WorkInv'
<1>1. /\ LabInv /\ workers[w].run \in LabRuns /\ workers[w].token \in Tokens
      /\ ClaimHasOneWorker /\ TokenOK(w) /\ FirstOK(w)
      /\ charged \in [LabRuns -> 0..MaxClaims]
  BY OfWorker DEF WorkInv, WorkersTypeOK
<1>2. workers[w].token = 1
  BY <1>1 DEF Tokens
<1>3. PICK k \in LabRuns : k = workers[w].run
  BY <1>1
<1>4. charged[k] = 0 /\ charged' = [charged EXCEPT ![k] = 1]
  <2>1. charged[k] = 0
    BY <1>1, <1>2, <1>3 DEF FirstOK
  <2>2. charged' = [charged EXCEPT ![k] = charged[k] + 1]
    BY <1>3
  <2>3. charged[k] + 1 = 1
    BY <2>1
  <2> QED
    BY <2>1, <2>2, <2>3
<1>5. charged' \in [LabRuns -> 0..MaxClaims]
  BY <1>1, <1>4, ClaimsAssumption
<1>6. Quiet
  BY <1>1 DEF Quiet
<1>7. \A s \in LabRuns : Undisturbed(s)
  BY <1>1, <1>6, QuietStep
<1>8. LabInv'
  BY <1>1, <1>6, QuietIsLab, StepPreserves
<1>9. \A v \in Workers : Keeps(v)
  BY Rests
<1>10. ClaimHasOneWorker' /\ \A v \in Workers : TokenOK(v)' /\ EvaluatorOK(v)'
  BY <1>7, <1>9, KeptClaims, KeptWorker
<1>11. ASSUME NEW v \in Workers
       PROVE  FirstOK(v)'
  <2>1. CASE v = w
    BY <2>1 DEF FirstOK, Early
  <2>2. CASE v # w
    <3>1. workers'[v] = workers[v]
      BY <2>2
    <3>2. SUFFICES ASSUME Busy(v), workers[v].stage \in Early, workers[v].token = 1
                   PROVE  charged'[workers[v].run] = 0
      BY <3>1 DEF FirstOK, Busy
    <3>3. workers[v].run # k
      BY <1>1, <1>2, <1>3, <2>2, <3>2 DEF ClaimHasOneWorker
    <3>4. charged[workers[v].run] = 0 /\ workers[v].run \in LabRuns
      BY <3>2, OfWorker DEF WorkInv, FirstOK
    <3> QED
      BY <1>1, <1>4, <3>3, <3>4
  <2> QED
    BY <2>1, <2>2
<1>12. ASSUME NEW r \in LabRuns
       PROVE  ChargeOK(r)'
  <2>1. CASE r = k
    <3>1. runs[k].status = "running" /\ runs[k].attempt_count > 0
      <4>1. runs[k].status = "running"
        BY <1>3 DEF Accepted, Authorized
      <4>2. runs[k].attempt_count \in Nat
        BY <1>3, OfWorker
      <4> QED
        BY <1>1, <1>2, <1>3, <4>1, <4>2 DEF TokenOK
    <3>2. Undisturbed(k)
      BY <1>7
    <3>3. /\ runs'[k].status # "absent"
          /\ runs'[k].status = "deleted" \/ runs'[k].attempt_count > 0
      BY <3>1, <3>2 DEF Undisturbed
    <3>4. charged'[k] = 1
      BY <1>1, <1>4
    <3> QED
      BY <2>1, <3>3, <3>4 DEF ChargeOK
  <2>2. CASE r # k
    <3>1. charged'[r] = charged[r] /\ ChargeOK(r) /\ Undisturbed(r)
      BY <1>1, <1>4, <1>7, <2>2 DEF WorkInv
    <3> QED
      BY <3>1 DEF ChargeOK, Undisturbed
  <2> QED
    BY <2>1, <2>2
<1> QED
  BY <1>5, <1>8, <1>10, <1>11, <1>12 DEF WorkInv

\* A claim: its token is newer than any worker's.
LEMMA PollStep ==
  ASSUME WorkInv, NEW w \in Workers, Poll(w)
  PROVE  WorkInv'
<1> DEFINE row(k) == [stage |-> "validating", run |-> k, token |-> runs'[k].lease_token,
                      retryable |-> FALSE]
<1>1. PICK k \in LabRuns : ClaimLabRun(k) /\ workers' = [workers EXCEPT ![w] = row(k)]
  BY DEF Poll
<1>2. /\ LabInv /\ ~Busy(w) /\ UNCHANGED <<live, charged, faults>>
      /\ workers \in [Workers -> WorkerRows] /\ live \subseteq LabRuns
      /\ charged \in [LabRuns -> 0..MaxClaims] /\ faults \in 0..MaxFaults
  BY DEF Poll, WorkInv, WorkersTypeOK
<1>3. LabInv'
  BY <1>1, <1>2, ClaimStep
<1>4. PICK n \in Tokens : n = runs[k].attempt_count + 1
  BY <1>1, <1>2, ClaimMoves
<1>5. /\ runs[k].status \in Waiting \cup {"running"} /\ runs'[k].status = "running"
      /\ runs'[k].attempt_count = n /\ runs'[k].lease_token = n
      /\ \A s \in LabRuns : s # k => runs'[s] = runs[s]
  BY <1>1, <1>2, <1>4, ClaimMoves
<1>6. runs[k].status \notin {"absent", "deleted"} /\ runs[k].attempt_count \in Nat /\ n \in Nat
  BY <1>2, <1>4, <1>5, OfRun, RowFields, ClaimsAssumption DEF Waiting, Tokens
<1>7. /\ row(k) \in WorkerRows /\ row(k) # Idle /\ row(k).run = k /\ row(k).token = n
      /\ row(k).stage = "validating"
  BY <1>5 DEF WorkerRows, Stages, Reporting, Idle
<1> HIDE DEF row
<1>8. /\ workers'[w] # Idle /\ workers'[w].run = k /\ workers'[w].token = n
      /\ workers'[w].stage = "validating"
      /\ workers' \in [Workers -> WorkerRows]
      /\ \A v \in Workers : v # w => workers'[v] = workers[v]
  BY <1>1, <1>2, <1>7
<1>9. WorkersTypeOK'
  BY <1>2, <1>3, <1>8 DEF WorkersTypeOK, LabInv
<1>10. \A v \in Workers : Busy(v) /\ workers[v].run = k => workers[v].token < n
  <2> SUFFICES ASSUME NEW v \in Workers, Busy(v), workers[v].run = k
               PROVE  workers[v].token < n
    OBVIOUS
  <2>1. workers[v].token <= runs[k].attempt_count
    BY <1>6 DEF WorkInv, TokenOK
  <2>2. workers[v].token \in Nat
    BY OfWorker
  <2> QED
    BY <1>4, <1>6, <2>1, <2>2
<1>11. ClaimHasOneWorker'
  <2> SUFFICES ASSUME NEW u \in Workers, NEW v \in Workers, workers'[u] # Idle,
                      workers'[v] # Idle, u # v
               PROVE  workers'[u].run # workers'[v].run \/ workers'[u].token # workers'[v].token
    BY DEF ClaimHasOneWorker, Busy
  <2>1. \A x \in Workers : x # w /\ workers'[x] # Idle =>
          Busy(x) /\ workers'[x] = workers[x] /\ workers[x].token \in Nat
    BY <1>8, OfWorker DEF Busy
  <2>2. \A x \in Workers : x # w /\ workers'[x] # Idle =>
          workers'[x].run # k \/ workers'[x].token # n
    BY <1>6, <1>10, <2>1
  <2>3. CASE u # w /\ v # w
    BY <2>1, <2>3 DEF WorkInv, ClaimHasOneWorker
  <2> QED
    BY <1>8, <2>2, <2>3
<1>12. ASSUME NEW v \in Workers
       PROVE  TokenOK(v)' /\ EvaluatorOK(v)' /\ FirstOK(v)'
  <2>1. CASE v = w
    <3>1. TokenOK(v)' /\ EvaluatorOK(v)'
      BY <1>5, <1>6, <1>8, <2>1 DEF TokenOK, EvaluatorOK
    <3>2. n = 1 => charged[k] = 0
      BY <1>4, <1>6 DEF WorkInv, ChargeOK
    <3> QED
      BY <1>2, <1>8, <2>1, <3>1, <3>2 DEF FirstOK
  <2>2. CASE v # w
    <3>1. workers'[v] = workers[v] /\ TokenOK(v) /\ EvaluatorOK(v) /\ FirstOK(v)
      BY <1>8, <2>2 DEF WorkInv
    <3>2. FirstOK(v)'
      BY <1>2, <3>1 DEF FirstOK, Busy
    <3>3. CASE ~Busy(v)
      BY <3>1, <3>2, <3>3 DEF TokenOK, EvaluatorOK, Busy
    <3>4. CASE Busy(v) /\ workers[v].run # k
      <4>1. runs'[workers[v].run] = runs[workers[v].run]
        BY <1>5, <3>4, OfWorker
      <4> QED
        BY <3>1, <3>2, <4>1 DEF TokenOK, EvaluatorOK, Busy
    <3>5. CASE Busy(v) /\ workers[v].run = k
      <4>1. workers[v].token < n
        BY <1>10, <3>5
      <4>2. workers[v].token \in Nat
        BY <3>5, OfWorker
      <4>3. PICK m \in Nat : m = workers[v].token
        BY <4>2
      <4>4. runs'[k].attempt_count > m /\ m <= runs'[k].attempt_count
        BY <1>5, <1>6, <4>1, <4>3
      <4>5. runs'[k].status = "running"
        BY <1>5
      <4>6. workers'[v].run = k /\ workers'[v].token = m
        BY <3>1, <3>5, <4>3
      <4>7. /\ runs'[k].status # "absent" /\ m <= runs'[k].attempt_count
            /\ runs'[k].attempt_count > m
        BY <4>4, <4>5
      <4> QED
        BY <3>2, <4>6, <4>7 DEF TokenOK, EvaluatorOK
    <3> QED
      BY <3>3, <3>4, <3>5
  <2> QED
    BY <2>1, <2>2
<1>13. ASSUME NEW r \in LabRuns
       PROVE  ChargeOK(r)'
  <2>1. charged' = charged /\ ChargeOK(r)
    BY <1>2 DEF WorkInv
  <2>2. CASE r = k
    BY <1>4, <1>5, <1>6, <2>1, <2>2 DEF ChargeOK
  <2>3. CASE r # k
    BY <1>5, <2>1, <2>3 DEF ChargeOK
  <2> QED
    BY <2>2, <2>3
<1> QED
  BY <1>3, <1>9, <1>11, <1>12, <1>13 DEF WorkInv

-----------------------------------------------------------------------------
(* The actions. *)

LEMMA OfTypes ==
  ASSUME WorkInv
  PROVE  /\ LabInv /\ live \subseteq LabRuns /\ workers \in [Workers -> WorkerRows]
         /\ charged \in [LabRuns -> 0..MaxClaims] /\ faults \in 0..MaxFaults
BY DEF WorkInv, WorkersTypeOK

\* What is left for an action to show of the types.
LEMMA TypesHold ==
  ASSUME WorkInv, [LabNext]_labVars, UNCHANGED live,
         workers' \in [Workers -> WorkerRows],
         charged' \in [LabRuns -> 0..MaxClaims], faults' \in 0..MaxFaults
  PROVE  WorkersTypeOK'
<1>1. LabInv /\ live \subseteq LabRuns
  BY OfTypes
<1>2. LabInv'
  BY <1>1, StepPreserves
<1> QED
  BY <1>1, <1>2 DEF WorkersTypeOK, LabInv

LEMMA EnvironmentStep ==
  ASSUME WorkInv, Environment
  PROVE  WorkInv'
<1>1. Quiet /\ UNCHANGED <<live, workers, charged, faults>>
  BY DEF Environment, Quiet
<1>2. WorkersTypeOK'
  BY <1>1, OfTypes, QuietIsLab, TypesHold
<1>3. \A v \in Workers : Keeps(v)
  BY <1>1, Rests
<1> QED
  BY <1>1, <1>2, <1>3, QuietKeeps

LEMMA SpendKeeps ==
  ASSUME faults \in 0..MaxFaults, Spend
  PROVE  faults' \in 0..MaxFaults
BY FaultsAssumption DEF Spend

LEMMA TickKeeps ==
  ASSUME WorkInv, Tick
  PROVE  WorkInv'
<1>1. Quiet /\ UNCHANGED <<live, workers, charged>>
  BY DEF Tick, Quiet
<1>2. faults' \in 0..MaxFaults
  BY OfTypes, SpendKeeps DEF Tick
<1>3. WorkersTypeOK'
  BY <1>1, <1>2, OfTypes, QuietIsLab, TypesHold
<1>4. \A v \in Workers : Keeps(v)
  BY <1>1, Rests
<1> QED
  BY <1>1, <1>3, <1>4, QuietKeeps

\* A busy worker turns to another call.
LEMMA Turns ==
  ASSUME WorkInv, NEW w \in Workers, Busy(w), NEW stage \in Stages, Enters(w, stage),
         stage \in Early => workers[w].stage \in Early,
         stage = "evaluating" => runs[workers[w].run].lease_token = workers[w].token
  PROVE  /\ workers' \in [Workers -> WorkerRows] /\ \A v \in Workers : Keeps(v)
         /\ workers'[w] # Idle /\ workers'[w].stage = stage
         /\ \A v \in Workers : v # w => workers'[v] = workers[v]
<1>1. /\ workers' \in [Workers -> WorkerRows]
      /\ workers'[w] # Idle /\ workers'[w].stage = stage
      /\ workers'[w].run = workers[w].run /\ workers'[w].token = workers[w].token
      /\ \A v \in Workers : v # w => workers'[v] = workers[v]
  BY OfTypes, EntersRow
<1>2. Keeps(w)
  BY <1>1 DEF Keeps, Busy
<1> QED
  BY <1>1, <1>2, Rests

\* Or to the report of a failure.
LEMMA TurnsToFailure ==
  ASSUME WorkInv, NEW w \in Workers, Busy(w), NEW retryable \in BOOLEAN, Fails(w, retryable)
  PROVE  /\ workers' \in [Workers -> WorkerRows] /\ \A v \in Workers : Keeps(v)
         /\ workers'[w] # Idle /\ workers'[w].stage = "failing"
         /\ \A v \in Workers : v # w => workers'[v] = workers[v]
<1>1. /\ workers' \in [Workers -> WorkerRows]
      /\ workers'[w] # Idle /\ workers'[w].stage = "failing"
      /\ workers'[w].run = workers[w].run /\ workers'[w].token = workers[w].token
      /\ \A v \in Workers : v # w => workers'[v] = workers[v]
  BY OfTypes, FailsRow
<1>2. Keeps(w)
  BY <1>1 DEF Keeps, Busy, Early
<1> QED
  BY <1>1, <1>2, Rests

\* Or is done.
LEMMA TurnsIdle ==
  ASSUME WorkInv, NEW w \in Workers, Finishes(w)
  PROVE  /\ workers' \in [Workers -> WorkerRows] /\ \A v \in Workers : Keeps(v)
         /\ workers'[w] = Idle
         /\ \A v \in Workers : v # w => workers'[v] = workers[v]
<1>1. /\ workers' \in [Workers -> WorkerRows] /\ workers'[w] = Idle
      /\ \A v \in Workers : v # w => workers'[v] = workers[v]
  BY OfTypes, FinishesRow
<1>2. Keeps(w)
  BY <1>1 DEF Keeps
<1> QED
  BY <1>1, <1>2, Rests

LEMMA ProgressKeeps ==
  ASSUME WorkInv, NEW w \in Workers, Progress(w)
  PROVE  WorkInv'
<1> DEFINE r == workers[w].run
           after == [validating |-> "starting", starting |-> "evaluating",
                     persisting |-> "completing"][workers[w].stage]
           charges == after = "evaluating" /\ r \in live /\ ~Refused(w)
<1>1. Busy(w) /\ workers[w].stage \in Reporting /\ UNCHANGED <<live, faults>>
  BY DEF Progress
<1>2. /\ LabInv /\ charged \in [LabRuns -> 0..MaxClaims] /\ faults' \in 0..MaxFaults
      /\ workers[w].run \in LabRuns /\ workers[w].token \in Tokens
  BY <1>1, OfTypes, OfWorker
<1>3. /\ after \in Stages
      /\ after \in Early => workers[w].stage \in Early
      /\ after = "evaluating" => workers[w].stage \in Early
  BY <1>1 DEF Reporting, Stages, Early
<1>4. CASE Accepted(w, "running")
  <2>1. /\ UpdateProgress(r, workers[w].token) /\ Enters(w, after)
        /\ charged' = IF charges THEN [charged EXCEPT ![r] = @ + 1] ELSE charged
    BY <1>4 DEF Progress
  <2>2. runs[r].lease_token = workers[w].token
    BY <1>4 DEF Accepted, Authorized
  <2> HIDE DEF after
  <2>3. /\ workers' \in [Workers -> WorkerRows] /\ \A v \in Workers : Keeps(v)
        /\ workers'[w] # Idle /\ workers'[w].stage = after
        /\ \A v \in Workers : v # w => workers'[v] = workers[v]
    BY <1>1, <1>3, <2>1, <2>2, Turns
  <2>4. Quiet
    BY <1>2, <2>1 DEF Quiet
  <2>5. CASE charges
    <3>1. /\ charged' = [charged EXCEPT ![workers[w].run] = @ + 1]
          /\ workers[w].stage \in Early /\ workers'[w].stage = "evaluating"
      BY <1>3, <2>1, <2>3, <2>5
    <3>2. workers[w].token <= 1
      BY <1>2, <2>5 DEF Refused, Tokens
    <3>3. Keeps(w) /\ UpdateProgress(workers[w].run, workers[w].token)
      BY <2>1, <2>3
    <3>4. charged' \in [LabRuns -> 0..MaxClaims] /\ (WorkersTypeOK' => WorkInv')
      BY <1>1, <1>4, <2>3, <3>1, <3>2, <3>3, ChargeKeeps
    <3>5. WorkersTypeOK'
      BY <1>1, <1>2, <2>3, <2>4, <3>4, QuietIsLab, TypesHold
    <3> QED
      BY <3>4, <3>5
  <2>6. CASE ~charges
    <3>1. charged' = charged
      BY <2>1, <2>6
    <3>2. WorkersTypeOK'
      BY <1>1, <1>2, <2>3, <2>4, <3>1, QuietIsLab, TypesHold
    <3> QED
      BY <2>3, <2>4, <3>1, <3>2, QuietKeeps
  <2> QED
    BY <2>5, <2>6
<1>5. CASE ~Accepted(w, "running")
  <2>1. Enters(w, "canceling") /\ UNCHANGED <<labVars, charged>>
    BY <1>5 DEF Progress
  <2>2. workers' \in [Workers -> WorkerRows] /\ \A v \in Workers : Keeps(v)
    BY <1>1, <2>1, Turns DEF Stages, Early
  <2>3. Quiet
    BY <2>1 DEF Quiet
  <2>4. WorkersTypeOK'
    BY <1>1, <1>2, <2>1, <2>2, <2>3, QuietIsLab, TypesHold
  <2> QED
    BY <2>1, <2>2, <2>3, <2>4, QuietKeeps
<1> QED
  BY <1>4, <1>5

LEMMA HeartbeatKeeps ==
  ASSUME WorkInv, NEW w \in Workers, Heartbeat(w)
  PROVE  WorkInv'
<1>1. Busy(w) /\ UNCHANGED <<live, charged, faults>>
  BY DEF Heartbeat
<1>2. Quiet
  BY <1>1, OfWorker DEF Heartbeat, Either, Quiet
<1>3. workers' \in [Workers -> WorkerRows] /\ \A v \in Workers : Keeps(v)
  <2>1. CASE UNCHANGED workers
    BY <2>1, OfTypes, Rests
  <2>2. CASE Enters(w, "canceling")
    BY <1>1, <2>2, Turns DEF Stages, Early
  <2> QED
    BY <2>1, <2>2 DEF Heartbeat
<1>4. WorkersTypeOK'
  BY <1>1, <1>2, <1>3, OfTypes, QuietIsLab, TypesHold
<1> QED
  BY <1>1, <1>2, <1>3, <1>4, QuietKeeps

LEMMA EndEvaluationKeeps ==
  ASSUME WorkInv, NEW w \in Workers, EndEvaluation(w)
  PROVE  WorkInv'
<1>1. Busy(w) /\ UNCHANGED <<labVars, live, charged, faults>>
  BY DEF EndEvaluation
<1>2. Quiet
  BY <1>1 DEF Quiet
<1>3. workers' \in [Workers -> WorkerRows] /\ \A v \in Workers : Keeps(v)
  <2>1. CASE Enters(w, "persisting")
    BY <1>1, <2>1, Turns DEF Stages, Reporting, Early
  <2>2. CASE \E retryable \in BOOLEAN : Fails(w, retryable)
    BY <1>1, <2>2, TurnsToFailure
  <2> QED
    BY <2>1, <2>2 DEF EndEvaluation
<1>4. WorkersTypeOK'
  BY <1>1, <1>2, <1>3, OfTypes, QuietIsLab, TypesHold
<1> QED
  BY <1>1, <1>2, <1>3, <1>4, QuietKeeps

\* The last call gives the run back or finds no row.
LEMMA StoredReleases ==
  ASSUME WorkInv, NEW w \in Workers, Busy(w), Stored(w),
         workers[w].stage \in {"completing", "canceling", "failing"}
  PROVE  Releases(workers[w].run, workers[w].token) \/ UNCHANGED labVars
<1>1. workers[w].retryable \in BOOLEAN
  <2>1. workers[w] \in WorkerRows /\ workers[w] # Idle
    BY OfTypes DEF Busy
  <2> QED
    BY <2>1 DEF WorkerRows
<1>2. CASE workers[w].stage = "completing"
  BY <1>2 DEF Stored, Either, Releases
<1>3. CASE workers[w].stage = "canceling"
  BY <1>3 DEF Stored, Either, Releases
<1>4. CASE workers[w].stage = "failing"
  <2>1. \/ UNCHANGED labVars
        \/ FailLabRun(workers[w].run, workers[w].token, workers[w].retryable)
    BY <1>4 DEF Stored, Either
  <2> QED
    BY <1>1, <2>1 DEF Releases
<1> QED
  BY <1>2, <1>3, <1>4

\* Whatever the call did, the worker then is done or reports a failure.
LEMMA LastCallKeeps ==
  ASSUME WorkInv, NEW w \in Workers, Busy(w), Stored(w),
         workers[w].stage \in {"completing", "canceling", "failing"},
         Finishes(w) \/ Fails(w, TRUE), UNCHANGED <<live, charged>>,
         faults' \in 0..MaxFaults
  PROVE  WorkInv'
<1>1. /\ workers' \in [Workers -> WorkerRows] /\ \A v \in Workers : Keeps(v)
      /\ workers'[w] # Idle => workers'[w].stage # "evaluating"
      /\ \A v \in Workers : v # w => workers'[v] = workers[v]
  BY TurnsIdle, TurnsToFailure
<1>2. CASE UNCHANGED labVars
  <2>1. Quiet
    BY <1>2 DEF Quiet
  <2>2. WorkersTypeOK'
    BY <1>1, <2>1, OfTypes, QuietIsLab, TypesHold
  <2> QED
    BY <1>1, <2>1, <2>2, QuietKeeps
<1>3. CASE Releases(workers[w].run, workers[w].token)
  <2>1. LabNext
    BY <1>3, OfWorker, ReleaseIsLab
  <2>2. WorkersTypeOK'
    BY <1>1, <2>1, OfTypes, TypesHold
  <2> QED
    BY <1>1, <1>3, <2>2, ReleaseKeeps
<1> QED
  BY <1>2, <1>3, StoredReleases

LEMMA FinishKeeps ==
  ASSUME WorkInv, NEW w \in Workers, Finish(w)
  PROVE  WorkInv'
<1>1. faults' \in 0..MaxFaults
  BY OfTypes DEF Finish
<1> QED
  BY <1>1, LastCallKeeps DEF Finish

LEMMA CallThrowsKeeps ==
  ASSUME WorkInv, NEW w \in Workers, CallThrows(w)
  PROVE  WorkInv'
<1>1. Busy(w) /\ UNCHANGED <<live, charged>> /\ faults' \in 0..MaxFaults
  BY OfTypes, SpendKeeps DEF CallThrows
<1>2. \/ workers[w].stage = "evaluating" /\ Enters(w, "canceling")
      \/ workers[w].stage = "failing" /\ Finishes(w)
      \/ workers[w].stage \notin {"evaluating", "failing"} /\ Fails(w, TRUE)
  BY DEF CallThrows
<1>3. workers' \in [Workers -> WorkerRows] /\ \A v \in Workers : Keeps(v)
  <2>1. CASE Enters(w, "canceling")
    BY <1>1, <2>1, Turns DEF Stages, Early
  <2> QED
    BY <1>1, <1>2, <2>1, TurnsIdle, TurnsToFailure
<1>4. CASE workers[w].stage \in {"completing", "canceling", "failing"} /\ Stored(w)
  <2>1. Finishes(w) \/ Fails(w, TRUE)
    BY <1>2, <1>4
  <2> QED
    BY <1>1, <1>4, <2>1, LastCallKeeps
<1>5. CASE UNCHANGED labVars
           \/ Either(Accepted(w, "running"), UpdateProgress(workers[w].run, workers[w].token))
  <2>1. Quiet
    BY <1>1, <1>5, OfWorker DEF Either, Quiet
  <2>2. WorkersTypeOK'
    BY <1>1, <1>3, <2>1, OfTypes, QuietIsLab, TypesHold
  <2> QED
    BY <1>1, <1>3, <2>1, <2>2, QuietKeeps
<1> QED
  BY <1>4, <1>5 DEF CallThrows

LEMMA CrashKeeps ==
  ASSUME WorkInv, NEW w \in Workers, Crash(w)
  PROVE  WorkInv'
<1>1. UNCHANGED <<labVars, live, charged>> /\ faults' \in 0..MaxFaults /\ Finishes(w)
  BY OfTypes, SpendKeeps DEF Crash
<1>2. Quiet
  BY <1>1 DEF Quiet
<1>3. workers' \in [Workers -> WorkerRows] /\ \A v \in Workers : Keeps(v)
  BY <1>1, TurnsIdle
<1>4. WorkersTypeOK'
  BY <1>1, <1>2, <1>3, OfTypes, QuietIsLab, TypesHold
<1> QED
  BY <1>1, <1>2, <1>3, <1>4, QuietKeeps

-----------------------------------------------------------------------------
(* Every step, and the theorems. *)

LEMMA WorkInitEstablishes == WorkInit => WorkInv
<1> SUFFICES ASSUME WorkInit
             PROVE  WorkInv
  OBVIOUS
<1>1. LabInv
  BY InitEstablishes DEF WorkInit
<1>2. WorkersTypeOK
  BY <1>1, ClaimsAssumption, FaultsAssumption DEF WorkInit, WorkersTypeOK, LabInv, WorkerRows
<1>3. \A v \in Workers : ~Busy(v)
  BY DEF WorkInit, Busy
<1>4. \A r \in LabRuns : ChargeOK(r)
  BY DEF WorkInit, ChargeOK
<1> QED
  BY <1>1, <1>2, <1>3, <1>4 DEF WorkInv, ClaimHasOneWorker, TokenOK, EvaluatorOK, FirstOK

LEMMA WorkStepPreserves == WorkInv /\ [WorkNext]_workVars => WorkInv'
<1> SUFFICES ASSUME WorkInv, [WorkNext]_workVars
             PROVE  WorkInv'
  OBVIOUS
<1>1. CASE UNCHANGED workVars
  <2>1. Quiet /\ UNCHANGED <<live, workers, charged, faults>>
    BY <1>1 DEF workVars, Quiet, labVars
  <2>2. WorkersTypeOK'
    BY <2>1, OfTypes, QuietIsLab, TypesHold
  <2>3. \A v \in Workers : Keeps(v)
    BY <2>1, Rests
  <2> QED
    BY <2>1, <2>2, <2>3, QuietKeeps
<1> QED
  BY <1>1, EnvironmentStep, PollStep, ProgressKeeps, HeartbeatKeeps, EndEvaluationKeeps,
     FinishKeeps, CallThrowsKeeps, CrashKeeps, TickKeeps DEF WorkNext, WorkerStep

\* The strengthened invariant holds in every reachable state.
THEOREM WorkInvariant == WorkSpec => []WorkInv
BY WorkInitEstablishes, WorkStepPreserves, PTL DEF WorkSpec

\* Whatever workers do, they do to the tables through the stored functions: each of their
\* steps is one call or none (worker.py over the api.*_campaign_lab_* functions).
LEMMA WorkStepIsLab ==
  ASSUME WorkInv, [WorkNext]_workVars
  PROVE  [LabNext]_labVars
<1>1. CASE UNCHANGED workVars
  BY <1>1 DEF workVars, labVars
<1>2. CASE Environment \/ Tick
  BY <1>2, QuietIsLab DEF Environment, Tick, Quiet
<1>3. ASSUME NEW w \in Workers, WorkerStep(w) \/ CallThrows(w) \/ Crash(w)
      PROVE  [LabNext]_labVars
  <2>1. CASE Poll(w)
    BY <2>1 DEF Poll, LabNext
  <2>2. CASE Busy(w) /\ ~Poll(w)
    <3>1. workers[w].run \in LabRuns /\ workers[w].token \in Tokens
      BY <2>2, OfWorker
    <3>2. Stored(w) /\ workers[w].stage \in {"completing", "canceling", "failing"}
            => [LabNext]_labVars
      BY <2>2, <3>1, StoredReleases, ReleaseIsLab
    <3>3. UpdateProgress(workers[w].run, workers[w].token) => LabNext
      BY <3>1 DEF LabNext
    <3> QED
      BY <1>3, <2>2, <3>2, <3>3
      DEF WorkerStep, Progress, Heartbeat, EndEvaluation, Finish, CallThrows, Crash, Either
  <2>3. Poll(w) \/ Busy(w)
    BY <1>3 DEF WorkerStep, Progress, Heartbeat, EndEvaluation, Finish, CallThrows, Crash
  <2> QED
    BY <2>1, <2>2, <2>3
<1> QED
  BY <1>1, <1>2, <1>3 DEF WorkNext

\* The workers implement the open interface of CampaignLab, so that every theorem of
\* CampaignLabProofs holds of the tables with workers on them.
THEOREM WorkersUseTheFunctions == WorkSpec => LabSpec
<1>1. WorkInit => LabInit
  BY DEF WorkInit
<1>2. WorkInv /\ [WorkNext]_workVars => [LabNext]_labVars
  BY WorkStepIsLab
<1> QED
  BY <1>1, <1>2, WorkInvariant, PTL DEF WorkSpec, LabSpec

\* WorkersTypeOK for any number of runs, workers and faults.
THEOREM WorkersTyping == WorkSpec => []WorkersTypeOK
<1>1. WorkInv => WorkersTypeOK
  BY DEF WorkInv
<1> QED
  BY <1>1, WorkInvariant, PTL

\* ClaimHasOneWorker: a claim draws a token nobody holds
\* (claim_campaign_lab_run, the lease_token it writes).
THEOREM ClaimsHaveOneWorker == WorkSpec => []ClaimHasOneWorker
<1>1. WorkInv => ClaimHasOneWorker
  BY DEF WorkInv
<1> QED
  BY <1>1, WorkInvariant, PTL

\* EvaluatorHoldsLease: the functions that release a lease are called by its own worker,
\* when its evaluation has ended.
THEOREM EvaluatorsHoldLeases == WorkSpec => []EvaluatorHoldsLease
<1>1. WorkInv => EvaluatorHoldsLease
  BY DEF WorkInv, EvaluatorOK, EvaluatorHoldsLease
<1> QED
  BY <1>1, WorkInvariant, PTL

\* ProviderChargedOnce: only a first claim calls a paid provider, and a run has one.
THEOREM ProvidersChargedOnce == WorkSpec => []ProviderChargedOnce
<1>1. WorkInv => ProviderChargedOnce
  <2> SUFFICES ASSUME WorkInv, NEW r \in live
               PROVE  charged[r] <= 1
    BY DEF ProviderChargedOnce
  <2>1. r \in LabRuns
    BY OfTypes
  <2> QED
    BY <2>1 DEF WorkInv, ChargeOK
<1> QED
  BY <1>1, WorkInvariant, PTL

-----------------------------------------------------------------------------
(* Claims for retries and faults. *)

\* A fault has been spent, or a retry is left, beyond the run's last claim.
Spare(r) == runs[r].attempt_count < MaxRetries + faults

\* A worker takes a run to the bound and can take it no further: the run has to lose
\* its worker first, and that is a fault.
ClaimsOK(r) ==
  /\ runs[r].status \in Waiting => runs[r].attempt_count < MaxRetries
  /\ runs[r].status = "running" =>
       /\ runs[r].attempt_count <= MaxRetries + faults
       /\ runs[r].lease = 0 \/ ~Attended(r) => Spare(r)

\* A worker that turned to a cancellation nobody asked for has lost its run to a fault.
LosingOK(v) ==
  Busy(v) /\ workers[v].stage = "canceling" /\ Accepted(v, "running") => Spare(workers[v].run)

ClaimsInv == (\A r \in LabRuns : ClaimsOK(r)) /\ \A v \in Workers : LosingOK(v)

\* No run comes closer to the bound.
Recedes(r) ==
  /\ runs'[r].status \in Waiting => runs'[r].attempt_count < MaxRetries
  /\ runs'[r].status = "running" =>
       /\ runs[r].status = "running"
       /\ runs'[r].attempt_count = runs[r].attempt_count
       /\ runs'[r].lease_token = runs[r].lease_token

\* No lease of a run with a worker runs out.
LeaseLasts(r) ==
  runs'[r].status = "running" /\ runs'[r].lease = 0 => runs[r].lease = 0 \/ ~Attended(r)

LEMMA RowCount ==
  ASSUME WorkInv, NEW r \in LabRuns
  PROVE  /\ runs[r] \in RunRows /\ RowOK(runs[r], secrets[r])
         /\ runs[r].attempt_count \in Nat /\ runs[r].lease_token \in Nat
         /\ faults \in Nat /\ MaxRetries \in Nat /\ 0 < MaxRetries
<1>1. LabInv /\ faults \in 0..MaxFaults
  BY DEF WorkInv, WorkersTypeOK
<1>2. runs[r] \in RunRows /\ RowOK(runs[r], secrets[r])
  BY <1>1, OfRun
<1>3. runs[r].attempt_count \in 0..MaxClaims /\ runs[r].lease_token \in 0..MaxClaims
  BY <1>2, RowFields
<1> QED
  BY <1>1, <1>2, <1>3, ClaimsAssumption, FaultsAssumption

\* The quiet steps that take no time.
Prompt ==
  \/ \E r \in LabRuns :
       \/ \E c \in Campaigns, report \in BOOLEAN, secret \in {"none", "held"} :
            CreateLabRun(r, c, report, secret)
       \/ CancelLabRun(r) \/ ExpireLabRun(r)
       \/ \E n \in Tokens : UpdateProgress(r, n)
  \/ \E c \in Campaigns : UpdateCampaign(c)
  \/ SetRunCreation \/ UNCHANGED labVars

LEMMA PromptRecedes ==
  ASSUME WorkInv, ClaimsInv, Prompt, NEW s \in LabRuns
  PROVE  Recedes(s) /\ LeaseLasts(s)
<1>1. /\ LabInv /\ runs[s] \in RunRows /\ 0 < MaxRetries
      /\ runs[s].status \in Waiting => runs[s].attempt_count < MaxRetries
  BY RowCount DEF WorkInv, ClaimsInv, ClaimsOK
<1>2. CASE runs'[s] = runs[s]
  BY <1>1, <1>2 DEF Recedes, LeaseLasts
<1>3. CASE \E c \in Campaigns, report \in BOOLEAN, secret \in {"none", "held"} :
             CreateLabRun(s, c, report, secret)
  BY <1>1, <1>3 DEF CreateLabRun, NewRun, Recedes, LeaseLasts, LabInv, LabTypeOK
<1>4. CASE CancelLabRun(s)
  <2>1. runs'[s] = Canceled(runs[s])
    BY <1>1, <1>4 DEF CancelLabRun, LabInv, LabTypeOK
  <2>2. runs'[s].status \in {"cancel_requested", "canceled"}
    BY <1>1, <2>1 DEF Canceled, RunRows
  <2> QED
    BY <2>2 DEF Recedes, LeaseLasts, Waiting
<1>5. CASE ExpireLabRun(s)
  <2>1. runs'[s].status = "deleted"
    BY <1>1, <1>5 DEF ExpireLabRun, LabInv, LabTypeOK, NewRun
  <2> QED
    BY <2>1 DEF Recedes, LeaseLasts, Waiting
<1>6. CASE \E n \in Tokens : UpdateProgress(s, n)
  <2>1. runs'[s] = [runs[s] EXCEPT !.lease = LeaseTicks]
    BY <1>1, <1>6 DEF UpdateProgress, LabInv, LabTypeOK
  <2>2. /\ runs'[s].status = runs[s].status /\ runs'[s].lease = LeaseTicks
        /\ runs'[s].attempt_count = runs[s].attempt_count
        /\ runs'[s].lease_token = runs[s].lease_token
    BY <1>1, <2>1 DEF RunRows
  <2> QED
    BY <1>1, <2>2, DelaysAssumption DEF Recedes, LeaseLasts
<1>7. ASSUME NEW r \in LabRuns, r # s,
             \/ \E c \in Campaigns, report \in BOOLEAN, secret \in {"none", "held"} :
                  CreateLabRun(r, c, report, secret)
             \/ CancelLabRun(r) \/ ExpireLabRun(r)
             \/ \E n \in Tokens : UpdateProgress(r, n)
      PROVE  runs'[s] = runs[s]
  BY <1>1, <1>7 DEF CreateLabRun, CancelLabRun, ExpireLabRun, UpdateProgress, LabInv, LabTypeOK
<1> QED
  BY <1>2, <1>3, <1>4, <1>5, <1>6, <1>7 DEF Prompt, UpdateCampaign, SetRunCreation, labVars

\* A run is given back with a retry to spend, or is settled.
LEMMA ReleaseRecedes ==
  ASSUME WorkInv, ClaimsInv, NEW k \in LabRuns, NEW n \in Tokens, Releases(k, n), NEW s \in LabRuns
  PROVE  Recedes(s) /\ LeaseLasts(s) /\ runs'[k].status # "running"
<1>1. /\ LabInv /\ runs[k] \in RunRows /\ runs[s] \in RunRows
      /\ runs[s].status \in Waiting => runs[s].attempt_count < MaxRetries
  BY RowCount DEF WorkInv, ClaimsInv, ClaimsOK
<1>2. \/ runs'[k] = [Relinquished(runs[k], "succeeded") EXCEPT !.result = n]
      \/ runs'[k] = Relinquished(runs[k], "failed")
      \/ runs'[k] = Relinquished(runs[k], "canceled")
      \/ /\ runs[k].attempt_count < MaxRetries
         /\ \E delay \in 1..BackoffTicks :
              runs'[k] = [Relinquished(runs[k], "retrying") EXCEPT !.next = delay]
  BY <1>1 DEF Releases, CompleteLabRun, FinalizeCanceledLabRun, FailLabRun, Retried, LabInv,
              LabTypeOK
<1>3. /\ runs'[k].status \in {"succeeded", "failed", "canceled", "retrying"}
      /\ runs'[k].status = "retrying" => runs'[k].attempt_count < MaxRetries
  BY <1>1, <1>2 DEF Relinquished, RunRows
<1>4. s # k => runs'[s] = runs[s]
  BY <1>1, ReleaseStep
<1>5. s = k => Recedes(s) /\ LeaseLasts(s)
  BY <1>3 DEF Recedes, LeaseLasts, Waiting
<1>6. s # k => Recedes(s) /\ LeaseLasts(s)
  BY <1>1, <1>4 DEF Recedes, LeaseLasts
<1> QED
  BY <1>3, <1>5, <1>6

\* A fault leaves every run a claim to spare.
LEMMA FaultSpares ==
  ASSUME WorkInv, ClaimsInv, WorkInv', Spend, \A r \in LabRuns : Recedes(r)
  PROVE  ClaimsInv'
<1>1. ASSUME NEW r \in LabRuns, runs'[r].status = "running"
      PROVE  runs'[r].attempt_count < MaxRetries + faults'
  <2>1. /\ runs'[r].attempt_count = runs[r].attempt_count
        /\ runs[r].attempt_count <= MaxRetries + faults
    BY <1>1 DEF Recedes, ClaimsInv, ClaimsOK
  <2> QED
    BY <2>1, RowCount DEF Spend
<1>2. ASSUME NEW r \in LabRuns
      PROVE  ClaimsOK(r)'
  <2>1. runs'[r].attempt_count \in Nat /\ faults' \in Nat
    BY RowCount, FaultsAssumption DEF WorkInv, LabInv, LabTypeOK, WorkersTypeOK, RunRows
  <2> QED
    BY <1>1, <2>1, ClaimsAssumption DEF Recedes, ClaimsOK, Spare
<1>3. ASSUME NEW v \in Workers
      PROVE  LosingOK(v)'
  <2> SUFFICES ASSUME workers'[v] # Idle, runs'[workers'[v].run].status = "running"
               PROVE  runs'[workers'[v].run].attempt_count < MaxRetries + faults'
    BY DEF LosingOK, Busy, Accepted, Authorized, Spare
  <2>1. workers'[v].run \in LabRuns
    BY WorkerRow DEF WorkInv, WorkersTypeOK
  <2> QED
    BY <1>1, <2>1
<1> QED
  BY <1>2, <1>3 DEF ClaimsInv

\* A worker lets go of a run only in vain, with a claim to spare or when it is over.
LetsGo(v) == Busy(v) =>
  /\ workers'[v] = Idle =>
       \/ workers[v].stage = "canceling" \/ ~Accepted(v, "running")
       \/ runs'[workers[v].run].status # "running"
  /\ workers'[v] # Idle /\ workers'[v].stage = "canceling" =>
       workers[v].stage = "canceling" \/ ~Accepted(v, "running")

LEMMA OrderSpares ==
  ASSUME WorkInv, ClaimsInv, WorkInv', UNCHANGED faults,
         \A r \in LabRuns : Recedes(r) /\ LeaseLasts(r),
         \A v \in Workers : Keeps(v) /\ LetsGo(v)
  PROVE  ClaimsInv'
<1>1. ASSUME NEW r \in LabRuns
      PROVE  ClaimsOK(r)'
  <2>1. Recedes(r) /\ LeaseLasts(r) /\ ClaimsOK(r)
    BY DEF ClaimsInv
  <2>2. CASE runs'[r].status # "running"
    BY <2>1, <2>2 DEF Recedes, ClaimsOK
  <2>3. CASE runs'[r].status = "running"
    <3>1. /\ runs[r].status = "running" /\ runs'[r].attempt_count = runs[r].attempt_count
          /\ runs'[r].lease_token = runs[r].lease_token
          /\ runs[r].attempt_count <= MaxRetries + faults
      BY <2>1, <2>3 DEF Recedes, ClaimsOK
    <3>2. ASSUME Attended(r), ~Spare(r)
          PROVE  Attended(r)'
      <4>1. PICK v \in Workers :
              Busy(v) /\ workers[v].run = r /\ workers[v].token = runs[r].lease_token
        BY <3>2 DEF Attended
      <4>2. Accepted(v, "running")
        BY <3>1, <4>1 DEF Accepted, Authorized
      <4>3. workers[v].stage # "canceling"
        BY <3>2, <4>1, <4>2 DEF ClaimsInv, LosingOK
      <4>4. workers'[v] # Idle
        BY <2>3, <4>1, <4>2, <4>3 DEF LetsGo
      <4>5. workers'[v].run = r /\ workers'[v].token = runs'[r].lease_token
        BY <3>1, <4>1, <4>4 DEF Keeps
      <4> QED
        BY <4>4, <4>5 DEF Attended, Busy
    <3>3. ASSUME runs'[r].lease = 0 \/ ~Attended(r)'
          PROVE  Spare(r)
      BY <2>1, <2>3, <3>1, <3>2, <3>3 DEF LeaseLasts, ClaimsOK
    <3> QED
      BY <2>3, <3>1, <3>3 DEF ClaimsOK, Spare, Waiting
  <2> QED
    BY <2>2, <2>3
<1>2. ASSUME NEW v \in Workers
      PROVE  LosingOK(v)'
  <2> SUFFICES ASSUME workers'[v] # Idle, workers'[v].stage = "canceling",
                      runs'[workers'[v].run].status = "running",
                      runs'[workers'[v].run].lease_token = workers'[v].token
               PROVE  runs'[workers'[v].run].attempt_count < MaxRetries + faults'
    BY DEF LosingOK, Busy, Accepted, Authorized, Spare
  <2>1. /\ Busy(v) /\ workers'[v].run = workers[v].run /\ workers'[v].token = workers[v].token
    BY DEF Keeps, Busy
  <2>2. workers[v].run \in LabRuns
    BY <2>1, OfWorker
  <2>3. PICK r \in LabRuns : r = workers[v].run
    BY <2>2
  <2>4. /\ runs[r].status = "running" /\ runs[r].lease_token = workers[v].token
        /\ runs'[r].attempt_count = runs[r].attempt_count
    BY <2>1, <2>3 DEF Recedes
  <2>5. Accepted(v, "running")
    BY <2>3, <2>4 DEF Accepted, Authorized
  <2>6. workers[v].stage = "canceling"
    BY <2>1, <2>5 DEF LetsGo
  <2>7. Spare(r)
    BY <2>1, <2>3, <2>5, <2>6 DEF ClaimsInv, LosingOK
  <2> QED
    BY <2>1, <2>3, <2>4, <2>7 DEF Spare
<1> QED
  BY <1>1, <1>2 DEF ClaimsInv

\* A claim spends what was left, and its worker has the run.
LEMMA PollSpares ==
  ASSUME WorkInv, ClaimsInv, WorkInv', NEW w \in Workers, Poll(w)
  PROVE  ClaimsInv'
<1>1. PICK k \in LabRuns :
        /\ ClaimLabRun(k)
        /\ workers' = [workers EXCEPT ![w] =
             [stage |-> "validating", run |-> k, token |-> runs'[k].lease_token,
              retryable |-> FALSE]]
  BY DEF Poll
<1>2. /\ LabInv /\ ~Busy(w) /\ UNCHANGED faults /\ workers \in [Workers -> WorkerRows]
  BY DEF Poll, WorkInv, WorkersTypeOK
<1>3. /\ runs[k].status \in Waiting \cup {"running"} /\ runs'[k].status = "running"
      /\ runs'[k].attempt_count = runs[k].attempt_count + 1
      /\ runs'[k].lease_token = runs[k].attempt_count + 1
      /\ \A s \in LabRuns : s # k => runs'[s] = runs[s]
  BY <1>1, <1>2, ClaimMoves
<1>4. runs'[k].lease = LeaseTicks /\ (runs[k].status = "running" => runs[k].lease = 0)
  <2>1. runs[k] \in RunRows /\ Due(runs[k]) /\ runs'[k] = Claimed(runs[k])
    BY <1>1, <1>2, OfRun DEF ClaimLabRun, LabInv, LabTypeOK
  <2> QED
    BY <2>1 DEF Due, Claimed, RunRows, Waiting
<1>5. /\ workers'[w] # Idle /\ workers'[w].run = k /\ workers'[w].stage = "validating"
      /\ workers'[w].token = runs'[k].lease_token
      /\ \A v \in Workers : v # w => workers'[v] = workers[v]
  BY <1>1, <1>2 DEF Idle
<1>6. runs[k].attempt_count + 1 <= MaxRetries + faults
  <2>1. runs[k].attempt_count < MaxRetries + faults
    BY <1>3, <1>4, RowCount DEF ClaimsInv, ClaimsOK, Spare
  <2> QED
    BY <2>1, RowCount
<1>7. ASSUME NEW r \in LabRuns
      PROVE  ClaimsOK(r)'
  <2>1. CASE r = k
    <3>1. Attended(k)'
      BY <1>5 DEF Attended, Busy
    <3> QED
      BY <1>2, <1>3, <1>4, <1>6, <2>1, <3>1, DelaysAssumption DEF ClaimsOK, Waiting
  <2>2. CASE r # k
    <3>1. runs'[r] = runs[r] /\ ClaimsOK(r)
      BY <1>3, <2>2 DEF ClaimsInv
    <3>2. Attended(r) => Attended(r)'
      BY <1>2, <1>5, <3>1 DEF Attended, Busy
    <3> QED
      BY <1>2, <3>1, <3>2 DEF ClaimsOK, Spare
  <2> QED
    BY <2>1, <2>2
<1>8. ASSUME NEW v \in Workers
      PROVE  LosingOK(v)'
  <2>1. CASE v = w
    BY <1>5, <2>1 DEF LosingOK
  <2>2. CASE v # w /\ ~Busy(v)
    BY <1>5, <2>2 DEF LosingOK, Busy
  <2>3. CASE v # w /\ Busy(v)
    <3>1. /\ workers'[v] = workers[v] /\ LosingOK(v) /\ workers[v].run \in LabRuns
          /\ workers[v].token \in Nat
      BY <1>5, <2>3, OfWorker DEF ClaimsInv
    <3>2. CASE workers[v].run # k
      <4>1. runs'[workers[v].run] = runs[workers[v].run]
        BY <1>3, <3>1, <3>2
      <4> QED
        BY <1>2, <3>1, <4>1 DEF LosingOK, Busy, Accepted, Authorized, Spare
    <3>3. CASE workers[v].run = k
      <4>1. workers'[v].token # workers'[w].token
        BY <1>5, <2>3, <3>1, <3>3 DEF WorkInv, ClaimHasOneWorker, Busy
      <4> QED
        BY <1>5, <3>1, <3>3, <4>1 DEF LosingOK, Accepted, Authorized
    <3> QED
      BY <3>2, <3>3
  <2> QED
    BY <2>1, <2>2, <2>3
<1> QED
  BY <1>7, <1>8 DEF ClaimsInv

LEMMA TickSpares ==
  ASSUME WorkInv, ClaimsInv, WorkInv', Tick
  PROVE  ClaimsInv'
<1>1. LabTick /\ UNCHANGED workers
  BY DEF Tick
<1>2. ASSUME NEW r \in LabRuns
      PROVE  Recedes(r)
  <2>1. /\ runs'[r].status = runs[r].status
        /\ runs'[r].attempt_count = runs[r].attempt_count
        /\ runs'[r].lease_token = runs[r].lease_token
    BY <1>1, RowCount DEF LabTick, RunRows
  <2> QED
    BY <2>1 DEF Recedes, ClaimsInv, ClaimsOK
<1>3. CASE Spend
  BY <1>2, <1>3, FaultSpares
<1>4. CASE ~Spend
  <2>1. /\ UNCHANGED faults
        /\ \A r \in LabRuns :
             ~(runs[r].status = "running" /\ runs[r].lease = 1 /\ Attended(r))
    BY <1>4 DEF Tick
  <2>2. ASSUME NEW r \in LabRuns
        PROVE  LeaseLasts(r)
    <3>1. runs[r] \in RunRows /\ runs[r].lease \in Nat
      BY RowCount, RowFields, DelaysAssumption
    <3>2. runs'[r].lease = IF runs[r].lease > 0 THEN runs[r].lease - 1 ELSE 0
      BY <1>1, <3>1 DEF LabTick, RunRows
    <3>3. runs'[r].status = runs[r].status
      BY <1>1, <3>1 DEF LabTick, RunRows
    <3>4. runs'[r].lease = 0 => runs[r].lease = 0 \/ runs[r].lease = 1
      BY <3>1, <3>2
    <3> QED
      BY <2>1, <3>3, <3>4 DEF LeaseLasts
  <2>3. ASSUME NEW v \in Workers
        PROVE  Keeps(v) /\ LetsGo(v)
    BY <1>1, Rests DEF LetsGo, Busy
  <2> QED
    BY <1>2, <2>1, <2>2, <2>3, OrderSpares
<1> QED
  BY <1>3, <1>4

\* What a worker does without a fault, other than to claim a run.
LEMMA WorkerSpares ==
  ASSUME WorkInv, ClaimsInv, WorkInv', NEW w \in Workers, Busy(w), UNCHANGED faults,
         Prompt \/ Releases(workers[w].run, workers[w].token),
         LetsGo(w), \A v \in Workers : Keeps(v),
         \A v \in Workers : v # w => workers'[v] = workers[v]
  PROVE  ClaimsInv'
<1>1. \A r \in LabRuns : Recedes(r) /\ LeaseLasts(r)
  BY OfWorker, PromptRecedes, ReleaseRecedes
<1>2. \A v \in Workers : LetsGo(v)
  BY DEF LetsGo, Busy
<1> QED
  BY <1>1, <1>2, OrderSpares

\* Progress and heartbeats, accepted or refused.
LEMMA ReportSpares ==
  ASSUME WorkInv, ClaimsInv, WorkInv', NEW w \in Workers, Progress(w) \/ Heartbeat(w)
  PROVE  ClaimsInv'
<1>1. Busy(w) /\ UNCHANGED faults /\ workers \in [Workers -> WorkerRows]
  BY OfTypes DEF Progress, Heartbeat
<1>2. workers[w].run \in LabRuns /\ workers[w].token \in Tokens
  BY <1>1, OfWorker
<1>3. Prompt
  BY <1>2 DEF Progress, Heartbeat, Either, Prompt
<1>4. CASE UNCHANGED workers
  BY <1>1, <1>3, <1>4, Rests, WorkerSpares DEF LetsGo, Busy
<1>5. CASE ~Accepted(w, "running") /\ Enters(w, "canceling")
  <2>1. /\ \A v \in Workers : Keeps(v)
        /\ \A v \in Workers : v # w => workers'[v] = workers[v]
    BY <1>1, <1>5, Turns DEF Stages, Early
  <2> QED
    BY <1>1, <1>3, <1>5, <2>1, WorkerSpares DEF LetsGo
<1>6. CASE Accepted(w, "running") /\ Progress(w)
  <2>1. PICK after \in {"starting", "evaluating", "completing"} :
          /\ Enters(w, after)
          /\ after = "starting" => workers[w].stage \in Early
    BY <1>6 DEF Progress, Reporting, Early
  <2>2. runs[workers[w].run].lease_token = workers[w].token
    BY <1>6 DEF Accepted, Authorized
  <2>3. after \in Stages
    BY DEF Stages, Reporting
  <2>4. /\ workers'[w] # Idle /\ workers'[w].stage = after
        /\ \A v \in Workers : Keeps(v)
        /\ \A v \in Workers : v # w => workers'[v] = workers[v]
    BY <1>1, <2>1, <2>2, <2>3, Turns DEF Early
  <2>5. LetsGo(w)
    BY <2>4 DEF LetsGo
  <2> QED
    BY <1>1, <1>3, <2>4, <2>5, WorkerSpares
<1> QED
  BY <1>4, <1>5, <1>6 DEF Progress, Heartbeat

LEMMA EndSpares ==
  ASSUME WorkInv, ClaimsInv, WorkInv', NEW w \in Workers, EndEvaluation(w)
  PROVE  ClaimsInv'
<1>1. Busy(w) /\ UNCHANGED faults /\ Prompt
  BY DEF EndEvaluation, Prompt
<1>2. /\ workers'[w] # Idle /\ workers'[w].stage \in {"persisting", "failing"}
      /\ \A v \in Workers : Keeps(v)
      /\ \A v \in Workers : v # w => workers'[v] = workers[v]
  <2>1. CASE Enters(w, "persisting")
    BY <1>1, <2>1, Turns DEF Stages, Reporting, Early
  <2>2. CASE \E retryable \in BOOLEAN : Fails(w, retryable)
    BY <1>1, <2>2, TurnsToFailure
  <2> QED
    BY <2>1, <2>2 DEF EndEvaluation
<1>3. LetsGo(w)
  BY <1>2 DEF LetsGo
<1> QED
  BY <1>1, <1>2, <1>3, WorkerSpares

LEMMA FinishSpares ==
  ASSUME WorkInv, ClaimsInv, WorkInv', NEW w \in Workers, Finish(w)
  PROVE  ClaimsInv'
<1>1. /\ Busy(w) /\ UNCHANGED faults /\ Stored(w) /\ Finishes(w)
      /\ workers[w].stage \in {"completing", "canceling", "failing"}
  BY DEF Finish
<1>2. workers[w].run \in LabRuns /\ workers[w].token \in Tokens
  BY <1>1, OfWorker
<1>3. Prompt \/ Releases(workers[w].run, workers[w].token)
  BY <1>1, StoredReleases DEF Prompt
<1>4. /\ workers'[w] = Idle /\ \A v \in Workers : Keeps(v)
      /\ \A v \in Workers : v # w => workers'[v] = workers[v]
  BY <1>1, TurnsIdle
<1>5. LetsGo(w)
  <2>1. workers[w].stage # "canceling" /\ Accepted(w, "running")
          => \/ CompleteLabRun(workers[w].run, workers[w].token)
             \/ FailLabRun(workers[w].run, workers[w].token, workers[w].retryable)
    BY <1>1 DEF Stored, Either
  <2>2. workers[w].retryable \in BOOLEAN
    <3>1. workers[w] \in WorkerRows /\ workers[w] # Idle
      BY <1>1, OfTypes DEF Busy
    <3> QED
      BY <3>1 DEF WorkerRows
  <2>3. workers[w].stage # "canceling" /\ Accepted(w, "running")
          => Releases(workers[w].run, workers[w].token)
    BY <2>1, <2>2 DEF Releases
  <2>4. workers[w].stage # "canceling" /\ Accepted(w, "running")
          => runs'[workers[w].run].status # "running"
    BY <1>2, <2>3, ReleaseRecedes
  <2> QED
    BY <1>4, <2>4 DEF LetsGo
<1> QED
  BY <1>1, <1>3, <1>4, <1>5, WorkerSpares

LEMMA FaultStepSpares ==
  ASSUME WorkInv, ClaimsInv, WorkInv', NEW w \in Workers, CallThrows(w) \/ Crash(w)
  PROVE  ClaimsInv'
<1>1. Busy(w) /\ Spend
  BY DEF CallThrows, Crash
<1>2. workers[w].run \in LabRuns /\ workers[w].token \in Tokens
  BY <1>1, OfWorker
<1>3. \/ Prompt
      \/ Stored(w) /\ workers[w].stage \in {"completing", "canceling", "failing"}
  BY <1>2 DEF CallThrows, Crash, Either, Prompt
<1>4. Prompt \/ Releases(workers[w].run, workers[w].token)
  BY <1>1, <1>3, StoredReleases DEF Prompt
<1>5. \A r \in LabRuns : Recedes(r)
  BY <1>2, <1>4, PromptRecedes, ReleaseRecedes
<1> QED
  BY <1>1, <1>5, FaultSpares

LEMMA EnvironmentSpares ==
  ASSUME WorkInv, ClaimsInv, WorkInv', UNCHANGED <<workers, faults>>, Prompt
  PROVE  ClaimsInv'
BY PromptRecedes, Rests, OrderSpares DEF LetsGo, Busy

LEMMA ClaimsInvPreserved ==
  ASSUME WorkInv, ClaimsInv, WorkInv', [WorkNext]_workVars
  PROVE  ClaimsInv'
<1>1. CASE Environment \/ UNCHANGED workVars
  BY <1>1, EnvironmentSpares DEF Environment, workVars, Prompt, labVars
<1> QED
  BY <1>1, PollSpares, ReportSpares, EndSpares, FinishSpares, FaultStepSpares, TickSpares
     DEF WorkNext, WorkerStep

\* ClaimsSuffice: a run that lost its worker has lost it to a fault, and a run that was
\* given back has a retry left (fail_campaign_lab_run and the two caps).
THEOREM ClaimsAreEnough == WorkSpec => []ClaimsSuffice
<1>1. WorkInit => ClaimsInv
  BY DEF WorkInit, LabInit, NewRun, ClaimsInv, ClaimsOK, LosingOK, Busy, Waiting
<1>2. WorkInv /\ ClaimsInv /\ WorkInv' /\ [WorkNext]_workVars => ClaimsInv'
  BY ClaimsInvPreserved
<1>3. ClaimsInv => ClaimsSuffice
  BY DEF ClaimsInv, ClaimsOK, ClaimsSuffice, Spare
<1> QED
  BY <1>1, <1>2, <1>3, WorkInvariant, PTL DEF WorkSpec

-----------------------------------------------------------------------------
(* The life of a run. *)

\* A run that was never created was never begun.
Fresh == \A r \in LabRuns : runs[r].status = "absent" => runs[r].attempt_count = 0

\* To those who asked for the run nothing happens.
Lasts(r) ==
  /\ runs'[r].status = runs[r].status
  /\ runs'[r].attempt_count = runs[r].attempt_count
  /\ runs'[r].result = runs[r].result

\* What may happen to a run, in the terms of its row.
Happens(r) ==
  LET a == runs[r]
      b == runs'[r]
      same == b.attempt_count = a.attempt_count /\ b.result = a.result IN
  \/ /\ a.status = "absent" /\ b.status = "queued" /\ b.attempt_count = 0 /\ b.result = 0
     /\ Admitted
  \/ /\ a.status \in Waiting \cup {"running"} /\ b.status = "running"
     /\ a.attempt_count < MaxClaims
     /\ b.attempt_count = a.attempt_count + 1 /\ b.result = a.result
  \/ a.status = "running" /\ b.status = "retrying" /\ a.attempt_count < MaxRetries /\ same
  \/ /\ a.status = "running" /\ b.status = "succeeded"
     /\ b.attempt_count = a.attempt_count /\ b.result = a.attempt_count
  \/ a.status = "running" /\ b.status \in {"failed", "cancel_requested"} /\ same
  \/ a.status \in Waiting \cup {"cancel_requested"} /\ b.status = "canceled" /\ same
  \/ a.status \in Settled /\ b.status = "deleted" /\ b.attempt_count = 0 /\ b.result = 0

LEMMA CommandHappens ==
  ASSUME LabInv, NEW r \in LabRuns,
         \/ \E c \in Campaigns, report \in BOOLEAN, secret \in {"none", "held"} :
              CreateLabRun(r, c, report, secret)
         \/ CancelLabRun(r) \/ ClaimLabRun(r) \/ ExpireLabRun(r)
  PROVE  Happens(r)
<1>1. runs[r] \in RunRows
  BY OfRun
<1>2. CASE \E c \in Campaigns, report \in BOOLEAN, secret \in {"none", "held"} :
             CreateLabRun(r, c, report, secret)
  <2>1. PICK c \in Campaigns, report \in BOOLEAN : runs'[r] = NewRun(c, report)
    BY <1>2 DEF CreateLabRun, LabInv, LabTypeOK
  <2>2. runs[r].status = "absent" /\ Admitted
    BY <1>2 DEF CreateLabRun
  <2> QED
    BY <2>1, <2>2 DEF NewRun, Happens
<1>3. CASE CancelLabRun(r)
  <2>1. runs'[r] = Canceled(runs[r]) /\ runs[r].status \in Unfinished
    BY <1>3 DEF CancelLabRun, LabInv, LabTypeOK
  <2>2. /\ runs'[r].attempt_count = runs[r].attempt_count /\ runs'[r].result = runs[r].result
        /\ runs'[r].status = IF runs[r].status = "running" THEN "cancel_requested" ELSE "canceled"
    BY <1>1, <2>1 DEF Canceled, RunRows
  <2> QED
    BY <2>1, <2>2 DEF Happens, Unfinished
<1>4. CASE ClaimLabRun(r)
  <2>1. runs'[r] = Claimed(runs[r]) /\ Due(runs[r])
    BY <1>4 DEF ClaimLabRun, LabInv, LabTypeOK
  <2>2. /\ runs'[r].status = "running" /\ runs'[r].result = runs[r].result
        /\ runs'[r].attempt_count = runs[r].attempt_count + 1
    BY <1>1, <2>1 DEF Claimed, RunRows
  <2> QED
    BY <2>1, <2>2 DEF Happens, Due
<1>5. CASE ExpireLabRun(r)
  <2>1. /\ runs'[r] = [NewRun(runs[r].campaign, FALSE) EXCEPT !.status = "deleted"]
        /\ runs[r].status \in Settled
    BY <1>5 DEF ExpireLabRun, LabInv, LabTypeOK
  <2>2. runs'[r].status = "deleted" /\ runs'[r].attempt_count = 0 /\ runs'[r].result = 0
    BY <2>1 DEF NewRun
  <2> QED
    BY <2>1, <2>2 DEF Happens
<1> QED
  BY <1>2, <1>3, <1>4, <1>5

LEMMA ReleaseHappens ==
  ASSUME LabInv, NEW r \in LabRuns, NEW n \in Tokens, Releases(r, n)
  PROVE  Happens(r)
<1>1. /\ runs[r] \in RunRows /\ runs[r].lease_token = n
      /\ n \in Nat \ {0} /\ runs[r].lease_token \in {0, runs[r].attempt_count}
  BY OfRun, ReleaseStep, ClaimsAssumption DEF Tokens, RowOK
<1>2. CASE CompleteLabRun(r, n)
  <2>1. /\ runs'[r] = [Relinquished(runs[r], "succeeded") EXCEPT !.result = n]
        /\ runs[r].status = "running"
    BY <1>2 DEF CompleteLabRun, Authorized, LabInv, LabTypeOK
  <2>2. /\ runs'[r].status = "succeeded" /\ runs'[r].attempt_count = runs[r].attempt_count
        /\ runs'[r].result = n
    BY <1>1, <2>1 DEF Relinquished, RunRows
  <2> QED
    BY <1>1, <2>1, <2>2 DEF Happens
<1>3. CASE FinalizeCanceledLabRun(r, n)
  <2>1. runs'[r] = Relinquished(runs[r], "canceled") /\ runs[r].status = "cancel_requested"
    BY <1>3 DEF FinalizeCanceledLabRun, Authorized, LabInv, LabTypeOK
  <2>2. /\ runs'[r].status = "canceled" /\ runs'[r].attempt_count = runs[r].attempt_count
        /\ runs'[r].result = runs[r].result
    BY <1>1, <2>1 DEF Relinquished, RunRows
  <2> QED
    BY <2>1, <2>2 DEF Happens
<1>4. CASE \E retryable \in BOOLEAN : FailLabRun(r, n, retryable)
  <2>1. /\ runs[r].status = "running"
        /\ \/ runs'[r] = Relinquished(runs[r], "failed")
           \/ /\ runs[r].attempt_count < MaxRetries
              /\ \E delay \in 1..BackoffTicks :
                   runs'[r] = [Relinquished(runs[r], "retrying") EXCEPT !.next = delay]
    BY <1>4 DEF FailLabRun, Retried, Authorized, LabInv, LabTypeOK
  <2>2. /\ runs'[r].attempt_count = runs[r].attempt_count /\ runs'[r].result = runs[r].result
        /\ \/ runs'[r].status = "failed"
           \/ runs'[r].status = "retrying" /\ runs[r].attempt_count < MaxRetries
    BY <1>1, <2>1 DEF Relinquished, RunRows
  <2> QED
    BY <2>1, <2>2 DEF Happens
<1> QED
  BY <1>2, <1>3, <1>4 DEF Releases

LEMMA RenewalLasts ==
  ASSUME LabInv, NEW s \in LabRuns,
         LabTick \/ \E r \in LabRuns, n \in Tokens : UpdateProgress(r, n)
  PROVE  Lasts(s)
<1>1. runs[s] \in RunRows
  BY OfRun
<1>2. CASE LabTick
  BY <1>1, <1>2 DEF LabTick, Lasts, RunRows
<1>3. CASE \E r \in LabRuns, n \in Tokens : UpdateProgress(r, n)
  <2>1. runs'[s] = runs[s] \/ runs'[s] = [runs[s] EXCEPT !.lease = LeaseTicks]
    BY <1>3 DEF UpdateProgress, LabInv, LabTypeOK
  <2> QED
    BY <1>1, <2>1 DEF Lasts, RunRows
<1> QED
  BY <1>2, <1>3

\* A step happens to one run, or to none.
LEMMA StepHappens ==
  ASSUME LabInv, [LabNext]_labVars
  PROVE  \/ \A s \in LabRuns : Lasts(s)
         \/ \E r \in LabRuns : Happens(r) /\ \A s \in LabRuns : s # r => runs'[s] = runs[s]
<1>1. CASE \E r \in LabRuns :
             \/ \E c \in Campaigns, report \in BOOLEAN, secret \in {"none", "held"} :
                  CreateLabRun(r, c, report, secret)
             \/ CancelLabRun(r) \/ ClaimLabRun(r) \/ ExpireLabRun(r)
  <2>1. PICK r \in LabRuns :
             \/ \E c \in Campaigns, report \in BOOLEAN, secret \in {"none", "held"} :
                  CreateLabRun(r, c, report, secret)
             \/ CancelLabRun(r) \/ ClaimLabRun(r) \/ ExpireLabRun(r)
    BY <1>1
  <2>2. \A s \in LabRuns : s # r => runs'[s] = runs[s]
    BY <2>1 DEF CreateLabRun, CancelLabRun, ClaimLabRun, ExpireLabRun, LabInv, LabTypeOK
  <2> QED
    BY <2>1, <2>2, CommandHappens
<1>2. CASE \E r \in LabRuns, n \in Tokens : Releases(r, n)
  BY <1>2, ReleaseStep, ReleaseHappens
<1>3. CASE LabTick \/ \E r \in LabRuns, n \in Tokens : UpdateProgress(r, n)
  BY <1>3, RenewalLasts
<1>4. CASE UNCHANGED runs
  BY <1>4 DEF Lasts
<1> QED
  BY <1>1, <1>2, <1>3, <1>4 DEF LabNext, Releases, UpdateCampaign, SetRunCreation, labVars

LEMMA FreshKept ==
  ASSUME LabInv, Fresh, [LabNext]_labVars
  PROVE  Fresh'
BY StepHappens DEF Fresh, Lasts, Happens, Waiting

\* The names of a run's states.
LEMMA StatesOf ==
  /\ StateOf("absent") = "none" /\ StateOf("deleted") = "removed"
  /\ StateOf("running") = "working" /\ StateOf("cancel_requested") = "canceling"
  /\ StateOf("succeeded") = "succeeded" /\ StateOf("failed") = "failed"
  /\ StateOf("canceled") = "canceled"
  /\ \A status \in Waiting : StateOf(status) = "waiting"
BY DEF StateOf, Waiting, Settled

\* The abstract state, and what it becomes when one run changes.
Seen    == [r \in LabRuns |-> StateOf(runs[r].status)]
Counted == [r \in LabRuns |-> runs[r].attempt_count]
Results == [r \in LabRuns |-> runs[r].result]

LEMMA SeenChanges ==
  ASSUME NEW r \in LabRuns, \A s \in LabRuns : s # r => runs'[s] = runs[s]
  PROVE  /\ Seen' = [Seen EXCEPT ![r] = StateOf(runs'[r].status)]
         /\ Counted' = [Counted EXCEPT ![r] = runs'[r].attempt_count]
         /\ Results' = [Results EXCEPT ![r] = runs'[r].result]
         /\ runs'[r].attempt_count = runs[r].attempt_count => UNCHANGED Counted
         /\ runs'[r].result = runs[r].result => UNCHANGED Results
BY DEF Seen, Counted, Results

\* The abstract module has its own instance of the library.
LEMMA SameCardinality == \A S : Life!Cardinality(S) = Cardinality(S)
BY DEF Life!Cardinality, Cardinality

LEMMA AdmittedIsSeen ==
  ASSUME LabInv
  PROVE  Admitted <=>
           Life!Cardinality({r \in LabRuns : Seen[r] \in Life!Open}) < AdmissionBound
<1>1. ASSUME NEW r \in LabRuns
      PROVE  runs[r].status \in Unfinished <=> Seen[r] \in Life!Open
  <2>1. runs[r].status \in Statuses
    BY OfRun, RowFields
  <2> QED
    BY <2>1, StatesOf DEF Seen, Life!Open, Statuses, Unfinished, Waiting, Settled
<1>2. {r \in LabRuns : runs[r].status \in Unfinished} = {r \in LabRuns : Seen[r] \in Life!Open}
  BY <1>1
<1> QED
  BY <1>2, SameCardinality DEF Admitted

\* Whatever happens to a run is a step of its life.
LEMMA HappensInOrder ==
  ASSUME LabInv, Fresh, UNCHANGED charged, NEW r \in LabRuns, Happens(r),
         \A s \in LabRuns : s # r => runs'[s] = runs[s]
  PROVE  Life!Next
<1> DEFINE a == runs[r]
           b == runs'[r]
<1>1. /\ Seen' = [Seen EXCEPT ![r] = StateOf(b.status)]
      /\ Counted' = [Counted EXCEPT ![r] = b.attempt_count]
      /\ Results' = [Results EXCEPT ![r] = b.result]
      /\ b.attempt_count = a.attempt_count => UNCHANGED Counted
      /\ b.result = a.result => UNCHANGED Results
  BY SeenChanges
<1>2. Seen[r] = StateOf(a.status) /\ Counted[r] = a.attempt_count /\ Results[r] = a.result
  BY DEF Seen, Counted, Results
<1>3. a.status # "succeeded" => a.result = 0
  BY OfRun DEF RowOK
<1>4. a.status = "absent" => a.attempt_count = 0
  BY DEF Fresh
<1> HIDE DEF a, b
<1>5. CASE /\ a.status = "absent" /\ b.status = "queued" /\ b.attempt_count = 0
           /\ b.result = 0 /\ Admitted
  <2>1. /\ Seen[r] = "none" /\ Seen' = [Seen EXCEPT ![r] = "waiting"]
        /\ UNCHANGED <<Counted, Results>>
    BY <1>1, <1>2, <1>3, <1>4, <1>5, StatesOf DEF Waiting
  <2>2. Life!Cardinality({s \in LabRuns : Seen[s] \in Life!Open}) < AdmissionBound
    BY <1>5, AdmittedIsSeen
  <2>3. Life!Moves(r, {"none"}, "waiting")
    BY <2>1 DEF Life!Moves, Seen
  <2>4. Life!Submit(r)
    BY <2>1, <2>2, <2>3 DEF Life!Submit, Seen, Counted, Results
  <2> QED
    BY <2>4 DEF Life!Next
<1>6. CASE /\ a.status \in Waiting \cup {"running"} /\ b.status = "running"
           /\ a.attempt_count < MaxClaims
           /\ b.attempt_count = a.attempt_count + 1 /\ b.result = a.result
  <2>1. Life!Begin(r)
    BY <1>1, <1>2, <1>6, StatesOf DEF Life!Begin, Life!Moves, Seen, Counted, Results
  <2> QED
    BY <2>1 DEF Life!Next
<1>7. CASE /\ a.status = "running" /\ b.status = "retrying" /\ a.attempt_count < MaxRetries
           /\ b.attempt_count = a.attempt_count /\ b.result = a.result
  <2>1. Life!Retry(r)
    BY <1>1, <1>2, <1>7, StatesOf DEF Life!Retry, Life!Moves, Seen, Counted, Results, Waiting
  <2> QED
    BY <2>1 DEF Life!Next
<1>8. CASE /\ a.status = "running" /\ b.status = "succeeded"
           /\ b.attempt_count = a.attempt_count /\ b.result = a.attempt_count
  <2>1. /\ Seen[r] = "working" /\ Seen' = [Seen EXCEPT ![r] = "succeeded"]
        /\ Results' = [Results EXCEPT ![r] = Counted[r]] /\ UNCHANGED Counted
    BY <1>1, <1>2, <1>8, StatesOf
  <2>2. Life!Moves(r, {"working"}, "succeeded")
    BY <2>1 DEF Life!Moves, Seen
  <2>3. Life!Succeed(r)
    BY <2>1, <2>2 DEF Life!Succeed, Counted, Results
  <2> QED
    BY <2>3 DEF Life!Next
<1>9. CASE /\ a.status = "running" /\ b.status = "failed"
           /\ b.attempt_count = a.attempt_count /\ b.result = a.result
  <2>1. Life!Fail(r)
    BY <1>1, <1>2, <1>9, StatesOf DEF Life!Fail, Life!Moves, Seen, Counted, Results
  <2> QED
    BY <2>1 DEF Life!Next
<1>10. CASE /\ \/ a.status = "running" /\ b.status = "cancel_requested"
               \/ a.status \in Waiting \cup {"cancel_requested"} /\ b.status = "canceled"
            /\ b.attempt_count = a.attempt_count /\ b.result = a.result
  <2>1. /\ \/ Seen[r] = "working" /\ Seen' = [Seen EXCEPT ![r] = "canceling"]
           \/ /\ Seen[r] \in {"waiting", "canceling"}
              /\ Seen' = [Seen EXCEPT ![r] = "canceled"]
        /\ UNCHANGED <<Counted, Results>>
    BY <1>1, <1>2, <1>10, StatesOf
  <2>2. \/ Life!Moves(r, {"working"}, "canceling")
        \/ Life!Moves(r, {"waiting", "canceling"}, "canceled")
    BY <2>1 DEF Life!Moves, Seen
  <2>3. Life!Cancel(r)
    BY <2>1, <2>2 DEF Life!Cancel, Counted, Results
  <2> QED
    BY <2>3 DEF Life!Next
<1>11. CASE /\ a.status \in Settled /\ b.status = "deleted" /\ b.attempt_count = 0
            /\ b.result = 0
  <2>1. /\ Seen[r] \in Life!Settled /\ Seen' = [Seen EXCEPT ![r] = "removed"]
        /\ Counted' = [Counted EXCEPT ![r] = 0] /\ Results' = [Results EXCEPT ![r] = 0]
    BY <1>1, <1>2, <1>11, StatesOf DEF Life!Settled, Settled
  <2>2. Life!Moves(r, Life!Settled, "removed")
    BY <2>1 DEF Life!Moves, Seen
  <2>3. Life!Remove(r)
    BY <2>1, <2>2 DEF Life!Remove, Counted, Results
  <2> QED
    BY <2>3 DEF Life!Next
<1> QED
  BY <1>5, <1>6, <1>7, <1>8, <1>9, <1>10, <1>11 DEF Happens, a, b

LEMMA LastingIsSeen ==
  ASSUME \A s \in LabRuns : Lasts(s)
  PROVE  UNCHANGED <<Seen, Counted, Results>>
BY DEF Lasts, Seen, Counted, Results

\* The charge is the first, and comes under the first claim.
LEMMA ChargeInOrder ==
  ASSUME WorkInv, NEW w \in Workers, Progress(w), charged' # charged
  PROVE  Life!Next
<1>1. Busy(w) /\ workers[w].stage \in Reporting /\ Accepted(w, "running")
  BY DEF Progress
<1>2. /\ UpdateProgress(workers[w].run, workers[w].token)
      /\ workers[w].stage = "starting" /\ workers[w].run \in live /\ ~Refused(w)
      /\ charged' = [charged EXCEPT ![workers[w].run] = @ + 1]
  BY <1>1 DEF Progress, Reporting
<1>3. /\ workers[w].run \in LabRuns /\ workers[w].token \in Tokens /\ LabInv /\ FirstOK(w)
      /\ charged \in [LabRuns -> 0..MaxClaims]
  BY <1>1, OfWorker DEF WorkInv, WorkersTypeOK
<1>4. PICK r \in LabRuns : r = workers[w].run
  BY <1>3
<1>5. workers[w].token = 1
  BY <1>2, <1>3, ClaimsAssumption DEF Refused, Tokens
<1>6. charged[r] = 0 /\ charged' = [charged EXCEPT ![r] = 1]
  <2>1. charged[r] = 0
    BY <1>1, <1>2, <1>3, <1>4, <1>5 DEF FirstOK, Early
  <2> QED
    BY <1>2, <1>4, <2>1
<1>7. runs[r].status = "running" /\ runs[r].attempt_count = 1
  <2>1. runs[r].status = "running" /\ runs[r].lease_token = 1
    BY <1>1, <1>4, <1>5 DEF Accepted, Authorized
  <2> QED
    BY <1>3, <2>1, OfRun DEF RowOK
<1>8. UNCHANGED <<Seen, Counted, Results>>
  BY <1>2, <1>3, RenewalLasts, LastingIsSeen
<1>9. Life!Charge(r)
  BY <1>6, <1>7, <1>8, StatesOf DEF Life!Charge, Seen, Counted, Results
<1> QED
  BY <1>9 DEF Life!Next

LEMMA LifeStep ==
  ASSUME WorkInv, Fresh, [WorkNext]_workVars
  PROVE  [Life!Next]_(Life!lab)
<1>1. LabInv /\ [LabNext]_labVars
  BY WorkStepIsLab DEF WorkInv
<1>2. UNCHANGED charged \/ \E w \in Workers : Progress(w) /\ charged' # charged
  BY DEF WorkNext, WorkerStep, Environment, Poll, Progress, Heartbeat, EndEvaluation, Finish,
         CallThrows, Crash, Tick, workVars
<1>3. CASE UNCHANGED charged /\ \A s \in LabRuns : Lasts(s)
  BY <1>3, LastingIsSeen DEF Life!lab, Seen, Counted, Results
<1>4. CASE UNCHANGED charged /\ ~ \A s \in LabRuns : Lasts(s)
  BY <1>1, <1>4, StepHappens, HappensInOrder
<1> QED
  BY <1>2, <1>3, <1>4, ChargeInOrder

\* LabRunsKeepOrder: workers that share leases keep to the life of a run, and no later
\* claim is taken for a first one (the token checks of every function, the two caps, and
\* the refusal before a provider is called).
THEOREM LabRunsAreOrderly == WorkSpec => LabRunsKeepOrder
<1>1. WorkInit => Life!Init /\ Fresh
  BY StatesOf DEF WorkInit, LabInit, NewRun, Life!Init, Fresh
<1>2. WorkInv /\ Fresh /\ [WorkNext]_workVars => Fresh'
  BY WorkStepIsLab, FreshKept DEF WorkInv
<1>3. WorkInv /\ Fresh /\ [WorkNext]_workVars => [Life!Next]_(Life!lab)
  BY LifeStep
<1> QED
  BY <1>1, <1>2, <1>3, WorkInvariant, PTL DEF WorkSpec, LabRunsKeepOrder, Life!Spec

=============================================================================
