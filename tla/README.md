# Formal model of Simula

Simula runs simulations for organizations. An API (TypeScript) accepts a run, a
dispatcher carries it to a queue, Python workers execute it, and PostgreSQL holds
the authority over all of it: nearly every rule lives in stored functions under
`src/supabase/migrations/`. This directory holds TLA+ modules of that system, the
TLC configurations that check them on small instances, and theorems, checked by
TLAPS, that hold for every value of the constants.

To repeat a run: `tlc -config MCRunLifecycle.cfg MCRunLifecycle`. To repeat a proof:
`tlapm RunSafetyProofs.tla`.

## 1. The system and its parts

| part | state it keeps | operations | what is hard |
|---|---|---|---|
| run lifecycle | `api.simulation_runs`, `private.run_attempts`, `private.run_outbox`, `api.simulation_results`, the `run_creation` row of `private.runtime_controls` | create, request cancel; claim, confirm, fail a dispatch; finalize cancellations and poison; reconcile; claim, heartbeat, complete, fail an execution; switch admission | every function may be called late, twice, by several processes; leases expire under workers that do not know it |
| run dispatch | one claimed row per dispatcher, BullMQ jobs in Redis, one delivery per worker slot | publish, prove, confirm; deliver, claim, renew, evaluate, settle, defer | crashes between any two calls, adds that fail or arrive late, stalled and lost jobs, a limit on deliveries |
| run admission | idempotency records, the two quotas, `run_creation` with its reason columns, the limiter's markers in Redis | the handler of `POST /runs`: lookup, limiter, stored function under three locks, acknowledgement; the pause | a repeated request races the first, creations in several projects count at once, the switch is read without a lock, an answer or an acknowledgement is lost |
| queue transport fence | `private.queue_transport_control`, two advisory locks | `require_queue_transport`, `set_queue_transport` | the switch must find the old transport drained while admissions and claims are under way |
| campaign lab runs | `api.campaign_lab_runs` with lease token, claim count, backoff; the secret inputs in `private.campaign_lab_secrets`; the campaign's status | create, cancel, edit the campaign; claim, progress, complete, fail, finalize a cancellation; retention | a lease token without a deadline check, cancellations whose worker died, a cap on claims, a global bound on admission, a paid provider that must not be called twice |
| campaign evidence jobs | `campaign_evidence_runs` | as the lab's | creation is refused since `20260824010000`, so nothing new can run |
| organization deletion | the request, its ledger with claims, the organization's status, jobs and cache entries in Redis | the owner's request: disable, clean, confirm; a reconciler's pass: claim, clean, complete or release, finalize | two kinds of actors that clean the same things, removals that are not transactional, creations and publications that cross the disabling, claims that run out |
| stimulus assets | status of `stimulus_assets`, `stimulus_visual_profiles`, objects in S3 | reserve; upload (look, put, look, confirm); deletion (request, remove, look, confirm); profile (read, analyse, store) | the database and the object store change separately, and every chain of calls may be crossed by another |
| ARQ transport | the older queue, kept for rollback | the same stored functions | at most one of the transports is active: that is the fence's |
| rate limiter and organization cache | counters, markers and entries in Redis with an expiry | one script each | a marker is shared by the requests with one key |
| console of a run | one poller per run in the browser, its listeners, timer and request | subscribe, unsubscribe, refresh, cancel; answer, timeout, timer | callbacks in any order, a poller that is dropped with its request under way |
| other HTTP controllers, consoles, contracts | none | validation and one stored function each | none that an interleaving reaches |
| simulation and methodology | none | deterministic computations | numeric; not a question of states |
| row level security | none | declarative policies | who may call, not what a call does |

How they interact. The API calls `create_simulation_run_atomic`, which writes the run and
its first outbox row in one transaction. The dispatcher (`run-outbox-dispatcher.ts`) polls:
each pass finalizes cancellations and poisoned dispatches, now and then reconciles silent
runs, claims due rows, adds a BullMQ job whose identity is `(run, generation)`, proves that
the job is in Redis, and confirms the row. A worker (`bullmq_runtime.py`, `main.py`) is
delivered the job, asks `claim_run_execution` for an attempt with a lease, renews the lease
while it evaluates, and completes or fails the attempt. Redis is transport only: whatever
it forgets or repeats, the tables decide. The Campaign Lab has no queue but its own table:
a worker (`campaign_lab.py`) polls `claim_campaign_lab_runs`, which gives it a row, a fresh
lease token and five minutes, evaluates in a child process under a heartbeat, and reports. The deletion of an organization
starts in the owner's request and goes on in every dispatcher process
(`organization-deletion-reconciler.ts`); what both remove is outside the database, in S3 and
Redis, and what puts it there goes on beside them: uploads (`stimulus-assets.controller.ts`),
creations of runs, publications. The web console asks the API for a run until it has ended
(`run-poller.ts`).

For each part, what makes it correct:

- *run lifecycle*: one attempt has authority; finished runs are final; a cancellation
  wins; no run is left where nothing can move it; exactly one result per succeeded run;
  capacity, attempts and generations stay within their caps; exhaustion stops admission.
- *run dispatch*: nothing is confirmed that was not published; the delivery of a replaced
  dispatch changes nothing; the limit on deliveries does not eat execution attempts; every
  run ends.
- *run admission*: one run per idempotency key; quotas hold under concurrent creation; a
  request is charged once; every request is answered.
- *transport fence*: no run and no claim of one transport survives the switch to the other,
  though admissions look at the pause without a lock of their own.
- *campaign lab runs*: the last claim alone settles a run; a canceled run publishes nothing;
  every run ends or can be claimed; secrets last as long as claims may come; the admission
  bound holds; a paid provider is called once.
- *organization deletion*: no run is at work in a disabled organization; nothing that was
  there when it was disabled is left when it is gone; whoever cleans keeps to its claim; the
  deletion ends without the owner.
- *stimulus assets*: an available asset has its object, and a profile an available asset.
- *console of a run*: one question at a time; who watches is served or told why not; what is
  shown never goes back; the end is shown.

## 2. Modules

| module | models | from |
|---|---|---|
| `RunStateMachine` | the abstract promise: states of a run, attempts, result | `ADR-0006-QUEUE-AND-RUN-STATE-MACHINE.md` as the code keeps it |
| `RunLifecycle` | the tables and every stored function over them | the migrations named in `PROJECT.json` |
| `RunDispatch` | dispatchers, Redis, workers, composed with `RunLifecycle` | `run-outbox-dispatcher.ts`, `bullmq-simulation-queue.ts`, `bullmq_runtime.py`, `main.py` |
| `CampaignLab` | the tables of the Campaign Lab and every stored function over them | `20260802060315` and the migrations that replace its functions |
| `CampaignWorkers` | the workers of the lab over `CampaignLab` | `campaign_lab.py` |
| `LabRunLife` | the abstract promise of the lab: how a run is begun, charged for and settled | what whoever asked for the run may see |
| `RunAdmission` | a request for a run from lookup to answer, with the limiter's markers, every lock, and the operator's pause and switch of transport | `runs.controller.ts`, `domain-rate-limiter.ts`, `20260718020000`, `20260730180000`, `20260730190000` |
| `RunCreation` | the abstract promise of admission: a request takes effect in one step, or not at all | what the caller of `POST /runs` and the operator may see |
| `StimulusAssets` | rows, objects and profiles of the assets, and the requests over them | `stimulus-assets.controller.ts`, `stimulus-visual-profiles.controller.ts`, `20260729151639`, `20260730123000` |
| `OrganizationDeletion` | the deletion of an organization, over `StimulusAssets`, beside creations and publications of runs | `organizations.controller.ts`, `organization-deletion-reconciler.ts`, `20260730200000`, `20260730220000` |
| `OrganizationLife` | the abstract promise of the deletion: an organization is closed, then let go | what everyone but its owner may see |
| `RunPolling` | the shared poller of the web console and the cancellation of a view | `run-poller.ts`, `run-workspace.tsx` |
| `MCRunLifecycle`, `MCRunDispatch`, `MCCampaignLab`, `MCCampaignWorkers`, `MCRunAdmission`, `MCOrganizationDeletion`, `MCRunPolling` | small instances for TLC; one module may serve several configurations | |
| `RunLifecycleProofs` | type correctness, facts about rows, the inductive invariant | |
| `RunSafetyProofs` | the safety invariants, the action properties and the refinement of `RunStateMachine` | |
| `RunDispatchProofs` | the composition, its invariants, the limit on deliveries | |
| `CampaignLabProofs` | invariants and action properties of `CampaignLab` | |
| `CampaignWorkersProofs` | the workers over the lab: they use its functions, their invariants, the claims they need, and the refinement of `LabRunLife` | |
| `RunAdmissionProofs` | the safety properties of `RunAdmission` and the refinement of `RunCreation` | |
| `OrganizationDeletionProofs` | those of `OrganizationDeletion` and `StimulusAssets`, and the refinement of `OrganizationLife` | |
| `RunPollingProofs` | those of `RunPolling` | |

### RunLifecycle

A row of a table is a record. `runs[r]` is the row of `simulation_runs` with the columns
that decide anything: `state`, `attempt_count`, `dispatch_generation`, `lease_token`, and the
two deadlines `lease` (`lease_expires_at`) and `quiet` (how long until the run counts as
silent: `last_progress_at` plus 120 seconds). `attempts[r][n]` is attempt `n`,
`outbox[r][g]` the outbox row of generation `g`, `results[r]` the attempt that published (0
is none), `run_creation` the admission switch.

- *A stored function is one step.* Each is one transaction that locks the run's row and then
  the outbox row (or the organization's advisory lock first, in `create` and `claim`), so
  two of them on one run are serialized. Functions that take a batch treat each row by
  itself, with `skip locked`, and are one step per row.
- *Time* is a set of countdowns lowered together by `Tick`. Zero stands for a deadline that
  is past and for NULL: the functions treat them alike wherever they read a deadline of a
  row that is still open.
- *Tokens.* `gen_random_uuid()` is drawn exactly where a counter is advanced, so the lease
  token is the attempt number and the claim token the dispatch count. A caller may present
  any token that was ever drawn: that is how a late worker or dispatcher is modelled.
- *Callers are free.* Nothing orders the calls. What is proved of `RunLifecycle` holds for
  every schedule of the processes above.
- A function that finds nothing to do is a stuttering step and has no action.

### RunDispatch

`carried[d]` is the row a dispatcher has in hand and how far it is with it, `jobs[r][g]` the
BullMQ job, `deliveries[w]` the delivery of a worker slot. Each action is one call to the
database or to Redis, so a crash, an expiry, a sweep or another process fits between any
two. A dispatcher claims a batch in the code and carries it row by row; in the model it
takes the rows one at a time, which gives it no more and no less time on its claim than the
bound in ticks. Faults come from a budget, `MaxFaults`: an add that throws (before Redis saw
it, after, or still under way), a proof or settlement that throws, a handler that throws, a
crash of a dispatcher or of a worker, a lost job, a lock that a slow worker fails to renew.
The operator's actions (`set_run_creation_control`, forced recovery) stay in `RunLifecycle`;
every safety theorem about the tables covers them there.

### CampaignLab

`runs[r]` is the row of `campaign_lab_runs`, `secrets[r]` says whether its secret input is
there, `campaigns[c]` is status and version of the campaign. As in `RunLifecycle` a stored
function is one step, deadlines are countdowns, and callers are free: a worker may present
any token that was ever drawn. A token is named by the claim that drew it, the
`attempt_count` it left behind. The functions that define the state are those of the last
migration that replaces each: creation in `20260824010000`, cancellation and edits in
`20260815100000`, completion in `20260807100937`, retention in `20260803020312`, the bound of
admission in `20260905104327`, the rest in `20260802060315`. Creation counts the unfinished
runs under the trigger's advisory lock, so it is one step too. `"deleted"` is a row that
retention removed, with its secret, by cascade.

### CampaignWorkers

`workers[w]` is the claim a worker has and the call it makes next: three progress reports
(`validating`, `starting`, `persisting`) around the evaluation, then the completion, or the
failure, or the finalization of a cancellation. `live` is the set of runs whose request
names a paid provider, `charged[r]` counts the evaluations that called it. Each call of the
database is a step of its own. Faults come from `MaxFaults`: a call that throws before or
after its effect, a worker that dies, and a tick that lets the lease of a working worker run
out. The last is counted because the heartbeat renews a lease of five minutes every minute,
so a miss needs something to go wrong. A thrown
call goes where the code sends it: a heartbeat's is a lost lease, a failure report's is
swallowed, any other is reported as a failure that may be retried.

`LabRunLife` has no leases, tokens, workers or clocks: a run waits, is worked on and is settled
once; it is begun at most ten times and given back below five; once a cancellation is
accepted it is not begun again; its result is that of the last time it was begun; and a paid
provider is called for it once, while it is worked on for the first time. The mapping takes
the status, the claim count and the result from the row. Heartbeats, progress, faults and the
passing of time are not seen; a claim that takes a run over from a lost worker is seen as
one more beginning.

### RunAdmission

`handlers[h]` is the next step of a request and its key. A request first looks for an answer
given before, then passes the limiter, which keeps one marker per key (`markers`, and in
`owners` the requests it counts), then calls `create_simulation_run_atomic`, then tells the
limiter. The stored function takes its locks one after the other, the project's row, the
organization's advisory lock, the lock of all admissions in the backpressure trigger, and
each is a step that does what follows up to the next lock. A lock is held to the end of the
transaction, so who holds it follows from the stages and there is no variable for it. A
transaction sees only what is committed: `runs` changes at the commit. The claims of
dispatchers and workers share the lock of the transport, and the operator's switch takes the
admissions' lock and then the transport's. `Abandon` is a request whose acknowledgement of
the limiter fails, or whose process dies; its mark stays with the marker as `"lost"`, since no
later request has its token. Refusals of the limiter and of the pressure may come at any time.

`RunCreation` has no locks, markers or transactions: a call is made, takes effect in one step
(the run is created, found, or the call fails) and returns. Under the mapping a handler's
call is open until its next step is to tell the limiter, and the transport a run was admitted
under is not seen before the run is committed. That commit and its answer are two things even
there: whoever is told of a failure may have the run, and finds it by asking again.

### StimulusAssets and OrganizationDeletion

`assets[a]` is the row's status, `objects[a]` what the store has under its name, `handlers[h]`
the next call of a request. Each call of the database or the store is a step. A name belongs
to one asset and only bytes with the reserved checksum are put under it, so only presence
matters; an object that arrives when nobody expects it any more is `"late"`. `OrganizationDeletion`
extends that module: `runs[r]` follows a creation through its transaction, `jobs[r]` is what
Redis has of the run, `resources` the ledger of the deletion with its claims, `owners` and
`reconcilers` the two kinds of processes that clean. Where the order of locks decides, it is
there: a creation shares the organization's row from its idempotency record on, and the
owner's request and the cascade need that row alone. A removal may throw before or after it
took effect, an answer may be lost, a claim may lapse under its holder, a process may stop.

`OrganizationLife` is the same seen from outside: work begins and things are kept only while
the organization is active, it is disabled only with no run at work, and gone only with
nothing kept. The mapping takes the live runs for the work, and what is stored or queued for
what is kept.

### RunPolling

`pollers[p]` has the listeners, the snapshot, the timers and the requests of one
`SharedRunPoller`; `registered` is the one the registry has. A callback runs to its end and
is one step. Numbers of timers and requests are counted where the code has a single field, so
that a second loop would be seen. A request's answer is read at the server in one step and
processed in another.

## 3. Runs

| run | question | bounds | result |
|---|---|---|---|
| `run_lifecycle` | do the rows agree, is authority exclusive, does the promise of ADR-0006 hold, do cancellations and runs end | one run, 3 attempts, 3 generations, 3 dispatch claims, one slot, fair | pass |
| `dispatch_delivery` | is a confirmed row a published one, one worker per attempt, are replaced deliveries inert | one run, two dispatchers, two workers, two faults | pass |
| `dispatch_tries` | do deferrals leave enough deliveries, does the slot hold one execution | two runs for one slot, one fault | pass |
| `dispatch_ends` | does every run end, whatever breaks | one run, one fault, fair | pass |
| `campaign_lab` | are outcomes final, secrets kept as long as needed, is the bound kept | two runs for one admission, 3 claims, 2 retries | pass |
| `campaign_workers` | one worker per claim, no evaluation without its lease, no claim beyond retries and faults, does each step keep to the life of a run, with one paid call; does every run end or get canceled | one run, two workers, two faults, 4 claims, 2 retries, fair | pass |
| `lab_finalized` | is every cancellation finalized | one run, one worker, no fault, fair | violation |
| `run_admission` | does each request look like one step, one run per key, quotas, one charge, no work under the wrong transport; is every request answered | two requests, two keys in two projects, one claim, one unfinished and two retained runs, fair | pass |
| `run_polling` | one loop, who watches is served, what is shown never goes back; is the end shown | two views, two pollers, two versions, fair | pass |
| `assets_and_deletion` | has an available asset its object, a profile its asset; what is left behind, is the organization closed and let go in order | one asset, one run, two requests, one owner, two reconcilers, one claim of a row | pass |
| `organization_deletion` | are claims kept apart; does the deletion end | one reserved asset, one run, one owner, two reconcilers, two claims of a row, fair | pass |
| `deletion_ready` | is a request whose ledger is complete finalized | one asset, one request, one reconciler, fair | violation |

*Why these bounds are enough to be worth something.* The functions on the run tables touch
one run each, except for the capacity and quota counts, so one run shows every interleaving
on its rows, and `dispatch_tries` uses more runs than slots. Three attempts and three
generations are the code's own numbers. Ten dispatch claims become three: a first, a middle
and a last one. Leases of two ticks, silence of three and a claim of one keep the order of
the real 30, 120 and 15 seconds and leave a moment in which the lease is neither fresh nor
over. In `RunDispatch` two workers are what it takes to deliver one job twice, and two
faults to lose a job and then an answer. The counters of tries keep the code's relation:
`MaxTries` is `CapacityTries + MaxAttempts`, 13 + 3 = 16 there. In the lab the cap on
retries stays below the cap on claims, as 5 below 10, so that a run can be lost after its
last retry and claimed again; two runs for one admission are what it takes to exceed the
bound, and two workers what it takes to work on one run at once. In `RunAdmission` two keys
in two projects share the organization's lock and not the project's, a quota of one is
exceeded by two, and two requests with one key make a repetition. In `OrganizationDeletion`
two reconcilers take a claim over from each other, two claims per row let a cleanup be
repeated and be the last, and with one asset and one run each kind of resource is there. The
two do not fit into one instance: `assets_and_deletion` has the requests for the asset and one
claim per row, which no process then takes over, and `organization_deletion` has the second
claim and an asset that is reserved and never uploaded. The proofs have both, for any number of requests and claims. The
organization's cache entry (`Caches`) is left empty, as a row of the ledger that no other
step touches. In `RunPolling` two pollers are the dropped one and its successor, and two
versions an old and a final one. The proofs of section 5 take over where an instance stops.

*Types* are not among the runs' properties, as TLAPS proves them for every value of the
constants; and an invariant that a refinement or a stronger property of the same run implies
(`FinishedIsFinal` and `CancelWins` follow from `KeepsPromise`, `OneRunPerKey` from
`AdmissionIsAtomic`, `ProviderChargedOnce` from `LabRunsKeepOrder`,
`NoRunOutlivesItsOrganization` from `DeletionIsOrderly`) is proved and not run again.

*Every property can fail.* `PROJECT.json` lists, for each property of each passing run, a
mutant: a definition of the module replaced by one with a plausible fault (named
`<definition>_<fault>`, just before it), under which TLC finds the property violated.

### What the violations say

1. `lab_finalized`: a cancellation that commits after the worker's last progress report is
   seen by nobody: completion finds no running row, the worker answers `stale`, and no claim
   takes a run in `cancel_requested`. It stays there, and in the admission bound, until the
   user cancels again. The status document says that the worker finalizes cancellations.
2. `deletion_ready`: `stimulus_visual_profiles` refers to its organization without `ON DELETE
   CASCADE`, and only the retirement of an asset removes a profile. An organization with a
   profile is never deleted: `finalize_ready_organization_deletions` meets the foreign key and
   is rolled back with its whole batch at every pass, and so is the owner's confirmation.

Neither breaks a property of the passing runs. More differences between a document, a comment
or a name and the code were met while modelling; they have no run of their own:

- A delivery that stalls before it claims uses one of the deliveries that are documented as
  preserved for the execution attempts (`main.py:1262`, `RESOURCE_LIMITS.md:65`). Hence the
  faults in `TriesSuffice`: each may cost a run one delivery, and none costs more.
- A worker that notices a cancellation at its heartbeat stops without settling
  (`main.py:843`), where the ADR says it commits `canceled` (`ADR-0006:101`). The run keeps its
  slot until the lease runs out.
- The user's cancellation of a lab run that waits settles it and deletes no secret
  (`20260815100000:107`), though the privacy document says the worker does; retention deletes
  it with the run. Nor does it touch the campaign, which stays `running` and refuses edits
  until another run of it ends.
- A second cancellation of a lab run, with a new key, settles it under a lease that is still
  held (`20260815100000:106`); the comment in the admission trigger says such work is counted.
- The owner's confirmation deletes the organization whatever the ledger says
  (`20260730200000:426`), where the architecture document wants every row complete.
- An upload that arrives after its object was cleaned stays when the organization is gone
  (`AUTHORIZATION_MATRIX.md:111`): hence "late" in `OnlyLateArrivalsRemain`.
- A row whose tenth cleanup fails is claimed by nobody and keeps every reconciler from
  finalizing (`20260730220000:366`): hence the exception in `EveryDeletionEnds`. The owner can
  still finish.
- `claim_run_execution` refuses a run that is not waiting before it looks at its lease, so
  `busy`, which the ADR names as the answer to an active lease, is never given; the answer is
  `no_work` (`20260718010000:1074`).
- When the tenth dispatch fails, `fail_run_dispatch` leaves a run in `cancel_requested` to the
  next sweep, where the ADR says it becomes `canceled` there (`20260718010000:959`).

## 4. Fairness

`FairSpec` assumes that time passes and that the dispatcher's three sweeps (cancellations,
poison, silence) come round for every run: `dispatcher-service.ts` calls the pass in an
endless loop that sleeps a second and survives errors, and the reconciliation every thirty
seconds. `FairDispatchSpec` assumes the same and that an evaluation ends once begun, because
`isolated_evaluation.py` kills the evaluating process at its deadline. Nothing is assumed
about clients, publication, deliveries or workers being alive, and no strong fairness is
used. `RunSettles` therefore excepts a worker that renews a lease for ever; `EveryRunEnds`
needs no such exception.

`FairWorkSpec` assumes that time passes, that each worker of the lab keeps polling and making
its next call (`campaign_lab_loop` survives errors and waits at most five seconds), and that an
evaluation ends, by the same deadline of `isolated_evaluation.py`. Heartbeats, users and
faults are not fair. `RunsAreWorkedOff` holds because claims outnumber retries and faults
together: at the cap on claims a run that is lost once more is claimed by nobody. That no run
gets there with fewer faults is `ClaimsSuffice`, which is proved.

`FairAdmissionSpec` assumes strong fairness of a request's next step and of the switch's: the
queues of PostgreSQL's locks are first in, first out, so who waits for a lock that is free
again and again gets it, and a statement or lock that waits too long is cancelled by its
timeout, which is an answer too. A claim's transaction ends (weak). `FairDeletionSpec` assumes
that some dispatcher goes on with its pass, a creation's transaction ends, and claims run out;
nothing is assumed of the owner, of uploads or of any single reconciler. `FairPollingSpec`
assumes that requests are answered (`lib/api.ts:393` aborts them after 30 seconds), timers
fire and time goes by; nobody need refresh, cancel or stay.

## 5. What is proved

*The run tables and their processes.* Assumptions: `RunsAssumption` (finitely many runs, each of an organization),
`CapsAssumption`, `TimersAssumption` (caps and timers are positive) and, for `RunDispatch`,
`TriesAssumption`. No other bound appears: the theorems hold for any number of runs,
organizations, dispatchers, workers and faults.

- *Typing* (`TypeOK`) is inductive by itself: caps are kept by the guards of claim and
  recovery alone.
- *Agreeing* (`Agreement`) is the inductive invariant, a statement about the four rows of
  one run. The properties of section 3 are not inductive: that at most one attempt is
  running is kept by `claim_run_execution` only because a waiting run has no lease token,
  and this only because every function that leaves `running` clears the token together with
  its attempt, and recovery closes an attempt only if the attempt's own deadline, a second
  copy of the run's, has passed as well. `Agreement` ties the two copies, the counts and the
  states together. It speaks of rows, so that a step of one run leaves the others alone for
  free, and each function has a lemma of its own on rows.
- *Authority, Leased, SingleDispatch, Proceeding, Witnessed, Quiet* follow from it as
  invariants; *Finality, Cancellation, Sparing, Powerless, Poison* as action properties.
- *Capacity* needs no agreement: only a claim adds to the occupants of an organization, it
  adds one and counts them first, under the organization's lock.
- *Keeping* (`KeepsPromise`): initial states map to initial states and each function to a
  step of `RunStateMachine` or a stutter. `Tick` may end several executions at once, which the
  abstract `Lapse` allows.
- *Composition*: every step of `RunDispatch` is a step of `RunLifecycle` or leaves the tables
  alone, so every theorem above holds of the whole system. *Published, SeparateAttempts,
  CurrentAuthority, Inert* are about the processes and come from `PublicationAgrees` and
  `DeliveriesAgree`: an attempt number is handed to one delivery, once, and a job that was
  proved present was added before.
- *EnoughTries* (`TriesSuffice`): a job's counter of deliveries is bounded by its `Allowance`,
  the deliveries that may be deferred for want of capacity, one for each attempt the run has
  begun and one for each fault so far (`TriesAgree`). A deferral happens only below its
  limit, a return for a retry has an attempt behind it, and a job stalls either by a fault or
  because its worker is gone, which was one. A run that can still be claimed has an attempt
  left, so the delivery that would be refused needs a fault for every one beyond `MaxTries`.
  It rests on `AwaitTries <= CapacityTries` in `TriesAssumption`, which the code's numbers
  satisfy.

*The Campaign Lab* (`CampaignLabProofs`), from `ClaimsAssumption`, `BoundsAssumption`,
`DelaysAssumption` and, for the bound of admission alone, `RunsAssumption` (finitely many
identifiers):

- *LabInvariant*: `LabInv` says of each row by itself how status, token, claim count, result
  and secret agree. The listed properties are not inductive: that a result is the last
  claim's rests on the token being the last claim's, and this on every function that leaves
  `running` clearing it, except the user's cancellation, which leaves it and is harmless
  because no function accepts a token under `canceled`. *LabTypes, LeaseLatest,
  ResultWitnessed, SecretServes, WaitingClaimable* follow.
- *SettledFinal, CanceledBarren, LiveLeaseExclusive*: every step moves a row by one of a
  few moves between statuses, or leaves it alone; the three properties are read off those.
- *AdmissionHolds*: creation counts before it adds one, and every other step keeps the set
  of unfinished runs or makes it smaller.

*The workers of the lab* (`CampaignWorkersProofs`), from those and `FaultsAssumption`:

- *WorkersUseTheFunctions*: every step of a worker, faults included, is a step of
  `CampaignLab` or leaves its tables alone, so `CampaignLabProofs` speaks of the whole.
- *WorkInvariant*: `WorkInv` adds to `LabInv` that a worker's token is no newer than the
  claims of its run, which makes the next claim's token one that nobody holds, and that only
  a run that was claimed has been charged for, which makes every later claim refuse. From
  it *ClaimsHaveOneWorker, EvaluatorsHoldLeases, ProvidersChargedOnce*. Steps are sorted by
  what they do to a claim: leave it, draw it, or release it.
- *ClaimsAreEnough* (`ClaimsSuffice`): a run that is running with no lease left has been
  claimed fewer times than there are retries and faults so far. This is not inductive: the
  fault comes first and the lease runs out later. `ClaimsInv` follows what is between. A run
  whose claim count has reached retries plus faults has a worker under its token and a lease
  that lasts; that worker lets it go only by a fault or by settling it, and one that turned to
  a cancellation nobody asked for has met a fault before. A waiting run is below the cap on
  retries, so a claim leads at most to the bound. The steps are of three kinds: a fault
  raises the bound for every run, an ordinary step brings no run closer to it, a claim goes
  from below the bound to it at most.
- *LabRunsAreOrderly* (`LabRunsKeepOrder`): every step is one of `LabRunLife` or is not seen.
  `StepHappens` gives every step of the tables as what it does to one row; the completion
  publishes the token, which by `LabInv` is the claim count. The only other thing seen is the
  charge: it comes under an accepted token, so the run is at work, and for a token of 1, so by
  `LabInv` it was claimed once and by `WorkInv` nobody has been charged. Creation starts the
  count at zero only because a row that was never created has none (`Fresh`).

*Admission* (`RunAdmissionProofs`), from `ProjectsAssumption`, `QuotasAssumption` and
`LostAssumption`, for any number of keys and requests:

- `AdmissionInv` begins with `LocksOK`, who excludes whom at which stage. On it rest
  `RecordsOK` (a request past the project's lock found no run of its key), `QuotasOK` (one
  that holds the organization's lock and passed the count still has room), `TransportOK` (one
  that passed the trigger holds the lock the switch needs, and a switch that has both locks
  has no claim beside it). From these *KeysCreateOnce, QuotasAreKept, TransportIsKept*, and
  *MarkersAreKept* by itself.
- *AdmissionLooksAtomic* (`AdmissionIsAtomic`): every step of `RunAdmission` is one of
  `RunCreation` or leaves everything seen as it was. Of the steps of a request only the one that
  decides its answer, and its return, are seen: the lookup under the project's lock is
  `Find`, the commit is `Create`, within the quotas by `QuotasOK` and for the transport in use
  by `TransportOK`; what a transaction writes before its commit is not seen. A claim is
  `Claim` because its run has the active transport.

*Deletion and assets* (`OrganizationDeletionProofs`), from `CleanupsAssumption` and
`KeysAssumption`:

- `SagaOK`: the order of the deletion. The organization is active until its deletion is
  requested, the ledger is empty till then, the one handler that decides holds the row
  against every creation, and no run is inserted or live afterwards. It gives *RunsEndFirst*
  and *ClaimsAreLeftAlone*.
- `AssetsOK`: who may still remove an object that a row offers. A deletion that is past its
  request has found the row retired, an upload that is past its last look has its object
  unless the row was retired; *ObjectsAreThere, ProfilesAreCurrent*.
- `LedgerOK`: everything that is stored is in the ledger of a pending deletion, and a row that
  is complete, or that a process has cleaned, has nothing stored: *NothingElseRemains*.
- *DeletionKeepsOrder* (`DeletionIsOrderly`): every step is one of `OrganizationLife` or is not
  seen. A commit of a run finds the organization active by `SagaOK`, an object or job that
  arrives later is late and not kept, and the cascade, whoever runs it, finds nothing kept by
  `LedgerOK`.

*The console of a run* (`RunPollingProofs`), from `VersionAssumption` and `RegistryAssumption`,
for any number of views, pollers and versions:

- *PollingInvariant*: `PollingInv` says of each poller by itself that it has a timer or a
  request and not both, none without listeners but a last request, one or a reason with them,
  and that no answer under way is older than what it will replace; of the registry that its
  poller is the one with listeners; and of each view that its cancellation is newer than what
  it knows. That only one poller has listeners is what makes a dropped poller harmless when
  its last answer comes. *LoopsAreSingle, WatchersAreServed* and, as an action property,
  *ShownGoesForward* follow.

Only model-checked: the liveness properties (`CancellationEnds`, `RunSettles`,
`EveryRunEnds`, `RunsAreWorkedOff`, `EveryRequestEnds`, `EveryDeletionEnds`, `EndIsShown`), which
need fairness and ENABLED. Every invariant, action property and refinement of a passing run is
proved.

## 6. What is left out

The details of a result's contract (a result that fails it raises and changes nothing);
audit events; the order in which a batch is taken; lock waits and lock timeouts (a
transaction that times out changes nothing); the columns of `run_creation` that say why it is
off; readiness, shutdown and telemetry of the processes; the
ARQ transport. Of the Campaign Lab: the idempotency record, artifacts and their secrets,
survey forms, the review of reports, the columns that only describe progress, and the order
in which due runs are claimed. Of admission: the buckets of tokens, the body of a request and
the check that a repetition has the same body, the day after which a marker expires, other
organizations, which share only the lock of all admissions. Of the deletion: the delay of a
retry, the batch of a pass, the keys of the cache, the deletion of projects and accounts. Of
the assets: listing, download, retention, the assets of campaigns. Of the console: the length
of a sleep, the fetching of a finished run's results, everything else it shows. The other parts are listed in `PROJECT.json` with the reason.

## 7. Plan

1. `RunStateMachine`, `RunLifecycle`, `RunDispatch` with their proofs: done.
2. `CampaignLab`, `CampaignWorkers` with their proofs: done.
3. `StimulusAssets`, `OrganizationDeletion` with their proofs: done.
4. `RunAdmission`, the transport's fence included, with its proofs: done.
5. `RunPolling` with its proofs: done.
6. `OrganizationLife` and `RunCreation`, the abstract specifications that the deletion and the
   admission implement, with the proofs of it: done.
7. `LabRunLife`, which `CampaignWorkers` implements, and the count of claims against faults,
   with the proofs of both: done.

Not planned: the numeric parts of `simula_core` and `methodology` (deterministic, and about
real numbers), the contracts (generated), the forms and tables of the consoles (presentation),
row level security (who may call). They are most of the repository's lines.
