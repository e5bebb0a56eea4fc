------------------------ MODULE OrganizationDeletion ------------------------
(***************************************************************************)
(* The deletion of an organization: its owner's request disables it and    *)
(* writes a ledger with a row for every object, run and cache to be        *)
(* cleaned; the owner's handler and the reconcilers of the dispatchers     *)
(* clean, each on its own; and whoever finds the way free deletes the      *)
(* organization with everything that refers to it.  StimulusAssets goes on *)
(* below, and so do the creation of runs and the publication of their jobs. *)
(*                                                                         *)
(* The order of locks is modelled where it decides: a creation holds a key *)
(* share of the organization's row from its idempotency record to its      *)
(* commit, and the request and the cascade need that row alone.  A claim   *)
(* of a reconciler takes one row of the ledger: a batch is several of      *)
(* them.  A removal and the look that follows it are one step, because     *)
(* what arrives between them makes the step fail, as it may do anyway.     *)
(* The delay of a retry is left out, and so are the keys of the cache,     *)
(* which expire; its row of the ledger is one like the others.             *)
(***************************************************************************)
EXTENDS StimulusAssets

CONSTANTS
  Caches,       \* the organization's keys in Redis, as one thing
  Runs,         \* runs of the organization
  Owners,       \* handlers of the owner's request
  Reconcilers,  \* dispatchers
  MaxCleanups   \* claims of one ledger row (10 in the code)

ASSUME CleanupsAssumption == MaxCleanups \in Nat \ {0}

VARIABLES
  runs,        \* "none", "keyed", "inserted", "refused", "live" or "ended"
  jobs,        \* jobs[r]: "absent", "queued" or "late"
  deletion,    \* the request: "none", "pending" or "completed"
  resources,   \* the ledger
  locked,      \* the owner's handler that has the organization's row, or "nobody"
  owners,      \* what each handler does, and what it has still to clean
  reconcilers  \* what each reconciler does, and under which claim

runVars == <<runs, jobs>>
sagaVars == <<deletion, resources, locked, owners, reconcilers>>
deletionVars == <<assetVars, runVars, sagaVars>>

Keys == Caches \cup Runs \cup Assets

ASSUME KeysAssumption ==
  /\ Runs \cap Assets = {} /\ Caches \cap (Runs \cup Assets) = {}
  /\ "nobody" \notin Owners

ResourceRows ==
  [status : {"none", "pending", "completed"}, count : 0..MaxCleanups,
   claim : {"none", "live", "lapsed"}]
NoResource == [status |-> "none", count |-> 0, claim |-> "none"]

OwnerRows ==
  [stage : {"idle", "lock", "decide", "clean"}, todo : SUBSET Keys]
ReconcilerRows ==
  {Idle} \cup [stage : {"clean", "complete", "release"},
               key : Keys, token : 1..MaxCleanups]
Resting == [stage |-> "idle", todo |-> {}]

DeletionTypeOK ==
  /\ AssetTypeOK
  /\ runs \in [Runs -> {"none", "keyed", "inserted", "refused", "live", "ended"}]
  /\ jobs \in [Runs -> {"absent", "queued", "late"}]
  /\ deletion \in {"none", "pending", "completed"}
  /\ resources \in [Keys -> ResourceRows]
  /\ locked \in Owners \cup {"nobody"}
  /\ owners \in [Owners -> OwnerRows]
  /\ reconcilers \in [Reconcilers -> ReconcilerRows]

DeletionInit ==
  /\ AssetInit
  /\ runs = [r \in Runs |-> "none"]
  /\ jobs = [r \in Runs |-> "absent"]
  /\ deletion = "none"
  /\ resources = [k \in Keys |-> NoResource]
  /\ locked = "nobody"
  /\ owners = [o \in Owners |-> Resting]
  /\ reconcilers = [d \in Reconcilers |-> Idle]

-----------------------------------------------------------------------------
(* Runs: a creation, an end, and publications. *)

RunMoves(r, from, to) ==
  /\ runs[r] = from
  /\ runs' = [runs EXCEPT ![r] = to]
  /\ UNCHANGED <<assetVars, jobs, sagaVars>>

\* The caller's role was checked before, in an organization that was active then.  The
\* idempotency record refers to the organization, whose row is shared from here on.
InsertKey(r) ==
  /\ organization # "gone"
  /\ locked = "nobody"
  /\ RunMoves(r, "none", "keyed")

\* Fault: the policy does not look at the organization again.
Admissible_Unchecked == TRUE

\* The policy on the insertion checks the role again.
Admissible == organization = "active"

InsertRun(r) == RunMoves(r, "keyed", IF Admissible THEN "inserted" ELSE "refused")

\* Nobody else sees the run before the commit.
CommitRun(r) == RunMoves(r, "inserted", "live")

\* The creation fails or its process dies.
RollBack(r) == \E from \in {"keyed", "inserted"} : RunMoves(r, from, "refused")

EndRun(r) == RunMoves(r, "live", "ended")

\* A dispatcher that took a row of the run's outbox while the run was live adds its job,
\* however late.
PublishJob(r) ==
  /\ runs[r] \in {"live", "ended"}
  /\ jobs' = [jobs EXCEPT ![r] = IF organization = "active" THEN "queued" ELSE "late"]
  /\ UNCHANGED <<assetVars, runs, sagaVars>>

RunStep(r) ==
  InsertKey(r) \/ InsertRun(r) \/ CommitRun(r) \/ RollBack(r) \/ EndRun(r) \/ PublishJob(r)

-----------------------------------------------------------------------------
(* What is outside the database, and the cascade inside it. *)

Remove(k) ==
  /\ objects' = [a \in Assets |-> IF a = k THEN "absent" ELSE objects[a]]
  /\ jobs' = [r \in Runs |-> IF r = k THEN "absent" ELSE jobs[r]]

Unfinished == \E r \in Runs : runs[r] = "live"
Unshared   == \A r \in Runs : runs[r] \notin {"keyed", "inserted"}

\* A visual profile refers to its organization without ON DELETE CASCADE, and the
\* deletion fails while there is one.
Deletable == deletion = "pending" /\ ~Unfinished /\ profiles = {}

\* The rows of runs stay here, for the dispatchers that still carry one.
Cascade ==
  /\ organization' = "gone"
  /\ assets' = [a \in Assets |-> "none"]
  /\ deletion' = "completed"
  /\ resources' = [k \in Keys |-> NoResource]

Untouched == UNCHANGED <<organization, assets, deletion, resources>>

-----------------------------------------------------------------------------
(* The owner's handler. *)

OwnerAt(o, stage) == owners[o].stage = stage
OwnerTurns(o, stage, todo) ==
  owners' = [owners EXCEPT ![o] = [stage |-> stage, todo |-> todo]]
Ledger == {k \in Keys : resources[k].status # "none"}

\* A pending request is taken up again with its manifest; a completed one has nothing
\* left to do.
Look(o) ==
  /\ OwnerAt(o, "idle")
  /\ \/ deletion = "none" /\ OwnerTurns(o, "lock", {})
     \/ deletion = "pending" /\ OwnerTurns(o, "clean", Ledger)
  /\ UNCHANGED <<assetVars, runVars, deletion, resources, locked, reconcilers>>

Free == locked = "nobody" /\ Unshared

LockOrganization(o) ==
  /\ OwnerAt(o, "lock")
  /\ Free
  /\ locked' = o
  /\ OwnerTurns(o, "decide", {})
  /\ UNCHANGED <<assetVars, runVars, deletion, resources, reconcilers>>

Manifest ==
  Caches \cup {r \in Runs : runs[r] = "ended"}
         \cup {a \in Assets : assets[a] \notin {"none", "deleted"}}

\* One transaction from the lock to the commit: no run may be unfinished.
DisableOrganization(o) ==
  /\ OwnerAt(o, "decide")
  /\ IF organization = "active" /\ ~Unfinished
       THEN /\ organization' = "disabled"
            /\ deletion' = "pending"
            /\ resources' = [k \in Keys |-> IF k \in Manifest
                 THEN [NoResource EXCEPT !.status = "pending"] ELSE NoResource]
            /\ OwnerTurns(o, "clean", Manifest)
       ELSE OwnerTurns(o, "idle", {}) /\ UNCHANGED <<organization, deletion, resources>>
  /\ locked' = "nobody"
  /\ UNCHANGED <<assets, profiles, objects, handlers, runVars, reconcilers>>

\* The handler goes through objects, runs and cache, whatever the ledger says of them.
Cleaned(todo) ==
  IF todo \cap Assets # {} THEN todo \cap Assets
  ELSE IF todo \cap Runs # {} THEN todo \cap Runs ELSE todo

OwnerCleans(o) ==
  /\ OwnerAt(o, "clean")
  /\ \E k \in Cleaned(owners[o].todo) :
       /\ Remove(k)
       /\ OwnerTurns(o, "clean", owners[o].todo \ {k})
  /\ UNCHANGED <<organization, assets, profiles, handlers, runs, deletion,
                 resources, locked, reconcilers>>

ConfirmOrganizationDeletion(o) ==
  /\ OwnerAt(o, "clean") /\ owners[o].todo = {}
  /\ IF Deletable THEN Unshared /\ Cascade ELSE Untouched
  /\ OwnerTurns(o, "idle", {})
  /\ UNCHANGED <<profiles, objects, handlers, runs, jobs, locked, reconcilers>>

\* A call throws, something still remains, or the process dies.
OwnerGivesUp(o) ==
  /\ ~OwnerAt(o, "idle")
  /\ OwnerTurns(o, "idle", {})
  /\ locked' = IF locked = o THEN "nobody" ELSE locked
  /\ UNCHANGED <<assetVars, runVars, deletion, resources, reconcilers>>

OwnerStep(o) ==
  \/ Look(o) \/ LockOrganization(o) \/ DisableOrganization(o)
  \/ OwnerCleans(o) \/ ConfirmOrganizationDeletion(o)
  \/ OwnerGivesUp(o)

-----------------------------------------------------------------------------
(* A reconciler's claim, and its call of finalize_ready. *)

Enters(d, stage) == reconcilers' = [reconcilers EXCEPT ![d].stage = stage]
Rests(d)         == reconcilers' = [reconcilers EXCEPT ![d] = Idle]
ReconcilerAt(d, stage) == reconcilers[d] # Idle /\ reconcilers[d].stage = stage

\* Fault: a claim that was lost is not taken over.
Claimable_NeverLost(k) ==
  /\ resources[k].status = "pending"
  /\ resources[k].count < MaxCleanups
  /\ resources[k].claim = "none"

Claimable(k) ==
  /\ resources[k].status = "pending"
  /\ resources[k].count < MaxCleanups
  /\ resources[k].claim # "live"

ClaimResource(d, k) ==
  /\ reconcilers[d] = Idle
  /\ deletion = "pending" /\ organization = "disabled"
  /\ Claimable(k)
  /\ resources' = [resources EXCEPT ![k].count = @ + 1, ![k].claim = "live"]
  /\ reconcilers' = [reconcilers EXCEPT ![d] =
       [stage |-> "clean", key |-> k, token |-> resources[k].count + 1]]
  /\ UNCHANGED <<assetVars, runVars, deletion, locked, owners>>

Cleanup(d) ==
  /\ ReconcilerAt(d, "clean")
  /\ Remove(reconcilers[d].key)
  /\ Enters(d, "complete")
  /\ UNCHANGED <<organization, assets, profiles, handlers, runs, deletion,
                 resources, locked, owners>>

\* The store or the queue throws, before or after it obeyed, or something still remains.
CleanupThrows(d) ==
  /\ ReconcilerAt(d, "clean")
  /\ Remove(reconcilers[d].key) \/ UNCHANGED <<objects, jobs>>
  /\ Enters(d, "release")
  /\ UNCHANGED <<organization, assets, profiles, handlers, runs, deletion,
                 resources, locked, owners>>

\* Fault: a claim is told by its row alone.
Holds_AnyToken(d) ==
  LET row == resources[reconcilers[d].key] IN row.status = "pending" /\ row.claim # "none"

\* The row still has the claim that this reconciler made.
Holds(d) ==
  LET row == resources[reconcilers[d].key] IN
  row.status = "pending" /\ row.claim # "none" /\ row.count = reconcilers[d].token

\* The claim may not have run out.
Completed(d) ==
  LET k == reconcilers[d].key IN
  resources' = IF Holds(d) /\ resources[k].claim = "live"
    THEN [resources EXCEPT ![k].status = "completed", ![k].claim = "none"] ELSE resources

CompleteResource(d) ==
  /\ ReconcilerAt(d, "complete")
  /\ Completed(d)
  /\ Rests(d)
  /\ UNCHANGED <<assetVars, runVars, deletion, locked, owners>>

\* The answer is lost, and the handler takes it for a failure.
CompletionThrows(d) ==
  /\ ReconcilerAt(d, "complete")
  /\ Completed(d)
  /\ Enters(d, "release")
  /\ UNCHANGED <<assetVars, runVars, deletion, locked, owners>>

\* The claim may have run out.
ReleaseResource(d) ==
  LET k == reconcilers[d].key IN
  /\ ReconcilerAt(d, "release")
  /\ resources' = IF Holds(d)
       THEN [resources EXCEPT ![k].claim = "none"] ELSE resources
  /\ Rests(d)
  /\ UNCHANGED <<assetVars, runVars, deletion, locked, owners>>

\* Fault: the rows that nobody may claim any more are passed over.
Ready_SkipsExhausted ==
  \A k \in Ledger : resources[k].status = "completed" \/ resources[k].count = MaxCleanups

Ready == \A k \in Ledger : resources[k].status = "completed"

\* The last call of a pass, with or without a claim before it.
FinalizeReady(d) ==
  /\ reconcilers[d] = Idle
  /\ IF Deletable /\ Ready THEN Unshared /\ Cascade ELSE Untouched
  /\ UNCHANGED <<profiles, objects, handlers, runs, jobs, locked, owners, reconcilers>>

\* Its process dies; the claim stays until it runs out.
Stop(d) ==
  /\ reconcilers[d] # Idle
  /\ Rests(d)
  /\ UNCHANGED <<assetVars, runVars, deletion, resources, locked, owners>>

PassStep(d) ==
  \/ \E k \in Keys : ClaimResource(d, k)
  \/ Cleanup(d) \/ CompleteResource(d) \/ ReleaseResource(d)
  \/ FinalizeReady(d)

ReconcilerStep(d) == PassStep(d) \/ CleanupThrows(d) \/ CompletionThrows(d) \/ Stop(d)

\* A claim runs out after fifteen minutes.
Lapse(k) ==
  /\ resources[k].claim = "live"
  /\ resources' = [resources EXCEPT ![k].claim = "lapsed"]
  /\ UNCHANGED <<assetVars, runVars, deletion, locked, owners, reconcilers>>

-----------------------------------------------------------------------------

DeletionNext ==
  \/ AssetNext /\ UNCHANGED <<runVars, sagaVars>>
  \/ \E r \in Runs : RunStep(r)
  \/ \E o \in Owners : OwnerStep(o)
  \/ \E d \in Reconcilers : ReconcilerStep(d)
  \/ \E k \in Keys : Lapse(k)

\* Some dispatcher goes on with its pass, a transaction that shares the row ends, and
\* time passes.
DeletionFairness ==
  /\ WF_deletionVars(\E d \in Reconcilers : PassStep(d))
  /\ WF_deletionVars(\E r \in Runs : InsertRun(r) \/ CommitRun(r) \/ RollBack(r))
  /\ WF_deletionVars(\E k \in Keys : Lapse(k))

DeletionSpec == DeletionInit /\ [][DeletionNext]_deletionVars
FairDeletionSpec == DeletionSpec /\ DeletionFairness

-----------------------------------------------------------------------------
(* Properties. *)

\* No run is at work in an organization that was disabled, however creations and the
\* owner's request cross: the shared row and the second check of the role together
\* leave no creation that the request's own check missed.
NoRunOutlivesItsOrganization == organization # "active" => ~Unfinished

\* Whoever deletes the organization, after whatever failures and handovers: what is
\* left of its objects and jobs arrived after the store had been told to forget them.
OnlyLateArrivalsRemain ==
  organization = "gone" =>
    /\ \A a \in Assets : objects[a] # "stored"
    /\ \A r \in Runs : jobs[r] # "queued"

AtWork == {r \in Runs : runs[r] = "live"}
Held   == {a \in Assets : objects[a] = "stored"} \cup {r \in Runs : jobs[r] = "queued"}

Life == INSTANCE OrganizationLife WITH Things <- Keys, work <- AtWork, kept <- Held

\* Whatever the owner, the reconcilers, uploads and creations do in whatever order, the
\* organization is first closed, with no run at work, and then let go, with nothing left.
DeletionIsOrderly == Life!Spec

\* A claim that has not run out is given up by its holder or by the end of the whole
\* deletion, never by a reconciler that lost it.
LiveClaimIsLeftAlone == [][
  \A k \in Keys :
    resources[k].claim = "live" /\ resources'[k].claim = "none" /\ deletion' = "pending" =>
      \E d \in Reconcilers :
        /\ reconcilers[d] # Idle /\ reconcilers[d].key = k
        /\ reconcilers[d].token = resources[k].count]_deletionVars

\* A row whose last cleanup was begun and that is not completed.
Exhausted(k) == resources[k].status = "pending" /\ resources[k].count = MaxCleanups

\* Without the owner's help every deletion ends, unless a row has used up its cleanups or
\* a visual profile is in the way.
EveryDeletionEnds ==
  deletion = "pending" ~>
    deletion = "completed" \/ profiles # {} \/ \E k \in Keys : Exhausted(k)

\* A request whose rows are all complete is finalized
\* (brain/Architecture/AUTHORIZATION_MATRIX.md:79).
ReadyIsFinalized == deletion = "pending" /\ Ready ~> deletion = "completed"

=============================================================================
