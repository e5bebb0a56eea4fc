---------------------------- MODULE RunAdmission ----------------------------
(***************************************************************************)
(* How a request for a run becomes a run: the API's handler looks for an   *)
(* answer given before, passes the rate limiter in Redis, and calls the    *)
(* stored function, which serializes on its project, its organization and  *)
(* all admissions in turn.  Beside it, transactions of dispatchers and     *)
(* workers claim work under the active queue transport, and an operator    *)
(* pauses creation and switches the transport.                             *)
(*                                                                         *)
(* Every lock is held to the end of its transaction, so who has it follows *)
(* from the stage of each transaction.  A step takes a lock and does what  *)
(* follows up to the next lock.  The keys are those of one caller in one   *)
(* organization; the body of a request, the buckets of tokens (a refusal   *)
(* may come at any time) and the day a marker lasts are left out, and so   *)
(* is what happens to an admitted run but for its end.                     *)
(***************************************************************************)
EXTENDS Integers, FiniteSets

CONSTANTS
  Keys,          \* idempotency keys
  Projects,      \* projects of the organization
  ProjectOf,     \* the project a key is used in
  Handlers,      \* requests that are handled at one time
  Claimers,      \* transactions of dispatchers and workers
  MaxUnfinished, \* runs of the organization that are not finished (20 in the code)
  MaxRetained    \* runs of the organization (100 in the code)

ASSUME ProjectsAssumption == ProjectOf \in [Keys -> Projects]
ASSUME QuotasAssumption == MaxUnfinished \in Nat /\ MaxRetained \in Nat
ASSUME LostAssumption == "lost" \notin Handlers

VARIABLES
  handlers,  \* the next step of each request, and its key
  markers,   \* the limiter's marker of each key
  owners,    \* requests that are counted as the marker's participants
  runs,      \* the run of each key
  created,   \* runs that each key has created
  carrier,   \* the transport each run was admitted under
  enabled,   \* the run_creation switch
  transport, \* the active queue transport
  claimers,  \* the transport each claim is made for, or "none"
  switch     \* the operator's transaction that switches the transport

admissionVars ==
  <<handlers, markers, owners, runs, created, carrier, enabled, transport, claimers, switch>>

Transports == {"arq", "bullmq"}
Unfinished == {"queued", "claimed"}

Idle == [stage |-> "idle"]
Admitted == {"project", "quotas", "admission", "commit", "accept", "reject"}
HandlerRows == {Idle} \cup [stage : Admitted \cup {"limiter"}, key : Keys]

AdmissionTypeOK ==
  /\ handlers \in [Handlers -> HandlerRows]
  /\ markers \in [Keys -> {"none", "pending", "accepted"}]
  /\ owners \in [Keys -> SUBSET (Handlers \cup {"lost"})]
  /\ runs \in [Keys -> Unfinished \cup {"none", "ended"}]
  /\ created \in [Keys -> 0..1]
  /\ carrier \in [Keys -> Transports \cup {"none"}]
  /\ enabled \in BOOLEAN
  /\ transport \in Transports
  /\ claimers \in [Claimers -> Transports \cup {"none"}]
  /\ switch \in {"idle", "admission", "transport"}

AdmissionInit ==
  /\ handlers = [h \in Handlers |-> Idle]
  /\ markers = [k \in Keys |-> "none"]
  /\ owners = [k \in Keys |-> {}]
  /\ runs = [k \in Keys |-> "none"]
  /\ created = [k \in Keys |-> 0]
  /\ carrier = [k \in Keys |-> "none"]
  /\ enabled = TRUE
  /\ transport = "bullmq"
  /\ claimers = [c \in Claimers |-> "none"]
  /\ switch = "idle"

At(h, stage)       == handlers[h] # Idle /\ handlers[h].stage = stage
Key(h)             == handlers[h].key
Proceeds(h, stage) == handlers' = [handlers EXCEPT ![h].stage = stage]
Answers(h)         == handlers' = [handlers EXCEPT ![h] = Idle]

\* The request is gone, and no later one has its token: it is counted for as long as the
\* marker lasts.
Forgotten(h, k) ==
  owners' = [owners EXCEPT ![k] = IF h \in @ THEN (@ \ {h}) \cup {"lost"} ELSE @]

\* Of a transaction that does not commit nothing remains.
RollsBack(h) ==
  carrier' = IF At(h, "commit") THEN [carrier EXCEPT ![Key(h)] = "none"] ELSE carrier

-----------------------------------------------------------------------------
(* The handler of the request, and the limiter. *)

\* A run that is found is the answer, and changes nothing.
GetRunReplay(h, k) ==
  /\ handlers[h] = Idle
  /\ runs[k] = "none"
  /\ handlers' = [handlers EXCEPT ![h] = [stage |-> "limiter", key |-> k]]
  /\ UNCHANGED <<markers, owners, runs, created, carrier, enabled, transport, claimers, switch>>

\* A key without a marker is charged to the buckets of its user and its organization; a
\* key with a marker is not charged again.
RequireRunCreate(h) ==
  LET k == Key(h) IN
  /\ At(h, "limiter")
  /\ IF markers[k] = "accepted"
       THEN UNCHANGED <<markers, owners>>
       ELSE /\ markers' = [markers EXCEPT ![k] = "pending"]
            /\ owners' = [owners EXCEPT ![k] = @ \cup {h}]
  /\ Proceeds(h, "project")
  /\ UNCHANGED <<runs, created, carrier, enabled, transport, claimers, switch>>

\* The buckets are empty, or Redis does not answer.
LimiterRefuses(h) ==
  /\ At(h, "limiter")
  /\ Answers(h)
  /\ UNCHANGED <<markers, owners, runs, created, carrier, enabled, transport, claimers, switch>>

AcceptIdempotency(h) ==
  /\ At(h, "accept")
  /\ markers' = [markers EXCEPT ![Key(h)] = "accepted"]
  /\ owners' = [owners EXCEPT ![Key(h)] = {}]
  /\ Answers(h)
  /\ UNCHANGED <<runs, created, carrier, enabled, transport, claimers, switch>>

\* Fault: the first request that fails takes the marker away.
Remaining_Nobody(h) == {}

\* The requests that still take part when this one has left.
Remaining(h) == owners[Key(h)] \ {h}

RejectIdempotency(h) ==
  LET k == Key(h) IN
  /\ At(h, "reject")
  /\ IF markers[k] = "pending" /\ h \in owners[k]
       THEN /\ owners' = [owners EXCEPT ![k] = Remaining(h)]
            /\ markers' = [markers EXCEPT ![k] = IF Remaining(h) = {} THEN "none" ELSE @]
       ELSE UNCHANGED <<markers, owners>>
  /\ Answers(h)
  /\ UNCHANGED <<runs, created, carrier, enabled, transport, claimers, switch>>

\* What the limiter does not acknowledge is logged, and the request is answered.  A
\* process that dies leaves the same behind, and its transaction is rolled back.
Abandon(h) ==
  /\ handlers[h] # Idle
  /\ Forgotten(h, Key(h))
  /\ Answers(h)
  /\ RollsBack(h)
  /\ UNCHANGED <<markers, runs, created, enabled, transport, claimers, switch>>

-----------------------------------------------------------------------------
(* The stored function, in one transaction. *)

ProjectFree(h) ==
  \A g \in Handlers : \A stage \in {"quotas", "admission", "commit"} :
    At(g, stage) => ProjectOf[Key(g)] # ProjectOf[Key(h)]

\* Fault: the lookup of the handler, which found nothing, is trusted.
Recorded_AsLookedUp(h) == FALSE

\* The record and the run are committed together.
Recorded(h) == runs[Key(h)] # "none"

LockProject(h) ==
  /\ At(h, "project")
  /\ ProjectFree(h)
  /\ Proceeds(h, IF Recorded(h) THEN "accept" ELSE "quotas")
  /\ UNCHANGED <<markers, owners, runs, created, carrier, enabled, transport, claimers, switch>>

\* Fault: the quotas are counted without the lock.
OrganizationFree_Always(h) == TRUE
\* Fault: creations share the lock from their start and each waits to have it alone.
OrganizationFree_Raised(h) ==
  \A g \in Handlers \ {h} : \A stage \in {"quotas", "admission", "commit"} : ~At(g, stage)

OrganizationFree(h) ==
  \A g \in Handlers : ~At(g, "admission") /\ ~At(g, "commit")

UnfinishedRuns == {k \in Keys : runs[k] \in Unfinished}
RetainedRuns   == {k \in Keys : runs[k] # "none"}

LockOrganization(h) ==
  /\ At(h, "quotas")
  /\ OrganizationFree(h)
  /\ Proceeds(h, IF /\ Cardinality(UnfinishedRuns) < MaxUnfinished
                    /\ Cardinality(RetainedRuns) < MaxRetained
                   THEN "admission" ELSE "reject")
  /\ UNCHANGED <<markers, owners, runs, created, carrier, enabled, transport, claimers, switch>>

AdmissionFree ==
  /\ \A g \in Handlers : ~At(g, "commit")
  /\ switch = "idle"

\* The trigger on the insertion: the switch, the pressure that was reported last, and the
\* length and age of the backlog, of which the last three may refuse at any time.
LockAdmission(h) ==
  /\ At(h, "admission")
  /\ AdmissionFree
  /\ \/ enabled /\ Proceeds(h, "commit")
        /\ carrier' = [carrier EXCEPT ![Key(h)] = transport]
     \/ Proceeds(h, "reject") /\ UNCHANGED carrier
  /\ UNCHANGED <<markers, owners, runs, created, enabled, transport, claimers, switch>>

\* The answer may be lost, and the handler takes it for a failure.
CommitRun(h) ==
  LET k == Key(h) IN
  /\ At(h, "commit")
  /\ runs' = [runs EXCEPT ![k] = "queued"]
  /\ created' = [created EXCEPT ![k] = @ + 1]
  /\ Proceeds(h, "accept") \/ Proceeds(h, "reject")
  /\ UNCHANGED <<markers, owners, carrier, enabled, transport, claimers, switch>>

\* The function raises, or its connection is lost.
RollBack(h) ==
  /\ \E stage \in {"project", "quotas", "admission", "commit"} : At(h, stage)
  /\ Proceeds(h, "reject")
  /\ RollsBack(h)
  /\ UNCHANGED <<markers, owners, runs, created, enabled, transport, claimers, switch>>

-----------------------------------------------------------------------------
(* Claims, ends, and the operator. *)

\* A claim shares the lock of the transport.
RequireQueueTransport(c, t) ==
  /\ claimers[c] = "none"
  /\ switch # "transport"
  /\ transport = t
  /\ claimers' = [claimers EXCEPT ![c] = t]
  /\ UNCHANGED <<handlers, markers, owners, runs, created, carrier, enabled, transport, switch>>

\* The claim takes a run that waits, or finds none, or fails.
EndClaim(c) ==
  /\ claimers[c] # "none"
  /\ claimers' = [claimers EXCEPT ![c] = "none"]
  /\ \/ UNCHANGED runs
     \/ \E k \in Keys : runs[k] = "queued" /\ runs' = [runs EXCEPT ![k] = "claimed"]
  /\ UNCHANGED <<handlers, markers, owners, created, carrier, enabled, transport, switch>>

\* A run that is canceled, finished or given up; one that is retried waits again.
EndRun(k) ==
  /\ runs[k] \in Unfinished
  /\ \/ runs' = [runs EXCEPT ![k] = "ended"]
     \/ runs[k] = "claimed" /\ runs' = [runs EXCEPT ![k] = "queued"]
  /\ UNCHANGED <<handlers, markers, owners, created, carrier, enabled, transport, claimers, switch>>

\* By the operator, or by the dispatchers' checks, which only disable.
SetRunCreation ==
  /\ enabled' = ~enabled
  /\ UNCHANGED <<handlers, markers, owners, runs, created, carrier, transport, claimers, switch>>

\* Fault: the lock of the admissions is not taken.
SwitchWaits_ForNobody == switch = "idle"

SwitchWaits == switch = "idle" /\ AdmissionFree

SwitchLocksAdmission ==
  /\ SwitchWaits
  /\ switch' = "admission"
  /\ UNCHANGED <<handlers, markers, owners, runs, created, carrier, enabled, transport, claimers>>

TransportFree == \A c \in Claimers : claimers[c] = "none"

SwitchLocksTransport ==
  /\ switch = "admission"
  /\ TransportFree
  /\ switch' = "transport"
  /\ UNCHANGED <<handlers, markers, owners, runs, created, carrier, enabled, transport, claimers>>

Drained == UnfinishedRuns = {}

SetQueueTransport ==
  /\ switch = "transport"
  /\ transport' = IF ~enabled /\ Drained THEN CHOOSE t \in Transports : t # transport
                  ELSE transport
  /\ switch' = "idle"
  /\ UNCHANGED <<handlers, markers, owners, runs, created, carrier, enabled, claimers>>

\* The operator's connection is lost.
SwitchAborts ==
  /\ switch # "idle"
  /\ switch' = "idle"
  /\ UNCHANGED <<handlers, markers, owners, runs, created, carrier, enabled, transport, claimers>>

-----------------------------------------------------------------------------

HandlerStep(h) ==
  \/ RequireRunCreate(h) \/ LimiterRefuses(h)
  \/ LockProject(h) \/ LockOrganization(h) \/ LockAdmission(h) \/ CommitRun(h)
  \/ AcceptIdempotency(h) \/ RejectIdempotency(h)

SwitchStep == SwitchLocksTransport \/ SetQueueTransport

AdmissionNext ==
  \/ \E h \in Handlers : \E k \in Keys : GetRunReplay(h, k)
  \/ \E h \in Handlers : HandlerStep(h) \/ RollBack(h) \/ Abandon(h)
  \/ \E c \in Claimers : EndClaim(c) \/ \E t \in Transports : RequireQueueTransport(c, t)
  \/ \E k \in Keys : EndRun(k)
  \/ SetRunCreation
  \/ SwitchLocksAdmission \/ SwitchStep \/ SwitchAborts

AdmissionSpec == AdmissionInit /\ [][AdmissionNext]_admissionVars

\* Whoever waits for a lock gets it in turn, and a transaction that has its locks ends.
AdmissionFairness ==
  /\ \A h \in Handlers : SF_admissionVars(HandlerStep(h))
  /\ \A c \in Claimers : WF_admissionVars(EndClaim(c))
  /\ SF_admissionVars(SwitchStep)

FairAdmissionSpec == AdmissionSpec /\ AdmissionFairness

-----------------------------------------------------------------------------
(* Properties. *)

\* A request that is repeated, at the same time or after its answer was lost, finds the
\* run of the first: a key creates one run, and who is told of success has it
\* (create_simulation_run_atomic: the record under the lock of the project).
OneRunPerKey ==
  /\ \A k \in Keys : created[k] <= 1
  /\ \A h \in Handlers : At(h, "accept") => created[Key(h)] = 1

\* Creations in several projects at once do not exceed the quotas of their organization,
\* though none sees the run of another before it is committed.
QuotasHold ==
  /\ Cardinality(UnfinishedRuns) <= MaxUnfinished
  /\ Cardinality(RetainedRuns) <= MaxRetained

\* While a request that passed the limiter is under way, its key has a marker that counts
\* it, however other requests with the key fail: none is charged for it a second time
\* (domain-rate-limiter.ts: the participants of a marker).
RequestKeepsMarker ==
  \A h \in Handlers : (\E stage \in Admitted : At(h, stage)) =>
    \/ markers[Key(h)] = "accepted"
    \/ markers[Key(h)] = "pending" /\ h \in owners[Key(h)]

\* The transport is never switched under a run: a run that is not finished
\* was admitted under the active transport, also one whose admission had looked at the
\* switch before the operator paused creation (set_queue_transport).
RunKeepsTransport ==
  \A k \in UnfinishedRuns : carrier[k] = transport

\* A claim that is under way is one for the active transport.
ClaimKeepsTransport ==
  \A c \in Claimers : claimers[c] \in {"none", transport}

\* What is at work is at work under the active transport, however admissions, claims and
\* the operator's pause and switch cross (the fence of 20260730190000).
WorkKeepsTransport == RunKeepsTransport /\ ClaimKeepsTransport

\* What a request that stands here is going to be told.
Answer(stage) ==
  CASE stage = "accept" -> "created" [] stage = "reject" -> "failed" [] OTHER -> "open"

CallOf(row) ==
  IF row = Idle THEN [answer |-> "none"] ELSE [answer |-> Answer(row.stage), key |-> row.key]

Atomic == INSTANCE RunCreation WITH
  Callers <- Handlers,
  calls   <- [h \in Handlers |-> CallOf(handlers[h])],
  carrier <- [k \in Keys |-> IF runs[k] = "none" THEN "none" ELSE carrier[k]]

\* With all their locks and retries, and whatever is lost or dies on the way, requests for
\* runs, claims and the operator's switch look like single steps, of which each request
\* takes at most one.
AdmissionIsAtomic == Atomic!Spec

\* Every request is answered: nobody waits for ever on the locks of the projects, the
\* organization, the admissions and the transport.
EveryRequestEnds == \A h \in Handlers : handlers[h] # Idle ~> handlers[h] = Idle

=============================================================================
