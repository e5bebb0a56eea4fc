------------------------ MODULE RunAdmissionProofs ------------------------
(***************************************************************************)
(* Proofs about RunAdmission: a key has one run, quotas hold, a marker     *)
(* outlives the requests it counts, and neither runs nor claims are left   *)
(* under a transport that is not the active one, for any number of keys,   *)
(* projects, requests and claims, and any quotas.                          *)
(*                                                                         *)
(* LocksOK says who excludes whom, and needs only the types; each of the   *)
(* other parts follows from the locks.  The sets of runs are finite since  *)
(* they grow by one at a time, so Keys need not be.                        *)
(***************************************************************************)
EXTENDS RunAdmission, FiniteSetTheorems, TLAPS

-----------------------------------------------------------------------------
(* The steps of a request. *)

AllStages == Admitted \cup {"limiter"}

LEMMA StageNames ==
  /\ "idle" \notin AllStages
  /\ {"limiter", "project", "quotas", "admission", "commit", "accept", "reject"} = AllStages
BY DEF AllStages, Admitted

LEMMA HandlerRow ==
  ASSUME NEW row \in HandlerRows, row # Idle
  PROVE  row.stage \in AllStages /\ row.key \in Keys
BY DEF HandlerRows, AllStages

LEMMA StagedRow ==
  ASSUME NEW row \in HandlerRows, row # Idle, NEW stage \in AllStages
  PROVE  /\ [row EXCEPT !.stage = stage] \in HandlerRows
         /\ [row EXCEPT !.stage = stage] # Idle
         /\ [row EXCEPT !.stage = stage].stage = stage
         /\ [row EXCEPT !.stage = stage].key = row.key
<1>1. row \in [stage : AllStages, key : Keys]
  BY DEF HandlerRows, AllStages
<1>2. [row EXCEPT !.stage = stage] \in [stage : AllStages, key : Keys]
  BY <1>1
<1> QED
  BY <1>1, <1>2, StageNames DEF HandlerRows, Idle, AllStages

\* A request goes on.
LEMMA GoesOn ==
  ASSUME AdmissionTypeOK, NEW h \in Handlers, handlers[h] # Idle, NEW stage \in AllStages,
         Proceeds(h, stage)
  PROVE  /\ handlers' \in [Handlers -> HandlerRows]
         /\ handlers'[h] # Idle /\ handlers'[h].stage = stage
         /\ handlers'[h].key = handlers[h].key
         /\ \A g \in Handlers : g # h => handlers'[g] = handlers[g]
<1>1. /\ handlers \in [Handlers -> HandlerRows] /\ handlers[h] \in HandlerRows
      /\ handlers' = [handlers EXCEPT ![h] = [handlers[h] EXCEPT !.stage = stage]]
  BY DEF AdmissionTypeOK, Proceeds
<1>2. /\ [handlers[h] EXCEPT !.stage = stage] \in HandlerRows
      /\ [handlers[h] EXCEPT !.stage = stage] # Idle
      /\ [handlers[h] EXCEPT !.stage = stage].stage = stage
      /\ [handlers[h] EXCEPT !.stage = stage].key = handlers[h].key
  BY <1>1, StagedRow
<1>3. handlers'[h] = [handlers[h] EXCEPT !.stage = stage]
  BY <1>1
<1>4. handlers' \in [Handlers -> HandlerRows]
  BY <1>1, <1>2
<1>5. \A g \in Handlers : g # h => handlers'[g] = handlers[g]
  BY <1>1
<1> QED
  BY <1>2, <1>3, <1>4, <1>5

\* It is answered.
LEMMA IsAnswered ==
  ASSUME AdmissionTypeOK, NEW h \in Handlers, Answers(h)
  PROVE  /\ handlers' \in [Handlers -> HandlerRows] /\ handlers'[h] = Idle
         /\ \A g \in Handlers : g # h => handlers'[g] = handlers[g]
BY DEF AdmissionTypeOK, Answers, HandlerRows

-----------------------------------------------------------------------------
(* Locks. *)

HasProject(h)      == At(h, "quotas") \/ At(h, "admission") \/ At(h, "commit")
HasOrganization(h) == At(h, "admission") \/ At(h, "commit")

\* The transactions that have a project, the organization or the admissions exclude each
\* other and the operator's, whose switch excludes claims.
LocksOK ==
  /\ \A g, h \in Handlers :
       g # h /\ HasProject(g) /\ HasProject(h) => ProjectOf[Key(g)] # ProjectOf[Key(h)]
  /\ \A g, h \in Handlers : g # h => ~(HasOrganization(g) /\ HasOrganization(h))
  /\ \A h \in Handlers : At(h, "commit") => switch = "idle"
  /\ switch = "transport" => \A c \in Claimers : claimers[c] = "none"

\* A key's record is its run, a transaction that creates has found none, and one that
\* succeeded has one.
RecordsOK ==
  /\ \A k \in Keys : created[k] = IF runs[k] = "none" THEN 0 ELSE 1
  /\ \A h \in Handlers : HasProject(h) => runs[Key(h)] = "none"
  /\ \A h \in Handlers : At(h, "accept") => runs[Key(h)] # "none"

\* A run about to be committed has the transport that is still the active one.
TransportOK ==
  /\ RunKeepsTransport /\ ClaimKeepsTransport
  /\ \A h \in Handlers : At(h, "commit") => carrier[Key(h)] = transport

\* Who has the organization's lock has room for one run more.
QuotasOK ==
  /\ IsFiniteSet(RetainedRuns)
  /\ QuotasHold
  /\ \A h \in Handlers : HasOrganization(h) =>
       /\ Cardinality(UnfinishedRuns) < MaxUnfinished
       /\ Cardinality(RetainedRuns) < MaxRetained

\* What a request's transaction does: where it was and where it goes, and of the rest only
\* the run that it commits and the transport it is admitted under.
Moves(h, k, from, to) ==
  /\ At(h, from) /\ Key(h) = k /\ k \in Keys /\ from \in AllStages
  /\ \/ to = "idle" /\ handlers'[h] = Idle
     \/ /\ to \in AllStages
        /\ handlers'[h] # Idle /\ handlers'[h].stage = to /\ handlers'[h].key = k
  /\ handlers' \in [Handlers -> HandlerRows]
  /\ \A g \in Handlers : g # h => handlers'[g] = handlers[g]
  /\ UNCHANGED <<enabled, transport, claimers, switch>>

LEMMA MovesOn ==
  ASSUME AdmissionTypeOK, NEW h \in Handlers, NEW from \in AllStages, NEW to \in AllStages,
         At(h, from), Proceeds(h, to), UNCHANGED <<enabled, transport, claimers, switch>>
  PROVE  \E k \in Keys : Moves(h, k, from, to)
<1>1. handlers[h] \in HandlerRows /\ handlers[h] # Idle
  BY DEF AdmissionTypeOK, At
<1>2. PICK k \in Keys : k = handlers[h].key
  BY <1>1, HandlerRow
<1> QED
  BY <1>1, <1>2, GoesOn DEF Moves, Key

LEMMA MovesOut ==
  ASSUME AdmissionTypeOK, NEW h \in Handlers, handlers[h] # Idle, Answers(h),
         UNCHANGED <<enabled, transport, claimers, switch>>
  PROVE  \E k \in Keys : Moves(h, k, handlers[h].stage, "idle") /\ k = Key(h)
<1>1. handlers[h] \in HandlerRows
  BY DEF AdmissionTypeOK
<1> QED
  BY <1>1, HandlerRow, IsAnswered DEF Moves, Key, At

\* The transaction of a request waits for each lock with a guard, and commits one run.
Transaction(h, k, from, to) ==
  /\ Moves(h, k, from, to)
  /\ from \in {"accept", "reject"} => to = "idle"
  /\ \/ /\ UNCHANGED <<runs, created>>
        /\ \/ carrier' = carrier
           \/ from = "commit" /\ to \in {"idle", "reject"} /\ carrier' = [carrier EXCEPT ![k] = "none"]
        /\ \/ to \notin {"quotas", "admission", "commit", "accept"}
           \/ to = "accept" /\ runs[k] # "none"
           \/ from = "project" /\ to = "quotas" /\ ProjectFree(h) /\ runs[k] = "none"
           \/ /\ from = "quotas" /\ to = "admission" /\ OrganizationFree(h)
              /\ Cardinality(UnfinishedRuns) < MaxUnfinished
              /\ Cardinality(RetainedRuns) < MaxRetained
     \/ /\ from = "admission" /\ to = "commit" /\ AdmissionFree
        /\ UNCHANGED <<runs, created>>
        /\ carrier' = [carrier EXCEPT ![k] = transport]
     \/ /\ from = "commit" /\ to \in {"accept", "reject"}
        /\ runs' = [runs EXCEPT ![k] = "queued"]
        /\ created' = [created EXCEPT ![k] = created[k] + 1]
        /\ carrier' = carrier

LEMMA Transactions ==
  ASSUME AdmissionTypeOK, NEW h \in Handlers, HandlerStep(h) \/ RollBack(h) \/ Abandon(h)
  PROVE  \E k \in Keys, from \in AllStages, to \in AllStages \cup {"idle"} :
           Transaction(h, k, from, to)
<1>1. /\ "limiter" \in AllStages /\ "project" \in AllStages /\ "quotas" \in AllStages
      /\ "admission" \in AllStages /\ "commit" \in AllStages /\ "accept" \in AllStages
      /\ "reject" \in AllStages
  BY StageNames
<1>2. ASSUME handlers[h] # Idle, Answers(h), RollsBack(h) \/ carrier' = carrier,
             UNCHANGED <<runs, created, enabled, transport, claimers, switch>>
      PROVE  \E k \in Keys, from \in AllStages, to \in AllStages \cup {"idle"} :
               Transaction(h, k, from, to)
  <2>1. PICK k \in Keys : Moves(h, k, handlers[h].stage, "idle")
    BY <1>2, MovesOut
  <2>2. handlers[h].stage \in AllStages
    BY <2>1 DEF Moves
  <2>3. carrier' = carrier \/ (handlers[h].stage = "commit" /\ carrier' = [carrier EXCEPT ![k] = "none"])
    BY <1>2, <2>1 DEF RollsBack, Moves, At, Key
  <2>4. Transaction(h, k, handlers[h].stage, "idle")
    BY <1>2, <2>1, <2>3 DEF Transaction
  <2> QED
    BY <2>2, <2>4
<1>3. CASE LimiterRefuses(h) \/ AcceptIdempotency(h) \/ RejectIdempotency(h) \/ Abandon(h)
  BY <1>2, <1>3 DEF LimiterRefuses, AcceptIdempotency, RejectIdempotency, Abandon, At
<1>4. CASE RequireRunCreate(h)
  <2>1. PICK k \in Keys : Moves(h, k, "limiter", "project")
    BY <1>1, <1>4, MovesOn DEF RequireRunCreate
  <2>2. Transaction(h, k, "limiter", "project")
    BY <1>4, <2>1 DEF Transaction, RequireRunCreate
  <2> QED
    BY <1>1, <2>2
<1>5. CASE LockProject(h)
  <2>1. PICK to \in {"accept", "quotas"} : /\ Proceeds(h, to)
                                           /\ to = IF Recorded(h) THEN "accept" ELSE "quotas"
    BY <1>5 DEF LockProject
  <2>2. PICK k \in Keys : Moves(h, k, "project", to)
    BY <1>1, <1>5, <2>1, MovesOn DEF LockProject
  <2>3. Transaction(h, k, "project", to)
    BY <1>5, <2>1, <2>2 DEF Transaction, LockProject, Recorded, Moves
  <2> QED
    BY <1>1, <2>3
<1>6. CASE LockOrganization(h)
  <2>1. PICK to \in {"admission", "reject"} :
          /\ Proceeds(h, to)
          /\ to = "admission" => /\ Cardinality(UnfinishedRuns) < MaxUnfinished
                                 /\ Cardinality(RetainedRuns) < MaxRetained
    BY <1>6 DEF LockOrganization
  <2>2. PICK k \in Keys : Moves(h, k, "quotas", to)
    BY <1>1, <1>6, <2>1, MovesOn DEF LockOrganization
  <2>3. Transaction(h, k, "quotas", to)
    BY <1>6, <2>1, <2>2 DEF Transaction, LockOrganization
  <2> QED
    BY <1>1, <2>3
<1>7. CASE LockAdmission(h)
  <2>1. CASE Proceeds(h, "commit") /\ carrier' = [carrier EXCEPT ![Key(h)] = transport]
    <3>1. PICK k \in Keys : Moves(h, k, "admission", "commit")
      BY <1>1, <1>7, <2>1, MovesOn DEF LockAdmission
    <3>2. Transaction(h, k, "admission", "commit")
      BY <1>7, <2>1, <3>1 DEF Transaction, LockAdmission, Moves
    <3> QED
      BY <1>1, <3>2
  <2>2. CASE Proceeds(h, "reject") /\ UNCHANGED carrier
    <3>1. PICK k \in Keys : Moves(h, k, "admission", "reject")
      BY <1>1, <1>7, <2>2, MovesOn DEF LockAdmission
    <3>2. Transaction(h, k, "admission", "reject")
      BY <1>7, <2>2, <3>1 DEF Transaction, LockAdmission
    <3> QED
      BY <1>1, <3>2
  <2> QED
    BY <1>7, <2>1, <2>2 DEF LockAdmission
<1>8. CASE CommitRun(h)
  <2>1. PICK to \in {"accept", "reject"} : Proceeds(h, to)
    BY <1>8 DEF CommitRun
  <2>2. PICK k \in Keys : Moves(h, k, "commit", to)
    BY <1>1, <1>8, <2>1, MovesOn DEF CommitRun
  <2>3. Transaction(h, k, "commit", to)
    BY <1>8, <2>1, <2>2 DEF Transaction, CommitRun, Moves
  <2> QED
    BY <1>1, <2>3
<1>9. CASE RollBack(h)
  <2>1. PICK from \in {"project", "quotas", "admission", "commit"} : At(h, from)
    BY <1>9 DEF RollBack
  <2>2. PICK k \in Keys : Moves(h, k, from, "reject")
    BY <1>1, <1>9, <2>1, MovesOn DEF RollBack
  <2>3. carrier' = carrier \/ (from = "commit" /\ carrier' = [carrier EXCEPT ![k] = "none"])
    BY <1>9, <2>2 DEF RollBack, RollsBack, Moves, At
  <2>4. Transaction(h, k, from, "reject")
    BY <1>9, <2>1, <2>2, <2>3 DEF Transaction, RollBack
  <2> QED
    BY <1>1, <2>4
<1> QED
  BY <1>3, <1>4, <1>5, <1>6, <1>7, <1>8, <1>9 DEF HandlerStep

\* A transaction keeps the locks apart.
LEMMA TransactionLocks ==
  ASSUME AdmissionTypeOK, LocksOK, NEW h \in Handlers, NEW k \in Keys, NEW from, NEW to,
         Transaction(h, k, from, to)
  PROVE  LocksOK'
<1>1. /\ Moves(h, k, from, to)
      /\ to \in {"quotas", "admission", "commit"} =>
           from \in {"quotas", "admission", "commit"} \/ ProjectFree(h)
      /\ to \in {"admission", "commit"} =>
           from \in {"admission", "commit"} \/ OrganizationFree(h)
      /\ to = "commit" => switch = "idle"
  BY DEF Transaction, AdmissionFree
<1>2. \A g \in Handlers : g # h /\ HasProject(g)' /\ HasProject(h)' =>
        ProjectOf[Key(g)]' # ProjectOf[Key(h)]'
  BY <1>1 DEF Moves, HasProject, LocksOK, ProjectFree, At, Key
<1>3. \A g, j \in Handlers : g # h /\ j # h /\ g # j /\ HasProject(g)' /\ HasProject(j)' =>
        ProjectOf[Key(g)]' # ProjectOf[Key(j)]'
  BY <1>1 DEF Moves, HasProject, LocksOK, At, Key
<1>4. \A g \in Handlers : g # h => ~(HasOrganization(g)' /\ HasOrganization(h)')
  BY <1>1 DEF Moves, HasOrganization, LocksOK, OrganizationFree, At
<1>5. \A g, j \in Handlers : g # h /\ j # h /\ g # j =>
        ~(HasOrganization(g)' /\ HasOrganization(j)')
  BY <1>1 DEF Moves, HasOrganization, LocksOK, At
<1>6. (\A g \in Handlers : At(g, "commit") => switch = "idle")'
  BY <1>1 DEF Moves, LocksOK, At
<1>7. (switch = "transport" => \A c \in Claimers : claimers[c] = "none")'
  BY <1>1 DEF Moves, LocksOK
<1>8. (\A g, j \in Handlers : g # j => ~(HasOrganization(g) /\ HasOrganization(j)))'
  BY <1>4, <1>5
<1>9. (\A g, j \in Handlers :
        g # j /\ HasProject(g) /\ HasProject(j) => ProjectOf[Key(g)] # ProjectOf[Key(j)])'
  BY <1>2, <1>3
<1> QED
  BY <1>6, <1>7, <1>8, <1>9 DEF LocksOK

\* It commits the one run of its key: no other transaction with the key is this far.
LEMMA TransactionRecords ==
  ASSUME AdmissionTypeOK, LocksOK, RecordsOK,
         NEW h \in Handlers, NEW k \in Keys, NEW from, NEW to, Transaction(h, k, from, to)
  PROVE  RecordsOK' /\ created' \in [Keys -> 0..1]
<1>1. Moves(h, k, from, to)
  BY DEF Transaction
<1>2. CASE UNCHANGED <<runs, created>>
  <2>1. /\ to \in {"quotas", "admission", "commit"} =>
             from \in {"quotas", "admission", "commit"} \/ runs[k] = "none"
        /\ to = "accept" => runs[k] # "none"
    BY <1>2 DEF Transaction, RecordsOK, AdmissionTypeOK
  <2>2. RecordsOK'
    BY <1>1, <1>2, <2>1 DEF RecordsOK, Moves, HasProject, At, Key
  <2> QED
    BY <1>2, <2>2 DEF AdmissionTypeOK
<1>3. CASE /\ from = "commit" /\ to \in {"accept", "reject"}
           /\ runs' = [runs EXCEPT ![k] = "queued"]
           /\ created' = [created EXCEPT ![k] = created[k] + 1]
  <2>1. runs[k] = "none" /\ created[k] = 0
    BY <1>1, <1>3 DEF RecordsOK, HasProject, Moves
  <2>2. \A g \in Handlers : g # h /\ HasProject(g) => Key(g) # k
    BY <1>1, <1>3 DEF LocksOK, HasProject, Moves
  <2>3. created' \in [Keys -> 0..1]
    BY <1>3, <2>1 DEF AdmissionTypeOK
  <2>4. (\A j \in Keys : created[j] = IF runs[j] = "none" THEN 0 ELSE 1)'
    BY <1>3, <2>1 DEF RecordsOK, AdmissionTypeOK
  <2>5. (\A g \in Handlers : HasProject(g) => runs[Key(g)] = "none")'
    BY <1>1, <1>3, <2>2 DEF RecordsOK, Moves, HasProject, At, Key, AdmissionTypeOK
  <2>6. (\A g \in Handlers : At(g, "accept") => runs[Key(g)] # "none")'
    BY <1>1, <1>3 DEF RecordsOK, Moves, At, Key, AdmissionTypeOK
  <2> QED
    BY <2>3, <2>4, <2>5, <2>6 DEF RecordsOK
<1> QED
  BY <1>2, <1>3 DEF Transaction

\* The run it commits is under the active transport.
LEMMA TransactionTransport ==
  ASSUME AdmissionTypeOK, LocksOK, RecordsOK, TransportOK,
         NEW h \in Handlers, NEW k \in Keys, NEW from, NEW to, Transaction(h, k, from, to)
  PROVE  TransportOK' /\ carrier' \in [Keys -> Transports \cup {"none"}]
<1>1. Moves(h, k, from, to)
  BY DEF Transaction
<1>2. ClaimKeepsTransport'
  BY <1>1 DEF TransportOK, ClaimKeepsTransport, Moves
<1>3. CASE from = "admission" /\ to = "commit" /\ carrier' = [carrier EXCEPT ![k] = transport]
           /\ UNCHANGED runs
  <2>1. runs[k] = "none"
    BY <1>1, <1>3 DEF RecordsOK, HasProject, Moves
  <2>2. \A g \in Handlers : g # h => ~At(g, "commit")
    BY <1>1, <1>3 DEF LocksOK, HasOrganization, Moves
  <2>3. RunKeepsTransport'
    BY <1>1, <1>3, <2>1 DEF TransportOK, RunKeepsTransport, UnfinishedRuns, Unfinished, Moves,
                            AdmissionTypeOK
  <2>4. (\A g \in Handlers : At(g, "commit") => carrier[Key(g)] = transport)'
    BY <1>1, <1>3, <2>2 DEF Moves, At, Key, AdmissionTypeOK
  <2> QED
    BY <1>2, <1>3, <2>3, <2>4 DEF TransportOK, AdmissionTypeOK
<1>4. CASE from = "commit" /\ runs' = [runs EXCEPT ![k] = "queued"] /\ carrier' = carrier
           /\ to \in {"accept", "reject"}
  <2>1. carrier[k] = transport
    BY <1>1, <1>4 DEF TransportOK, Moves
  <2>2. RunKeepsTransport'
    BY <1>1, <1>4, <2>1 DEF TransportOK, RunKeepsTransport, UnfinishedRuns, Moves,
                            AdmissionTypeOK
  <2>3. (\A g \in Handlers : At(g, "commit") => carrier[Key(g)] = transport)'
    BY <1>1, <1>4 DEF TransportOK, Moves, At, Key
  <2> QED
    BY <1>2, <1>4, <2>2, <2>3 DEF TransportOK, AdmissionTypeOK
<1>5. CASE /\ from = "commit" /\ to \in {"idle", "reject"}
           /\ carrier' = [carrier EXCEPT ![k] = "none"] /\ UNCHANGED runs
  <2>1. runs[k] = "none"
    BY <1>1, <1>5 DEF RecordsOK, HasProject, Moves
  <2>2. RunKeepsTransport'
    BY <1>1, <1>5, <2>1 DEF TransportOK, RunKeepsTransport, UnfinishedRuns, Unfinished, Moves,
                            AdmissionTypeOK
  <2>3. \A g \in Handlers : ~At(g, "commit")'
    BY <1>1, <1>5 DEF LocksOK, HasOrganization, Moves, At, Idle
  <2> QED
    BY <1>2, <1>5, <2>2, <2>3 DEF TransportOK, AdmissionTypeOK
<1>6. CASE to # "commit" /\ UNCHANGED <<runs, carrier>>
  <2>1. RunKeepsTransport'
    BY <1>1, <1>6 DEF TransportOK, RunKeepsTransport, UnfinishedRuns, Moves
  <2>2. (\A g \in Handlers : At(g, "commit") => carrier[Key(g)] = transport)'
    BY <1>1, <1>6 DEF TransportOK, Moves, At, Key
  <2> QED
    BY <1>2, <1>6, <2>1, <2>2 DEF TransportOK, AdmissionTypeOK
<1> QED
  BY <1>3, <1>4, <1>5, <1>6 DEF Transaction

\* A finite set that is smaller than a bound has room for one element more.
LEMMA RoomForOne ==
  ASSUME NEW S, IsFiniteSet(S), NEW x, NEW n \in Nat, Cardinality(S) < n
  PROVE  IsFiniteSet(S \cup {x}) /\ Cardinality(S \cup {x}) <= n
<1>1. Cardinality(S) \in Nat
  BY FS_CardinalityType
<1>2. IsFiniteSet(S \cup {x})
  BY FS_AddElement
<1>3. Cardinality(S \cup {x}) = IF x \in S THEN Cardinality(S) ELSE Cardinality(S) + 1
  BY FS_AddElement
<1> QED
  BY <1>1, <1>2, <1>3

\* It counted under the lock that it holds until it has committed.
LEMMA TransactionQuotas ==
  ASSUME AdmissionTypeOK, LocksOK, QuotasOK,
         NEW h \in Handlers, NEW k \in Keys, NEW from, NEW to, Transaction(h, k, from, to)
  PROVE  QuotasOK'
<1>1. Moves(h, k, from, to)
  BY DEF Transaction
<1>2. CASE UNCHANGED runs
  <2>1. UnfinishedRuns' = UnfinishedRuns /\ RetainedRuns' = RetainedRuns
    BY <1>2 DEF UnfinishedRuns, RetainedRuns
  <2>2. to \in {"admission", "commit"} =>
          from = "admission" \/ (/\ Cardinality(UnfinishedRuns) < MaxUnfinished
                                 /\ Cardinality(RetainedRuns) < MaxRetained)
    BY <1>2 DEF Transaction, AdmissionTypeOK
  <2>3. \A g \in Handlers : HasOrganization(g)' =>
          (\E j \in Handlers : HasOrganization(j))
          \/ (/\ Cardinality(UnfinishedRuns) < MaxUnfinished
              /\ Cardinality(RetainedRuns) < MaxRetained)
    BY <1>1, <2>2 DEF Moves, HasOrganization, At
  <2>4. (\A g \in Handlers : HasOrganization(g) =>
          Cardinality(UnfinishedRuns) < MaxUnfinished /\ Cardinality(RetainedRuns) < MaxRetained)'
    BY <2>1, <2>3 DEF QuotasOK
  <2> QED
    BY <2>1, <2>4 DEF QuotasOK, QuotasHold
<1>3. CASE from = "commit" /\ to \in {"accept", "reject"} /\ runs' = [runs EXCEPT ![k] = "queued"]
  <2>1. /\ Cardinality(UnfinishedRuns) < MaxUnfinished
        /\ Cardinality(RetainedRuns) < MaxRetained
    BY <1>1, <1>3 DEF QuotasOK, HasOrganization, Moves
  <2>2. /\ UnfinishedRuns' = UnfinishedRuns \cup {k}
        /\ RetainedRuns' = RetainedRuns \cup {k}
    BY <1>3 DEF UnfinishedRuns, RetainedRuns, Unfinished, AdmissionTypeOK
  <2>3. IsFiniteSet(RetainedRuns) /\ IsFiniteSet(UnfinishedRuns)
    <3>1. UnfinishedRuns \subseteq RetainedRuns
      BY DEF UnfinishedRuns, RetainedRuns, Unfinished
    <3> QED
      BY <3>1, FS_Subset DEF QuotasOK
  <2>4. /\ IsFiniteSet(RetainedRuns \cup {k})
        /\ Cardinality(UnfinishedRuns \cup {k}) <= MaxUnfinished
        /\ Cardinality(RetainedRuns \cup {k}) <= MaxRetained
    BY <2>1, <2>3, RoomForOne, QuotasAssumption
  <2>5. QuotasHold' /\ IsFiniteSet(RetainedRuns')
    BY <2>2, <2>4 DEF QuotasHold
  <2>6. \A g \in Handlers : ~HasOrganization(g)'
    BY <1>1, <1>3 DEF Moves, HasOrganization, At, LocksOK
  <2> QED
    BY <2>5, <2>6 DEF QuotasOK
<1> QED
  BY <1>2, <1>3 DEF Transaction

\* The limiter's marker: who is counted stays counted until it leaves.
LEMMA MarkersKept ==
  ASSUME AdmissionTypeOK, RequestKeepsMarker, AdmissionNext
  PROVE  /\ RequestKeepsMarker'
         /\ markers' \in [Keys -> {"none", "pending", "accepted"}]
         /\ owners' \in [Keys -> SUBSET (Handlers \cup {"lost"})]
<1> DEFINE Marked(h) == \/ markers[Key(h)] = "accepted"
                        \/ markers[Key(h)] = "pending" /\ h \in owners[Key(h)]
           Good == /\ RequestKeepsMarker'
                   /\ markers' \in [Keys -> {"none", "pending", "accepted"}]
                   /\ owners' \in [Keys -> SUBSET (Handlers \cup {"lost"})]
           Past(h) == \E stage \in Admitted : At(h, stage)
<1>1. ASSUME NEW h \in Handlers, UNCHANGED <<markers, owners>>,
             handlers'[h] # Idle => handlers'[h].stage = "limiter" \/ Past(h),
             handlers[h] # Idle /\ handlers'[h] # Idle => handlers'[h].key = handlers[h].key,
             \A g \in Handlers : g # h => handlers'[g] = handlers[g]
      PROVE  Good
  BY <1>1 DEF RequestKeepsMarker, At, Key, Admitted, AdmissionTypeOK
<1>2. ASSUME NEW h \in Handlers, NEW k \in Keys, handlers[h] # Idle, k = Key(h), Answers(h),
             markers' \in [Keys -> {"none", "pending", "accepted"}],
             owners' \in [Keys -> SUBSET (Handlers \cup {"lost"})],
             \A j \in Keys : j # k => markers'[j] = markers[j] /\ owners'[j] = owners[j],
             markers[k] = "accepted" => markers'[k] = "accepted",
             \A g \in Handlers \ {h} : markers[k] = "pending" /\ g \in owners[k] =>
               markers'[k] = "accepted" \/ (markers'[k] = "pending" /\ g \in owners'[k])
      PROVE  Good
  <2>1. handlers'[h] = Idle /\ \A g \in Handlers : g # h => handlers'[g] = handlers[g]
    BY <1>2, IsAnswered
  <2>2. ASSUME NEW g \in Handlers, g # h, NEW stage \in Admitted, At(g, stage)'
        PROVE  Marked(g)'
    <3>1. At(g, stage) /\ handlers[g] \in HandlerRows
      BY <2>1, <2>2 DEF At, AdmissionTypeOK
    <3>2. PICK j \in Keys : j = Key(g) /\ j = Key(g)'
      BY <2>1, <2>2, <3>1, HandlerRow DEF At, Key
    <3>3. markers[j] = "accepted" \/ (markers[j] = "pending" /\ g \in owners[j])
      BY <3>1, <3>2 DEF RequestKeepsMarker
    <3>4. markers'[j] = "accepted" \/ (markers'[j] = "pending" /\ g \in owners'[j])
      BY <1>2, <2>2, <3>3
    <3> QED
      BY <3>2, <3>4
  <2>3. RequestKeepsMarker'
    <3>1. \A g \in Handlers : (\E stage \in Admitted : At(g, stage))' => Marked(g)'
      BY <2>1, <2>2 DEF At
    <3> QED
      BY <3>1 DEF RequestKeepsMarker
  <2> QED
    BY <1>2, <2>3
<1>3. CASE UNCHANGED <<handlers, markers, owners>>
  BY <1>3 DEF RequestKeepsMarker, At, Key, AdmissionTypeOK
<1>4. ASSUME NEW h \in Handlers, NEW k \in Keys, GetRunReplay(h, k) PROVE Good
  <2>1. /\ handlers'[h].stage = "limiter" /\ handlers[h] = Idle
        /\ \A g \in Handlers : g # h => handlers'[g] = handlers[g]
    BY <1>4 DEF GetRunReplay, AdmissionTypeOK
  <2> QED
    BY <1>1, <1>4, <2>1 DEF GetRunReplay
<1>5. ASSUME NEW h \in Handlers, RequireRunCreate(h) PROVE Good
  <2>1. PICK k \in Keys : Moves(h, k, "limiter", "project")
    BY <1>5, StageNames, MovesOn DEF RequireRunCreate
  <2>2. /\ k = Key(h) /\ k = Key(h)' /\ handlers'[h] # Idle
        /\ \A g \in Handlers : g # h => handlers'[g] = handlers[g]
    BY <2>1, StageNames DEF Moves, Key
  <2>3. CASE markers[k] = "accepted" /\ UNCHANGED <<markers, owners>>
    BY <2>2, <2>3 DEF RequestKeepsMarker, At, Key, AdmissionTypeOK
  <2>4. CASE /\ markers' = [markers EXCEPT ![k] = "pending"]
             /\ owners' = [owners EXCEPT ![k] = owners[k] \cup {h}]
             /\ markers[k] # "accepted"
    <3>1. /\ markers' \in [Keys -> {"none", "pending", "accepted"}]
          /\ owners' \in [Keys -> SUBSET (Handlers \cup {"lost"})]
      BY <2>4 DEF AdmissionTypeOK
    <3>2. /\ markers'[k] = "pending" /\ h \in owners'[k] /\ owners[k] \subseteq owners'[k]
          /\ \A j \in Keys : j # k => markers'[j] = markers[j] /\ owners'[j] = owners[j]
      BY <2>4 DEF AdmissionTypeOK
    <3>3. RequestKeepsMarker'
      BY <2>2, <2>4, <3>2, HandlerRow DEF RequestKeepsMarker, At, Key, AdmissionTypeOK
    <3> QED
      BY <3>1, <3>3
  <2> QED
    BY <1>5, <2>2, <2>3, <2>4 DEF RequireRunCreate
<1>6. ASSUME NEW h \in Handlers, LimiterRefuses(h) PROVE Good
  BY <1>1, <1>6, IsAnswered DEF LimiterRefuses
<1>7. ASSUME NEW h \in Handlers, NEW from \in Admitted, NEW to \in AllStages, At(h, from),
             Proceeds(h, to), UNCHANGED <<markers, owners, enabled, transport, claimers, switch>>
      PROVE  Good
  <2>1. PICK k \in Keys : Moves(h, k, from, to)
    BY <1>7, MovesOn DEF AllStages
  <2> QED
    BY <1>1, <1>7, <2>1 DEF Moves, Key
<1>8. ASSUME NEW h \in Handlers,
             LockProject(h) \/ LockOrganization(h) \/ LockAdmission(h) \/ CommitRun(h) \/ RollBack(h)
      PROVE  Good
  <2>1. \E from \in Admitted, to \in AllStages : At(h, from) /\ Proceeds(h, to)
    BY <1>8, StageNames
       DEF LockProject, LockOrganization, LockAdmission, CommitRun, RollBack, Admitted
  <2>2. UNCHANGED <<markers, owners, enabled, transport, claimers, switch>>
    BY <1>8 DEF LockProject, LockOrganization, LockAdmission, CommitRun, RollBack
  <2> QED
    BY <1>7, <2>1, <2>2
<1>9. ASSUME NEW h \in Handlers, handlers[h] # Idle PROVE \E k \in Keys : k = Key(h)
  BY <1>9, HandlerRow DEF AdmissionTypeOK, Key
<1>10. ASSUME NEW h \in Handlers, AcceptIdempotency(h) PROVE Good
  <2>1. PICK k \in Keys : k = Key(h)
    BY <1>9, <1>10 DEF AcceptIdempotency, At
  <2> QED
    BY <1>2, <1>10, <2>1 DEF AcceptIdempotency, At, AdmissionTypeOK
<1>11. ASSUME NEW h \in Handlers, RejectIdempotency(h) PROVE Good
  <2>1. PICK k \in Keys : k = Key(h)
    BY <1>9, <1>11 DEF RejectIdempotency, At
  <2>2. CASE UNCHANGED <<markers, owners>>
    BY <1>1, <1>11, <2>2, IsAnswered DEF RejectIdempotency
  <2>3. CASE /\ owners' = [owners EXCEPT ![k] = owners[k] \ {h}]
             /\ markers' = [markers EXCEPT ![k] = IF owners[k] \ {h} = {} THEN "none" ELSE markers[k]]
    BY <1>2, <1>11, <2>1, <2>3 DEF RejectIdempotency, At, AdmissionTypeOK
  <2> QED
    BY <1>11, <2>1, <2>2, <2>3 DEF RejectIdempotency, Remaining
<1>12. ASSUME NEW h \in Handlers, Abandon(h) PROVE Good
  <2>1. PICK k \in Keys : k = Key(h)
    BY <1>9, <1>12 DEF Abandon
  <2>2. /\ owners' = [owners EXCEPT ![k] =
             IF h \in owners[k] THEN (owners[k] \ {h}) \cup {"lost"} ELSE owners[k]]
        /\ markers' = markers
    BY <1>12, <2>1 DEF Abandon, Forgotten
  <2> QED
    BY <1>2, <1>12, <2>1, <2>2 DEF Abandon, AdmissionTypeOK
<1> QED
  BY <1>3, <1>4, <1>5, <1>6, <1>8, <1>10, <1>11, <1>12
     DEF AdmissionNext, HandlerStep, EndClaim, RequireQueueTransport, EndRun, SetRunCreation,
         SwitchLocksAdmission, SwitchStep, SwitchLocksTransport, SetQueueTransport, SwitchAborts

-----------------------------------------------------------------------------
(* All steps. *)

AdmissionInv ==
  /\ AdmissionTypeOK /\ LocksOK /\ RecordsOK /\ TransportOK /\ QuotasOK /\ RequestKeepsMarker

\* The same without the marker, which MarkersKept has.
TablesOK == AdmissionTypeOK /\ LocksOK /\ RecordsOK /\ TransportOK /\ QuotasOK

LEMMA TypeKept ==
  ASSUME AdmissionTypeOK, AdmissionNext,
         markers' \in [Keys -> {"none", "pending", "accepted"}],
         owners' \in [Keys -> SUBSET (Handlers \cup {"lost"})],
         handlers' \in [Handlers -> HandlerRows],
         runs' \in [Keys -> Unfinished \cup {"none", "ended"}],
         created' \in [Keys -> 0..1],
         carrier' \in [Keys -> Transports \cup {"none"}],
         enabled' \in BOOLEAN, transport' \in Transports,
         claimers' \in [Claimers -> Transports \cup {"none"}],
         switch' \in {"idle", "admission", "transport"}
  PROVE  AdmissionTypeOK'
BY DEF AdmissionTypeOK

\* The request's own steps.
LEMMA HandlerKept ==
  ASSUME AdmissionInv, AdmissionNext, NEW h \in Handlers,
         HandlerStep(h) \/ RollBack(h) \/ Abandon(h)
  PROVE  TablesOK'
<1>1. /\ AdmissionTypeOK /\ LocksOK /\ RecordsOK /\ TransportOK /\ QuotasOK
      /\ RequestKeepsMarker
  BY DEF AdmissionInv
<1>2. PICK k \in Keys, from \in AllStages, to \in AllStages \cup {"idle"} :
        Transaction(h, k, from, to)
  BY <1>1, Transactions
<1>3. /\ LocksOK' /\ RecordsOK' /\ TransportOK' /\ QuotasOK'
      /\ created' \in [Keys -> 0..1] /\ carrier' \in [Keys -> Transports \cup {"none"}]
  BY <1>1, <1>2, TransactionLocks, TransactionRecords, TransactionTransport, TransactionQuotas
<1>4. /\ handlers' \in [Handlers -> HandlerRows]
      /\ UNCHANGED <<enabled, transport, claimers, switch>>
  BY <1>2 DEF Transaction, Moves
<1>5. runs' \in [Keys -> Unfinished \cup {"none", "ended"}]
  BY <1>1, <1>2 DEF Transaction, AdmissionTypeOK, Unfinished
<1>6. /\ markers' \in [Keys -> {"none", "pending", "accepted"}]
      /\ owners' \in [Keys -> SUBSET (Handlers \cup {"lost"})]
  BY <1>1, MarkersKept
<1>7. AdmissionTypeOK'
  BY <1>1, <1>3, <1>4, <1>5, <1>6, TypeKept DEF AdmissionTypeOK
<1> QED
  BY <1>3, <1>7 DEF TablesOK

\* A request that has only begun holds nothing.
LEMMA BeginKept ==
  ASSUME AdmissionInv, NEW h \in Handlers, NEW k \in Keys, GetRunReplay(h, k)
  PROVE  TablesOK'
<1>1. /\ AdmissionTypeOK /\ LocksOK /\ RecordsOK /\ TransportOK /\ QuotasOK
      /\ UNCHANGED <<markers, owners, runs, created, carrier, enabled, transport, claimers, switch>>
  BY DEF AdmissionInv, GetRunReplay
<1>2. [stage |-> "limiter", key |-> k] \in HandlerRows
  BY DEF HandlerRows
<1>3. /\ handlers' \in [Handlers -> HandlerRows] /\ handlers'[h].stage = "limiter"
      /\ \A g \in Handlers : g # h => handlers'[g] = handlers[g]
  BY <1>1, <1>2 DEF GetRunReplay, AdmissionTypeOK
<1>4. AdmissionTypeOK'
  BY <1>1, <1>3 DEF AdmissionTypeOK
<1>5. LocksOK'
  BY <1>1, <1>3 DEF LocksOK, HasProject, HasOrganization, At, Key
<1>6. RecordsOK'
  BY <1>1, <1>3 DEF RecordsOK, HasProject, At, Key
<1>7. TransportOK'
  BY <1>1, <1>3 DEF TransportOK, RunKeepsTransport, ClaimKeepsTransport, UnfinishedRuns, At, Key
<1>8. QuotasOK'
  BY <1>1, <1>3 DEF QuotasOK, QuotasHold, HasOrganization, At, UnfinishedRuns, RetainedRuns
<1> QED
  BY <1>4, <1>5, <1>6, <1>7, <1>8 DEF TablesOK

\* A run goes from one status to another, and is not counted twice.
LEMMA RunMoves ==
  ASSUME AdmissionInv, NEW k \in Keys, NEW to \in Unfinished \cup {"ended"},
         runs[k] \in Unfinished, runs' = [runs EXCEPT ![k] = to],
         UNCHANGED <<handlers, markers, owners, created, carrier, enabled, transport, switch>>,
         claimers' \in [Claimers -> Transports \cup {"none"}],
         \A c \in Claimers : claimers'[c] \in {"none", claimers[c]}
  PROVE  TablesOK'
<1>1. /\ AdmissionTypeOK /\ LocksOK /\ RecordsOK /\ TransportOK /\ QuotasOK
  BY DEF AdmissionInv
<1>2. RetainedRuns' = RetainedRuns /\ UnfinishedRuns' \subseteq UnfinishedRuns
  BY <1>1 DEF RetainedRuns, UnfinishedRuns, Unfinished, AdmissionTypeOK
<1>3. AdmissionTypeOK'
  BY <1>1 DEF AdmissionTypeOK, Unfinished
<1>4. LocksOK'
  BY <1>1 DEF LocksOK, HasProject, HasOrganization, At, Key
<1>5. \A j \in Keys : runs'[j] = "none" <=> runs[j] = "none"
  BY <1>1 DEF Unfinished, AdmissionTypeOK
<1>6. RecordsOK'
  <2>1. \A g \in Handlers : HasProject(g)' <=> HasProject(g)
    BY DEF HasProject, At
  <2>2. \A g \in Handlers : handlers[g] # Idle => Key(g) \in Keys /\ Key(g)' = Key(g)
    BY <1>1, HandlerRow DEF Key, AdmissionTypeOK
  <2> QED
    BY <1>1, <1>5, <2>1, <2>2 DEF RecordsOK, HasProject, At
<1>7. TransportOK'
  BY <1>1, <1>2 DEF TransportOK, RunKeepsTransport, ClaimKeepsTransport, At, Key
<1>8. QuotasOK'
  <2>1. IsFiniteSet(UnfinishedRuns)
    <3>1. UnfinishedRuns \subseteq RetainedRuns
      BY DEF UnfinishedRuns, RetainedRuns, Unfinished
    <3> QED
      BY <1>1, <3>1, FS_Subset DEF QuotasOK
  <2>2. \A T \in SUBSET UnfinishedRuns :
          IsFiniteSet(T) /\ Cardinality(T) <= Cardinality(UnfinishedRuns)
    BY <2>1, FS_Subset
  <2>3. \A T \in SUBSET UnfinishedRuns : Cardinality(T) \in Nat
    BY <2>2, FS_CardinalityType
  <2>4. Cardinality(UnfinishedRuns) \in Nat
    BY <2>1, FS_CardinalityType
  <2>5. PICK T \in SUBSET UnfinishedRuns : T = UnfinishedRuns'
    BY <1>2
  <2>6. QuotasHold'
    BY <1>1, <1>2, <2>2, <2>3, <2>4, <2>5, QuotasAssumption DEF QuotasOK, QuotasHold
  <2>7. (\A g \in Handlers : HasOrganization(g) =>
          /\ Cardinality(UnfinishedRuns) < MaxUnfinished
          /\ Cardinality(RetainedRuns) < MaxRetained)'
    <3>1. ASSUME NEW g \in Handlers, HasOrganization(g)
          PROVE  Cardinality(T) < MaxUnfinished /\ Cardinality(RetainedRuns) < MaxRetained
      BY <1>1, <2>2, <2>3, <2>4, <3>1, QuotasAssumption DEF QuotasOK
    <3>2. \A g \in Handlers : HasOrganization(g)' <=> HasOrganization(g)
      BY DEF HasOrganization, At
    <3> QED
      BY <1>2, <2>5, <3>1, <3>2
  <2> QED
    BY <1>1, <1>2, <2>6, <2>7 DEF QuotasOK
<1> QED
  BY <1>3, <1>4, <1>6, <1>7, <1>8 DEF TablesOK

\* Claims, switches and the operator leave requests and runs alone.
LEMMA OperatorKept ==
  ASSUME AdmissionInv, UNCHANGED <<handlers, markers, owners, runs, created, carrier>>,
         enabled' \in BOOLEAN, transport' \in Transports,
         claimers' \in [Claimers -> Transports \cup {"none"}],
         switch' \in {"idle", "admission", "transport"},
         switch' # "idle" => \A h \in Handlers : ~At(h, "commit"),
         switch' = "transport" => \A c \in Claimers : claimers'[c] = "none",
         \A c \in Claimers : claimers'[c] \in {"none", transport'},
         transport' = transport \/ (UnfinishedRuns = {} /\ \A h \in Handlers : ~At(h, "commit"))
  PROVE  TablesOK'
<1>1. /\ AdmissionTypeOK /\ LocksOK /\ RecordsOK /\ TransportOK /\ QuotasOK
  BY DEF AdmissionInv
<1>2. AdmissionTypeOK'
  BY <1>1 DEF AdmissionTypeOK
<1>3. LocksOK'
  BY <1>1 DEF LocksOK, HasProject, HasOrganization, At, Key
<1>4. RecordsOK'
  BY <1>1 DEF RecordsOK, HasProject, At, Key
<1>5. TransportOK'
  BY <1>1 DEF TransportOK, RunKeepsTransport, ClaimKeepsTransport, UnfinishedRuns, At, Key
<1>6. QuotasOK'
  BY <1>1 DEF QuotasOK, QuotasHold, HasOrganization, At, UnfinishedRuns, RetainedRuns
<1> QED
  BY <1>2, <1>3, <1>4, <1>5, <1>6 DEF TablesOK

LEMMA InvInit == AdmissionInit => AdmissionInv
<1> SUFFICES ASSUME AdmissionInit PROVE AdmissionInv
  OBVIOUS
<1>1. AdmissionTypeOK
  BY DEF AdmissionInit, AdmissionTypeOK, HandlerRows, Transports
<1>2. LocksOK /\ RecordsOK /\ TransportOK /\ RequestKeepsMarker
  BY DEF AdmissionInit, LocksOK, RecordsOK, TransportOK, RequestKeepsMarker, HasProject,
         HasOrganization, At, RunKeepsTransport, ClaimKeepsTransport, UnfinishedRuns, Unfinished
<1>3. RetainedRuns = {} /\ UnfinishedRuns = {}
  BY DEF AdmissionInit, RetainedRuns, UnfinishedRuns, Unfinished
<1>4. QuotasOK
  BY <1>2, <1>3, FS_EmptySet, QuotasAssumption
     DEF QuotasOK, QuotasHold, AdmissionInit, HasOrganization, At
<1> QED
  BY <1>1, <1>2, <1>4 DEF AdmissionInv

LEMMA InvNext == AdmissionInv /\ [AdmissionNext]_admissionVars => AdmissionInv'
<1> SUFFICES ASSUME AdmissionInv, [AdmissionNext]_admissionVars PROVE AdmissionInv'
  OBVIOUS
<1>1. AdmissionTypeOK /\ LocksOK /\ RecordsOK /\ TransportOK /\ QuotasOK /\ RequestKeepsMarker
  BY DEF AdmissionInv
<1>2. CASE UNCHANGED admissionVars
  <2>1. AdmissionTypeOK' /\ LocksOK' /\ RecordsOK'
    BY <1>1, <1>2 DEF admissionVars, AdmissionTypeOK, LocksOK, RecordsOK, HasProject,
       HasOrganization, At, Key
  <2>2. TransportOK' /\ QuotasOK' /\ RequestKeepsMarker'
    BY <1>1, <1>2 DEF admissionVars, TransportOK, RunKeepsTransport, ClaimKeepsTransport,
       QuotasOK, QuotasHold, HasOrganization, UnfinishedRuns, RetainedRuns, RequestKeepsMarker,
       At, Key
  <2> QED
    BY <2>1, <2>2 DEF AdmissionInv
<1>3. CASE AdmissionNext
  <2>1. ASSUME NEW c \in Claimers, NEW t \in Transports, RequireQueueTransport(c, t)
        PROVE  TablesOK'
    <3>1. /\ UNCHANGED <<handlers, markers, owners, runs, created, carrier, enabled, transport, switch>>
          /\ switch # "transport" /\ transport = t
          /\ claimers' = [claimers EXCEPT ![c] = t]
      BY <2>1 DEF RequireQueueTransport
    <3>2. /\ claimers' \in [Claimers -> Transports \cup {"none"}]
          /\ \A d \in Claimers : claimers'[d] \in {"none", transport'}
      BY <1>1, <3>1 DEF AdmissionTypeOK, TransportOK, ClaimKeepsTransport
    <3> QED
      BY <1>1, <3>1, <3>2, OperatorKept DEF AdmissionTypeOK, LocksOK
  <2>2. ASSUME NEW c \in Claimers, EndClaim(c) PROVE TablesOK'
    <3>1. /\ UNCHANGED <<handlers, markers, owners, created, carrier, enabled, transport, switch>>
          /\ claimers' = [claimers EXCEPT ![c] = "none"]
      BY <2>2 DEF EndClaim
    <3>2. /\ claimers' \in [Claimers -> Transports \cup {"none"}]
          /\ \A d \in Claimers : claimers'[d] \in {"none", claimers[d]}
      BY <1>1, <3>1 DEF AdmissionTypeOK
    <3>3. CASE UNCHANGED runs
      <4>1. \A d \in Claimers : claimers'[d] \in {"none", transport'}
        BY <1>1, <3>1, <3>2 DEF TransportOK, ClaimKeepsTransport
      <4>2. switch' = "transport" => \A d \in Claimers : claimers'[d] = "none"
        BY <1>1, <3>1, <3>2 DEF LocksOK
      <4> QED
        BY <1>1, <3>1, <3>2, <3>3, <4>1, <4>2, OperatorKept DEF AdmissionTypeOK, LocksOK
    <3>4. CASE \E k \in Keys : runs[k] = "queued" /\ runs' = [runs EXCEPT ![k] = "claimed"]
      BY <3>1, <3>2, <3>4, RunMoves DEF Unfinished
    <3> QED
      BY <2>2, <3>3, <3>4 DEF EndClaim
  <2>3. ASSUME NEW k \in Keys, EndRun(k) PROVE TablesOK'
    <3>1. /\ UNCHANGED <<handlers, markers, owners, created, carrier, enabled, transport, claimers, switch>>
          /\ runs[k] \in Unfinished
          /\ \E to \in Unfinished \cup {"ended"} : runs' = [runs EXCEPT ![k] = to]
      BY <2>3 DEF EndRun, Unfinished
    <3> QED
      BY <1>1, <3>1, RunMoves DEF AdmissionTypeOK
  <2>4. ASSUME SetRunCreation \/ SwitchLocksAdmission \/ SwitchLocksTransport \/ SwitchAborts
        PROVE  TablesOK'
    <3>1. /\ UNCHANGED <<handlers, markers, owners, runs, created, carrier, transport, claimers>>
          /\ enabled' \in BOOLEAN
      BY <1>1, <2>4 DEF SetRunCreation, SwitchLocksAdmission, SwitchLocksTransport, SwitchAborts,
         AdmissionTypeOK
    <3>2. /\ switch' \in {"idle", "admission", "transport"}
          /\ switch' # "idle" => \A h \in Handlers : ~At(h, "commit")
          /\ switch' = "transport" => \A c \in Claimers : claimers'[c] = "none"
      BY <1>1, <2>4 DEF SetRunCreation, SwitchLocksAdmission, SwitchLocksTransport, SwitchAborts,
         SwitchWaits, AdmissionFree, TransportFree, AdmissionTypeOK, LocksOK
    <3> QED
      BY <1>1, <3>1, <3>2, OperatorKept
         DEF AdmissionTypeOK, TransportOK, ClaimKeepsTransport
  <2>5. ASSUME SetQueueTransport PROVE TablesOK'
    <3>1. /\ UNCHANGED <<handlers, markers, owners, runs, created, carrier, enabled, claimers>>
          /\ switch' = "idle" /\ switch = "transport"
          /\ transport' = transport \/ UnfinishedRuns = {}
      BY <2>5 DEF SetQueueTransport, Drained
    <3>2. \E t \in Transports : t # transport
      BY DEF Transports
    <3>3. transport' \in Transports
      BY <1>1, <2>5, <3>2 DEF SetQueueTransport, AdmissionTypeOK
    <3>4. (\A c \in Claimers : claimers[c] = "none") /\ \A h \in Handlers : ~At(h, "commit")
      BY <1>1, <3>1 DEF LocksOK
    <3> QED
      BY <1>1, <3>1, <3>3, <3>4, OperatorKept DEF AdmissionTypeOK
  <2>6. TablesOK'
    BY <1>3, <2>1, <2>2, <2>3, <2>4, <2>5, HandlerKept, BeginKept DEF AdmissionNext, SwitchStep
  <2>7. RequestKeepsMarker'
    BY <1>1, <1>3, MarkersKept
  <2> QED
    BY <2>6, <2>7 DEF AdmissionInv, TablesOK
<1> QED
  BY <1>2, <1>3

-----------------------------------------------------------------------------
(* Theorems. *)

\* The locks exclude each other and the records agree with the runs in every reachable
\* state.
THEOREM AdmissionInvariant == AdmissionSpec => []AdmissionInv
BY InvInit, InvNext, PTL DEF AdmissionSpec

\* Requests, markers, runs and claims keep their types
\* (private.create_simulation_run_atomic, domain-rate-limiter.ts).
THEOREM AdmissionTyping == AdmissionSpec => []AdmissionTypeOK
<1>1. AdmissionInv => AdmissionTypeOK
  BY DEF AdmissionInv
<1> QED
  BY <1>1, AdmissionInvariant, PTL

\* A key creates one run, however often and at what time its request is repeated
\* (private.create_simulation_run_atomic).
THEOREM KeysCreateOnce == AdmissionSpec => []OneRunPerKey
<1>1. AdmissionInv => OneRunPerKey
  <2> SUFFICES ASSUME AdmissionInv PROVE OneRunPerKey
    OBVIOUS
  <2>1. \A k \in Keys : created[k] <= 1
    BY DEF AdmissionInv, AdmissionTypeOK
  <2>2. ASSUME NEW h \in Handlers, At(h, "accept") PROVE created[Key(h)] = 1
    BY <2>2, HandlerRow DEF AdmissionInv, AdmissionTypeOK, RecordsOK, At, Key
  <2> QED
    BY <2>1, <2>2 DEF OneRunPerKey
<1> QED
  BY <1>1, AdmissionInvariant, PTL

\* Creations that cross do not exceed the quotas of their organization
\* (private.create_simulation_run_atomic: the advisory lock of the organization).
THEOREM QuotasAreKept == AdmissionSpec => []QuotasHold
<1>1. AdmissionInv => QuotasHold
  BY DEF AdmissionInv, QuotasOK
<1> QED
  BY <1>1, AdmissionInvariant, PTL

\* A request that is under way is counted by the marker of its key
\* (domain-rate-limiter.ts).
THEOREM MarkersAreKept == AdmissionSpec => []RequestKeepsMarker
<1>1. AdmissionInv => RequestKeepsMarker
  BY DEF AdmissionInv
<1> QED
  BY <1>1, AdmissionInvariant, PTL

\* No unfinished run and no claim is left under a transport that is not the active one,
\* for any number of requests and claims (private.set_queue_transport,
\* private.require_queue_transport).
THEOREM TransportIsKept == AdmissionSpec => []WorkKeepsTransport
<1>1. AdmissionInv => WorkKeepsTransport
  BY DEF AdmissionInv, TransportOK, WorkKeepsTransport
<1> QED
  BY <1>1, AdmissionInvariant, PTL

-----------------------------------------------------------------------------
(* The refinement of RunCreation: requests look atomic. *)

\* What callers and operators see of the handlers and the runs.
seen_calls   == [h \in Handlers |-> CallOf(handlers[h])]
seen_carrier == [k \in Keys |-> IF runs[k] = "none" THEN "none" ELSE carrier[k]]

\* What a caller sees of a step of its request.
LEMMA CallMoves ==
  ASSUME NEW h \in Handlers, NEW k \in Keys, NEW from, NEW to, Moves(h, k, from, to)
  PROVE  /\ seen_calls[h] = [answer |-> Answer(from), key |-> k]
         /\ seen_calls' = [seen_calls EXCEPT ![h] =
              IF to = "idle" THEN [answer |-> "none"] ELSE [answer |-> Answer(to), key |-> k]]
<1>1. /\ handlers[h] # Idle /\ handlers[h].stage = from /\ handlers[h].key = k
      /\ \A g \in Handlers : g # h => handlers'[g] = handlers[g]
  BY DEF Moves, At, Key
<1>2. CallOf(handlers[h]) = [answer |-> Answer(from), key |-> k]
  BY <1>1 DEF CallOf
<1>3. CallOf(handlers'[h]) =
        IF to = "idle" THEN [answer |-> "none"] ELSE [answer |-> Answer(to), key |-> k]
  BY StageNames DEF Moves, CallOf
<1>4. seen_calls' = [seen_calls EXCEPT ![h] = CallOf(handlers'[h])]
  BY <1>1 DEF seen_calls
<1> QED
  BY <1>2, <1>3, <1>4 DEF seen_calls

\* The answer of a request is open until its next step is to accept or to reject.
LEMMA OpenAnswers ==
  /\ Answer("accept") = "created" /\ Answer("reject") = "failed"
  /\ \A stage : stage \notin {"accept", "reject"} => Answer(stage) = "open"
  /\ \A stage : Answer(stage) \in {"created", "failed", "open"}
BY DEF Answer

\* A caller is told.
LEMMA IsTold ==
  ASSUME NEW h \in Handlers, NEW k \in Keys, NEW from, NEW to, Moves(h, k, from, to),
         from \notin {"accept", "reject"}, to # "idle"
  PROVE  Atomic!Told(h, Answer(to))
<1>1. /\ seen_calls[h] = [answer |-> "open", key |-> k]
      /\ seen_calls' = [seen_calls EXCEPT ![h] = [answer |-> Answer(to), key |-> k]]
  BY CallMoves, OpenAnswers
<1>2. [seen_calls[h] EXCEPT !.answer = Answer(to)] = [answer |-> Answer(to), key |-> k]
  BY <1>1
<1>3. seen_calls' = [seen_calls EXCEPT ![h] = [seen_calls[h] EXCEPT !.answer = Answer(to)]]
  BY <1>1, <1>2
<1> QED
  BY <1>1, <1>3 DEF Atomic!Told, seen_calls

\* A step between two stages whose answer is open is not seen.
LEMMA OpenSteps ==
  ASSUME NEW h \in Handlers, NEW k \in Keys, NEW from, NEW to, Moves(h, k, from, to),
         from \notin {"accept", "reject"}, to \notin {"accept", "reject", "idle"}
  PROVE  seen_calls' = seen_calls
<1>1. /\ seen_calls[h] = [answer |-> "open", key |-> k]
      /\ seen_calls' = [seen_calls EXCEPT ![h] = [answer |-> "open", key |-> k]]
  BY CallMoves, OpenAnswers
<1> QED
  BY <1>1 DEF seen_calls

\* A run is not seen, nor is the transport it will have, before it is committed.
LEMMA SeenCarrier ==
  ASSUME AdmissionTypeOK, LocksOK, RecordsOK,
         NEW h \in Handlers, NEW k \in Keys, NEW from, NEW to,
         Transaction(h, k, from, to), runs' = runs
  PROVE  seen_carrier' = seen_carrier
<1>1. Moves(h, k, from, to)
  BY DEF Transaction
<1>2. CASE carrier' = carrier
  BY <1>2 DEF seen_carrier
<1>3. CASE from \in {"admission", "commit"} /\ \E t : carrier' = [carrier EXCEPT ![k] = t]
  <2>1. runs[k] = "none"
    BY <1>1, <1>3 DEF RecordsOK, HasProject, Moves
  <2> QED
    BY <1>3, <2>1 DEF seen_carrier, AdmissionTypeOK
<1> QED
  BY <1>2, <1>3 DEF Transaction

\* The cardinality that RunCreation speaks of is the usual one.
LEMMA SameCardinality == ASSUME NEW S PROVE Atomic!Cardinality(S) = Cardinality(S)
BY DEF Atomic!Cardinality, Cardinality

\* Of the steps of a request its caller sees one, and its return.
LEMMA RequestIsAtomic ==
  ASSUME AdmissionTypeOK, LocksOK, RecordsOK, TransportOK, QuotasOK,
         NEW h \in Handlers, NEW k \in Keys, NEW from \in AllStages, NEW to,
         Transaction(h, k, from, to)
  PROVE  [Atomic!Next]_(Atomic!creation)
<1>1. Moves(h, k, from, to) /\ UNCHANGED <<enabled, transport>>
  BY DEF Transaction, Moves
<1>0. seen_calls[h].key = k /\ seen_calls[h].answer \in {"created", "failed", "open"}
  <2>1. seen_calls[h] = [answer |-> Answer(from), key |-> k]
    BY <1>1, CallMoves
  <2>2. [answer |-> Answer(from), key |-> k].answer = Answer(from)
    OBVIOUS
  <2>3. [answer |-> Answer(from), key |-> k].key = k
    OBVIOUS
  <2> QED
    BY <2>1, <2>2, <2>3, OpenAnswers
<1>2. CASE runs' = runs /\ to = "idle"
  <2>1. seen_carrier' = seen_carrier
    BY <1>2, SeenCarrier
  <2>2. seen_calls' = [seen_calls EXCEPT ![h] = [answer |-> "none"]]
    BY <1>1, <1>2, CallMoves
  <2>4. seen_calls[h] # [answer |-> "none"]
    <3>1. [answer |-> "none"].answer = "none"
      OBVIOUS
    <3> QED
      BY <1>0, <3>1
  <2>5. Atomic!Return(h)
    BY <1>1, <1>2, <2>1, <2>2, <2>4 DEF Atomic!Return, Atomic!NoCall, seen_calls, seen_carrier
  <2> QED
    BY <2>5 DEF Atomic!Next
<1>3. CASE runs' = runs /\ to = "reject"
  <2>1. seen_carrier' = seen_carrier
    BY <1>3, SeenCarrier
  <2>2. Atomic!Told(h, "failed")
    BY <1>1, <1>3, IsTold, OpenAnswers DEF Transaction
  <2>3. Atomic!Fail(h)
    BY <1>1, <1>3, <2>1, <2>2 DEF Atomic!Fail, seen_carrier
  <2> QED
    BY <2>3 DEF Atomic!Next
<1>4. CASE runs' = runs /\ to = "accept"
  <2>1. seen_carrier' = seen_carrier
    BY <1>4, SeenCarrier
  <2>2. Atomic!Told(h, "created")
    BY <1>1, <1>4, IsTold, OpenAnswers DEF Transaction
  <2>3. runs[k] # "none"
    <3>1. CASE from = "commit"
      <4>1. (runs[k] = "none" /\ runs' # runs) \/ runs[k] # "none"
        BY <1>1, <1>4, <3>1 DEF RecordsOK, HasProject, Moves, Transaction, AdmissionTypeOK
      <4> QED
        BY <1>4, <4>1
    <3>2. CASE from # "commit"
      BY <1>4, <3>2 DEF Transaction
    <3> QED
      BY <3>1, <3>2
  <2>5. Atomic!Find(h)
    BY <1>1, <1>4, <2>1, <1>0, <2>2, <2>3 DEF Atomic!Find, seen_carrier, seen_calls
  <2> QED
    BY <2>5 DEF Atomic!Next
<1>5. CASE runs' = runs /\ to \notin {"accept", "reject", "idle"}
  <2>1. seen_carrier' = seen_carrier
    BY <1>5, SeenCarrier
  <2>2. seen_calls' = seen_calls
    BY <1>1, <1>5, OpenSteps DEF Transaction
  <2> QED
    BY <1>1, <1>5, <2>1, <2>2 DEF Atomic!creation, seen_calls, seen_carrier
<1>6. CASE /\ from = "commit" /\ to \in {"accept", "reject"}
           /\ runs' = [runs EXCEPT ![k] = "queued"] /\ carrier' = carrier
  <2>1. Atomic!Told(h, "created") \/ Atomic!Told(h, "failed")
    BY <1>1, <1>6, IsTold, OpenAnswers
  <2>2. runs[k] = "none" /\ carrier[k] = transport
    BY <1>1, <1>6 DEF RecordsOK, TransportOK, HasProject, Moves
  <2>3. /\ Cardinality(UnfinishedRuns) < MaxUnfinished
        /\ Cardinality(RetainedRuns) < MaxRetained
    BY <1>1, <1>6 DEF QuotasOK, HasOrganization, Moves
  <2>4. Atomic!Live = UnfinishedRuns /\ Atomic!Stored = RetainedRuns
    BY DEF Atomic!Live, Atomic!Stored, UnfinishedRuns, RetainedRuns, Unfinished
  <2>5. seen_carrier' = [seen_carrier EXCEPT ![k] = transport]
    BY <1>6, <2>2 DEF seen_carrier, AdmissionTypeOK
  <2>6. /\ Atomic!Cardinality(Atomic!Live) < MaxUnfinished
        /\ Atomic!Cardinality(Atomic!Stored) < MaxRetained
    BY <2>3, <2>4, SameCardinality
  <2>7. Atomic!Create(h)
    BY <1>0, <1>1, <1>6, <2>1, <2>2, <2>5, <2>6 DEF Atomic!Create, seen_carrier, seen_calls
  <2> QED
    BY <2>7 DEF Atomic!Next
<1> QED
  BY <1>2, <1>3, <1>4, <1>5, <1>6 DEF Transaction

\* A request begins.
LEMMA CallIsSeen ==
  ASSUME AdmissionTypeOK, NEW h \in Handlers, NEW k \in Keys, GetRunReplay(h, k)
  PROVE  Atomic!Call(h, k)
<1>1. /\ handlers[h] = Idle
      /\ handlers' = [handlers EXCEPT ![h] = [stage |-> "limiter", key |-> k]]
      /\ UNCHANGED <<runs, carrier, enabled, transport>>
  BY DEF GetRunReplay
<1>2. seen_calls[h] = [answer |-> "none"]
  BY <1>1 DEF seen_calls, CallOf
<1>3. /\ handlers'[h] = [stage |-> "limiter", key |-> k]
      /\ \A g \in Handlers : g # h => handlers'[g] = handlers[g]
  BY <1>1 DEF AdmissionTypeOK
<1>4. [stage |-> "limiter", key |-> k] # Idle
  <2>1. [stage |-> "limiter", key |-> k].stage # Idle.stage
    BY DEF Idle
  <2> QED
    BY <2>1
<1>5. CallOf(handlers'[h]) = [answer |-> "open", key |-> k]
  BY <1>3, <1>4, OpenAnswers DEF CallOf
<1>6. seen_calls' = [seen_calls EXCEPT ![h] = [answer |-> "open", key |-> k]]
  BY <1>3, <1>5 DEF seen_calls
<1> QED
  BY <1>1, <1>2, <1>6 DEF Atomic!Call, Atomic!NoCall, seen_calls, seen_carrier

\* A run that moves on keeps what is seen of its transport.
LEMMA RunMoveIsSeen ==
  ASSUME AdmissionTypeOK, NEW k \in Keys, NEW to \in Unfinished \cup {"ended"},
         runs[k] # "none", runs' = [runs EXCEPT ![k] = to],
         UNCHANGED <<handlers, carrier, enabled, transport>>
  PROVE  \A from : runs[k] \in from => Atomic!RunMoves(k, from, to)
<1>1. seen_calls' = seen_calls
  BY DEF seen_calls
<1>2. seen_carrier' = seen_carrier
  BY DEF seen_carrier, AdmissionTypeOK, Unfinished
<1> QED
  BY <1>1, <1>2 DEF Atomic!RunMoves, seen_calls, seen_carrier

\* With their locks, retries and losses, requests, claims and the operator's switch look
\* like single steps (create_simulation_run_atomic, require_queue_transport,
\* set_queue_transport).
THEOREM AdmissionLooksAtomic == AdmissionSpec => AdmissionIsAtomic
<1>1. AdmissionInit => Atomic!Init
  BY DEF AdmissionInit, Atomic!Init, Atomic!NoCall, CallOf, Transports
<1>2. AdmissionInv /\ [AdmissionNext]_admissionVars => [Atomic!Next]_(Atomic!creation)
  <2> SUFFICES ASSUME AdmissionInv, [AdmissionNext]_admissionVars
               PROVE  Atomic!Next \/ UNCHANGED Atomic!creation
    OBVIOUS
  <2>0. /\ AdmissionTypeOK /\ LocksOK /\ RecordsOK /\ TransportOK /\ QuotasOK
    BY DEF AdmissionInv
  <2>1. ASSUME UNCHANGED <<handlers, runs, carrier, enabled, transport>>
        PROVE  UNCHANGED Atomic!creation
    BY <2>1 DEF Atomic!creation
  <2>2. ASSUME NEW h \in Handlers, HandlerStep(h) \/ RollBack(h) \/ Abandon(h)
        PROVE  Atomic!Next \/ UNCHANGED Atomic!creation
    BY <2>0, <2>2, Transactions, RequestIsAtomic
  <2>3. ASSUME NEW h \in Handlers, NEW k \in Keys, GetRunReplay(h, k)
        PROVE  Atomic!Next
    BY <2>0, <2>3, CallIsSeen DEF Atomic!Next
  <2>4. ASSUME NEW c \in Claimers, EndClaim(c)
        PROVE  Atomic!Next \/ UNCHANGED Atomic!creation
    <3>1. CASE UNCHANGED runs
      BY <2>1, <2>4, <3>1 DEF EndClaim
    <3>2. ASSUME NEW k \in Keys, runs[k] = "queued", runs' = [runs EXCEPT ![k] = "claimed"]
          PROVE  Atomic!Next
      <4>1. Atomic!RunMoves(k, {"queued"}, "claimed")
        BY <2>0, <2>4, <3>2, RunMoveIsSeen DEF EndClaim, Unfinished
      <4>2. carrier[k] = transport
        BY <2>0, <3>2 DEF TransportOK, RunKeepsTransport, UnfinishedRuns, Unfinished
      <4>3. Atomic!Claim(k)
        BY <3>2, <4>1, <4>2 DEF Atomic!Claim
      <4> QED
        BY <4>3 DEF Atomic!Next
    <3> QED
      BY <2>4, <3>1, <3>2 DEF EndClaim
  <2>5. ASSUME NEW k \in Keys, EndRun(k)
        PROVE  Atomic!Next
    <3>1. CASE runs' = [runs EXCEPT ![k] = "ended"]
      <4>1. Atomic!RunMoves(k, {"queued", "claimed"}, "ended")
        BY <2>0, <2>5, <3>1, RunMoveIsSeen DEF EndRun, Unfinished
      <4> QED
        BY <4>1 DEF Atomic!Next, Atomic!End
    <3>2. CASE runs[k] = "claimed" /\ runs' = [runs EXCEPT ![k] = "queued"]
      <4>1. Atomic!RunMoves(k, {"claimed"}, "queued")
        BY <2>0, <2>5, <3>2, RunMoveIsSeen DEF EndRun, Unfinished
      <4> QED
        BY <4>1 DEF Atomic!Next, Atomic!Retry
    <3> QED
      BY <2>5, <3>1, <3>2 DEF EndRun
  <2>6. CASE SetRunCreation
    <3>1. Atomic!Toggle
      BY <2>6 DEF SetRunCreation, Atomic!Toggle
    <3> QED
      BY <3>1 DEF Atomic!Next
  <2>7. CASE SetQueueTransport
    <3>1. CASE ~enabled /\ Drained
      <4>1. transport' \in Transports
        BY <2>0, <2>7, <3>1, InvNext DEF SetQueueTransport, Transports
      <4>2. Atomic!Switch
        BY <2>7, <3>1, <4>1 DEF SetQueueTransport, Atomic!Switch, Atomic!Live, Drained,
           UnfinishedRuns, Unfinished
      <4> QED
        BY <4>2 DEF Atomic!Next
    <3>2. CASE ~(~enabled /\ Drained)
      BY <2>1, <2>7, <3>2 DEF SetQueueTransport
    <3> QED
      BY <3>1, <3>2
  <2>8. ASSUME \/ \E c \in Claimers, t \in Transports : RequireQueueTransport(c, t)
               \/ SwitchLocksAdmission \/ SwitchLocksTransport \/ SwitchAborts
               \/ UNCHANGED admissionVars
        PROVE  UNCHANGED Atomic!creation
    BY <2>1, <2>8 DEF RequireQueueTransport, SwitchLocksAdmission, SwitchLocksTransport,
       SwitchAborts, admissionVars
  <2> QED
    BY <2>2, <2>3, <2>4, <2>5, <2>6, <2>7, <2>8 DEF AdmissionNext, SwitchStep
<1> QED
  BY <1>1, <1>2, AdmissionInvariant, PTL DEF AdmissionSpec, AdmissionIsAtomic, Atomic!Spec

=============================================================================
