--------------------- MODULE OrganizationDeletionProofs ---------------------
(***************************************************************************)
(* Proofs about OrganizationDeletion, and with it about StimulusAssets:    *)
(* what the rows promise of the objects, whatever deletes them, and what a *)
(* deleted organization leaves, for any number of assets, runs, handlers,  *)
(* owners and reconcilers.                                                 *)
(*                                                                         *)
(* Four invariants are proved one after the other, each inductive with the *)
(* help of those before it: the types, the order of the deletion itself    *)
(* (SagaOK), the agreement of rows, objects and the handlers between them  *)
(* (AssetsOK), and the coverage of what is stored by the ledger and by     *)
(* whoever cleans along it (LedgerOK).                                     *)
(***************************************************************************)
EXTENDS OrganizationDeletion, TLAPS

-----------------------------------------------------------------------------
(* Rows. *)

\* A handler that does something has a stage and an asset.
LEMMA HandlerFields ==
  ASSUME NEW row \in HandlerRows, row # Idle
  PROVE  row.stage \in Stages /\ row.asset \in Assets
BY DEF HandlerRows

\* It goes on with another stage and the same asset.
LEMMA HandlerProceeds ==
  ASSUME NEW row \in HandlerRows, row # Idle, NEW stage \in Stages
  PROVE  /\ [row EXCEPT !.stage = stage] \in HandlerRows
         /\ [row EXCEPT !.stage = stage] # Idle
         /\ [row EXCEPT !.stage = stage].stage = stage
         /\ [row EXCEPT !.stage = stage].asset = row.asset
<1>1. row \in [stage : Stages, asset : Assets]
  BY DEF HandlerRows
<1>2. [row EXCEPT !.stage = stage] \in [stage : Stages, asset : Assets]
  BY <1>1
<1>3. stage # "idle"
  BY DEF Stages
<1> QED
  BY <1>1, <1>2, <1>3 DEF HandlerRows, Idle

\* What a step makes of one handler.
LEMMA ProceedsRow ==
  ASSUME AssetTypeOK, NEW h \in Handlers, handlers[h] # Idle, NEW stage \in Stages,
         Proceeds(h, stage)
  PROVE  /\ handlers' \in [Handlers -> HandlerRows]
         /\ handlers'[h] # Idle
         /\ handlers'[h].stage = stage /\ handlers'[h].asset = handlers[h].asset
         /\ \A g \in Handlers : g # h => handlers'[g] = handlers[g]
<1>1. handlers \in [Handlers -> HandlerRows] /\ handlers[h] \in HandlerRows
  BY DEF AssetTypeOK
<1>2. handlers' = [handlers EXCEPT ![h] = [handlers[h] EXCEPT !.stage = stage]]
  BY <1>1 DEF Proceeds
<1>3. /\ [handlers[h] EXCEPT !.stage = stage] \in HandlerRows
      /\ [handlers[h] EXCEPT !.stage = stage] # Idle
      /\ [handlers[h] EXCEPT !.stage = stage].stage = stage
      /\ [handlers[h] EXCEPT !.stage = stage].asset = handlers[h].asset
  BY <1>1, HandlerProceeds
<1>4. handlers'[h] = [handlers[h] EXCEPT !.stage = stage]
  BY <1>1, <1>2
<1>5. handlers' \in [Handlers -> HandlerRows]
  BY <1>1, <1>2, <1>3
<1>6. \A g \in Handlers : g # h => handlers'[g] = handlers[g]
  BY <1>1, <1>2
<1> QED
  BY <1>3, <1>4, <1>5, <1>6

LEMMA AnswersRow ==
  ASSUME AssetTypeOK, NEW h \in Handlers, Answers(h)
  PROVE  /\ handlers' \in [Handlers -> HandlerRows]
         /\ handlers'[h] = Idle
         /\ \A g \in Handlers : g # h => handlers'[g] = handlers[g]
BY DEF AssetTypeOK, Answers, HandlerRows

LEMMA BeginsRow ==
  ASSUME AssetTypeOK, NEW h \in Handlers, NEW a \in Assets, NEW stage \in Stages,
         Begins(h, a, stage)
  PROVE  /\ handlers' \in [Handlers -> HandlerRows]
         /\ handlers'[h] # Idle
         /\ handlers'[h].stage = stage /\ handlers'[h].asset = a
         /\ \A g \in Handlers : g # h => handlers'[g] = handlers[g]
         /\ UNCHANGED <<organization, assets, profiles, objects>>
<1>1. [stage |-> stage, asset |-> a] \in HandlerRows /\ stage # "idle"
  BY DEF HandlerRows, Stages
<1>2. [stage |-> stage, asset |-> a] # Idle
  BY <1>1 DEF Idle
<1> QED
  BY <1>1, <1>2 DEF AssetTypeOK, Begins

-----------------------------------------------------------------------------
(* The rows, the objects and the handlers between them. *)

\* What holds between the calls of one request: its asset exists; an object it saw or
\* put is there as long as somebody expects it; it removes or forgets only what nobody
\* expects; and it confirms a deletion only after the bytes were gone.
HandlerOK(h) ==
  handlers[h] # Idle =>
    /\ organization # "gone" => assets[Asset(h)] # "none"
    /\ handlers[h].stage \in {"upload_verify", "upload_confirm"} /\ Expected(Asset(h)) =>
         Present(Asset(h))
    /\ handlers[h].stage \in {"upload_remove", "delete_object", "delete_verify",
                              "delete_confirm"} => ~Expected(Asset(h))
    /\ handlers[h].stage = "delete_confirm" => objects[Asset(h)] # "stored"

\* Bytes that were expected when they came belong to an asset that is not yet deleted.
ObjectOK(a) ==
  organization = "active" /\ objects[a] = "stored" => assets[a] \notin {"none", "deleted"}

AssetsOK ==
  /\ AssetTypeOK
  /\ \A h \in Handlers : HandlerOK(h)
  /\ \A a \in Assets : ObjectOK(a)
  /\ AvailableHasObject
  /\ ProfileHasAsset

\* What no step undoes, whoever takes it.
Onwards ==
  \A a \in Assets :
    /\ Expected(a)' => Expected(a) \/ (organization # "gone" /\ assets[a] = "none")
    /\ organization' # "gone" =>
         organization # "gone" /\ (assets[a] # "none" => assets'[a] # "none")
    /\ Expected(a)' /\ Present(a) => Present(a)'
    /\ objects'[a] = "stored" => objects[a] = "stored" \/ Expected(a)

\* So a handler that did nothing is none the worse for what others did.
LEMMA Bystander ==
  ASSUME AssetTypeOK, Onwards, NEW h \in Handlers, handlers'[h] = handlers[h], HandlerOK(h)
  PROVE  HandlerOK(h)'
<1> SUFFICES ASSUME handlers[h] # Idle
             PROVE  HandlerOK(h)'
  BY DEF HandlerOK
<1> DEFINE a == handlers[h].asset
<1>1. a \in Assets
  BY HandlerFields DEF AssetTypeOK
<1>2. Asset(h) = a /\ Asset(h)' = a
  BY DEF Asset
<1> HIDE DEF a
<1> QED
  BY <1>1, <1>2 DEF HandlerOK, Onwards

\* A step of one handler that changes no row and no object.
LEMMA HandlerOnly ==
  ASSUME AssetsOK, NEW h \in Handlers,
         UNCHANGED <<organization, assets, profiles, objects>>,
         handlers' \in [Handlers -> HandlerRows],
         \A g \in Handlers : g # h => handlers'[g] = handlers[g],
         HandlerOK(h)'
  PROVE  AssetsOK'
<1>1. AssetTypeOK'
  BY DEF AssetsOK, AssetTypeOK
<1>2. Onwards
  BY DEF Onwards, Expected, Present
<1>3. \A g \in Handlers : HandlerOK(g)'
  BY <1>2, Bystander DEF AssetsOK
<1>4. (\A a \in Assets : ObjectOK(a))' /\ AvailableHasObject' /\ ProfileHasAsset'
  BY DEF AssetsOK, ObjectOK, AvailableHasObject, ProfileHasAsset, Present
<1> QED
  BY <1>1, <1>3, <1>4 DEF AssetsOK

\* The reservation of an asset.
LEMMA CreateKeeps ==
  ASSUME AssetsOK, NEW a \in Assets, CreateStimulusAsset(a)
  PROVE  AssetsOK'
<1>1. /\ AssetTypeOK /\ organization = "active" /\ assets[a] = "none"
      /\ assets' = [assets EXCEPT ![a] = "pending_upload"]
      /\ UNCHANGED <<organization, profiles, objects, handlers>>
  BY DEF AssetsOK, CreateStimulusAsset
<1>2. AssetTypeOK'
  BY <1>1 DEF AssetTypeOK, Statuses, Wanted
<1>3. Onwards
  BY <1>1 DEF Onwards, Expected, Present, AssetTypeOK
<1>4. \A g \in Handlers : HandlerOK(g)'
  BY <1>1, <1>3, Bystander DEF AssetsOK
<1>5. (\A b \in Assets : ObjectOK(b))' /\ AvailableHasObject' /\ ProfileHasAsset'
  BY <1>1 DEF AssetsOK, AssetTypeOK, ObjectOK, AvailableHasObject, ProfileHasAsset, Present
<1> QED
  BY <1>2, <1>4, <1>5 DEF AssetsOK

\* A request begins with a row that exists.
LEMMA BeginKeeps ==
  ASSUME AssetsOK, NEW h \in Handlers, NEW a \in Assets,
         BeginUpload(h, a) \/ BeginDeletion(h, a) \/ BeginProfile(h, a)
  PROVE  AssetsOK'
<1>1. PICK stage \in {"upload_stat", "delete_request", "profile_get"} :
        assets[a] # "none" /\ Begins(h, a, stage)
  BY DEF BeginUpload, BeginDeletion, BeginProfile, Wanted
<1>2. /\ handlers' \in [Handlers -> HandlerRows]
      /\ handlers'[h].stage = stage /\ handlers'[h].asset = a
      /\ \A g \in Handlers : g # h => handlers'[g] = handlers[g]
      /\ UNCHANGED <<organization, assets, profiles, objects>>
  BY <1>1, BeginsRow DEF AssetsOK, Stages
<1>3. HandlerOK(h)'
  BY <1>1, <1>2 DEF HandlerOK, Asset
<1> QED
  BY <1>2, <1>3, HandlerOnly

\* The calls of a request that only look.
LEMMA LookKeeps ==
  ASSUME AssetsOK, NEW h \in Handlers,
         StatForUpload(h) \/ VerifyUpload(h) \/ VerifyDeletion(h) \/ GetObject(h) \/ Abandon(h)
  PROVE  AssetsOK'
<1>1. /\ AssetTypeOK /\ handlers[h] # Idle /\ HandlerOK(h)
      /\ UNCHANGED <<organization, assets, profiles, objects>>
  BY DEF AssetsOK, StatForUpload, VerifyUpload, VerifyDeletion, GetObject, Abandon, At
<1>2. CASE Answers(h)
  <2>1. /\ handlers' \in [Handlers -> HandlerRows] /\ handlers'[h] = Idle
        /\ \A g \in Handlers : g # h => handlers'[g] = handlers[g]
    BY <1>1, <1>2, AnswersRow
  <2>2. HandlerOK(h)'
    BY <2>1 DEF HandlerOK
  <2> QED
    BY <1>1, <2>1, <2>2, HandlerOnly
<1>3. ASSUME NEW stage \in Stages, Proceeds(h, stage),
             stage \in {"upload_verify", "upload_confirm"} => Present(Asset(h)),
             stage \in {"upload_remove", "delete_object", "delete_verify", "delete_confirm"} =>
               ~Expected(Asset(h)),
             stage = "delete_confirm" => objects[Asset(h)] # "stored"
      PROVE  AssetsOK'
  <2>1. /\ handlers' \in [Handlers -> HandlerRows]
        /\ handlers'[h].stage = stage /\ handlers'[h].asset = handlers[h].asset
        /\ \A g \in Handlers : g # h => handlers'[g] = handlers[g]
    BY <1>1, <1>3, ProceedsRow
  <2>2. HandlerOK(h)'
    BY <1>1, <1>3, <2>1 DEF HandlerOK, Asset, Expected, Present
  <2> QED
    BY <1>1, <2>1, <2>2, HandlerOnly
<1>4. CASE StatForUpload(h)
  BY <1>3, <1>4 DEF StatForUpload, Stages
<1>5. CASE VerifyUpload(h)
  <2>1. CASE Present(Asset(h))
    BY <1>3, <1>5, <2>1 DEF VerifyUpload, Stages
  <2>2. CASE ~Present(Asset(h))
    <3>1. ~Expected(Asset(h))
      BY <1>1, <1>5, <2>2 DEF VerifyUpload, At, HandlerOK
    <3> QED
      BY <1>3, <1>5, <2>2, <3>1 DEF VerifyUpload, Stages
  <2> QED
    BY <2>1, <2>2
<1>6. CASE VerifyDeletion(h)
  <2>1. ~Expected(Asset(h))
    BY <1>1, <1>6 DEF VerifyDeletion, At, HandlerOK
  <2> QED
    BY <1>2, <1>3, <1>6, <2>1 DEF VerifyDeletion, Stages, Present
<1>7. CASE GetObject(h)
  BY <1>2, <1>3, <1>7 DEF GetObject, Stages
<1>8. CASE Abandon(h)
  BY <1>2, <1>8 DEF Abandon
<1> QED
  BY <1>4, <1>5, <1>6, <1>7, <1>8

\* Removing an object that nobody expects, or a row's step that leaves the objects.
LEMMA ObjectStepKeeps ==
  ASSUME AssetsOK, NEW h \in Handlers,
         PutUpload(h) \/ RemoveUpload(h) \/ DeleteObject(h)
  PROVE  AssetsOK'
<1>1. /\ AssetTypeOK /\ handlers[h] # Idle /\ HandlerOK(h)
      /\ UNCHANGED <<organization, assets, profiles>>
  BY DEF AssetsOK, PutUpload, RemoveUpload, DeleteObject, At
<1>2. PICK a \in Assets : Asset(h) = a
  BY <1>1, HandlerFields DEF AssetTypeOK, Asset
<1>3. \/ PutUpload(h) /\ objects' = [objects EXCEPT ![a] = IF Expected(a) THEN "stored" ELSE "late"]
      \/ ~Expected(a) /\ objects' = [objects EXCEPT ![a] = "absent"]
  BY <1>1, <1>2 DEF PutUpload, PutObject, RemoveUpload, DeleteObject, RemoveObject, At, HandlerOK
<1>4. objects' \in [Assets -> {"absent", "stored", "late"}]
  BY <1>1, <1>2, <1>3 DEF AssetTypeOK
<1>5. Onwards
  BY <1>1, <1>2, <1>3 DEF Onwards, Expected, Present, AssetTypeOK
<1>6. /\ handlers' \in [Handlers -> HandlerRows]
      /\ \A g \in Handlers : g # h => handlers'[g] = handlers[g]
      /\ HandlerOK(h)'
  <2>1. CASE PutUpload(h)
    <3>1. /\ handlers' \in [Handlers -> HandlerRows]
          /\ handlers'[h].stage = "upload_verify" /\ handlers'[h].asset = a
          /\ \A g \in Handlers : g # h => handlers'[g] = handlers[g]
      BY <1>1, <1>2, <2>1, ProceedsRow DEF PutUpload, Stages, Asset
    <3>2. Present(a)'
      BY <1>1, <1>2, <2>1 DEF PutUpload, PutObject, Present, AssetTypeOK
    <3>3. organization' # "gone" => assets'[a] # "none"
      BY <1>1, <1>2 DEF HandlerOK
    <3> QED
      BY <3>1, <3>2, <3>3 DEF HandlerOK, Asset
  <2>2. CASE RemoveUpload(h)
    <3>1. /\ handlers' \in [Handlers -> HandlerRows] /\ handlers'[h] = Idle
          /\ \A g \in Handlers : g # h => handlers'[g] = handlers[g]
      BY <1>1, <2>2, AnswersRow DEF RemoveUpload
    <3> QED
      BY <3>1 DEF HandlerOK
  <2>3. CASE DeleteObject(h)
    <3>1. /\ handlers' \in [Handlers -> HandlerRows]
          /\ handlers'[h].stage = "delete_verify" /\ handlers'[h].asset = a
          /\ \A g \in Handlers : g # h => handlers'[g] = handlers[g]
      BY <1>1, <1>2, <2>3, ProceedsRow DEF DeleteObject, Stages, Asset
    <3>2. ~Expected(a)'
      BY <1>1, <1>2, <2>3 DEF DeleteObject, At, HandlerOK, Expected
    <3>3. organization' # "gone" => assets'[a] # "none"
      BY <1>1, <1>2 DEF HandlerOK
    <3> QED
      BY <3>1, <3>2, <3>3 DEF HandlerOK, Asset
  <2> QED
    BY <2>1, <2>2, <2>3, <1>3 DEF PutUpload, RemoveUpload, DeleteObject
<1>7. AssetTypeOK'
  BY <1>1, <1>4, <1>6 DEF AssetTypeOK
<1>8. \A g \in Handlers : HandlerOK(g)'
  BY <1>1, <1>5, <1>6, Bystander DEF AssetsOK
<1>9. \A b \in Assets : ObjectOK(b)'
  BY <1>1, <1>2, <1>3 DEF AssetsOK, AssetTypeOK, ObjectOK, Expected, Wanted
<1>10. AvailableHasObject' /\ ProfileHasAsset'
  BY <1>1, <1>2, <1>3 DEF AssetsOK, AssetTypeOK, AvailableHasObject, ProfileHasAsset, Present,
                          Expected, Wanted
<1> QED
  BY <1>7, <1>8, <1>9, <1>10 DEF AssetsOK

\* The stored functions that change a row or a profile.
LEMMA RowStepKeeps ==
  ASSUME AssetsOK, NEW h \in Handlers,
         ConfirmUpload(h) \/ RequestDeletion(h) \/ ConfirmDeletion(h) \/ CreateProfile(h)
  PROVE  AssetsOK'
<1>1. /\ AssetTypeOK /\ handlers[h] # Idle /\ HandlerOK(h)
      /\ UNCHANGED <<organization, objects>>
  BY DEF AssetsOK, ConfirmUpload, RequestDeletion, ConfirmDeletion, CreateProfile, At
<1>2. PICK a \in Assets : Asset(h) = a
  BY <1>1, HandlerFields DEF AssetTypeOK, Asset
<1>3. \/ UNCHANGED <<assets, profiles>>
      \/ /\ ConfirmUpload(h) /\ Confirmable(a)
         /\ assets' = [assets EXCEPT ![a] = "available"] /\ profiles' = profiles
      \/ /\ RequestDeletion(h) /\ organization = "active"
         /\ assets' = IF assets[a] \in Wanted
                        THEN [assets EXCEPT ![a] = "deletion_requested"] ELSE assets
         /\ profiles' = Retired(a)
      \/ /\ ConfirmDeletion(h) /\ organization = "active" /\ assets[a] = "deletion_requested"
         /\ assets' = [assets EXCEPT ![a] = "deleted"] /\ profiles' = profiles
      \/ /\ CreateProfile(h) /\ Profilable(a)
         /\ assets' = assets /\ profiles' = profiles \cup {a}
  BY <1>1, <1>2 DEF ConfirmUpload, RequestDeletion, ConfirmDeletion, CreateProfile
<1>4. assets' \in [Assets -> Statuses \cup {"none"}] /\ profiles' \subseteq Assets
  BY <1>1, <1>2, <1>3 DEF AssetTypeOK, Statuses, Wanted, Retired
<1>5. Onwards
  BY <1>1, <1>2, <1>3 DEF Onwards, Expected, Present, AssetTypeOK, Wanted, Confirmable
<1>6. /\ handlers' \in [Handlers -> HandlerRows]
      /\ \A g \in Handlers : g # h => handlers'[g] = handlers[g]
      /\ HandlerOK(h)'
  <2>1. CASE Answers(h)
    BY <1>1, <2>1, AnswersRow DEF HandlerOK
  <2>2. CASE RequestDeletion(h) /\ organization = "active"
    <3>1. /\ handlers' \in [Handlers -> HandlerRows]
          /\ handlers'[h].stage = "delete_object" /\ handlers'[h].asset = a
          /\ \A g \in Handlers : g # h => handlers'[g] = handlers[g]
      BY <1>1, <1>2, <2>2, ProceedsRow DEF RequestDeletion, Stages, Asset
    <3>2. assets' = IF assets[a] \in Wanted
                      THEN [assets EXCEPT ![a] = "deletion_requested"] ELSE assets
      BY <1>1, <1>2, <2>2 DEF RequestDeletion
    <3>3. assets'[a] \notin Wanted /\ (assets[a] # "none" => assets'[a] # "none")
      BY <1>1, <1>2, <3>2 DEF Wanted, AssetTypeOK
    <3>4. ~Expected(a)' /\ (organization' # "gone" => assets'[a] # "none")
      BY <1>1, <1>2, <3>3 DEF HandlerOK, Expected
    <3> QED
      BY <3>1, <3>4 DEF HandlerOK, Asset
  <2> QED
    BY <2>1, <2>2 DEF ConfirmUpload, RequestDeletion, ConfirmDeletion, CreateProfile
<1>7. AssetTypeOK'
  BY <1>1, <1>4, <1>6 DEF AssetTypeOK
<1>8. \A g \in Handlers : HandlerOK(g)'
  BY <1>1, <1>5, <1>6, Bystander DEF AssetsOK
<1>9. \A b \in Assets : ObjectOK(b)'
  <2>1. ConfirmDeletion(h) => objects[a] # "stored"
    BY <1>1, <1>2 DEF ConfirmDeletion, At, HandlerOK
  <2> QED
    BY <1>1, <1>2, <1>3, <2>1 DEF AssetsOK, AssetTypeOK, ObjectOK, Wanted
<1>10. AvailableHasObject'
  <2>1. ConfirmUpload(h) /\ Confirmable(a) => Present(a)
    BY <1>1, <1>2 DEF ConfirmUpload, At, HandlerOK, Confirmable, Expected, Wanted
  <2> QED
    BY <1>1, <1>2, <1>3, <2>1 DEF AssetsOK, AssetTypeOK, AvailableHasObject, Present, Wanted
<1>11. ProfileHasAsset'
  BY <1>1, <1>2, <1>3 DEF AssetsOK, AssetTypeOK, ProfileHasAsset, Retired, Profilable,
                          Confirmable, Wanted
<1> QED
  BY <1>7, <1>8, <1>9, <1>10, <1>11 DEF AssetsOK

\* All of them: the assets by themselves keep the agreement.
LEMMA AssetNextKeeps ==
  ASSUME AssetsOK, AssetNext
  PROVE  AssetsOK'
<1>1. ASSUME NEW h \in Handlers, HandlerStep(h) PROVE AssetsOK'
  BY <1>1, BeginKeeps, LookKeeps, ObjectStepKeeps, RowStepKeeps DEF HandlerStep
<1> QED
  BY <1>1, CreateKeeps DEF AssetNext

\* They leave the organization as it is.
LEMMA AssetNextStays ==
  ASSUME AssetNext
  PROVE  organization' = organization
<1>1. ASSUME NEW h \in Handlers, HandlerStep(h) PROVE organization' = organization
  BY <1>1 DEF HandlerStep, BeginUpload, BeginDeletion, BeginProfile, Begins, StatForUpload,
     PutUpload, VerifyUpload, RemoveUpload, ConfirmUpload, RequestDeletion, DeleteObject,
     VerifyDeletion, ConfirmDeletion, GetObject, CreateProfile, Abandon
<1> QED
  BY <1>1 DEF AssetNext, CreateStimulusAsset

-----------------------------------------------------------------------------
(* Rows of the ledger, and those of the processes that clean along it. *)

LEMMA LedgerRows ==
  /\ NoResource \in ResourceRows
  /\ [NoResource EXCEPT !.status = "pending"] \in ResourceRows
  /\ [NoResource EXCEPT !.status = "pending"].status = "pending"
BY CleanupsAssumption DEF NoResource, ResourceRows

\* What the functions write into a row of the ledger.
LEMMA ResourceEdits ==
  ASSUME NEW row \in ResourceRows
  PROVE  /\ row.status \in {"none", "pending", "completed"} /\ row.count \in 0..MaxCleanups
         /\ \A c \in {"none", "live", "lapsed"} : [row EXCEPT !.claim = c] \in ResourceRows
         /\ [row EXCEPT !.status = "completed", !.claim = "none"] \in ResourceRows
         /\ row.count < MaxCleanups =>
              [row EXCEPT !.count = row.count + 1, !.claim = "live"] \in ResourceRows
<1>1. /\ row.status \in {"none", "pending", "completed"} /\ row.count \in 0..MaxCleanups
      /\ row.claim \in {"none", "live", "lapsed"}
  BY DEF ResourceRows
<1>2. row.count < MaxCleanups => row.count + 1 \in 0..MaxCleanups
  BY <1>1, CleanupsAssumption
<1> QED
  BY <1>1, <1>2 DEF ResourceRows

\* A reconciler that cleans has a resource and a token, and keeps them.
LEMMA ReconcilerFields ==
  ASSUME NEW row \in ReconcilerRows, row # Idle
  PROVE  /\ row.stage \in {"clean", "complete", "release"} /\ row.key \in Keys
         /\ row.token \in 1..MaxCleanups
BY DEF ReconcilerRows

LEMMA ReconcilerEnters ==
  ASSUME NEW row \in ReconcilerRows, row # Idle, NEW stage \in {"clean", "complete", "release"}
  PROVE  /\ [row EXCEPT !.stage = stage] \in ReconcilerRows
         /\ [row EXCEPT !.stage = stage] # Idle
         /\ [row EXCEPT !.stage = stage].stage = stage
         /\ [row EXCEPT !.stage = stage].key = row.key
         /\ [row EXCEPT !.stage = stage].token = row.token
<1>1. row \in [stage : {"clean", "complete", "release"}, key : Keys, token : 1..MaxCleanups]
  BY DEF ReconcilerRows
<1>2. [row EXCEPT !.stage = stage] \in
        [stage : {"clean", "complete", "release"}, key : Keys, token : 1..MaxCleanups]
  BY <1>1
<1> QED
  BY <1>1, <1>2 DEF ReconcilerRows, Idle

LEMMA IdleReconciler == Idle \in ReconcilerRows
BY DEF ReconcilerRows

LEMMA NewClaim ==
  ASSUME NEW k \in Keys, NEW t \in 1..MaxCleanups
  PROVE  /\ [stage |-> "clean", key |-> k, token |-> t] \in ReconcilerRows
         /\ [stage |-> "clean", key |-> k, token |-> t] # Idle
BY DEF ReconcilerRows, Idle

LEMMA OwnerEdits ==
  ASSUME NEW stage \in {"idle", "lock", "decide", "clean"}, NEW todo \in SUBSET Keys
  PROVE  [stage |-> stage, todo |-> todo] \in OwnerRows
BY DEF OwnerRows

-----------------------------------------------------------------------------
(* The order of the deletion itself. *)

SagaTypeOK ==
  /\ organization \in {"active", "disabled", "gone"}
  /\ runs \in [Runs -> {"none", "keyed", "inserted", "refused", "live", "ended"}]
  /\ jobs \in [Runs -> {"absent", "queued", "late"}]
  /\ deletion \in {"none", "pending", "completed"}
  /\ resources \in [Keys -> ResourceRows]
  /\ locked \in Owners \cup {"nobody"}
  /\ owners \in [Owners -> OwnerRows]
  /\ reconcilers \in [Reconcilers -> ReconcilerRows]

\* The request and the organization agree, nobody cleans before the request, the row is
\* locked by the one handler that decides and shared by no creation meanwhile, and no
\* creation that was too late gets as far as a run.
OrderOK ==
  /\ organization = "active" <=> deletion = "none"
  /\ organization = "gone" <=> deletion = "completed"
  /\ organization = "active" => \A k \in Keys : resources[k] = NoResource
  /\ \A o \in Owners : OwnerAt(o, "decide") => locked = o
  /\ \A o \in Owners : OwnerAt(o, "clean") => organization # "active"
  /\ \A d \in Reconcilers : reconcilers[d] # Idle => organization # "active"
  /\ locked # "nobody" => Unshared
  /\ organization # "active" => \A r \in Runs : runs[r] \notin {"inserted", "live"}

SagaOK == SagaTypeOK /\ OrderOK

\* What a step makes of one owner's handler, and of one reconciler.
LEMMA OwnerTurnsRow ==
  ASSUME SagaTypeOK, NEW o \in Owners, NEW stage \in {"idle", "lock", "decide", "clean"},
         NEW todo \in SUBSET Keys, OwnerTurns(o, stage, todo)
  PROVE  /\ owners' \in [Owners -> OwnerRows]
         /\ owners'[o].stage = stage /\ owners'[o].todo = todo
         /\ \A p \in Owners : p # o => owners'[p] = owners[p]
BY OwnerEdits DEF SagaTypeOK, OwnerTurns

LEMMA EntersRow ==
  ASSUME SagaTypeOK, NEW d \in Reconcilers, reconcilers[d] # Idle,
         NEW stage \in {"clean", "complete", "release"}, Enters(d, stage)
  PROVE  /\ reconcilers' \in [Reconcilers -> ReconcilerRows]
         /\ reconcilers'[d] # Idle /\ reconcilers'[d].stage = stage
         /\ reconcilers'[d].key = reconcilers[d].key
         /\ reconcilers'[d].token = reconcilers[d].token
         /\ \A e \in Reconcilers : e # d => reconcilers'[e] = reconcilers[e]
<1>1. /\ reconcilers \in [Reconcilers -> ReconcilerRows] /\ reconcilers[d] \in ReconcilerRows
      /\ reconcilers' = [reconcilers EXCEPT ![d] = [reconcilers[d] EXCEPT !.stage = stage]]
  BY DEF SagaTypeOK, Enters
<1>2. /\ [reconcilers[d] EXCEPT !.stage = stage] \in ReconcilerRows
      /\ [reconcilers[d] EXCEPT !.stage = stage] # Idle
      /\ [reconcilers[d] EXCEPT !.stage = stage].stage = stage
      /\ [reconcilers[d] EXCEPT !.stage = stage].key = reconcilers[d].key
      /\ [reconcilers[d] EXCEPT !.stage = stage].token = reconcilers[d].token
  BY <1>1, ReconcilerEnters
<1>3. reconcilers'[d] = [reconcilers[d] EXCEPT !.stage = stage]
  BY <1>1
<1>4. reconcilers' \in [Reconcilers -> ReconcilerRows]
  BY <1>1, <1>2
<1>5. \A e \in Reconcilers : e # d => reconcilers'[e] = reconcilers[e]
  BY <1>1
<1> QED
  BY <1>2, <1>3, <1>4, <1>5

LEMMA RestsRow ==
  ASSUME SagaTypeOK, NEW d \in Reconcilers, Rests(d)
  PROVE  /\ reconcilers' \in [Reconcilers -> ReconcilerRows]
         /\ reconcilers'[d] = Idle
         /\ \A e \in Reconcilers : e # d => reconcilers'[e] = reconcilers[e]
BY IdleReconciler DEF SagaTypeOK, Rests

\* Runs: a creation is inserted only in an active organization, and only while nobody has
\* the organization's row.
LEMMA RunStepSaga ==
  ASSUME SagaOK, NEW r \in Runs, RunStep(r)
  PROVE  SagaOK'
<1>1. UNCHANGED <<organization, deletion, resources, locked, owners, reconcilers>>
  BY DEF RunStep, InsertKey, InsertRun, CommitRun, RollBack, EndRun, PublishJob, RunMoves,
         sagaVars, assetVars
<1>2. \/ runs' = runs
      \/ runs' = [runs EXCEPT ![r] = "keyed"] /\ locked = "nobody"
      \/ runs' = [runs EXCEPT ![r] = "refused"]
      \/ runs' = [runs EXCEPT ![r] = "inserted"] /\ organization = "active" /\ runs[r] = "keyed"
      \/ runs' = [runs EXCEPT ![r] = "live"] /\ runs[r] = "inserted"
      \/ runs' = [runs EXCEPT ![r] = "ended"]
  BY DEF RunStep, InsertKey, InsertRun, CommitRun, RollBack, EndRun, PublishJob, RunMoves,
         Admissible
<1>3. jobs' \in [Runs -> {"absent", "queued", "late"}]
  BY DEF SagaOK, SagaTypeOK, RunStep, InsertKey, InsertRun, CommitRun, RollBack, EndRun,
         PublishJob, RunMoves
<1>4. SagaTypeOK'
  BY <1>1, <1>2, <1>3 DEF SagaOK, SagaTypeOK
<1>5. (locked # "nobody" => Unshared)'
  BY <1>1, <1>2 DEF SagaOK, OrderOK, SagaTypeOK, Unshared
<1>6. (organization # "active" => \A q \in Runs : runs[q] \notin {"inserted", "live"})'
  BY <1>1, <1>2 DEF SagaOK, OrderOK, SagaTypeOK
<1>7. (\A o \in Owners : (OwnerAt(o, "decide") => locked = o)
                         /\ (OwnerAt(o, "clean") => organization # "active"))'
  BY <1>1 DEF SagaOK, OrderOK, OwnerAt
<1>8. OrderOK'
  BY <1>1, <1>5, <1>6, <1>7 DEF SagaOK, OrderOK
<1> QED
  BY <1>4, <1>8 DEF SagaOK

\* The cascade.
LEMMA CascadeSaga ==
  ASSUME SagaOK, Deletable, Cascade,
         UNCHANGED <<runs, locked>>,
         jobs' \in [Runs -> {"absent", "queued", "late"}],
         owners' \in [Owners -> OwnerRows], reconcilers' \in [Reconcilers -> ReconcilerRows],
         \A o \in Owners : owners'[o].stage \in {"idle", owners[o].stage}
  PROVE  SagaOK'
<1>1. organization' = "gone" /\ deletion' = "completed" /\ organization = "disabled"
  BY DEF Cascade, Deletable, SagaOK, SagaTypeOK, OrderOK
<1>2. resources' \in [Keys -> ResourceRows]
  BY LedgerRows DEF Cascade
<1>3. SagaTypeOK'
  BY <1>1, <1>2 DEF SagaOK, SagaTypeOK
<1>4. OrderOK'
  BY <1>1 DEF SagaOK, OrderOK, OwnerAt, Unshared
<1> QED
  BY <1>3, <1>4 DEF SagaOK

\* The owner's handler.
LEMMA OwnerStepSaga ==
  ASSUME SagaOK, NEW o \in Owners, OwnerStep(o)
  PROVE  SagaOK'
<1>1. SagaTypeOK /\ OrderOK /\ {} \in SUBSET Keys /\ Ledger \in SUBSET Keys
      /\ Manifest \in SUBSET Keys /\ owners[o].todo \in SUBSET Keys /\ owners[o] \in OwnerRows
  BY DEF SagaOK, SagaTypeOK, OwnerRows, Ledger, Manifest, Keys
<1>2. CASE Look(o)
  <2>1. UNCHANGED <<organization, runs, jobs, deletion, resources, locked, reconcilers>>
    BY <1>2 DEF Look, assetVars, runVars
  <2>2. PICK stage \in {"lock", "clean"}, todo \in SUBSET Keys :
          OwnerTurns(o, stage, todo) /\ (stage = "clean" => deletion = "pending")
    BY <1>1, <1>2 DEF Look
  <2>3. /\ owners' \in [Owners -> OwnerRows] /\ owners'[o].stage = stage
        /\ \A p \in Owners : p # o => owners'[p] = owners[p]
    BY <1>1, <2>2, OwnerTurnsRow
  <2>4. SagaTypeOK'
    BY <1>1, <2>1, <2>3 DEF SagaTypeOK
  <2>5. OrderOK'
    BY <1>1, <2>1, <2>2, <2>3 DEF OrderOK, OwnerAt, Unshared
  <2> QED
    BY <2>4, <2>5 DEF SagaOK
<1>3. CASE LockOrganization(o)
  <2>1. /\ UNCHANGED <<organization, runs, jobs, deletion, resources, reconcilers>>
        /\ locked' = o /\ locked = "nobody" /\ Unshared
    BY <1>3 DEF LockOrganization, Free, assetVars, runVars
  <2>2. /\ owners' \in [Owners -> OwnerRows] /\ owners'[o].stage = "decide"
        /\ \A p \in Owners : p # o => owners'[p] = owners[p]
    BY <1>1, <1>3, OwnerTurnsRow DEF LockOrganization
  <2>3. SagaTypeOK'
    BY <1>1, <2>1, <2>2 DEF SagaTypeOK
  <2>4. \A p \in Owners : ~OwnerAt(p, "decide")
    BY <1>1, <2>1, KeysAssumption DEF OrderOK
  <2>5. OrderOK'
    BY <1>1, <2>1, <2>2, <2>4 DEF OrderOK, OwnerAt, Unshared
  <2> QED
    BY <2>3, <2>5 DEF SagaOK
<1>4. CASE DisableOrganization(o)
  <2>1. /\ UNCHANGED <<runs, jobs, reconcilers>> /\ locked' = "nobody" /\ Unshared
        /\ OwnerAt(o, "decide") /\ locked = o
        /\ \A p \in Owners : p # o => ~OwnerAt(p, "decide")
    BY <1>1, <1>4, KeysAssumption DEF DisableOrganization, OrderOK, runVars
  <2>2. CASE organization = "active" /\ ~Unfinished
    <3>1. /\ organization' = "disabled" /\ deletion' = "pending"
          /\ resources' = [k \in Keys |-> IF k \in Manifest
               THEN [NoResource EXCEPT !.status = "pending"] ELSE NoResource]
          /\ OwnerTurns(o, "clean", Manifest)
      BY <1>4, <2>2 DEF DisableOrganization
    <3>2. /\ owners' \in [Owners -> OwnerRows] /\ owners'[o].stage = "clean"
          /\ \A p \in Owners : p # o => owners'[p] = owners[p]
      BY <1>1, <3>1, OwnerTurnsRow
    <3>3. resources' \in [Keys -> ResourceRows]
      BY <3>1, LedgerRows
    <3>4. SagaTypeOK'
      BY <1>1, <2>1, <3>1, <3>2, <3>3 DEF SagaTypeOK
    <3>5. OrderOK'
      BY <1>1, <2>1, <2>2, <3>1, <3>2 DEF OrderOK, OwnerAt, Unshared, Unfinished
    <3> QED
      BY <3>4, <3>5 DEF SagaOK
  <2>3. CASE ~(organization = "active" /\ ~Unfinished)
    <3>1. UNCHANGED <<organization, deletion, resources>> /\ OwnerTurns(o, "idle", {})
      BY <1>4, <2>3 DEF DisableOrganization
    <3>2. /\ owners' \in [Owners -> OwnerRows] /\ owners'[o].stage = "idle"
          /\ \A p \in Owners : p # o => owners'[p] = owners[p]
      BY <1>1, <3>1, OwnerTurnsRow
    <3>3. SagaTypeOK'
      BY <1>1, <2>1, <3>1, <3>2 DEF SagaTypeOK
    <3>4. OrderOK'
      BY <1>1, <2>1, <3>1, <3>2 DEF OrderOK, OwnerAt, Unshared
    <3> QED
      BY <3>3, <3>4 DEF SagaOK
  <2> QED
    BY <2>2, <2>3
<1>5. CASE OwnerCleans(o)
  <2>1. PICK k \in Cleaned(owners[o].todo) :
          Remove(k) /\ OwnerTurns(o, "clean", owners[o].todo \ {k})
    BY <1>5 DEF OwnerCleans
  <2>2. UNCHANGED <<organization, runs, deletion, resources, locked, reconcilers>>
        /\ OwnerAt(o, "clean")
    BY <1>5 DEF OwnerCleans
  <2>3. /\ owners' \in [Owners -> OwnerRows] /\ owners'[o].stage = "clean"
        /\ \A p \in Owners : p # o => owners'[p] = owners[p]
    BY <1>1, <2>1, OwnerTurnsRow
  <2>4. jobs' \in [Runs -> {"absent", "queued", "late"}]
    BY <1>1, <2>1 DEF Remove, SagaTypeOK
  <2>5. SagaTypeOK'
    BY <1>1, <2>2, <2>3, <2>4 DEF SagaTypeOK
  <2>6. OrderOK'
    BY <1>1, <2>2, <2>3 DEF OrderOK, OwnerAt, Unshared
  <2> QED
    BY <2>5, <2>6 DEF SagaOK
<1>6. CASE ConfirmOrganizationDeletion(o)
  <2>1. UNCHANGED <<runs, jobs, locked, reconcilers>> /\ OwnerTurns(o, "idle", {})
    BY <1>6 DEF ConfirmOrganizationDeletion
  <2>2. /\ owners' \in [Owners -> OwnerRows] /\ owners'[o].stage = "idle"
        /\ \A p \in Owners : p # o => owners'[p] = owners[p]
    BY <1>1, <2>1, OwnerTurnsRow
  <2>3. CASE Deletable
    BY <1>1, <1>6, <2>1, <2>2, <2>3, CascadeSaga DEF ConfirmOrganizationDeletion, SagaTypeOK
  <2>4. CASE ~Deletable
    <3>1. UNCHANGED <<organization, deletion, resources>>
      BY <1>6, <2>4 DEF ConfirmOrganizationDeletion, Untouched
    <3>2. SagaTypeOK'
      BY <1>1, <2>1, <2>2, <3>1 DEF SagaTypeOK
    <3>3. OrderOK'
      BY <1>1, <2>1, <2>2, <3>1 DEF OrderOK, OwnerAt, Unshared
    <3> QED
      BY <3>2, <3>3 DEF SagaOK
  <2> QED
    BY <2>3, <2>4
<1>7. CASE OwnerGivesUp(o)
  <2>1. /\ UNCHANGED <<organization, runs, jobs, deletion, resources, reconcilers>>
        /\ locked' = IF locked = o THEN "nobody" ELSE locked
    BY <1>7 DEF OwnerGivesUp, assetVars, runVars
  <2>2. /\ owners' \in [Owners -> OwnerRows] /\ owners'[o].stage = "idle"
        /\ \A p \in Owners : p # o => owners'[p] = owners[p]
    BY <1>1, <1>7, OwnerTurnsRow DEF OwnerGivesUp
  <2>3. SagaTypeOK'
    BY <1>1, <2>1, <2>2 DEF SagaTypeOK
  <2>4. OrderOK'
    BY <1>1, <2>1, <2>2 DEF OrderOK, OwnerAt, Unshared
  <2> QED
    BY <2>3, <2>4 DEF SagaOK
<1> QED
  BY <1>2, <1>3, <1>4, <1>5, <1>6, <1>7 DEF OwnerStep

\* A step of a reconciler that leaves the request and the rows of the ledger in their
\* types.
LEMMA ReconcilerOnlySaga ==
  ASSUME SagaOK, deletion # "none",
         UNCHANGED <<organization, runs, deletion, locked, owners>>,
         jobs' \in [Runs -> {"absent", "queued", "late"}],
         resources' \in [Keys -> ResourceRows],
         reconcilers' \in [Reconcilers -> ReconcilerRows]
  PROVE  SagaOK'
<1>1. SagaTypeOK'
  BY DEF SagaOK, SagaTypeOK
<1>2. OrderOK'
  BY DEF SagaOK, SagaTypeOK, OrderOK, OwnerAt, Unshared
<1> QED
  BY <1>1, <1>2 DEF SagaOK

\* What a reconciler writes into the ledger.
LEMMA LedgerWrites ==
  ASSUME SagaTypeOK, NEW d \in Reconcilers, reconcilers[d] # Idle
  PROVE  /\ Completed(d) => resources' \in [Keys -> ResourceRows]
         /\ ReleaseResource(d) => resources' \in [Keys -> ResourceRows]
<1>1. /\ reconcilers[d].key \in Keys /\ resources \in [Keys -> ResourceRows]
      /\ resources[reconcilers[d].key] \in ResourceRows
  BY ReconcilerFields DEF SagaTypeOK
<1>2. PICK k \in Keys : k = reconcilers[d].key
  BY <1>1
<1>3. /\ [resources[k] EXCEPT !.claim = "none"] \in ResourceRows
      /\ [resources[k] EXCEPT !.status = "completed", !.claim = "none"] \in ResourceRows
  BY <1>1, <1>2, ResourceEdits
<1>4. ASSUME Completed(d) PROVE resources' \in [Keys -> ResourceRows]
  <2>1. \/ resources' = resources
        \/ resources' = [resources EXCEPT ![k] =
             [resources[k] EXCEPT !.status = "completed", !.claim = "none"]]
    BY <1>1, <1>2, <1>4 DEF Completed
  <2> QED
    BY <1>1, <1>3, <2>1
<1>5. ASSUME ReleaseResource(d) PROVE resources' \in [Keys -> ResourceRows]
  <2>1. \/ resources' = resources
        \/ resources' = [resources EXCEPT ![k] = [resources[k] EXCEPT !.claim = "none"]]
    BY <1>1, <1>2, <1>5 DEF ReleaseResource
  <2> QED
    BY <1>1, <1>3, <2>1
<1> QED
  BY <1>4, <1>5

LEMMA ReconcilerStepSaga ==
  ASSUME SagaOK, NEW d \in Reconcilers, ReconcilerStep(d)
  PROVE  SagaOK'
<1>1. SagaTypeOK /\ OrderOK
  BY DEF SagaOK
<1>2. ASSUME NEW k \in Keys, ClaimResource(d, k) PROVE SagaOK'
  <2>1. /\ UNCHANGED <<organization, runs, jobs, deletion, locked, owners>>
        /\ deletion # "none"
        /\ resources' = [resources EXCEPT ![k] =
             [resources[k] EXCEPT !.count = resources[k].count + 1, !.claim = "live"]]
        /\ reconcilers' = [reconcilers EXCEPT ![d] =
             [stage |-> "clean", key |-> k, token |-> resources[k].count + 1]]
    BY <1>1, <1>2 DEF ClaimResource, assetVars, runVars, SagaTypeOK
  <2>2. resources[k] \in ResourceRows /\ resources[k].count < MaxCleanups
    BY <1>1, <1>2 DEF ClaimResource, Claimable, SagaTypeOK
  <2>3. [resources[k] EXCEPT !.count = resources[k].count + 1, !.claim = "live"] \in ResourceRows
    BY <2>2, ResourceEdits
  <2>4. resources[k].count \in 0..MaxCleanups
    BY <2>2, ResourceEdits
  <2>5. resources[k].count + 1 \in 1..MaxCleanups
    BY <2>2, <2>4, CleanupsAssumption
  <2>6. [stage |-> "clean", key |-> k, token |-> resources[k].count + 1] \in ReconcilerRows
    BY <2>5, NewClaim
  <2>7. resources' \in [Keys -> ResourceRows]
    BY <1>1, <2>1, <2>3 DEF SagaTypeOK
  <2>8. reconcilers' \in [Reconcilers -> ReconcilerRows]
    BY <1>1, <2>1, <2>6 DEF SagaTypeOK
  <2> QED
    BY <1>1, <2>1, <2>7, <2>8, ReconcilerOnlySaga DEF SagaTypeOK
<1>3. ASSUME reconcilers[d] # Idle, UNCHANGED <<organization, runs, deletion, locked, owners>>,
             jobs' \in [Runs -> {"absent", "queued", "late"}],
             resources' \in [Keys -> ResourceRows],
             Rests(d) \/ \E stage \in {"complete", "release"} : Enters(d, stage)
      PROVE  SagaOK'
  <2>1. deletion # "none"
    BY <1>1, <1>3 DEF OrderOK
  <2>2. reconcilers' \in [Reconcilers -> ReconcilerRows]
    BY <1>1, <1>3, EntersRow, RestsRow
  <2> QED
    BY <1>3, <2>1, <2>2, ReconcilerOnlySaga
<1>4. CASE Cleanup(d) \/ CleanupThrows(d)
  <2>1. reconcilers[d] # Idle /\ (Enters(d, "complete") \/ Enters(d, "release"))
        /\ UNCHANGED <<organization, runs, deletion, locked, owners, resources>>
    BY <1>4 DEF Cleanup, CleanupThrows, ReconcilerAt
  <2>2. jobs' \in [Runs -> {"absent", "queued", "late"}]
    BY <1>1, <1>4 DEF Cleanup, CleanupThrows, Remove, SagaTypeOK
  <2> QED
    BY <1>1, <1>3, <2>1, <2>2 DEF SagaTypeOK
<1>5. CASE CompleteResource(d) \/ CompletionThrows(d) \/ ReleaseResource(d)
  <2>1. reconcilers[d] # Idle /\ (Rests(d) \/ Enters(d, "release"))
        /\ UNCHANGED <<organization, runs, jobs, deletion, locked, owners>>
        /\ (Completed(d) \/ ReleaseResource(d))
    BY <1>5 DEF CompleteResource, CompletionThrows, ReleaseResource, ReconcilerAt, assetVars, runVars
  <2>2. resources' \in [Keys -> ResourceRows]
    BY <1>1, <2>1, LedgerWrites
  <2> QED
    BY <1>1, <1>3, <2>1, <2>2 DEF SagaTypeOK
<1>6. CASE FinalizeReady(d)
  <2>1. UNCHANGED <<runs, jobs, locked, owners, reconcilers>>
    BY <1>6 DEF FinalizeReady
  <2>2. CASE Deletable /\ Ready
    BY <1>1, <1>6, <2>1, <2>2, CascadeSaga DEF FinalizeReady, SagaTypeOK
  <2>3. CASE ~(Deletable /\ Ready)
    <3>1. UNCHANGED <<organization, deletion, resources>>
      BY <1>6, <2>3 DEF FinalizeReady, Untouched
    <3> QED
      BY <1>1, <2>1, <3>1 DEF SagaOK, SagaTypeOK, OrderOK, OwnerAt, Unshared
  <2> QED
    BY <2>2, <2>3
<1>7. CASE Stop(d)
  BY <1>1, <1>3, <1>7 DEF Stop, SagaTypeOK, assetVars, runVars
<1> QED
  BY <1>2, <1>4, <1>5, <1>6, <1>7 DEF ReconcilerStep, PassStep

LEMMA LapseSaga ==
  ASSUME SagaOK, NEW k \in Keys, Lapse(k)
  PROVE  SagaOK'
<1>1. SagaTypeOK /\ OrderOK /\ resources[k] \in ResourceRows /\ NoResource.claim = "none"
      /\ UNCHANGED <<organization, runs, jobs, deletion, locked, owners, reconcilers>>
      /\ resources' = [resources EXCEPT ![k] = [resources[k] EXCEPT !.claim = "lapsed"]]
  BY DEF SagaOK, SagaTypeOK, Lapse, assetVars, runVars, NoResource
<1>2. [resources[k] EXCEPT !.claim = "lapsed"] \in ResourceRows
  BY <1>1, ResourceEdits
<1>3. resources' \in [Keys -> ResourceRows]
  BY <1>1, <1>2 DEF SagaTypeOK
<1>4. deletion # "none"
  BY <1>1 DEF OrderOK, SagaTypeOK, Lapse
<1> QED
  BY <1>1, <1>3, <1>4, ReconcilerOnlySaga DEF SagaTypeOK

\* The order of the deletion is inductive by itself.
LEMMA SagaInit == DeletionInit => SagaOK
<1> SUFFICES ASSUME DeletionInit PROVE SagaOK
  OBVIOUS
<1>1. SagaTypeOK
  BY LedgerRows, IdleReconciler, OwnerEdits DEF DeletionInit, AssetInit, SagaTypeOK, Resting
<1>2. OrderOK
  BY DEF DeletionInit, AssetInit, OrderOK, OwnerAt, Resting
<1> QED
  BY <1>1, <1>2 DEF SagaOK

LEMMA SagaNext == SagaOK /\ [DeletionNext]_deletionVars => SagaOK'
<1> SUFFICES ASSUME SagaOK, [DeletionNext]_deletionVars PROVE SagaOK'
  OBVIOUS
<1>1. ASSUME organization' = organization, UNCHANGED <<runVars, sagaVars>> PROVE SagaOK'
  BY <1>1 DEF SagaOK, SagaTypeOK, OrderOK, OwnerAt, Unshared, runVars, sagaVars
<1>2. CASE AssetNext /\ UNCHANGED <<runVars, sagaVars>>
  BY <1>1, <1>2, AssetNextStays
<1>3. CASE UNCHANGED deletionVars
  BY <1>1, <1>3 DEF deletionVars, assetVars
<1> QED
  BY <1>2, <1>3, RunStepSaga, OwnerStepSaga, ReconcilerStepSaga, LapseSaga DEF DeletionNext

-----------------------------------------------------------------------------
(* The deletion of the organization keeps the agreement of rows and objects: whoever   *)
(* removes an object for it does so when nobody expects an object any more.            *)

LEMMA InactiveKeeps ==
  ASSUME AssetsOK, AssetTypeOK', handlers' = handlers, organization' # "active",
         \A a \in Assets : objects'[a] = "stored" => objects[a] = "stored",
         organization' # "gone" => organization # "gone" /\ UNCHANGED <<assets, profiles>>
  PROVE  AssetsOK'
<1>1. Onwards
  BY DEF Onwards, Expected
<1>2. \A h \in Handlers : HandlerOK(h)'
  BY <1>1, Bystander DEF AssetsOK
<1>3. (\A a \in Assets : ObjectOK(a))' /\ AvailableHasObject' /\ ProfileHasAsset'
  BY DEF AssetsOK, ObjectOK, AvailableHasObject, ProfileHasAsset
<1> QED
  BY <1>2, <1>3 DEF AssetsOK

LEMMA RemovalType ==
  ASSUME AssetTypeOK, NEW k, Remove(k) \/ objects' = objects
  PROVE  /\ objects' \in [Assets -> {"absent", "stored", "late"}]
         /\ \A a \in Assets : objects'[a] = "stored" => objects[a] = "stored"
BY DEF AssetTypeOK, Remove

LEMMA AssetsNext == SagaOK /\ AssetsOK /\ [DeletionNext]_deletionVars => AssetsOK'
<1> SUFFICES ASSUME SagaOK, AssetsOK, [DeletionNext]_deletionVars PROVE AssetsOK'
  OBVIOUS
<1>1. AssetTypeOK /\ OrderOK /\ SagaTypeOK
  BY DEF AssetsOK, SagaOK
<1>2. ASSUME UNCHANGED assetVars PROVE AssetsOK'
  <2>1. \A h \in Handlers : HandlerOK(h)'
    BY <1>1, <1>2, Bystander DEF AssetsOK, assetVars, Onwards, Expected, Present
  <2>2. AssetTypeOK' /\ (\A a \in Assets : ObjectOK(a))' /\ AvailableHasObject'
        /\ ProfileHasAsset'
    BY <1>2 DEF AssetsOK, AssetTypeOK, ObjectOK, AvailableHasObject, ProfileHasAsset, Present,
                assetVars
  <2> QED
    BY <2>1, <2>2 DEF AssetsOK
<1>3. ASSUME organization # "active", NEW k, Remove(k) \/ objects' = objects,
             UNCHANGED <<organization, assets, profiles, handlers>>
      PROVE  AssetsOK'
  <2>1. AssetTypeOK' /\ \A a \in Assets : objects'[a] = "stored" => objects[a] = "stored"
    BY <1>1, <1>3, RemovalType DEF AssetTypeOK
  <2> QED
    BY <1>3, <2>1, InactiveKeeps
<1>4. ASSUME Cascade, UNCHANGED <<profiles, objects, handlers>> PROVE AssetsOK'
  <2>1. AssetTypeOK' /\ organization' = "gone"
    BY <1>1, <1>4 DEF Cascade, AssetTypeOK
  <2> QED
    BY <1>4, <2>1, InactiveKeeps
<1>5. ASSUME NEW r \in Runs, RunStep(r) PROVE AssetsOK'
  BY <1>2, <1>5 DEF RunStep, InsertKey, InsertRun, CommitRun, RollBack, EndRun, PublishJob, RunMoves
<1>6. ASSUME NEW o \in Owners, OwnerStep(o) PROVE AssetsOK'
  <2>1. CASE Look(o) \/ LockOrganization(o) \/ OwnerGivesUp(o)
    BY <1>2, <2>1 DEF Look, LockOrganization, OwnerGivesUp
  <2>2. CASE DisableOrganization(o)
    <3>1. CASE organization = "active" /\ ~Unfinished
      <4>1. organization' = "disabled" /\ UNCHANGED <<assets, profiles, objects, handlers>>
        BY <2>2, <3>1 DEF DisableOrganization
      <4>2. AssetTypeOK'
        BY <1>1, <4>1 DEF AssetTypeOK
      <4> QED
        BY <3>1, <4>1, <4>2, InactiveKeeps
    <3>2. CASE ~(organization = "active" /\ ~Unfinished)
      BY <1>2, <2>2, <3>2 DEF DisableOrganization, assetVars
    <3> QED
      BY <3>1, <3>2
  <2>3. CASE OwnerCleans(o)
    <3>1. PICK k \in Cleaned(owners[o].todo) : Remove(k)
      BY <2>3 DEF OwnerCleans
    <3>2. organization # "active" /\ UNCHANGED <<organization, assets, profiles, handlers>>
      BY <1>1, <2>3 DEF OwnerCleans, OrderOK
    <3> QED
      BY <1>3, <3>1, <3>2
  <2>4. CASE ConfirmOrganizationDeletion(o)
    BY <1>2, <1>4, <2>4 DEF ConfirmOrganizationDeletion, Untouched, assetVars
  <2> QED
    BY <1>6, <2>1, <2>2, <2>3, <2>4 DEF OwnerStep
<1>7. ASSUME NEW d \in Reconcilers, ReconcilerStep(d) PROVE AssetsOK'
  <2>1. CASE \/ \E k \in Keys : ClaimResource(d, k)
             \/ CompleteResource(d) \/ CompletionThrows(d) \/ ReleaseResource(d) \/ Stop(d)
    BY <1>2, <2>1 DEF ClaimResource, CompleteResource, CompletionThrows, ReleaseResource, Stop
  <2>2. CASE Cleanup(d) \/ CleanupThrows(d)
    <3>1. PICK k : k = reconcilers[d].key
      OBVIOUS
    <3>2. /\ organization # "active" /\ UNCHANGED <<organization, assets, profiles, handlers>>
          /\ Remove(k) \/ objects' = objects
      BY <1>1, <2>2, <3>1 DEF Cleanup, CleanupThrows, OrderOK, ReconcilerAt
    <3> QED
      BY <1>3, <3>2
  <2>3. CASE FinalizeReady(d)
    BY <1>2, <1>4, <2>3 DEF FinalizeReady, Untouched, assetVars
  <2> QED
    BY <1>7, <2>1, <2>2, <2>3 DEF ReconcilerStep, PassStep
<1>8. ASSUME NEW k \in Keys, Lapse(k) PROVE AssetsOK'
  BY <1>2, <1>8 DEF Lapse
<1> QED
  BY <1>2, <1>5, <1>6, <1>7, <1>8, AssetNextKeeps DEF DeletionNext, deletionVars

LEMMA AssetsInit == DeletionInit => AssetsOK
<1> SUFFICES ASSUME DeletionInit PROVE AssetsOK
  OBVIOUS
<1>1. AssetTypeOK
  BY DEF DeletionInit, AssetInit, AssetTypeOK, HandlerRows
<1>2. \A h \in Handlers : HandlerOK(h)
  BY DEF DeletionInit, AssetInit, HandlerOK
<1>3. (\A a \in Assets : ObjectOK(a)) /\ AvailableHasObject /\ ProfileHasAsset
  BY DEF DeletionInit, AssetInit, ObjectOK, AvailableHasObject, ProfileHasAsset
<1> QED
  BY <1>1, <1>2, <1>3 DEF AssetsOK

-----------------------------------------------------------------------------
(* What is stored is on the ledger, and on the list of whoever cleans. *)

\* The resource was there before the organization was disabled, and still is.
Kept(k) == (k \in Assets /\ objects[k] = "stored") \/ (k \in Runs /\ jobs[k] = "queued")

\* What is kept has a row that nobody completed, is on the list of every owner's handler,
\* and is not what a reconciler is about to report as cleaned; a deleted organization
\* keeps nothing.
LedgerOK ==
  /\ \A r \in Runs : jobs[r] = "queued" => runs[r] \in {"live", "ended"}
  /\ organization = "disabled" =>
       \A k \in Keys : Kept(k) => resources[k].status = "pending"
  /\ organization = "gone" => \A k \in Keys : ~Kept(k)
  /\ \A o \in Owners : OwnerAt(o, "clean") =>
       \A k \in Keys : Kept(k) => k \in owners[o].todo
  /\ \A d \in Reconcilers : ReconcilerAt(d, "complete") => ~Kept(reconcilers[d].key)

\* Removing a resource leaves it unkept, and no other kept that was not.
LEMMA RemoveKept ==
  ASSUME AssetTypeOK, SagaTypeOK, NEW k \in Keys, Remove(k)
  PROVE  ~Kept(k)' /\ \A j \in Keys : Kept(j)' => Kept(j)
BY DEF Remove, Kept, AssetTypeOK, SagaTypeOK

\* The assets of an organization that is not active keep nothing that was not kept.
LEMMA NothingArrives ==
  ASSUME AssetsOK, SagaTypeOK, AssetNext, UNCHANGED <<runVars, sagaVars>>
  PROVE  organization # "active" => \A k \in Keys : Kept(k)' => Kept(k)
<1> SUFFICES ASSUME organization # "active", NEW a \in Assets, objects'[a] = "stored"
             PROVE  objects[a] = "stored"
  BY DEF Kept, runVars
<1>1. AssetTypeOK
  BY DEF AssetsOK
<1>2. CASE \E b \in Assets : CreateStimulusAsset(b)
  BY <1>2 DEF CreateStimulusAsset
<1>3. ASSUME NEW h \in Handlers, HandlerStep(h) PROVE objects[a] = "stored"
  <2>1. \/ objects' = objects
        \/ PutUpload(h) \/ RemoveUpload(h) \/ DeleteObject(h)
    BY <1>3 DEF HandlerStep, BeginUpload, BeginDeletion, BeginProfile, Begins, StatForUpload,
       VerifyUpload, ConfirmUpload, RequestDeletion, VerifyDeletion, ConfirmDeletion, GetObject,
       CreateProfile, Abandon
  <2>2. PICK b : b = Asset(h)
    OBVIOUS
  <2>3. CASE PutUpload(h)
    BY <1>1, <2>2, <2>3 DEF PutUpload, PutObject, Expected, AssetTypeOK
  <2>4. CASE RemoveUpload(h) \/ DeleteObject(h)
    BY <1>1, <2>2, <2>4 DEF RemoveUpload, DeleteObject, RemoveObject, AssetTypeOK
  <2> QED
    BY <2>1, <2>3, <2>4
<1> QED
  BY <1>2, <1>3 DEF AssetNext

\* While the organization is active nobody cleans, and the ledger is empty.
LEMMA ActiveLedger ==
  ASSUME OrderOK', organization' = "active",
         (\A r \in Runs : jobs[r] = "queued" => runs[r] \in {"live", "ended"})'
  PROVE  LedgerOK'
<1>1. (\A o \in Owners : ~OwnerAt(o, "clean"))'
  BY DEF OrderOK
<1>2. (\A d \in Reconcilers : reconcilers[d] = Idle)'
  BY DEF OrderOK
<1> QED
  BY <1>1, <1>2 DEF LedgerOK, ReconcilerAt

\* The cascade finds nothing kept.
LEMMA CascadeLedger ==
  ASSUME SagaOK, LedgerOK, Deletable, Cascade, \A k \in Keys : ~Kept(k),
         UNCHANGED <<runs, jobs, objects>>
  PROVE  LedgerOK'
<1>1. \A k \in Keys : ~Kept(k)'
  BY DEF Kept
<1>2. (\A d \in Reconcilers : ReconcilerAt(d, "complete") => ~Kept(reconcilers[d].key))'
  BY <1>1 DEF Kept, Keys
<1> QED
  BY <1>1, <1>2 DEF LedgerOK, Cascade

\* A step of an organization that is not active, after which nothing is kept that was not,
\* no row of a kept resource is completed, and whoever cleans knows of what is kept.
LEMMA LedgerKeeps ==
  ASSUME SagaOK, LedgerOK, organization # "active", organization' = organization,
         \A k \in Keys : Kept(k)' => Kept(k),
         (\A r \in Runs : jobs[r] = "queued" => runs[r] \in {"live", "ended"})',
         \A k \in Keys : resources[k].status = "pending" /\ Kept(k)' =>
                           resources'[k].status = "pending",
         (\A o \in Owners : OwnerAt(o, "clean") =>
            \A k \in Keys : Kept(k) => k \in owners[o].todo)',
         (\A d \in Reconcilers : ReconcilerAt(d, "complete") => ~Kept(reconcilers[d].key))'
  PROVE  LedgerOK'
BY DEF LedgerOK

\* The part of it that concerns those who are not the ones to move.
LEMMA OthersLedger ==
  ASSUME SagaOK, LedgerOK, \A k \in Keys : Kept(k)' => Kept(k)
  PROVE  /\ \A o \in Owners : owners'[o] = owners[o] /\ OwnerAt(o, "clean") =>
              \A k \in Keys : Kept(k)' => k \in owners'[o].todo
         /\ \A d \in Reconcilers : reconcilers'[d] = reconcilers[d] =>
              (ReconcilerAt(d, "complete") => ~Kept(reconcilers[d].key))'
<1>1. \A o \in Owners : owners'[o] = owners[o] /\ OwnerAt(o, "clean") =>
        \A k \in Keys : Kept(k)' => k \in owners'[o].todo
  BY DEF LedgerOK
<1>2. ASSUME NEW d \in Reconcilers, reconcilers'[d] = reconcilers[d],
             ReconcilerAt(d, "complete")'
      PROVE  ~Kept(reconcilers[d].key)'
  <2>1. ReconcilerAt(d, "complete") /\ reconcilers[d] \in ReconcilerRows
    BY <1>2 DEF ReconcilerAt, SagaOK, SagaTypeOK
  <2>2. PICK k \in Keys : k = reconcilers[d].key
    BY <2>1, ReconcilerFields DEF ReconcilerAt
  <2>3. ~Kept(k) /\ ~Kept(k)'
    BY <2>1, <2>2 DEF LedgerOK
  <2>4. reconcilers'[d].key = k
    BY <1>2, <2>2
  <2> QED
    BY <2>3, <2>4 DEF Kept
<1> QED
  BY <1>1, <1>2

LEMMA AssetLedger ==
  ASSUME SagaOK, SagaOK', AssetsOK, LedgerOK, AssetNext, UNCHANGED <<runVars, sagaVars>>
  PROVE  LedgerOK'
<1>1. /\ organization' = organization
      /\ UNCHANGED <<runs, jobs, deletion, resources, locked, owners, reconcilers>>
  BY AssetNextStays DEF runVars, sagaVars
<1>2. (\A r \in Runs : jobs[r] = "queued" => runs[r] \in {"live", "ended"})'
  BY <1>1 DEF LedgerOK
<1>3. CASE organization = "active"
  BY <1>1, <1>2, <1>3, ActiveLedger DEF SagaOK
<1>4. CASE organization # "active"
  <2>1. \A k \in Keys : Kept(k)' => Kept(k)
    BY <1>4, NothingArrives DEF SagaOK
  <2>2. \A o \in Owners : OwnerAt(o, "clean")' => OwnerAt(o, "clean")
    BY <1>1 DEF OwnerAt
  <2> QED
    BY <1>1, <1>2, <1>4, <2>1, <2>2, OthersLedger, LedgerKeeps
<1> QED
  BY <1>3, <1>4

LEMMA RunLedger ==
  ASSUME SagaOK, SagaOK', LedgerOK, NEW r \in Runs, RunStep(r)
  PROVE  LedgerOK'
<1>1. UNCHANGED <<organization, objects, deletion, resources, locked, owners, reconcilers>>
  BY DEF RunStep, InsertKey, InsertRun, CommitRun, RollBack, EndRun, PublishJob, RunMoves,
         sagaVars, assetVars
<1>2. \/ jobs' = jobs /\ \E to \in {"keyed", "inserted", "refused", "live", "ended"} :
           /\ runs' = [runs EXCEPT ![r] = to]
           /\ runs[r] \in {"live", "ended"} => to = "ended"
      \/ /\ runs[r] \in {"live", "ended"} /\ runs' = runs
         /\ jobs' = [jobs EXCEPT ![r] = IF organization = "active" THEN "queued" ELSE "late"]
  BY DEF RunStep, InsertKey, InsertRun, CommitRun, RollBack, EndRun, PublishJob, RunMoves
<1>3. (\A q \in Runs : jobs[q] = "queued" => runs[q] \in {"live", "ended"})'
  BY <1>2 DEF LedgerOK, SagaOK, SagaTypeOK
<1>4. CASE organization = "active"
  BY <1>1, <1>3, <1>4, ActiveLedger DEF SagaOK
<1>5. CASE organization # "active"
  <2>1. \A k \in Keys : Kept(k)' => Kept(k)
    BY <1>1, <1>2, <1>5 DEF Kept, SagaOK, SagaTypeOK
  <2>2. \A o \in Owners : OwnerAt(o, "clean")' => OwnerAt(o, "clean")
    BY <1>1 DEF OwnerAt
  <2> QED
    BY <1>1, <1>3, <1>5, <2>1, <2>2, OthersLedger, LedgerKeeps
<1> QED
  BY <1>4, <1>5

LEMMA OwnerLedger ==
  ASSUME SagaOK, SagaOK', AssetsOK, LedgerOK, NEW o \in Owners, OwnerStep(o)
  PROVE  LedgerOK'
<1>1. /\ SagaTypeOK /\ OrderOK /\ {} \in SUBSET Keys /\ Ledger \in SUBSET Keys
      /\ Manifest \in SUBSET Keys /\ owners[o].todo \in SUBSET Keys
      /\ UNCHANGED <<runs, reconcilers>>
  BY DEF SagaOK, SagaTypeOK, OwnerRows, Ledger, Manifest, Keys, OwnerStep, Look,
         LockOrganization, DisableOrganization, OwnerCleans, ConfirmOrganizationDeletion,
         OwnerGivesUp, runVars
<1>2. ASSUME UNCHANGED <<organization, objects, jobs, resources>>,
             NEW stage \in {"idle", "lock", "decide", "clean"}, NEW todo \in SUBSET Keys,
             OwnerTurns(o, stage, todo),
             stage = "clean" => \A k \in Keys : Kept(k) => k \in todo
      PROVE  LedgerOK'
  <2>1. (\A r \in Runs : jobs[r] = "queued" => runs[r] \in {"live", "ended"})'
    BY <1>1, <1>2 DEF LedgerOK
  <2>2. CASE organization = "active"
    BY <1>2, <2>1, <2>2, ActiveLedger DEF SagaOK
  <2>3. CASE organization # "active"
    <3>1. /\ owners'[o].stage = stage /\ owners'[o].todo = todo
          /\ \A p \in Owners : p # o => owners'[p] = owners[p]
      BY <1>1, <1>2, OwnerTurnsRow
    <3>2. \A k \in Keys : Kept(k)' <=> Kept(k)
      BY <1>2 DEF Kept
    <3>3. (\A p \in Owners : OwnerAt(p, "clean") => \A k \in Keys : Kept(k) => k \in owners[p].todo)'
      <4>1. ASSUME NEW p \in Owners, OwnerAt(p, "clean")', NEW k \in Keys, Kept(k)'
            PROVE  k \in owners'[p].todo
        BY <1>2, <3>1, <3>2, <4>1 DEF OwnerAt, LedgerOK
      <4> QED
        BY <4>1
    <3>4. (\A d \in Reconcilers : ReconcilerAt(d, "complete") => ~Kept(reconcilers[d].key))'
      BY <1>1, <3>2, OthersLedger
    <3> QED
      BY <1>2, <2>1, <2>3, <3>2, <3>3, <3>4, LedgerKeeps
  <2> QED
    BY <2>2, <2>3
<1>3. CASE Look(o)
  <2>1. UNCHANGED <<organization, objects, jobs, resources>>
    BY <1>3 DEF Look, assetVars, runVars
  <2>2. CASE OwnerTurns(o, "lock", {})
    BY <1>1, <1>2, <2>1, <2>2
  <2>3. CASE deletion = "pending" /\ OwnerTurns(o, "clean", Ledger)
    <3>1. \A k \in Keys : Kept(k) => k \in Ledger
      BY <1>1, <2>3 DEF LedgerOK, Ledger, OrderOK, SagaTypeOK
    <3> QED
      BY <1>1, <1>2, <2>1, <2>3, <3>1
  <2> QED
    BY <1>3, <2>2, <2>3 DEF Look
<1>4. CASE LockOrganization(o) \/ OwnerGivesUp(o)
  BY <1>1, <1>2, <1>4 DEF LockOrganization, OwnerGivesUp, assetVars, runVars
<1>5. CASE DisableOrganization(o)
  <2>1. CASE organization = "active" /\ ~Unfinished
    <3>1. /\ organization' = "disabled" /\ UNCHANGED <<objects, jobs, assets>>
          /\ resources' = [k \in Keys |-> IF k \in Manifest
               THEN [NoResource EXCEPT !.status = "pending"] ELSE NoResource]
          /\ OwnerTurns(o, "clean", Manifest)
      BY <1>5, <2>1 DEF DisableOrganization, runVars
    <3>2. \A k \in Keys : Kept(k) => k \in Manifest
      <4>1. ASSUME NEW a \in Assets, objects[a] = "stored" PROVE a \in Manifest
        BY <2>1, <4>1 DEF AssetsOK, ObjectOK, Manifest
      <4>2. ASSUME NEW r \in Runs, jobs[r] = "queued" PROVE r \in Manifest
        BY <2>1, <4>2 DEF LedgerOK, Manifest, Unfinished
      <4> QED
        BY <4>1, <4>2 DEF Kept
    <3>3. \A k \in Keys : Kept(k)' <=> Kept(k)
      BY <3>1 DEF Kept
    <3>4. \A k \in Keys : Kept(k)' => resources'[k].status = "pending"
      BY <3>1, <3>2, <3>3, LedgerRows
    <3>5. (\A p \in Owners : OwnerAt(p, "clean") => \A k \in Keys : Kept(k) => k \in owners[p].todo)'
      <4>1. /\ owners'[o].todo = Manifest /\ \A p \in Owners : p # o => owners'[p] = owners[p]
            /\ \A p \in Owners : ~OwnerAt(p, "clean")
        BY <1>1, <2>1, <3>1, OwnerTurnsRow DEF OrderOK
      <4> QED
        BY <3>2, <3>3, <4>1 DEF OwnerAt
    <3>6. (\A d \in Reconcilers : ReconcilerAt(d, "complete") => ~Kept(reconcilers[d].key))'
      BY <1>1, <3>3, OthersLedger
    <3> QED
      BY <1>1, <3>1, <3>4, <3>5, <3>6 DEF LedgerOK
  <2>2. CASE ~(organization = "active" /\ ~Unfinished)
    BY <1>1, <1>2, <1>5, <2>2 DEF DisableOrganization, runVars
  <2> QED
    BY <2>1, <2>2
<1>6. CASE OwnerCleans(o)
  <2>1. PICK k \in Cleaned(owners[o].todo) :
          Remove(k) /\ OwnerTurns(o, "clean", owners[o].todo \ {k})
    BY <1>6 DEF OwnerCleans
  <2>2. UNCHANGED <<organization, resources>> /\ OwnerAt(o, "clean") /\ organization # "active"
    BY <1>1, <1>6 DEF OwnerCleans, OrderOK
  <2>3. k \in Keys
    BY <1>1, <2>1 DEF Cleaned, Keys
  <2>4. ~Kept(k)' /\ \A j \in Keys : Kept(j)' => Kept(j)
    BY <1>1, <2>1, <2>3, RemoveKept DEF AssetsOK
  <2>5. /\ owners'[o].todo = owners[o].todo \ {k}
        /\ \A p \in Owners : p # o => owners'[p] = owners[p]
    BY <1>1, <2>1, OwnerTurnsRow
  <2>6. (\A p \in Owners : OwnerAt(p, "clean") => \A j \in Keys : Kept(j) => j \in owners[p].todo)'
    <3>1. ASSUME NEW p \in Owners, OwnerAt(p, "clean")', NEW j \in Keys, Kept(j)'
          PROVE  j \in owners'[p].todo
      <4>1. CASE p = o
        <5>1. Kept(j) /\ j # k
          BY <2>4, <3>1 DEF Kept
        <5> QED
          BY <2>2, <2>5, <4>1, <5>1 DEF LedgerOK
      <4>2. CASE p # o
        BY <2>4, <2>5, <3>1, <4>2 DEF LedgerOK, OwnerAt
      <4> QED
        BY <4>1, <4>2
    <3> QED
      BY <3>1
  <2>7. (\A r \in Runs : jobs[r] = "queued" => runs[r] \in {"live", "ended"})'
    BY <1>1, <2>1 DEF LedgerOK, Remove
  <2>8. (\A d \in Reconcilers : ReconcilerAt(d, "complete") => ~Kept(reconcilers[d].key))'
    BY <1>1, <2>4, OthersLedger
  <2> QED
    BY <2>2, <2>4, <2>6, <2>7, <2>8, LedgerKeeps
<1>7. CASE ConfirmOrganizationDeletion(o)
  <2>1. UNCHANGED <<objects, jobs, runs>> /\ OwnerTurns(o, "idle", {})
        /\ OwnerAt(o, "clean") /\ owners[o].todo = {}
    BY <1>7 DEF ConfirmOrganizationDeletion
  <2>2. CASE Deletable
    <3>1. \A k \in Keys : ~Kept(k)
      BY <2>1 DEF LedgerOK
    <3> QED
      BY <1>7, <2>1, <2>2, <3>1, CascadeLedger DEF ConfirmOrganizationDeletion
  <2>3. CASE ~Deletable
    BY <1>1, <1>2, <1>7, <2>1, <2>3 DEF ConfirmOrganizationDeletion, Untouched
  <2> QED
    BY <2>2, <2>3
<1> QED
  BY <1>3, <1>4, <1>5, <1>6, <1>7 DEF OwnerStep

\* A write to one row of the ledger, and what it leaves of the row's status.
LEMMA StatusOf ==
  ASSUME SagaTypeOK, NEW k \in Keys, NEW row \in ResourceRows,
         resources' = [resources EXCEPT ![k] = row],
         row.status = resources[k].status
  PROVE  \A j \in Keys : resources'[j].status = resources[j].status
BY DEF SagaTypeOK

\* A step of a reconciler that keeps no more than was kept, and no completed row of it.
LEMMA ReconcilerOnlyLedger ==
  ASSUME SagaOK, LedgerOK, organization # "active",
         UNCHANGED <<organization, runs, owners>>,
         \A r \in Runs : jobs'[r] = "queued" => jobs[r] = "queued",
         \A k \in Keys : Kept(k)' => Kept(k),
         \A k \in Keys : resources[k].status = "pending" /\ Kept(k)' =>
                           resources'[k].status = "pending",
         NEW d \in Reconcilers,
         \A e \in Reconcilers : e # d => reconcilers'[e] = reconcilers[e],
         (ReconcilerAt(d, "complete") => ~Kept(reconcilers[d].key))'
  PROVE  LedgerOK'
<1>1. (\A r \in Runs : jobs[r] = "queued" => runs[r] \in {"live", "ended"})'
  BY DEF LedgerOK
<1>2. (\A o \in Owners : OwnerAt(o, "clean") => \A k \in Keys : Kept(k) => k \in owners[o].todo)'
  BY OthersLedger DEF OwnerAt
<1>3. (\A e \in Reconcilers : ReconcilerAt(e, "complete") => ~Kept(reconcilers[e].key))'
  BY OthersLedger
<1> QED
  BY <1>1, <1>2, <1>3, LedgerKeeps

LEMMA ReconcilerLedger ==
  ASSUME SagaOK, SagaOK', AssetsOK, LedgerOK, NEW d \in Reconcilers, ReconcilerStep(d)
  PROVE  LedgerOK'
<1>1. SagaTypeOK /\ OrderOK /\ AssetTypeOK /\ UNCHANGED <<runs, owners>>
  BY DEF SagaOK, AssetsOK, ReconcilerStep, PassStep, ClaimResource, Cleanup, CleanupThrows,
         CompleteResource, CompletionThrows, ReleaseResource, FinalizeReady, Stop, runVars
<1>2. ASSUME reconcilers[d] # Idle
      PROVE  /\ organization # "active"
             /\ \E k \in Keys : k = reconcilers[d].key
             /\ reconcilers[d] \in ReconcilerRows
  BY <1>1, <1>2, ReconcilerFields DEF OrderOK, SagaTypeOK
<1>3. ASSUME NEW k \in Keys, ClaimResource(d, k) PROVE LedgerOK'
  <2>1. /\ UNCHANGED <<organization, objects, jobs>> /\ organization # "active"
        /\ resources' = [resources EXCEPT ![k] =
             [resources[k] EXCEPT !.count = resources[k].count + 1, !.claim = "live"]]
        /\ reconcilers' = [reconcilers EXCEPT ![d] =
             [stage |-> "clean", key |-> k, token |-> resources[k].count + 1]]
    BY <1>1, <1>3 DEF ClaimResource, assetVars, runVars, SagaTypeOK
  <2>2. resources[k] \in ResourceRows /\ resources[k].count < MaxCleanups
    BY <1>1, <1>3 DEF ClaimResource, Claimable, SagaTypeOK
  <2>3. /\ [resources[k] EXCEPT !.count = resources[k].count + 1, !.claim = "live"] \in ResourceRows
        /\ [resources[k] EXCEPT !.count = resources[k].count + 1, !.claim = "live"].status
             = resources[k].status
    BY <2>2, ResourceEdits DEF ResourceRows
  <2>4. \A j \in Keys : resources'[j].status = resources[j].status
    BY <1>1, <2>1, <2>3, StatusOf
  <2>5. \A j \in Keys : Kept(j)' <=> Kept(j)
    BY <2>1 DEF Kept
  <2>6. /\ \A e \in Reconcilers : e # d => reconcilers'[e] = reconcilers[e]
        /\ reconcilers'[d].stage = "clean"
    BY <1>1, <2>1 DEF SagaTypeOK
  <2> QED
    BY <1>1, <2>1, <2>4, <2>5, <2>6, ReconcilerOnlyLedger DEF ReconcilerAt
<1>4. CASE Cleanup(d) \/ CleanupThrows(d)
  <2>1. reconcilers[d] # Idle /\ UNCHANGED <<organization, resources>>
    BY <1>4 DEF Cleanup, CleanupThrows, ReconcilerAt
  <2>2. PICK k \in Keys : k = reconcilers[d].key
    BY <1>2, <2>1
  <2>3. \/ Remove(k) /\ (Enters(d, "complete") \/ Enters(d, "release"))
        \/ UNCHANGED <<objects, jobs>> /\ Enters(d, "release")
    BY <1>4, <2>2 DEF Cleanup, CleanupThrows
  <2>4. /\ \A j \in Keys : Kept(j)' => Kept(j)
        /\ Remove(k) => ~Kept(k)'
    BY <1>1, <2>3, RemoveKept DEF Kept
  <2>5. \A r \in Runs : jobs'[r] = "queued" => jobs[r] = "queued"
    BY <1>1, <2>3 DEF Remove
  <2>6. /\ \A e \in Reconcilers : e # d => reconcilers'[e] = reconcilers[e]
        /\ reconcilers'[d].key = k
        /\ reconcilers'[d].stage = "complete" => Remove(k)
    BY <1>1, <2>1, <2>2, <2>3, EntersRow
  <2>7. (ReconcilerAt(d, "complete") => ~Kept(reconcilers[d].key))'
    BY <2>4, <2>6 DEF ReconcilerAt, Kept
  <2> QED
    BY <1>1, <1>2, <2>1, <2>4, <2>5, <2>6, <2>7, ReconcilerOnlyLedger
<1>5. CASE CompleteResource(d) \/ CompletionThrows(d)
  <2>1. /\ ReconcilerAt(d, "complete") /\ reconcilers[d] # Idle
        /\ Completed(d) /\ UNCHANGED <<organization, objects, jobs>>
        /\ Rests(d) \/ Enters(d, "release")
    BY <1>5 DEF CompleteResource, CompletionThrows, ReconcilerAt, assetVars, runVars
  <2>2. PICK k \in Keys : k = reconcilers[d].key
    BY <1>2, <2>1
  <2>3. ~Kept(k)
    BY <2>1, <2>2 DEF LedgerOK
  <2>4. \A j \in Keys : Kept(j)' <=> Kept(j)
    BY <2>1 DEF Kept
  <2>5. \A j \in Keys : j # k => resources'[j] = resources[j]
    BY <1>1, <2>1, <2>2 DEF Completed, SagaTypeOK
  <2>6. /\ \A e \in Reconcilers : e # d => reconcilers'[e] = reconcilers[e]
        /\ ~ReconcilerAt(d, "complete")'
    BY <1>1, <2>1, EntersRow, RestsRow DEF ReconcilerAt
  <2> QED
    BY <1>1, <1>2, <2>1, <2>3, <2>4, <2>5, <2>6, ReconcilerOnlyLedger
<1>6. CASE ReleaseResource(d)
  <2>1. /\ reconcilers[d] # Idle /\ UNCHANGED <<organization, objects, jobs>> /\ Rests(d)
    BY <1>6 DEF ReleaseResource, ReconcilerAt, assetVars, runVars
  <2>2. PICK k \in Keys : k = reconcilers[d].key
    BY <1>2, <2>1
  <2>3. \/ resources' = resources
        \/ resources' = [resources EXCEPT ![k] = [resources[k] EXCEPT !.claim = "none"]]
    BY <1>1, <1>6, <2>2 DEF ReleaseResource, SagaTypeOK
  <2>4. /\ [resources[k] EXCEPT !.claim = "none"] \in ResourceRows
        /\ [resources[k] EXCEPT !.claim = "none"].status = resources[k].status
    <3>1. resources[k] \in ResourceRows
      BY <1>1 DEF SagaTypeOK
    <3> QED
      BY <3>1, ResourceEdits DEF ResourceRows
  <2>5. \A j \in Keys : resources'[j].status = resources[j].status
    BY <1>1, <2>3, <2>4, StatusOf
  <2>6. \A j \in Keys : Kept(j)' <=> Kept(j)
    BY <2>1 DEF Kept
  <2>7. /\ \A e \in Reconcilers : e # d => reconcilers'[e] = reconcilers[e]
        /\ reconcilers'[d] = Idle
    BY <1>1, <2>1, RestsRow
  <2> QED
    BY <1>1, <1>2, <2>1, <2>5, <2>6, <2>7, ReconcilerOnlyLedger DEF ReconcilerAt
<1>7. CASE FinalizeReady(d)
  <2>1. UNCHANGED <<objects, jobs, runs, owners, reconcilers>>
    BY <1>7 DEF FinalizeReady
  <2>2. CASE Deletable /\ Ready
    <3>1. \A k \in Keys : ~Kept(k)
      BY <1>1, <2>2 DEF LedgerOK, Deletable, Ready, Ledger, OrderOK, SagaTypeOK
    <3> QED
      BY <1>7, <2>1, <2>2, <3>1, CascadeLedger DEF FinalizeReady
  <2>3. CASE ~(Deletable /\ Ready)
    BY <1>7, <2>1, <2>3 DEF FinalizeReady, Untouched, LedgerOK, Kept, OwnerAt, ReconcilerAt
  <2> QED
    BY <2>2, <2>3
<1>8. CASE Stop(d)
  <2>1. /\ reconcilers[d] # Idle /\ UNCHANGED <<organization, objects, jobs, resources>> /\ Rests(d)
    BY <1>8 DEF Stop, assetVars, runVars
  <2>2. \A j \in Keys : Kept(j)' <=> Kept(j)
    BY <2>1 DEF Kept
  <2>3. /\ \A e \in Reconcilers : e # d => reconcilers'[e] = reconcilers[e]
        /\ reconcilers'[d] = Idle
    BY <1>1, <2>1, RestsRow
  <2> QED
    BY <1>1, <1>2, <2>1, <2>2, <2>3, ReconcilerOnlyLedger DEF ReconcilerAt
<1> QED
  BY <1>3, <1>4, <1>5, <1>6, <1>7, <1>8 DEF ReconcilerStep, PassStep

LEMMA LapseLedger ==
  ASSUME SagaOK, LedgerOK, NEW k \in Keys, Lapse(k)
  PROVE  LedgerOK'
<1>1. /\ SagaTypeOK /\ resources[k] \in ResourceRows
      /\ UNCHANGED <<organization, objects, runs, jobs, owners, reconcilers>>
      /\ resources' = [resources EXCEPT ![k] = [resources[k] EXCEPT !.claim = "lapsed"]]
  BY DEF SagaOK, SagaTypeOK, Lapse, assetVars, runVars
<1>2. /\ [resources[k] EXCEPT !.claim = "lapsed"] \in ResourceRows
      /\ [resources[k] EXCEPT !.claim = "lapsed"].status = resources[k].status
  BY <1>1, ResourceEdits DEF ResourceRows
<1>3. \A j \in Keys : resources'[j].status = resources[j].status
  BY <1>1, <1>2, StatusOf
<1> QED
  BY <1>1, <1>3 DEF LedgerOK, Kept, OwnerAt, ReconcilerAt

LEMMA LedgerInit == DeletionInit => LedgerOK
BY DEF DeletionInit, AssetInit, LedgerOK, Kept, OwnerAt, Resting, ReconcilerAt

LEMMA LedgerNext ==
  SagaOK /\ SagaOK' /\ AssetsOK /\ LedgerOK /\ [DeletionNext]_deletionVars => LedgerOK'
<1> SUFFICES ASSUME SagaOK, SagaOK', AssetsOK, LedgerOK, [DeletionNext]_deletionVars
             PROVE  LedgerOK'
  OBVIOUS
<1>1. CASE UNCHANGED deletionVars
  BY <1>1 DEF deletionVars, assetVars, runVars, sagaVars, LedgerOK, Kept, OwnerAt, ReconcilerAt
<1> QED
  BY <1>1, AssetLedger, RunLedger, OwnerLedger, ReconcilerLedger, LapseLedger DEF DeletionNext

-----------------------------------------------------------------------------
(* Theorems. *)

DeletionInv == SagaOK /\ AssetsOK /\ LedgerOK

\* The order of the deletion, the agreement of rows and objects and the coverage of the
\* ledger hold together in every reachable state.
THEOREM DeletionInvariant == DeletionSpec => []DeletionInv
<1>1. DeletionInit => DeletionInv
  BY SagaInit, AssetsInit, LedgerInit DEF DeletionInv
<1>2. DeletionInv /\ [DeletionNext]_deletionVars => DeletionInv'
  BY SagaNext, AssetsNext, LedgerNext DEF DeletionInv
<1> QED
  BY <1>1, <1>2, PTL DEF DeletionSpec

\* The rows, the objects, the ledger and the processes keep their types
\* (20260730200000_m2_organization_deletion_orchestration.sql).
THEOREM DeletionTyping == DeletionSpec => []DeletionTypeOK
<1>1. DeletionInv => DeletionTypeOK
  BY DEF DeletionInv, SagaOK, SagaTypeOK, AssetsOK, DeletionTypeOK
<1> QED
  BY <1>1, DeletionInvariant, PTL

\* An available asset of an active organization has its object, however uploads,
\* deletions and the organization's end cross (stimulus-assets.controller.ts).
THEOREM ObjectsAreThere == DeletionSpec => []AvailableHasObject
<1>1. DeletionInv => AvailableHasObject
  BY DEF DeletionInv, AssetsOK
<1> QED
  BY <1>1, DeletionInvariant, PTL

\* A visual profile describes an asset that is available
\* (stimulus-visual-profiles.controller.ts).
THEOREM ProfilesAreCurrent == DeletionSpec => []ProfileHasAsset
<1>1. DeletionInv => ProfileHasAsset
  BY DEF DeletionInv, AssetsOK
<1> QED
  BY <1>1, DeletionInvariant, PTL

\* No run is at work in an organization that was disabled
\* (private.request_organization_deletion_atomic).
THEOREM RunsEndFirst == DeletionSpec => []NoRunOutlivesItsOrganization
<1>1. DeletionInv => NoRunOutlivesItsOrganization
  BY DEF DeletionInv, SagaOK, OrderOK, NoRunOutlivesItsOrganization, Unfinished
<1> QED
  BY <1>1, DeletionInvariant, PTL

\* A deleted organization leaves nothing that was there when it was disabled, whoever
\* cleaned and however often that failed (organizations.controller.ts and
\* organization-deletion-reconciler.ts).
THEOREM NothingElseRemains == DeletionSpec => []OnlyLateArrivalsRemain
<1>1. DeletionInv => OnlyLateArrivalsRemain
  BY DEF DeletionInv, LedgerOK, OnlyLateArrivalsRemain, Kept, Keys
<1> QED
  BY <1>1, DeletionInvariant, PTL

\* A live claim on the ledger is given up by whoever made it
\* (private.complete_organization_deletion_resource and its release).
THEOREM ClaimsAreLeftAlone == DeletionSpec => LiveClaimIsLeftAlone
<1> DEFINE Left(k) ==
      resources[k].claim = "live" /\ resources'[k].claim = "none" /\ deletion' = "pending" =>
        \E d \in Reconcilers :
          /\ reconcilers[d] # Idle /\ reconcilers[d].key = k
          /\ reconcilers[d].token = resources[k].count
<1>1. ASSUME SagaOK, [DeletionNext]_deletionVars, NEW k \in Keys PROVE Left(k)
  <2>1. CASE resources' = resources
    BY <2>1
  <2>2. ASSUME NEW d \in Reconcilers, Completed(d) \/ ReleaseResource(d), reconcilers[d] # Idle
        PROVE  Left(k)
    <3>1. PICK j \in Keys : j = reconcilers[d].key
      BY <1>1, <2>2, ReconcilerFields DEF SagaOK, SagaTypeOK
    <3>2. resources'[k] = resources[k] \/ (k = j /\ Holds(d))
      BY <1>1, <2>2, <3>1 DEF Completed, ReleaseResource, SagaOK, SagaTypeOK
    <3> QED
      BY <2>2, <3>1, <3>2 DEF Holds
  <2>3. ASSUME NEW d \in Reconcilers, NEW j \in Keys, ClaimResource(d, j) PROVE Left(k)
    <3>1. /\ j # k => resources'[k] = resources[k]
          /\ j = k => resources[k].claim # "live"
      BY <1>1, <2>3 DEF ClaimResource, Claimable, SagaOK, SagaTypeOK
    <3> QED
      BY <3>1
  <2>4. CASE Cascade
    BY <2>4 DEF Cascade
  <2>5. ASSUME NEW o \in Owners, DisableOrganization(o) PROVE Left(k)
    <3>1. CASE organization = "active" /\ ~Unfinished
      <4>1. resources[k] = NoResource
        BY <1>1, <3>1 DEF SagaOK, OrderOK
      <4> QED
        BY <4>1 DEF NoResource
    <3>2. CASE ~(organization = "active" /\ ~Unfinished)
      BY <2>5, <3>2 DEF DisableOrganization
    <3> QED
      BY <3>1, <3>2
  <2>6. ASSUME NEW j \in Keys, Lapse(j) PROVE Left(k)
    <3>1. /\ resources[j] \in ResourceRows
          /\ resources' = [resources EXCEPT ![j] = [resources[j] EXCEPT !.claim = "lapsed"]]
      BY <1>1, <2>6 DEF Lapse, SagaOK, SagaTypeOK
    <3>2. [resources[j] EXCEPT !.claim = "lapsed"].claim = "lapsed"
      BY <3>1 DEF ResourceRows
    <3>3. j # k => resources'[k] = resources[k]
      BY <1>1, <3>1 DEF SagaOK, SagaTypeOK
    <3>4. j = k => resources'[k].claim = "lapsed"
      BY <1>1, <3>1, <3>2 DEF SagaOK, SagaTypeOK
    <3> QED
      BY <3>3, <3>4
  <2>7. ASSUME NEW r \in Runs, RunStep(r) PROVE Left(k)
    BY <2>1, <2>7 DEF RunStep, InsertKey, InsertRun, CommitRun, RollBack, EndRun, PublishJob,
       RunMoves, sagaVars
  <2>8. ASSUME NEW o \in Owners, OwnerStep(o) PROVE Left(k)
    BY <2>1, <2>4, <2>5, <2>8 DEF OwnerStep, Look, LockOrganization, OwnerCleans,
       ConfirmOrganizationDeletion, OwnerGivesUp, Untouched
  <2>9. ASSUME NEW d \in Reconcilers, ReconcilerStep(d) PROVE Left(k)
    BY <2>1, <2>2, <2>3, <2>4, <2>9 DEF ReconcilerStep, PassStep, Cleanup, CleanupThrows,
       CompleteResource, CompletionThrows, ReleaseResource, ReconcilerAt, FinalizeReady, Stop,
       Untouched
  <2> QED
    BY <1>1, <2>1, <2>6, <2>7, <2>8, <2>9 DEF DeletionNext, deletionVars, sagaVars
<1>2. SagaOK /\ [DeletionNext]_deletionVars => [\A k \in Keys : Left(k)]_deletionVars
  BY <1>1
<1>3. DeletionInv => SagaOK
  BY DEF DeletionInv
<1> QED
  BY <1>2, <1>3, DeletionInvariant, PTL DEF DeletionSpec, LiveClaimIsLeftAlone

-----------------------------------------------------------------------------
(* The refinement of OrganizationLife. *)

LEMMA HeldIsKept == Held \subseteq Keys /\ \A k \in Keys : k \in Held <=> Kept(k)
BY DEF Held, Kept, Keys

\* What is seen when no run starts or ends and one thing at most comes or goes.
LEMMA OneThing ==
  ASSUME NEW k \in Keys, UNCHANGED <<organization, runs>>,
         \A j \in Keys : j # k => (Kept(j)' <=> Kept(j)),
         Kept(k)' => Kept(k) \/ organization = "active"
  PROVE  [Life!Next]_(Life!life)
<1>1. AtWork' = AtWork
  BY DEF AtWork
<1>2. Held' \subseteq Keys /\ \A j \in Keys : j \in Held' <=> Kept(j)'
  BY DEF Held, Kept, Keys
<1>3. CASE ~Kept(k)'
  <2>1. Held' = Held \ {k}
    BY <1>2, <1>3, HeldIsKept
  <2> QED
    BY <1>1, <2>1 DEF Life!Next, Life!LetGo
<1>4. CASE Kept(k)' /\ organization = "active"
  <2>1. Held' = Held \cup {k}
    BY <1>2, <1>4, HeldIsKept
  <2> QED
    BY <1>1, <1>4, <2>1 DEF Life!Next, Life!Keep
<1>5. CASE Kept(k)' /\ Kept(k)
  <2>1. Held' = Held
    BY <1>2, <1>5, HeldIsKept
  <2> QED
    BY <1>1, <2>1 DEF Life!life
<1> QED
  BY <1>3, <1>4, <1>5

\* What is removed is let go.
LEMMA RemovalIsSeen ==
  ASSUME AssetTypeOK, SagaTypeOK, NEW k \in Keys, Remove(k), UNCHANGED <<organization, runs>>
  PROVE  [Life!Next]_(Life!life)
<1>1. ~Kept(k)' /\ \A j \in Keys : j # k => (Kept(j)' <=> Kept(j))
  BY DEF Remove, Kept, AssetTypeOK, SagaTypeOK
<1> QED
  BY <1>1, OneThing

\* A step that changes none of what is seen.
LEMMA NothingSeen ==
  ASSUME UNCHANGED <<organization, runs, objects, jobs>>
  PROVE  [Life!Next]_(Life!life)
BY DEF Life!life, AtWork, Held

\* The deletion is seen at the cascade.
LEMMA CascadeIsSeen ==
  ASSUME SagaOK, LedgerOK', Deletable, Cascade, UNCHANGED <<runs, objects, jobs>>
  PROVE  Life!Next
<1>1. organization = "disabled" /\ organization' = "gone"
  BY DEF SagaOK, SagaTypeOK, OrderOK, Deletable, Cascade
<1>2. \A k \in Keys : ~Kept(k)
  BY <1>1 DEF LedgerOK, Kept
<1>3. Held = {}
  BY <1>2, HeldIsKept
<1>4. AtWork' = AtWork /\ Held' = Held
  BY DEF AtWork, Held
<1> QED
  BY <1>1, <1>3, <1>4 DEF Life!Next, Life!Delete

LEMMA AssetsAreSeen ==
  ASSUME AssetsOK, SagaTypeOK, AssetNext, UNCHANGED <<runVars, sagaVars>>
  PROVE  [Life!Next]_(Life!life)
<1>0. AssetTypeOK /\ organization' = organization /\ UNCHANGED <<runs, jobs>>
  BY AssetNextStays DEF AssetsOK, runVars
<1>1. CASE objects' = objects
  BY <1>0, <1>1, NothingSeen
<1>2. ASSUME NEW a \in Assets, PutObject(a) \/ RemoveObject(a) PROVE [Life!Next]_(Life!life)
  <2>1. /\ \A j \in Keys : j # a => (Kept(j)' <=> Kept(j))
        /\ Kept(a)' => Kept(a) \/ organization = "active"
    BY <1>0, <1>2, KeysAssumption DEF PutObject, RemoveObject, Expected, Kept, AssetTypeOK
  <2>2. a \in Keys
    BY DEF Keys
  <2> QED
    BY <1>0, <2>1, <2>2, OneThing
<1>3. ASSUME NEW h \in Handlers, PutUpload(h) \/ RemoveUpload(h) \/ DeleteObject(h)
      PROVE  [Life!Next]_(Life!life)
  <2>1. Asset(h) \in Assets
    BY <1>0, <1>3, HandlerFields DEF PutUpload, RemoveUpload, DeleteObject, At, Asset, AssetTypeOK
  <2> QED
    BY <1>2, <1>3, <2>1 DEF PutUpload, RemoveUpload, DeleteObject
<1>4. ASSUME NEW h \in Handlers, HandlerStep(h) PROVE [Life!Next]_(Life!life)
  BY <1>1, <1>3, <1>4 DEF HandlerStep, BeginUpload, BeginDeletion, BeginProfile, Begins,
     StatForUpload, VerifyUpload, ConfirmUpload, RequestDeletion, VerifyDeletion,
     ConfirmDeletion, GetObject, CreateProfile, Abandon
<1> QED
  BY <1>1, <1>4 DEF AssetNext, CreateStimulusAsset

LEMMA RunsAreSeen ==
  ASSUME SagaOK, NEW r \in Runs, RunStep(r)
  PROVE  [Life!Next]_(Life!life)
<1>0. SagaTypeOK /\ OrderOK /\ organization' = organization /\ objects' = objects
  BY DEF SagaOK, RunStep, InsertKey, InsertRun, CommitRun, RollBack, EndRun, PublishJob,
     RunMoves, assetVars
<1>1. ASSUME NEW from, NEW to, RunMoves(r, from, to), from # "live", to # "live"
      PROVE  [Life!Next]_(Life!life)
  <2>1. AtWork' = AtWork /\ Held' = Held
    BY <1>0, <1>1 DEF RunMoves, AtWork, Held, SagaTypeOK
  <2> QED
    BY <1>0, <2>1 DEF Life!life
<1>2. CASE CommitRun(r)
  <2>1. organization = "active"
    BY <1>0, <1>2 DEF CommitRun, RunMoves, OrderOK
  <2>2. AtWork' = AtWork \cup {r} /\ Held' = Held
    BY <1>0, <1>2 DEF CommitRun, RunMoves, AtWork, Held, SagaTypeOK
  <2> QED
    BY <1>0, <2>1, <2>2 DEF Life!Next, Life!StartRun
<1>3. CASE EndRun(r)
  <2>1. AtWork' = AtWork \ {r} /\ Held' = Held
    BY <1>0, <1>3 DEF EndRun, RunMoves, AtWork, Held, SagaTypeOK
  <2> QED
    BY <1>0, <2>1 DEF Life!Next, Life!EndRun
<1>4. CASE PublishJob(r)
  <2>1. /\ \A j \in Keys : j # r => (Kept(j)' <=> Kept(j))
        /\ Kept(r)' => Kept(r) \/ organization = "active"
    BY <1>0, <1>4, KeysAssumption DEF PublishJob, Kept, SagaTypeOK
  <2>2. r \in Keys /\ runs' = runs
    BY <1>4 DEF Keys, PublishJob
  <2> QED
    BY <1>0, <2>1, <2>2, OneThing
<1> QED
  BY <1>1, <1>2, <1>3, <1>4 DEF RunStep, InsertKey, InsertRun, RollBack

LEMMA OwnersAreSeen ==
  ASSUME SagaOK, AssetTypeOK, LedgerOK', NEW o \in Owners, OwnerStep(o)
  PROVE  [Life!Next]_(Life!life)
<1>0. SagaTypeOK /\ OrderOK
  BY DEF SagaOK
<1>1. CASE Look(o) \/ LockOrganization(o) \/ OwnerGivesUp(o)
  BY <1>1, NothingSeen DEF Look, LockOrganization, OwnerGivesUp, assetVars, runVars
<1>2. CASE DisableOrganization(o)
  <2>1. UNCHANGED <<runs, objects, jobs>>
    BY <1>2 DEF DisableOrganization, runVars
  <2>2. CASE organization = "active" /\ ~Unfinished
    <3>1. AtWork = {} /\ AtWork' = AtWork /\ Held' = Held
      BY <2>1, <2>2 DEF AtWork, Held, Unfinished
    <3> QED
      BY <1>2, <2>2, <3>1 DEF DisableOrganization, Life!Next, Life!Disable
  <2>3. CASE ~(organization = "active" /\ ~Unfinished)
    BY <1>2, <2>1, <2>3, NothingSeen DEF DisableOrganization
  <2> QED
    BY <2>2, <2>3
<1>3. CASE OwnerCleans(o)
  <2>1. PICK k \in Cleaned(owners[o].todo) : Remove(k)
    BY <1>3 DEF OwnerCleans
  <2>2. k \in Keys
    BY <1>0 DEF Cleaned, SagaTypeOK, OwnerRows
  <2> QED
    BY <1>0, <1>3, <2>1, <2>2, RemovalIsSeen DEF OwnerCleans
<1>4. CASE ConfirmOrganizationDeletion(o)
  BY <1>4, CascadeIsSeen, NothingSeen DEF ConfirmOrganizationDeletion, Untouched
<1> QED
  BY <1>1, <1>2, <1>3, <1>4 DEF OwnerStep

LEMMA ReconcilersAreSeen ==
  ASSUME SagaOK, AssetTypeOK, LedgerOK', NEW d \in Reconcilers, ReconcilerStep(d)
  PROVE  [Life!Next]_(Life!life)
<1>0. SagaTypeOK
  BY DEF SagaOK
<1>1. CASE \/ \E k \in Keys : ClaimResource(d, k)
           \/ CompleteResource(d) \/ ReleaseResource(d) \/ CompletionThrows(d) \/ Stop(d)
  BY <1>1, NothingSeen DEF ClaimResource, CompleteResource, ReleaseResource, CompletionThrows,
     Stop, assetVars, runVars
<1>2. CASE Cleanup(d) \/ CleanupThrows(d)
  <2>1. reconcilers[d].key \in Keys
    BY <1>0, <1>2, ReconcilerFields DEF Cleanup, CleanupThrows, ReconcilerAt, SagaTypeOK
  <2>2. UNCHANGED <<organization, runs>>
    BY <1>2 DEF Cleanup, CleanupThrows
  <2>3. Remove(reconcilers[d].key) \/ UNCHANGED <<objects, jobs>>
    BY <1>2 DEF Cleanup, CleanupThrows
  <2> QED
    BY <1>0, <2>1, <2>2, <2>3, RemovalIsSeen, NothingSeen
<1>3. CASE FinalizeReady(d)
  BY <1>3, CascadeIsSeen, NothingSeen DEF FinalizeReady, Untouched
<1> QED
  BY <1>1, <1>2, <1>3 DEF ReconcilerStep, PassStep

\* The organization is closed and let go in that order, whatever crosses or fails
\* (private.request_organization_deletion_atomic, private.confirm_organization_deletion_atomic
\* and private.finalize_ready_organization_deletions).
THEOREM DeletionKeepsOrder == DeletionSpec => DeletionIsOrderly
<1>1. DeletionInit => Life!Init
  BY DEF DeletionInit, AssetInit, Life!Init, AtWork, Held
<1>2. DeletionInv /\ DeletionInv' /\ [DeletionNext]_deletionVars => [Life!Next]_(Life!life)
  <2> SUFFICES ASSUME DeletionInv, DeletionInv', [DeletionNext]_deletionVars
               PROVE  [Life!Next]_(Life!life)
    OBVIOUS
  <2>1. SagaOK /\ SagaTypeOK /\ AssetsOK /\ AssetTypeOK /\ LedgerOK'
    BY DEF DeletionInv, SagaOK, AssetsOK
  <2>2. CASE UNCHANGED deletionVars \/ \E k \in Keys : Lapse(k)
    BY <2>2, NothingSeen DEF deletionVars, assetVars, runVars, Lapse
  <2> QED
    BY <2>1, <2>2, AssetsAreSeen, RunsAreSeen, OwnersAreSeen, ReconcilersAreSeen DEF DeletionNext
<1> QED
  BY <1>1, <1>2, DeletionInvariant, PTL DEF DeletionSpec, DeletionIsOrderly, Life!Spec

=============================================================================
