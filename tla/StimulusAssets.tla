--------------------------- MODULE StimulusAssets ---------------------------
(***************************************************************************)
(* The private assets of one organization: a row in PostgreSQL for each,   *)
(* an object of the same name in the object store, and the technical       *)
(* profile made from an image.  Nothing spans the two stores, so each      *)
(* request of the API (upload, deletion, profile) is a chain of calls, and *)
(* other requests for the same asset, the deletion of the organization     *)
(* included, come between any two of them.                                 *)
(*                                                                         *)
(* A name belongs to one asset and only bytes with the reserved checksum   *)
(* are put under it, so an object is there or it is not.  A stored function *)
(* is one step: it locks the asset's row and refuses an organization that  *)
(* is not active.  A handler whose response has timed out goes on, and a   *)
(* client that repeats it is another handler.  Retention is left out.      *)
(***************************************************************************)
EXTENDS Integers, FiniteSets

CONSTANTS
  Assets,    \* assets of the organization
  Handlers   \* requests for assets that are handled at one time

VARIABLES
  organization, \* the organization: "active", "disabled" or "gone"
  assets,       \* status of each row
  profiles,     \* assets with a stored visual profile
  objects,      \* objects[a]: "absent", "stored" or "late"
  handlers      \* the next call of each handler, and its asset

assetVars == <<organization, assets, profiles, objects, handlers>>

Wanted   == {"pending_upload", "available"}
Statuses == Wanted \cup {"deletion_requested", "deleted"}

Idle == [stage |-> "idle"]
Stages ==
  {"upload_stat", "upload_put", "upload_verify", "upload_remove", "upload_confirm",
   "delete_request", "delete_object", "delete_verify", "delete_confirm",
   "profile_get", "profile_create"}
HandlerRows == {Idle} \cup [stage : Stages, asset : Assets]

AssetTypeOK ==
  /\ organization \in {"active", "disabled", "gone"}
  /\ assets \in [Assets -> Statuses \cup {"none"}]
  /\ profiles \subseteq Assets
  /\ objects \in [Assets -> {"absent", "stored", "late"}]
  /\ handlers \in [Handlers -> HandlerRows]

AssetInit ==
  /\ organization = "active"
  /\ assets = [a \in Assets |-> "none"]
  /\ profiles = {}
  /\ objects = [a \in Assets |-> "absent"]
  /\ handlers = [h \in Handlers |-> Idle]

\* The handler's next call is this one.
At(h, stage)     == handlers[h] # Idle /\ handlers[h].stage = stage
Asset(h)         == handlers[h].asset
Proceeds(h, stage) == handlers' = [handlers EXCEPT ![h].stage = stage]
Answers(h)       == handlers' = [handlers EXCEPT ![h] = Idle]
Present(a)       == objects[a] # "absent"

\* The bytes of this asset are still wanted.
Expected(a) == organization = "active" /\ assets[a] \in Wanted

\* An object that comes when nobody expects it any more is marked as late.
PutObject(a) == objects' = [objects EXCEPT ![a] = IF Expected(a) THEN "stored" ELSE "late"]
RemoveObject(a) == objects' = [objects EXCEPT ![a] = "absent"]

-----------------------------------------------------------------------------
(* Rows. *)

\* The name of the object is fixed here, before there is an object.
CreateStimulusAsset(a) ==
  /\ organization = "active"
  /\ assets[a] = "none"
  /\ assets' = [assets EXCEPT ![a] = "pending_upload"]
  /\ UNCHANGED <<organization, profiles, objects, handlers>>

\* A handler reads the row, in a disabled organization too, and keeps what it read.
Begins(h, a, stage) ==
  /\ handlers[h] = Idle
  /\ handlers' = [handlers EXCEPT ![h] = [stage |-> stage, asset |-> a]]
  /\ UNCHANGED <<organization, assets, profiles, objects>>

-----------------------------------------------------------------------------
(* PUT content: look, put, look again, confirm. *)

BeginUpload(h, a) == assets[a] \in Wanted /\ Begins(h, a, "upload_stat")

StatForUpload(h) ==
  /\ At(h, "upload_stat")
  /\ Proceeds(h, IF Present(Asset(h)) THEN "upload_verify" ELSE "upload_put")
  /\ UNCHANGED <<organization, assets, profiles, objects>>

PutUpload(h) ==
  /\ At(h, "upload_put")
  /\ PutObject(Asset(h))
  /\ Proceeds(h, "upload_verify")
  /\ UNCHANGED <<organization, assets, profiles>>

VerifyUpload(h) ==
  /\ At(h, "upload_verify")
  /\ Proceeds(h, IF Present(Asset(h)) THEN "upload_confirm" ELSE "upload_remove")
  /\ UNCHANGED <<organization, assets, profiles, objects>>

\* The object vanished between the put and the look: what is there by now is removed.
RemoveUpload(h) ==
  /\ At(h, "upload_remove")
  /\ RemoveObject(Asset(h))
  /\ Answers(h)
  /\ UNCHANGED <<organization, assets, profiles>>

\* Fault: an asset that is being deleted is confirmed all the same.
Confirmable_AnyStatus(a) == organization = "active"

Confirmable(a) == organization = "active" /\ assets[a] = "pending_upload"

\* An upload that was confirmed before is answered again; every other status is refused.
ConfirmUpload(h) ==
  /\ At(h, "upload_confirm")
  /\ assets' = IF Confirmable(Asset(h)) THEN [assets EXCEPT ![Asset(h)] = "available"] ELSE assets
  /\ Answers(h)
  /\ UNCHANGED <<organization, profiles, objects>>

-----------------------------------------------------------------------------
(* POST deletion: request, delete, look, confirm. *)

BeginDeletion(h, a) == assets[a] # "none" /\ Begins(h, a, "delete_request")

\* The trigger on the asset's status removes its profile.
Retired(a) == IF assets[a] = "available" THEN profiles \ {a} ELSE profiles

RequestDeletion(h) ==
  LET a == Asset(h) IN
  /\ At(h, "delete_request")
  /\ IF organization = "active"
       THEN /\ assets' = IF assets[a] \in Wanted
                           THEN [assets EXCEPT ![a] = "deletion_requested"] ELSE assets
            /\ profiles' = Retired(a)
            /\ Proceeds(h, "delete_object")
       ELSE Answers(h) /\ UNCHANGED <<assets, profiles>>
  /\ UNCHANGED <<organization, objects>>

DeleteObject(h) ==
  /\ At(h, "delete_object")
  /\ RemoveObject(Asset(h))
  /\ Proceeds(h, "delete_verify")
  /\ UNCHANGED <<organization, assets, profiles>>

VerifyDeletion(h) ==
  /\ At(h, "delete_verify")
  /\ IF Present(Asset(h)) THEN Answers(h) ELSE Proceeds(h, "delete_confirm")
  /\ UNCHANGED <<organization, assets, profiles, objects>>

ConfirmDeletion(h) ==
  LET a == Asset(h) IN
  /\ At(h, "delete_confirm")
  /\ assets' = IF organization = "active" /\ assets[a] = "deletion_requested"
                 THEN [assets EXCEPT ![a] = "deleted"] ELSE assets
  /\ Answers(h)
  /\ UNCHANGED <<organization, profiles, objects>>

-----------------------------------------------------------------------------
(* POST visual-profile: the object is read, analysed outside, and the result stored. *)

BeginProfile(h, a) == assets[a] = "available" /\ Begins(h, a, "profile_get")

GetObject(h) ==
  /\ At(h, "profile_get")
  /\ IF Present(Asset(h)) THEN Proceeds(h, "profile_create") ELSE Answers(h)
  /\ UNCHANGED <<organization, assets, profiles, objects>>

\* Fault: the asset is not looked at again.
Profilable_Unchecked(a) == organization = "active"

Profilable(a) == organization = "active" /\ assets[a] = "available"

CreateProfile(h) ==
  /\ At(h, "profile_create")
  /\ profiles' = IF Profilable(Asset(h)) THEN profiles \cup {Asset(h)} ELSE profiles
  /\ Answers(h)
  /\ UNCHANGED <<organization, assets, objects>>

-----------------------------------------------------------------------------

\* A call throws or the process dies; a call that took effect first is that call's step
\* followed by this one.
Abandon(h) ==
  /\ handlers[h] # Idle
  /\ Answers(h)
  /\ UNCHANGED <<organization, assets, profiles, objects>>

HandlerStep(h) ==
  \/ \E a \in Assets : BeginUpload(h, a) \/ BeginDeletion(h, a) \/ BeginProfile(h, a)
  \/ StatForUpload(h) \/ PutUpload(h) \/ VerifyUpload(h) \/ RemoveUpload(h) \/ ConfirmUpload(h)
  \/ RequestDeletion(h) \/ DeleteObject(h) \/ VerifyDeletion(h) \/ ConfirmDeletion(h)
  \/ GetObject(h) \/ CreateProfile(h)
  \/ Abandon(h)

AssetNext ==
  \/ \E a \in Assets : CreateStimulusAsset(a)
  \/ \E h \in Handlers : HandlerStep(h)

-----------------------------------------------------------------------------
(* Properties. *)

\* What the rows offer for download is in the store: however uploads and deletions of an
\* asset cross, an available asset of an active organization has its object
\* (stimulus-assets.controller.ts: the confirmation follows the look at the object).
AvailableHasObject ==
  organization = "active" => \A a \in Assets : assets[a] = "available" => Present(a)

\* A profile describes an asset that is available: one that was computed while the
\* asset was being deleted is not stored, and one that was stored goes with it.
ProfileHasAsset ==
  organization # "gone" => \A a \in profiles : assets[a] = "available"

=============================================================================
