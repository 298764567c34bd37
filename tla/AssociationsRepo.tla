-------------------------- MODULE AssociationsRepo --------------------------
(***************************************************************************)
(* models/capi_diego_process_association.go: which Diego processes run a   *)
(* CAPI process.  Each operation holds the lock throughout.                *)
(***************************************************************************)
EXTENDS GoMap

CONSTANT NoString   \* ""

VARIABLE repo   \* map[CAPIProcessGUID]*CAPIDiegoProcessAssociation

\* validateUpsertCAPIDiegoProcessAssociationRequest and
\* validateDeleteCAPIDiegoProcessAssociationRequest
ValidUpsert(a) == a.CAPIProcessGUID # NoString /\ a.DiegoProcessGUIDs # <<>>
ValidDelete(guid) == guid # NoString

Upsert(a) == repo' = Put(repo, a.CAPIProcessGUID, a)
Delete(guid) == repo' = Drop(repo, guid)

CapiGuidOf(a) == a.CAPIProcessGUID
Itself(a) == a

\* Faulty variant: associations that are not in the list stay.
SyncMerges(list) ==
    LET fresh == Poured(list, CapiGuidOf, Itself)
    IN  repo' = [g \in DOMAIN repo \cup DOMAIN fresh |->
                    IF g \in DOMAIN fresh THEN fresh[g] ELSE repo[g]]

Sync(list) == repo' = Poured(list, CapiGuidOf, Itself)
=============================================================================
