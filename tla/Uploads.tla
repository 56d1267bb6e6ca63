---------------------------------- MODULE Uploads ----------------------------------
(***************************************************************************)
(* Uploaded images (uploads.service.ts): the object in the store and its row  *)
(* in media_assets are written and deleted one after the other, by uploads,   *)
(* by admins who retire an image and by the sweep that retires proofs 90 days *)
(* old.  Submissions and content refer to an image by its URL.               *)
(*                                                                         *)
(* Resizing, thumbnails and signed links only read.                          *)
(***************************************************************************)
EXTENDS Naturals, FiniteSets, FiniteSetsExt

CONSTANTS
    Images,       \* 1..n, in the order they are uploaded
    Proofs,       \* those uploaded as proofs
    Batch,        \* the proofs a sweep takes
    MaxBreaks     \* bound: failed calls and crashes

NoImage == 0

VARIABLES
    object,       \* images whose object is in the store
    asset,        \* media_assets.status
    upload,       \* progress of each upload
    expired,      \* proofs older than the retention
    submitting,   \* proofs a submission has checked and fetched and not yet written
    referred,     \* images some row refers to
    retiring,     \* the admin's retirement under way
    todo, erased, \* the sweep: what it has still to do, and the image it has erased
    cut,          \* ghost: images whose upload or retirement was cut off half-way
    breaks

retireVars == <<retiring, todo, erased>>
vars == <<object, asset, upload, expired, submitting, referred, retireVars, cut, breaks>>

NotRetiring == [image |-> NoImage, erased |-> FALSE]

Init ==
    /\ object = {}
    /\ asset = [i \in Images |-> "none"]
    /\ upload = [i \in Images |-> "idle"]
    /\ expired = {} /\ submitting = {} /\ referred = {}
    /\ retiring = NotRetiring
    /\ todo = {} /\ erased = NoImage
    /\ cut = {}
    /\ breaks = 0

Active == {i \in Images : asset[i] = "ACTIVE"}
Erasing(i) == (retiring.erased /\ retiring.image = i) \/ erased = i
Break == breaks < MaxBreaks /\ breaks' = breaks + 1

\* The store, in S3, at Cloudinary or on the disk.  Deleting what is not there succeeds.
Put(i) == object' = object \cup {i}
DeleteStored(i) == object' = object \ {i}

\* contentLocation: only an active row is served, from its object.
IsServed(i) == i \in Active \cap object

\* countReferences asks ten columns of other tables for the image's URL.
IsReferred(i) == i \in referred

-------------------------------------------------------------------------------
\* Uploads

Store(i) ==
    /\ upload[i] = "idle" /\ \A j \in Images : j < i => upload[j] # "idle"
    /\ upload' = [upload EXCEPT ![i] = "stored"]
    /\ Put(i)
    /\ UNCHANGED <<asset, expired, submitting, referred, retireVars, cut, breaks>>

CreateAsset(i) ==
    /\ upload[i] = "stored"
    /\ upload' = [upload EXCEPT ![i] = "done"]
    /\ asset' = [asset EXCEPT ![i] = "ACTIVE"]
    /\ UNCHANGED <<object, expired, submitting, referred, retireVars, cut, breaks>>

\* A mutant of UndoStore: the object of a row that could not be written is left.
UndoStoreNever(i) == UNCHANGED object

UndoStore(i) == DeleteStored(i)

\* The row cannot be written, or is and the answer gets lost: the object is deleted
\* again, unless that fails too.
CreateAssetFails(i) ==
    /\ upload[i] = "stored" /\ Break
    /\ upload' = [upload EXCEPT ![i] = "done"]
    /\ \/ UndoStore(i) /\ UNCHANGED <<asset, cut>>
       \/ UndoStore(i) /\ asset' = [asset EXCEPT ![i] = "ACTIVE"] /\ cut' = cut \cup {i}
       \/ UNCHANGED <<object, asset>> /\ cut' = cut \cup {i}
    /\ UNCHANGED <<expired, submitting, referred, retireVars>>

-------------------------------------------------------------------------------
\* References

\* assertOwnedProofUrls and the download, then the row some queries later.
CheckProof(i) ==
    /\ i \in Proofs /\ IsServed(i)
    /\ submitting' = submitting \cup {i}
    /\ UNCHANGED <<object, asset, upload, expired, referred, retireVars, cut, breaks>>

AttachProof(i) ==
    /\ i \in submitting
    /\ submitting' = submitting \ {i}
    /\ referred' = referred \cup {i}
    /\ UNCHANGED <<object, asset, upload, expired, retireVars, cut, breaks>>

\* Offers, categories, avatars and pushes take any URL.
Refer(i) ==
    /\ i \notin Proofs /\ upload[i] = "done" /\ i \notin referred
    /\ referred' = referred \cup {i}
    /\ UNCHANGED <<object, asset, upload, expired, submitting, retireVars, cut, breaks>>

Unrefer(i) ==
    /\ i \in referred \ Proofs
    /\ referred' = referred \ {i}
    /\ UNCHANGED <<object, asset, upload, expired, submitting, retireVars, cut, breaks>>

-------------------------------------------------------------------------------
\* Retirement

\* A retired image is left alone; one still referred to is, unless forced.
Retire(i, force) ==
    /\ retiring = NotRetiring
    /\ i \in Active
    /\ IsReferred(i) => force
    /\ retiring' = [image |-> i, erased |-> FALSE]
    /\ UNCHANGED <<object, asset, upload, expired, submitting, referred, todo, erased, cut, breaks>>

RetireErase ==
    /\ retiring.image # NoImage /\ ~retiring.erased
    /\ DeleteStored(retiring.image)
    /\ retiring' = [retiring EXCEPT !.erased = TRUE]
    /\ UNCHANGED <<asset, upload, expired, submitting, referred, todo, erased, cut, breaks>>

RetireAsset ==
    /\ retiring.erased
    /\ asset' = [asset EXCEPT ![retiring.image] = "RETIRED"]
    /\ retiring' = NotRetiring
    /\ UNCHANGED <<object, upload, expired, submitting, referred, todo, erased, cut, breaks>>

\* The store or the database fails; what was done stays done.
RetireFails ==
    /\ retiring # NotRetiring /\ Break
    /\ retiring' = NotRetiring
    /\ cut' = IF retiring.erased THEN cut \cup {retiring.image} ELSE cut
    /\ UNCHANGED <<object, asset, upload, expired, submitting, referred, todo, erased>>

Age(i) ==
    /\ i \in Proofs \ expired /\ upload[i] = "done"
    /\ \A j \in Proofs : j < i => j \in expired
    /\ expired' = expired \cup {i}
    /\ UNCHANGED <<object, asset, upload, submitting, referred, retireVars, cut, breaks>>

\* A mutant of Candidates: retired ones too.
CandidatesAll == expired

Candidates == expired \cap Active
Oldest(s) == {i \in s : Cardinality({j \in s : j < i}) < Batch}

Sweep ==
    /\ todo = {} /\ erased = NoImage
    /\ Candidates # {}
    /\ todo' = Oldest(Candidates)
    /\ UNCHANGED <<object, asset, upload, expired, submitting, referred, retiring, erased, cut, breaks>>

SweepErase ==
    /\ erased = NoImage /\ todo # {}
    /\ DeleteStored(Min(todo))
    /\ erased' = Min(todo)
    /\ UNCHANGED <<asset, upload, expired, submitting, referred, retiring, todo, cut, breaks>>

\* Deleting failed: the sweep goes on, the next one tries again.
SweepEraseFails ==
    /\ erased = NoImage /\ todo # {} /\ Break
    /\ todo' = todo \ {Min(todo)}
    /\ UNCHANGED <<object, asset, upload, expired, submitting, referred, retiring, erased, cut>>

SweepAsset ==
    /\ erased # NoImage
    /\ asset' = IF erased \in Active THEN [asset EXCEPT ![erased] = "RETIRED"] ELSE asset
    /\ todo' = todo \ {erased} /\ erased' = NoImage
    /\ UNCHANGED <<object, upload, expired, submitting, referred, retiring, cut, breaks>>

SweepAssetFails ==
    /\ erased # NoImage /\ Break
    /\ cut' = cut \cup {erased}
    /\ todo' = todo \ {erased} /\ erased' = NoImage
    /\ UNCHANGED <<object, asset, upload, expired, submitting, referred, retiring>>

Crash ==
    /\ Break
    /\ cut' = cut \cup {i \in Images : upload[i] = "stored" \/ Erasing(i)}
    /\ upload' = [i \in Images |-> IF upload[i] = "stored" THEN "done" ELSE upload[i]]
    /\ submitting' = {}
    /\ retiring' = NotRetiring
    /\ todo' = {} /\ erased' = NoImage
    /\ UNCHANGED <<object, asset, expired, referred>>

Next ==
    \/ \E i \in Images :
        \/ Store(i) \/ CreateAsset(i) \/ CreateAssetFails(i)
        \/ CheckProof(i) \/ AttachProof(i) \/ Refer(i) \/ Unrefer(i)
        \/ \E force \in BOOLEAN : Retire(i, force)
        \/ Age(i)
    \/ RetireErase \/ RetireAsset \/ RetireFails
    \/ Sweep \/ SweepErase \/ SweepEraseFails \/ SweepAsset \/ SweepAssetFails
    \/ Crash

Fairness == WF_vars(Sweep) /\ WF_vars(SweepErase) /\ WF_vars(SweepAsset)

Spec == Init /\ [][Next]_vars /\ Fairness

-------------------------------------------------------------------------------
TypeOK ==
    /\ object \subseteq Images
    /\ asset \in [Images -> {"none", "ACTIVE", "RETIRED"}]
    /\ upload \in [Images -> {"idle", "stored", "done"}]
    /\ expired \subseteq Proofs /\ submitting \subseteq Proofs /\ referred \subseteq Images
    /\ retiring \in [image : Images \cup {NoImage}, erased : BOOLEAN]
    /\ todo \subseteq Proofs /\ erased \in Proofs \cup {NoImage}
    /\ cut \subseteq Images /\ breaks \in 0..MaxBreaks

\* Store and table agree on every image but those being written or deleted and those
\* whose writing or deleting was cut off half-way: no object without a row, no active row
\* without an object, no object of a retired row (uploadImage, retire).
RowsMatchObjects ==
    \A i \in Images \ cut :
        /\ i \in object /\ asset[i] = "none" => upload[i] = "stored"
        /\ i \in Active \ object => Erasing(i)
        /\ asset[i] = "RETIRED" => i \notin object

\* Proofs past the retention are retired in the end, those whose deletion failed too:
\* "Failed deletes stay ACTIVE so the next sweep can retry them" (retireExpiredProofs).
ExpiredProofsRetire == \A i \in Proofs : i \in expired \cap Active ~> asset[i] = "RETIRED"
===============================================================================
