----------------------------- MODULE PlatformProofs -----------------------------
(***************************************************************************)
(* What holds of Platform for every number of users, calls, pushes, images,  *)
(* tokens and faults.  Each component has an inductive invariant of its own, *)
(* which its steps keep; the last section puts them together.                *)
(***************************************************************************)
EXTENDS Platform, CpxPostbacksProofs, FiniteSetTheorems, WellFoundedInduction, TLAPS

-------------------------------------------------------------------------------
\* The token of the voucher providers.

\* While no rotation was cut off, nobody has entered tokens, whoever may still refresh
\* holds at most the stored token, and what is on its way to the file is the token in
\* force, of one attempt alone.
TokenInv ==
    ~lost =>
        /\ settings = 0
        /\ Voucher!Stored <= granted
        /\ \A a \in Attempts : attempt[a].does \in {"load", "post", "refresh"} => attempt[a].token <= Voucher!Stored
        /\ \A a \in Attempts : Voucher!At(a, "persist") => attempt[a].token = granted /\ Voucher!Stored < granted
        /\ \A a, b \in Attempts : Voucher!At(a, "persist") /\ Voucher!At(b, "persist") => a = b

VoucherInv == Voucher!TypeOK /\ TokenInv /\ Voucher!TokenIsKept

AttemptRecord == [does : {"idle", "load", "post", "refresh", "persist", "retry"},
                  token : 0..MaxRotations, test : BOOLEAN]

LEMMA VoucherInit == Voucher!Init => VoucherInv
<1> SUFFICES ASSUME Voucher!Init PROVE VoucherInv
    OBVIOUS
<1> USE VoucherBounds
<1>1. Voucher!Unused \in AttemptRecord
      BY DEF Voucher!Unused, AttemptRecord
<1>2. Voucher!TypeOK
  <2>1. attempt \in [Attempts -> AttemptRecord]
        BY <1>1 DEF Voucher!Init
  <2>2. granted \in 0..MaxRotations /\ settings \in 0..granted /\ tokenFile \in 0..Voucher!NoFile /\ outages \in 0..MaxOutages
        BY DEF Voucher!Init, Voucher!NoFile
  <2>3. lost \in BOOLEAN
        BY DEF Voucher!Init
  <2>4. QED BY <2>1, <2>2, <2>3 DEF Voucher!TypeOK, AttemptRecord
<1>3. Voucher!Stored = 0 /\ \A a \in Attempts : attempt[a].does = "idle"
      BY DEF Voucher!Init, Voucher!Unused, Voucher!NoFile, Voucher!Stored
<1>4. TokenInv /\ Voucher!TokenIsKept
      BY <1>3 DEF Voucher!Init, TokenInv, Voucher!TokenIsKept, Voucher!At
<1>5. QED BY <1>2, <1>4 DEF VoucherInv

LEMMA VoucherStep ==
    ASSUME VoucherInv, [Voucher!Next]_voucherVars
    PROVE  VoucherInv'
<1> USE VoucherBounds
<1>t. Voucher!TypeOK /\ TokenInv /\ Voucher!TokenIsKept
      BY DEF VoucherInv
<1>r. attempt \in [Attempts -> AttemptRecord] /\ Voucher!Unused \in AttemptRecord
      BY <1>t DEF Voucher!TypeOK, AttemptRecord, Voucher!Unused
<1>n. granted \in 0..MaxRotations /\ settings \in 0..granted /\ tokenFile \in 0..Voucher!NoFile /\ Voucher!NoFile \in Nat
      BY <1>t DEF Voucher!TypeOK, Voucher!NoFile
\* An attempt that ends, or goes on without a new token, while nothing else changes.
<1>q. ASSUME NEW a \in Attempts, NEW r \in AttemptRecord,
             attempt' = [attempt EXCEPT ![a] = r],
             r.does \in {"load", "post", "refresh"} => lost \/ r.token <= Voucher!Stored,
             r.does # "persist", ~Voucher!At(a, "persist"),
             UNCHANGED <<granted, settings, tokenFile, lost, outages>>
      PROVE  VoucherInv'
  <2>1. attempt'[a] = r /\ \A b \in Attempts : b # a => attempt'[b] = attempt[b]
        BY <1>q, <1>r
  <2>2. Voucher!Stored' = Voucher!Stored
        BY <1>q DEF Voucher!Stored
  <2>3. Voucher!TypeOK'
        BY <1>q, <1>t, <1>r DEF Voucher!TypeOK, AttemptRecord, Voucher!NoFile
  <2>4. TokenInv'
        BY <2>1, <2>2, <1>q, <1>t DEF TokenInv, Voucher!At
  <2>5. Voucher!TokenIsKept'
        BY <2>1, <2>2, <1>q, <1>t DEF Voucher!TokenIsKept, Voucher!At
  <2>6. QED BY <2>3, <2>4, <2>5 DEF VoucherInv
<1>1. ASSUME NEW a \in Attempts, Voucher!Build(a) PROVE VoucherInv'
  <2>1. PICK test \in BOOLEAN : attempt' = [attempt EXCEPT ![a] = [does |-> "load", token |-> settings, test |-> test]]
        BY <1>1 DEF Voucher!Build
  <2>2. [does |-> "load", token |-> settings, test |-> test] \in AttemptRecord
        BY <1>n DEF AttemptRecord
  <2>3. lost \/ settings <= Voucher!Stored
        BY <1>n, <1>t DEF TokenInv, Voucher!Stored
  <2>4. QED BY <2>1, <2>2, <2>3, <1>q, <1>1 DEF Voucher!Build, Voucher!At
<1>2. ASSUME NEW a \in Attempts, Voucher!LoadTokenState(a) PROVE VoucherInv'
  <2> DEFINE next == IF attempt[a].test THEN "refresh" ELSE "post"
             held == IF tokenFile = Voucher!NoFile THEN attempt[a].token ELSE tokenFile
             r == [attempt[a] EXCEPT !.does = next, !.token = held]
  <2>1. attempt' = [attempt EXCEPT ![a] = r]
        BY <1>2, <1>r DEF Voucher!LoadTokenState
  <2>2. held \in 0..MaxRotations
        BY <1>r, <1>n DEF AttemptRecord, Voucher!NoFile
  <2>3. r \in AttemptRecord /\ r.does # "persist" /\ r.token = held
        BY <2>2, <1>r DEF AttemptRecord
  <2>4. lost \/ held <= Voucher!Stored
        BY <1>2, <1>n, <1>t, <1>r DEF TokenInv, Voucher!Stored, Voucher!LoadTokenState, Voucher!At
  <2>5. ~Voucher!At(a, "persist") /\ UNCHANGED <<granted, settings, tokenFile, lost, outages>>
        BY <1>2 DEF Voucher!LoadTokenState, Voucher!At
  <2> HIDE DEF r
  <2>6. QED BY <2>1, <2>3, <2>4, <2>5, <1>q
<1>3. ASSUME NEW a \in Attempts, Voucher!Post(a) PROVE VoucherInv'
  <2>1. CASE Voucher!Ends(a)
        BY <2>1, <1>3, <1>q, <1>r DEF Voucher!Post, Voucher!Ends, Voucher!At, Voucher!Unused
  <2>2. CASE Voucher!Goes(a, "refresh")
    <3>1. attempt' = [attempt EXCEPT ![a] = [attempt[a] EXCEPT !.does = "refresh"]]
          BY <2>2, <1>r DEF Voucher!Goes
    <3>2. [attempt[a] EXCEPT !.does = "refresh"] \in AttemptRecord
          BY <1>r DEF AttemptRecord
    <3>3. [attempt[a] EXCEPT !.does = "refresh"].does = "refresh" /\ [attempt[a] EXCEPT !.does = "refresh"].token = attempt[a].token
          BY <1>r DEF AttemptRecord
    <3>4. lost \/ attempt[a].token <= Voucher!Stored
          BY <1>3, <1>t DEF Voucher!Post, Voucher!At, TokenInv
    <3>5. QED BY <3>1, <3>2, <3>3, <3>4, <1>3, <1>q DEF Voucher!Post, Voucher!At
  <2>3. QED BY <2>1, <2>2, <1>3 DEF Voucher!Post
<1>4. ASSUME NEW a \in Attempts, Voucher!PostAgain(a) PROVE VoucherInv'
      BY <1>4, <1>q, <1>r DEF Voucher!PostAgain, Voucher!Ends, Voucher!At, Voucher!Unused
<1>5. ASSUME NEW a \in Attempts, Voucher!RefreshRefused(a) PROVE VoucherInv'
      BY <1>5, <1>q, <1>r DEF Voucher!RefreshRefused, Voucher!Ends, Voucher!At, Voucher!Unused
<1>6. ASSUME NEW a \in Attempts, Voucher!Refresh(a) PROVE VoucherInv'
  <2> DEFINE r == [attempt[a] EXCEPT !.does = "persist", !.token = granted + 1]
  <2>1. attempt' = [attempt EXCEPT ![a] = r]
        BY <1>6, <1>r DEF Voucher!Refresh, Voucher!TakeNew
  <2>2. r \in AttemptRecord /\ r.does = "persist" /\ r.token = granted + 1
    <3>1. granted + 1 \in 0..MaxRotations
          BY <1>6, <1>n DEF Voucher!Refresh
    <3>2. QED BY <3>1, <1>r DEF AttemptRecord
  <2>3. attempt'[a] = r /\ \A b \in Attempts : b # a => attempt'[b] = attempt[b]
        BY <2>1, <1>r
  <2>4. Voucher!Stored' = Voucher!Stored
        BY <1>6 DEF Voucher!Refresh, Voucher!Stored
  <2>5. Voucher!TypeOK'
        BY <2>1, <2>2, <1>6, <1>t, <1>r, <1>n DEF Voucher!Refresh, Voucher!TypeOK, AttemptRecord, Voucher!NoFile
  <2>6. ~lost => granted = Voucher!Stored /\ \A b \in Attempts : ~Voucher!At(b, "persist")
        BY <1>6, <1>t, <1>n DEF Voucher!Refresh, TokenInv, Voucher!At, Voucher!Stored
  <2>7. TokenInv'
    <3> SUFFICES ASSUME ~lost' PROVE TokenInv'
        BY DEF TokenInv
    <3>1. ~lost /\ granted' = granted + 1 /\ settings' = settings
          BY <1>6 DEF Voucher!Refresh
    <3>2. settings = 0 /\ Voucher!Stored = granted
          BY <3>1, <2>6, <1>t DEF TokenInv
    <3>3. \A b \in Attempts : attempt'[b].does = "persist" => b = a
          BY <3>1, <2>3, <2>6 DEF Voucher!At
    <3>4. \A b \in Attempts : attempt'[b].does \in {"load", "post", "refresh"} => attempt'[b].token <= Voucher!Stored
          BY <3>1, <2>2, <2>3, <1>t DEF TokenInv
    <3> HIDE DEF r
    <3>5. granted \in Nat
          BY <1>n
    <3>6. QED BY <3>1, <3>2, <3>3, <3>4, <3>5, <2>2, <2>3, <2>4 DEF TokenInv, Voucher!At
  <2>8. Voucher!TokenIsKept'
        BY <2>2, <2>3, <1>6 DEF Voucher!Refresh, Voucher!TokenIsKept, Voucher!At
  <2>9. QED BY <2>5, <2>7, <2>8 DEF VoucherInv
\* Once a rotation was cut off, only the types are left to show.
<1>c. ASSUME lost', Voucher!TypeOK' PROVE VoucherInv'
      BY <1>c DEF VoucherInv, TokenInv, Voucher!TokenIsKept
<1>7. ASSUME NEW a \in Attempts, Voucher!RefreshUnanswered(a) PROVE VoucherInv'
  <2>1. lost'
        BY <1>7 DEF Voucher!RefreshUnanswered
  <2>2. Voucher!TypeOK'
        BY <1>7, <1>t, <1>r, <1>n DEF Voucher!RefreshUnanswered, Voucher!TypeOK, AttemptRecord, Voucher!NoFile, Voucher!Ends, Voucher!Outage
  <2>3. QED BY <2>1, <2>2, <1>c
<1>8. ASSUME NEW a \in Attempts, Voucher!Persist(a) PROVE VoucherInv'
  <2> DEFINE r == IF attempt[a].test THEN Voucher!Unused ELSE [attempt[a] EXCEPT !.does = "retry"]
  <2>1. attempt' = [attempt EXCEPT ![a] = r]
        BY <1>8, <1>r DEF Voucher!Persist, Voucher!Ends, Voucher!Goes
  <2>2. r \in AttemptRecord /\ r.does \in {"idle", "retry"}
        BY <1>r DEF AttemptRecord, Voucher!Unused
  <2>3. attempt'[a] = r /\ \A b \in Attempts : b # a => attempt'[b] = attempt[b]
        BY <2>1, <1>r
  <2>4. /\ attempt[a].token \in 0..MaxRotations /\ attempt[a].token # Voucher!NoFile
        /\ Voucher!Stored' = attempt[a].token
    <3>1. attempt[a].token \in 0..MaxRotations
          BY <1>r DEF AttemptRecord
    <3>2. attempt[a].token # Voucher!NoFile
          BY <3>1 DEF Voucher!NoFile
    <3>3. QED BY <3>1, <3>2, <1>8 DEF Voucher!Persist, Voucher!Stored, Voucher!NoFile
  <2>5. Voucher!TypeOK'
        BY <2>1, <2>2, <2>4, <1>8, <1>t, <1>r, <1>n DEF Voucher!Persist, Voucher!TypeOK, AttemptRecord, Voucher!NoFile
  <2>6. ~lost => Voucher!Stored' = granted /\ Voucher!Stored < granted /\ \A b \in Attempts \ {a} : ~Voucher!At(b, "persist")
        BY <2>4, <1>8, <1>t DEF Voucher!Persist, TokenInv, Voucher!At
  <2>s. Voucher!Stored \in Nat
        BY <1>n DEF Voucher!Stored
  <2>i. \A b \in Attempts : attempt[b].token \in Nat
        BY <1>r DEF AttemptRecord
  <2>7. TokenInv'
    <3> SUFFICES ASSUME ~lost' PROVE TokenInv'
        BY DEF TokenInv
    <3> HIDE DEF r
    <3>1. ~lost /\ granted' = granted /\ settings' = settings
          BY <1>8 DEF Voucher!Persist
    <3>2. settings = 0 /\ Voucher!Stored' = granted /\ Voucher!Stored < granted
          BY <3>1, <2>6, <1>t DEF TokenInv
    <3>3. \A b \in Attempts : attempt'[b].does # "persist"
          BY <3>1, <2>2, <2>3, <2>6 DEF Voucher!At
    <3>4. \A b \in Attempts : attempt'[b].does \in {"load", "post", "refresh"} => attempt'[b].token <= Voucher!Stored
          BY <3>1, <2>2, <2>3, <1>t DEF TokenInv
    <3>5. granted \in Nat /\ \A b \in Attempts \ {a} : attempt'[b].token \in Nat
          BY <1>n, <2>i, <2>3
    <3>6. QED BY <3>1, <3>2, <3>3, <3>4, <3>5, <2>2, <2>3, <2>s DEF TokenInv, Voucher!At
  <2>8. Voucher!TokenIsKept'
        BY <2>6, <1>8 DEF Voucher!Persist, Voucher!TokenIsKept
  <2>9. QED BY <2>5, <2>7, <2>8 DEF VoucherInv
<1>9. ASSUME NEW a \in Attempts, Voucher!PersistFails(a) PROVE VoucherInv'
  <2>1. lost'
        BY <1>9 DEF Voucher!PersistFails
  <2>2. Voucher!TypeOK'
        BY <1>9, <1>t, <1>r, <1>n DEF Voucher!PersistFails, Voucher!TypeOK, AttemptRecord, Voucher!NoFile, Voucher!Ends, Voucher!Outage
  <2>3. QED BY <2>1, <2>2, <1>c
<1>10. ASSUME Voucher!Restart PROVE VoucherInv'
  <2>1. Voucher!TypeOK'
        BY <1>10, <1>t, <1>r, <1>n DEF Voucher!Restart, Voucher!TypeOK, AttemptRecord, Voucher!NoFile, Voucher!Outage
  <2>2. CASE lost'
        BY <2>1, <2>2, <1>c
  <2>3. CASE ~lost'
    <3>1. ~lost /\ \A a \in Attempts : ~Voucher!At(a, "persist")
          BY <2>3, <1>10 DEF Voucher!Restart
    <3>2. Voucher!Stored' = Voucher!Stored /\ \A a \in Attempts : attempt'[a].does = "idle"
          BY <1>10 DEF Voucher!Restart, Voucher!Stored, Voucher!Unused
    <3>3. TokenInv'
          BY <3>1, <3>2, <1>10, <1>t DEF Voucher!Restart, TokenInv, Voucher!At
    <3>4. Voucher!TokenIsKept'
          BY <3>1, <3>2, <1>10, <1>t DEF Voucher!Restart, Voucher!TokenIsKept
    <3>5. QED BY <2>1, <3>3, <3>4 DEF VoucherInv
  <2>4. QED BY <2>2, <2>3
<1>11. ASSUME Voucher!EnterTokens PROVE VoucherInv'
  <2>1. Voucher!TypeOK'
        BY <1>11, <1>t, <1>r, <1>n DEF Voucher!EnterTokens, Voucher!TypeOK, AttemptRecord, Voucher!NoFile
  <2>2. QED BY <2>1, <1>11, <1>c DEF Voucher!EnterTokens
<1>12. ASSUME UNCHANGED voucherVars PROVE VoucherInv'
  <2>1. Voucher!Stored' = Voucher!Stored
        BY <1>12 DEF voucherVars, Voucher!Stored
  <2>2. QED BY <2>1, <1>12, <1>t DEF voucherVars, VoucherInv, Voucher!TypeOK, Voucher!NoFile, TokenInv, Voucher!TokenIsKept, Voucher!At
<1>13. QED BY <1>1, <1>2, <1>3, <1>4, <1>5, <1>6, <1>7, <1>8, <1>9, <1>10, <1>11, <1>12 DEF Voucher!Next


-------------------------------------------------------------------------------
\* Images and their rows.

\* A row stands for an upload that is over; a retirement and the sweep are at images that
\* have one; what they have erased is not in the store.
ImagesInv ==
    /\ \A i \in Images : asset[i] # "none" \/ i \in cut => upload[i] = "done"
    /\ \A i \in Images : (upload[i] = "idle" => i \notin object) /\ (upload[i] = "stored" => i \in object)
    /\ retiring.image # Upload!NoImage => asset[retiring.image] # "none"
    /\ retiring.erased => retiring.image # Upload!NoImage
    /\ \A i \in todo : asset[i] # "none"
    /\ erased # Upload!NoImage => asset[erased] # "none"
    /\ \A i \in Images : Upload!Erasing(i) => i \notin object

UploadInv == Upload!TypeOK /\ ImagesInv /\ Upload!RowsMatchObjects

\* The oldest image of some is one of them.
LEMMA OldestIsOne == ASSUME NEW S \in SUBSET Images, S # {} PROVE Upload!Min(S) \in S
<1>1. \E x \in S : \A y \in S : x <= y
  <2>1. PICK x \in S : \A y \in S : <<y, x>> \notin OpToRel(<, Nat)
        BY NatLessThanWellFounded, WFMin, UploadBounds
  <2>2. \A y \in S : x \in Nat /\ y \in Nat
        BY UploadBounds
  <2>3. \A y \in S : y < x => <<y, x>> \in OpToRel(<, Nat)
        BY <2>2 DEF OpToRel
  <2>4. \A y \in S : ~(y < x)
        BY <2>1, <2>3
  <2>5. QED BY <2>2, <2>4
<1>2. QED BY <1>1 DEF Upload!Min

LEMMA UploadInit == Upload!Init => UploadInv
    BY UploadBounds DEF Upload!Init, UploadInv, Upload!TypeOK, ImagesInv, Upload!RowsMatchObjects, Upload!NotRetiring, Upload!NoImage, Upload!Erasing, Upload!Active

LEMMA UploadStep ==
    ASSUME UploadInv, [Upload!Next]_uploadVars
    PROVE  UploadInv'
<1> USE UploadBounds
<1>n. Upload!NoImage \notin Images
      BY DEF Upload!NoImage
<1>t. Upload!TypeOK /\ ImagesInv /\ Upload!RowsMatchObjects
      BY DEF UploadInv
<1>b. Upload!Break => breaks' \in 0..MaxBreaks
      BY <1>t DEF Upload!Break, Upload!TypeOK
<1>r. Upload!NotRetiring \in [image : Images \cup {Upload!NoImage}, erased : BOOLEAN] /\ Upload!NotRetiring.image = Upload!NoImage /\ ~Upload!NotRetiring.erased
      BY DEF Upload!NotRetiring
<1> USE DEF UploadInv, Upload!TypeOK, ImagesInv, Upload!RowsMatchObjects, Upload!Erasing, Upload!Active, Upload!retireVars
<1>1. ASSUME NEW i \in Images, Upload!Store(i) PROVE UploadInv'
      BY <1>1, <1>n, <1>t DEF Upload!Store, Upload!Put
<1>2. ASSUME NEW i \in Images, Upload!CreateAsset(i) PROVE UploadInv'
      BY <1>2, <1>n, <1>t DEF Upload!CreateAsset
<1>3. ASSUME NEW i \in Images, Upload!CreateAssetFails(i) PROVE UploadInv'
  <2>1. /\ upload[i] = "stored" /\ upload' = [upload EXCEPT ![i] = "done"] /\ asset[i] = "none"
        /\ breaks' \in 0..MaxBreaks /\ UNCHANGED <<expired, attaching, referred, retiring, todo, erased>>
        BY <1>3, <1>t, <1>b DEF Upload!CreateAssetFails
  <2>2. CASE object' = object \ {i} /\ UNCHANGED <<asset, cut>>
        BY <2>1, <2>2, <1>n, <1>t
  <2>3. CASE object' = object \ {i} /\ asset' = [asset EXCEPT ![i] = "ACTIVE"] /\ cut' = cut \cup {i}
        BY <2>1, <2>3, <1>n, <1>t
  <2>4. CASE UNCHANGED <<object, asset>> /\ cut' = cut \cup {i}
        BY <2>1, <2>4, <1>n, <1>t
  <2>5. QED BY <2>2, <2>3, <2>4, <1>3 DEF Upload!CreateAssetFails, Upload!UndoStore, Upload!DeleteStored
<1>4. ASSUME NEW i \in Images, Upload!CheckProof(i) \/ Upload!AttachProof(i) \/ Upload!Refer(i) \/ Upload!Unrefer(i) \/ Upload!Age(i) PROVE UploadInv'
  <2>1. CASE Upload!CheckProof(i)
        BY <2>1, <1>t DEF Upload!CheckProof
  <2>2. CASE Upload!AttachProof(i)
        BY <2>2, <1>t DEF Upload!AttachProof
  <2>3. CASE Upload!Refer(i)
        BY <2>3, <1>t DEF Upload!Refer
  <2>4. CASE Upload!Unrefer(i)
        BY <2>4, <1>t DEF Upload!Unrefer
  <2>5. CASE Upload!Age(i)
        BY <2>5, <1>t DEF Upload!Age
  <2>6. QED BY <2>1, <2>2, <2>3, <2>4, <2>5, <1>4
<1>5. ASSUME NEW i \in Images, NEW force \in BOOLEAN, Upload!Retire(i, force) PROVE UploadInv'
      BY <1>5, <1>n, <1>t DEF Upload!Retire, Upload!NotRetiring
<1>6. ASSUME Upload!RetireErase PROVE UploadInv'
      BY <1>6, <1>n, <1>t DEF Upload!RetireErase, Upload!DeleteStored
<1>7. ASSUME Upload!RetireAsset PROVE UploadInv'
      BY <1>7, <1>n, <1>r, <1>t DEF Upload!RetireAsset
<1>8. ASSUME Upload!RetireFails PROVE UploadInv'
      BY <1>8, <1>n, <1>r, <1>b, <1>t DEF Upload!RetireFails
<1>9. ASSUME Upload!Sweep PROVE UploadInv'
      BY <1>9, <1>t DEF Upload!Sweep, Upload!Oldest, Upload!Candidates
<1>10. ASSUME Upload!SweepErase PROVE UploadInv'
  <2>1. Upload!Min(todo) \in todo
        BY <1>10, <1>t, OldestIsOne DEF Upload!SweepErase
  <2>2. QED BY <1>10, <2>1, <1>n, <1>t DEF Upload!SweepErase, Upload!DeleteStored
<1>11. ASSUME Upload!SweepEraseFails PROVE UploadInv'
      BY <1>11, <1>b, <1>t DEF Upload!SweepEraseFails
<1>12. ASSUME Upload!SweepAsset PROVE UploadInv'
      BY <1>12, <1>n, <1>t DEF Upload!SweepAsset
<1>13. ASSUME Upload!SweepAssetFails PROVE UploadInv'
      BY <1>13, <1>n, <1>b, <1>t DEF Upload!SweepAssetFails
<1>14. ASSUME Upload!Crash PROVE UploadInv'
  <2>1. /\ cut' = cut \cup {i \in Images : upload[i] = "stored" \/ Upload!Erasing(i)}
        /\ upload' = [i \in Images |-> IF upload[i] = "stored" THEN "done" ELSE upload[i]]
        /\ attaching' = {} /\ retiring' = Upload!NotRetiring /\ todo' = {} /\ erased' = Upload!NoImage
        /\ breaks' \in 0..MaxBreaks /\ UNCHANGED <<object, asset, expired, referred>>
        BY <1>14, <1>b DEF Upload!Crash
  <2>2. Upload!TypeOK'
    <3>1. upload' \in [Images -> {"idle", "stored", "done"}]
          BY <2>1, <1>t
    <3>2. QED BY <2>1, <3>1, <1>r, <1>t
  <2>3. \A i \in Images : ~Upload!Erasing(i)'
        BY <2>1, <1>n, <1>r
  <2>4. ImagesInv'
    <3>1. \A i \in Images : Upload!Erasing(i) => asset[i] # "none"
          BY <1>t, <1>n
    <3>2. QED BY <2>1, <2>3, <3>1, <1>n, <1>r, <1>t
  <2>5. Upload!RowsMatchObjects'
        BY <2>1, <1>t
  <2>6. QED BY <2>2, <2>4, <2>5
<1>15. ASSUME UNCHANGED uploadVars PROVE UploadInv'
      BY <1>15, <1>t DEF uploadVars
<1>16. QED BY <1>1, <1>2, <1>3, <1>4, <1>5, <1>6, <1>7, <1>8, <1>9, <1>10, <1>11, <1>12, <1>13, <1>14, <1>15 DEF Upload!Next

-------------------------------------------------------------------------------
\* Accounts and their identities.

IdentityRecord == [email : Identity!Emails \cup {Identity!None, InvitedAs}, uid : {p.uid : p \in Profiles} \cup {Identity!None}, code : ReferralCodes \cup {Identity!None}]
IdentityCall == [does : {"idle", "find", "create", "link", "code", "reread"}, profile : Profiles \cup {Identity!NoAccount}, row : Identity!Rows \cup {Identity!None}]
AtRow(c) == request[c].does \in {"link", "code", "reread"}

\* Codes and emails are of one row each, an identity is at the row of its email, and so
\* is a call that signs in; rows are made one after the other and never again.
RowsOfOne ==
    /\ \A r \in Identity!Rows : r > accounts => known[r] = Identity!NoAccount
    /\ \A q, r \in Identity!Rows : q # r => known[q].code # known[r].code \/ known[q].code = Identity!None
    /\ \A q, r \in Identity!Rows : q # r => known[q].email # known[r].email \/ known[q].email = Identity!None
    /\ \A r \in Identity!Rows, p \in Profiles : known[r].uid = p.uid => known[r].email = p.email
CallIsOfOne(c) ==
    /\ request[c].does \in {"find", "create", "link"} => request[c].profile \in Profiles
    /\ AtRow(c) => /\ request[c].row \in Identity!Rows /\ request[c].row <= accounts
                   /\ \/ request[c].profile = Identity!NoAccount
                      \/ ~Identity!IsThere(request[c].row)
                      \/ known[request[c].row].email = request[c].profile.email
CallsOfOne ==
    /\ request \in [Requests -> IdentityCall]
    /\ \A c \in Requests : CallIsOfOne(c)
ShownOfOne ==
    /\ \A r \in Identity!Rows : shared[r] \subseteq {known[r].code}
    /\ \A e \in Identity!Emails : \A r \in entered[e] : known[r].email = e

IdentityInv == Identity!TypeOK /\ RowsOfOne /\ CallsOfOne /\ ShownOfOne

LEMMA IdentitiesAreKept == IdentityInv => Identity!IdentitiesKeepAccounts
<1> SUFFICES ASSUME IdentityInv PROVE Identity!IdentitiesKeepAccounts
    OBVIOUS
<1>1. \A r \in Identity!Rows : shared[r] \subseteq ReferralCodes /\ Identity!None \notin ReferralCodes
      BY IdentityBounds DEF IdentityInv, Identity!TypeOK
<1>2. \A q, r \in Identity!Rows : q # r => shared[q] \cap shared[r] = {}
      BY <1>1 DEF IdentityInv, RowsOfOne, ShownOfOne
<1>3. \A e \in Identity!Emails : e # Identity!None
      BY IdentityBounds DEF Identity!Emails
<1>4. \A e \in Identity!Emails : \A q, r \in entered[e] : q = r
      BY <1>3 DEF IdentityInv, Identity!TypeOK, RowsOfOne, ShownOfOne
<1>5. QED BY <1>2, <1>4 DEF IdentityInv, ShownOfOne, Identity!IdentitiesKeepAccounts

LEMMA IdentityInit == Identity!Init => IdentityInv
<1> SUFFICES ASSUME Identity!Init PROVE IdentityInv
    OBVIOUS
<1> USE IdentityBounds DEF Identity!None
<1>1. /\ Identity!NoAccount \in IdentityRecord /\ [Identity!NoAccount EXCEPT !.email = InvitedAs] \in IdentityRecord
      /\ Identity!NoAccount.uid = Identity!None /\ Identity!NoAccount.code = Identity!None /\ Identity!NoAccount.email = Identity!None
      /\ [Identity!NoAccount EXCEPT !.email = InvitedAs].uid = Identity!None /\ [Identity!NoAccount EXCEPT !.email = InvitedAs].code = Identity!None
      BY DEF Identity!NoAccount, IdentityRecord
<1>2. Identity!NoRequest \in IdentityCall /\ Identity!NoRequest.does = "idle"
      BY DEF Identity!NoRequest, IdentityCall
<1>3. 1 \in Identity!Rows
      BY DEF Identity!Rows
<1>4. Identity!TypeOK
      BY <1>1, <1>2, <1>3 DEF Identity!Init, Identity!TypeOK, IdentityRecord, IdentityCall
<1>5. RowsOfOne
      BY <1>1, <1>3 DEF Identity!Init, RowsOfOne
<1>6. CallsOfOne
      BY <1>2 DEF Identity!Init, CallsOfOne, CallIsOfOne, AtRow
<1>7. ShownOfOne
      BY DEF Identity!Init, ShownOfOne
<1>8. QED BY <1>4, <1>5, <1>6, <1>7 DEF IdentityInv

\* An answer with the code of the row, to whom the row is the one of his email.
LEMMA AnswerKeeps ==
    ASSUME Identity!TypeOK, ShownOfOne, known' \in [Identity!Rows -> IdentityRecord],
           NEW c \in Requests, NEW r \in Identity!Rows, Identity!Answer(c, r, known'[r].code),
           \A q \in Identity!Rows : known'[q].email = known[q].email \/ entered[known[q].email] = {} \/ known[q].email \notin Identity!Emails,
           \A q \in Identity!Rows : known'[q].code = known[q].code \/ shared[q] = {},
           request[c].profile = Identity!NoAccount \/ (request[c].profile \in Profiles /\ known'[r].email = request[c].profile.email)
    PROVE  ShownOfOne' /\ shared' \in [Identity!Rows -> SUBSET ReferralCodes] /\ entered' \in [Identity!Emails -> SUBSET Identity!Rows]
<1>1. shared' \in [Identity!Rows -> SUBSET ReferralCodes] /\ \A q \in Identity!Rows : shared'[q] \subseteq {known'[q].code}
      BY DEF Identity!Answer, Identity!TypeOK, ShownOfOne, IdentityRecord
<1>2. \A e \in Identity!Emails : \A q \in entered[e] : known'[q].email = e
      BY DEF Identity!TypeOK, ShownOfOne
<1>3. CASE request[c].profile.email = Identity!None
      BY <1>1, <1>2, <1>3 DEF Identity!Answer, Identity!TypeOK, ShownOfOne
<1>4. CASE request[c].profile.email # Identity!None
  <2>1. request[c].profile \in Profiles /\ known'[r].email = request[c].profile.email /\ request[c].profile.email \in Identity!Emails
        BY <1>4 DEF Identity!NoAccount, Identity!Emails
  <2>2. entered' = [entered EXCEPT ![request[c].profile.email] = entered[request[c].profile.email] \cup {r}]
        BY <1>4 DEF Identity!Answer
  <2>3. QED BY <1>1, <1>2, <2>1, <2>2 DEF Identity!TypeOK, ShownOfOne
<1>5. QED BY <1>3, <1>4

\* The call goes on, at a row that is its own.
LEMMA GoingKeeps ==
    ASSUME CallsOfOne, NEW c \in Requests, NEW s \in {"create", "link", "code", "reread"}, NEW r \in Identity!Rows \cup {Identity!None},
           Identity!Goes(c, s, r), known' \in [Identity!Rows -> IdentityRecord], accounts \in Nat, accounts' = accounts,
           \A q \in Identity!Rows : known'[q].email = known[q].email,
           s \in {"create", "link"} => request[c].profile \in Profiles,
           s = "create" \/ (r \in Identity!Rows /\ r <= accounts),
           \/ s = "create" \/ request[c].profile = Identity!NoAccount \/ ~Identity!IsThere(r)
           \/ known[r].email = request[c].profile.email
    PROVE  CallsOfOne'
<1> DEFINE next == [request[c] EXCEPT !.does = s, !.row = r]
<1>1. request[c] \in IdentityCall
      BY DEF CallsOfOne
<1>2. /\ next \in IdentityCall /\ next.does = s /\ next.row = r
      /\ next.profile = request[c].profile
      BY <1>1 DEF IdentityCall
<1>3. request' = [request EXCEPT ![c] = next]
      BY <1>1 DEF Identity!Goes, IdentityCall, CallsOfOne
<1> HIDE DEF next
<1>4. request' \in [Requests -> IdentityCall] /\ request'[c] = next /\ \A d \in Requests : d # c => request'[d] = request[d]
      BY <1>2, <1>3 DEF CallsOfOne
<1>5. \A q \in Identity!Rows : Identity!IsThere(q)' <=> Identity!IsThere(q)
      BY DEF Identity!IsThere
<1>6. ASSUME NEW d \in Requests PROVE CallIsOfOne(d)'
  <2>1. CASE d = c
    <3>1. s \in {"create", "link"} => next.profile \in Profiles
          BY <1>2
    <3>2. s # "create" => \/ next.profile = Identity!NoAccount
                          \/ known'[r].email = Identity!None
                          \/ known'[r].email = next.profile.email
          BY <1>2 DEF Identity!IsThere
    <3>3. request'[d] = next
          BY <1>4, <2>1
    <3>4. QED BY <3>1, <3>2, <3>3, <1>2 DEF CallIsOfOne, AtRow, Identity!IsThere
  <2>2. CASE d # c
    <3>1. request'[d] = request[d] /\ CallIsOfOne(d)
          BY <2>2, <1>4 DEF CallsOfOne
    <3>2. QED BY <3>1 DEF AtRow, CallIsOfOne, Identity!IsThere
  <2>3. QED BY <2>1, <2>2
<1>7. QED BY <1>4, <1>6 DEF CallsOfOne

\* A call that has ended is of no row; the others are of rows as they were.
LEMMA EndingKeeps ==
    ASSUME CallsOfOne, NEW c \in Requests, Identity!End(c), accounts \in Nat, accounts' \in Nat, accounts <= accounts',
           \A q \in Identity!Rows : q <= accounts => known'[q].email = known[q].email
    PROVE  CallsOfOne'
<1>1. /\ request' \in [Requests -> IdentityCall] /\ request'[c].does = "idle"
      /\ \A d \in Requests : d # c => request'[d] = request[d]
      BY DEF CallsOfOne, Identity!End, Identity!NoRequest, IdentityCall
<1>2. Identity!Rows \subseteq Nat
      BY DEF Identity!Rows
<1>3. ASSUME NEW d \in Requests PROVE CallIsOfOne(d)'
  <2>1. CASE d = c
        BY <2>1, <1>1 DEF CallIsOfOne, AtRow
  <2>2. CASE d # c
    <3>1. request'[d] = request[d] /\ CallIsOfOne(d)
          BY <2>2, <1>1 DEF CallsOfOne
    <3>2. AtRow(d) => request[d].row <= accounts' /\ known'[request[d].row].email = known[request[d].row].email
      <4>1. AtRow(d) => request[d].row \in Identity!Rows /\ request[d].row <= accounts
            BY <3>1 DEF CallIsOfOne
      <4>2. AtRow(d) => request[d].row \in Nat
            BY <4>1, <1>2
      <4>3. QED BY <4>1, <4>2
    <3>3. QED BY <3>1, <3>2 DEF AtRow, CallIsOfOne, Identity!IsThere
  <2>3. QED BY <2>1, <2>2
<1>4. QED BY <1>1, <1>3 DEF CallsOfOne

\* Nothing but the requests and how many they were.
LEMMA CallsOnly ==
    ASSUME IdentityInv, UNCHANGED <<known, accounts, shared, entered>>, CallsOfOne', requests' \in 0..MaxRequests
    PROVE  IdentityInv'
<1>1. Identity!TypeOK'
      BY DEF IdentityInv, Identity!TypeOK, CallsOfOne, IdentityCall
<1>2. RowsOfOne' /\ ShownOfOne'
      BY DEF IdentityInv, RowsOfOne, ShownOfOne
<1>3. QED BY <1>1, <1>2 DEF IdentityInv

LEMMA BeginSignInStep ==
    ASSUME IdentityInv, NEW c \in Requests, NEW p \in Profiles, Identity!BeginSignIn(c, p) PROVE IdentityInv'
<1>1. CallsOfOne'
      BY DEF Identity!BeginSignIn, IdentityInv, CallsOfOne, CallIsOfOne, IdentityCall, AtRow, Identity!IsThere
<1>2. QED BY <1>1, CallsOnly, IdentityBounds DEF Identity!BeginSignIn, IdentityInv, Identity!TypeOK

LEMMA FindStep ==
    ASSUME IdentityInv, NEW c \in Requests, Identity!Find(c) PROVE IdentityInv'
<1>1. request[c].profile \in Profiles /\ known \in [Identity!Rows -> IdentityRecord] /\ accounts \in Identity!Rows /\ requests \in 0..MaxRequests
      BY DEF Identity!Find, IdentityInv, CallsOfOne, CallIsOfOne, Identity!TypeOK, IdentityRecord
<1>2. accounts \in Nat /\ Identity!Rows \subseteq Nat
      BY <1>1 DEF Identity!Rows
<1>3. CASE Identity!Goes(c, "create", Identity!None)
      BY <1>1, <1>2, <1>3, GoingKeeps, CallsOnly DEF Identity!Find, IdentityInv
<1>4. ASSUME NEW r \in Identity!Matches(request[c].profile), Identity!Goes(c, "link", r) PROVE IdentityInv'
  <2>1. r \in Identity!Rows /\ known[r].email = request[c].profile.email /\ r <= accounts
    <3>1. r \in Identity!Rows /\ Identity!IsThere(r) /\ (known[r].uid = request[c].profile.uid \/ known[r].email = request[c].profile.email)
          BY DEF Identity!Matches
    <3>2. known[r].email = request[c].profile.email
          BY <1>1, <3>1 DEF IdentityInv, RowsOfOne
    <3>3. known[r] # Identity!NoAccount
          BY <3>1 DEF Identity!IsThere, Identity!NoAccount
    <3>4. ~(r > accounts)
          BY <3>1, <3>3 DEF IdentityInv, RowsOfOne
    <3>5. r \in Nat
          BY <3>1, <1>2
    <3>6. QED BY <1>2, <3>1, <3>2, <3>4, <3>5
  <2>2. QED BY <1>1, <1>2, <1>4, <2>1, GoingKeeps, CallsOnly DEF Identity!Find, IdentityInv
<1>5. QED BY <1>3, <1>4 DEF Identity!Find

LEMMA CreateStep ==
    ASSUME IdentityInv, NEW c \in Requests, Identity!Create(c) PROVE IdentityInv'
<1> DEFINE p == request[c].profile
<1>1. /\ p \in Profiles /\ known \in [Identity!Rows -> IdentityRecord] /\ accounts \in Identity!Rows /\ requests \in 0..MaxRequests
      /\ p.email \in Identity!Emails /\ p.email # Identity!None /\ p.uid # Identity!None
      BY IdentityBounds DEF Identity!Create, IdentityInv, CallsOfOne, CallIsOfOne, Identity!TypeOK, IdentityRecord, Identity!Emails
<1>2. accounts \in Nat /\ Identity!Rows \subseteq Nat
      BY <1>1 DEF Identity!Rows
<1>3. CASE Identity!Matches(p) # {}
  <2>1. CallsOfOne'
        BY <1>2, <1>3, EndingKeeps DEF Identity!Create, IdentityInv
  <2>2. QED BY <1>1, <1>3, <2>1, CallsOnly DEF Identity!Create, IdentityInv
<1>4. CASE Identity!Matches(p) = {}
  <2>1. PICK code \in Identity!FreeCodes :
          /\ known' = [known EXCEPT ![accounts + 1] = [email |-> p.email, uid |-> p.uid, code |-> code]]
          /\ Identity!Answer(c, accounts + 1, code)
        BY <1>4 DEF Identity!Create
  <2> DEFINE new == [email |-> p.email, uid |-> p.uid, code |-> code]
             rno == accounts + 1
  <2>2. rno \in Identity!Rows /\ accounts' = rno /\ rno > accounts /\ rno \in Nat /\ UNCHANGED requests
        BY <1>1, <1>2, <1>4, IdentityBounds DEF Identity!Create, Identity!Rows
  <2>3. /\ new \in IdentityRecord /\ new.email = p.email /\ new.uid = p.uid /\ new.code = code
        /\ code \in ReferralCodes /\ \A q \in Identity!Rows : known[q].code # code
        BY <1>1 DEF IdentityRecord, Identity!FreeCodes
  <2>4. known' = [known EXCEPT ![rno] = new]
        BY <2>1
  <2> HIDE DEF new, rno
  <2>5. /\ known' \in [Identity!Rows -> IdentityRecord] /\ known'[rno] = new
        /\ \A q \in Identity!Rows : q # rno => known'[q] = known[q]
        BY <1>1, <2>2, <2>3, <2>4
  <2>6. known[rno] = Identity!NoAccount
        BY <2>2 DEF IdentityInv, RowsOfOne
  <2>7. known[rno].email = Identity!None /\ known[rno].code = Identity!None
        BY <2>6 DEF Identity!NoAccount
  <2>8. /\ \A q \in Identity!Rows : known[q].email # p.email
        /\ \A q \in Identity!Rows : known[q].uid # p.uid
        BY <1>1, <1>4 DEF Identity!Matches, Identity!IsThere, IdentityInv, RowsOfOne
  <2>9. RowsOfOne'
    <3>1. \A r \in Identity!Rows : r > rno => r > accounts /\ r # rno
          BY <1>2, <2>2
    <3>2. \A r \in Identity!Rows : r > accounts' => known'[r] = Identity!NoAccount
          BY <2>2, <2>5, <3>1 DEF IdentityInv, RowsOfOne
    <3>3. \A q, r \in Identity!Rows : q # r => known'[q].code # known'[r].code \/ known'[q].code = Identity!None
          BY <2>3, <2>5 DEF IdentityInv, RowsOfOne
    <3>4. \A q, r \in Identity!Rows : q # r => known'[q].email # known'[r].email \/ known'[q].email = Identity!None
          BY <2>3, <2>5, <2>8 DEF IdentityInv, RowsOfOne
    <3>5. \A r \in Identity!Rows, o \in Profiles : known'[r].uid = o.uid => known'[r].email = o.email
          BY <1>1, <2>3, <2>5, IdentityBounds DEF IdentityInv, RowsOfOne
    <3>6. QED BY <3>2, <3>3, <3>4, <3>5 DEF RowsOfOne
  <2>10. CallsOfOne'
    <3>1. Identity!End(c) /\ accounts' \in Nat /\ accounts <= accounts'
          BY <1>2, <2>1, <2>2 DEF Identity!Answer
    <3>2. \A q \in Identity!Rows : q <= accounts => q # rno
          BY <1>2, <2>2
    <3>3. \A q \in Identity!Rows : q <= accounts => known'[q].email = known[q].email
          BY <2>5, <3>2
    <3>4. QED BY <1>2, <3>1, <3>3, EndingKeeps DEF IdentityInv
  <2>11. shared[rno] = {}
        BY <2>2, <2>7, IdentityBounds DEF IdentityInv, ShownOfOne, Identity!TypeOK
  <2>12. Identity!Answer(c, rno, known'[rno].code)
        BY <2>1, <2>3, <2>5 DEF rno
  <2>13. Identity!None \notin Identity!Emails
        BY IdentityBounds DEF Identity!Emails
  <2>14. ShownOfOne' /\ shared' \in [Identity!Rows -> SUBSET ReferralCodes] /\ entered' \in [Identity!Emails -> SUBSET Identity!Rows]
    <3>1. \A q \in Identity!Rows : known'[q].email = known[q].email \/ entered[known[q].email] = {} \/ known[q].email \notin Identity!Emails
          BY <2>5, <2>7, <2>13
    <3>2. \A q \in Identity!Rows : known'[q].code = known[q].code \/ shared[q] = {}
          BY <2>5, <2>11
    <3>3. request[c].profile \in Profiles /\ known'[rno].email = request[c].profile.email
          BY <1>1, <2>3, <2>5
    <3>4. QED BY <2>2, <2>5, <2>12, <3>1, <3>2, <3>3, AnswerKeeps DEF IdentityInv
  <2>15. Identity!TypeOK'
        BY <1>1, <2>2, <2>5, <2>10, <2>14 DEF Identity!TypeOK, CallsOfOne, IdentityRecord, IdentityCall
  <2>16. QED BY <2>9, <2>10, <2>14, <2>15 DEF IdentityInv
<1>5. QED BY <1>3, <1>4

\* A row that keeps its email, with an identity or a code it did not have before.
LEMMA ChangingKeeps ==
    ASSUME IdentityInv, NEW r \in Identity!Rows, NEW new \in IdentityRecord, known' = [known EXCEPT ![r] = new],
           Identity!IsThere(r), new.email = known[r].email, accounts' = accounts,
           \A p \in Profiles : new.uid = p.uid => known[r].email = p.email,
           \/ new.code = known[r].code
           \/ known[r].code = Identity!None /\ \A q \in Identity!Rows : known[q].code # new.code
    PROVE  /\ known' \in [Identity!Rows -> IdentityRecord] /\ known'[r] = new
           /\ \A q \in Identity!Rows : q # r => known'[q] = known[q]
           /\ \A q \in Identity!Rows : known'[q].email = known[q].email
           /\ \A q \in Identity!Rows : known'[q].code = known[q].code \/ shared[q] = {}
           /\ RowsOfOne'
<1>1. known \in [Identity!Rows -> IdentityRecord] /\ accounts \in Identity!Rows /\ Identity!Rows \subseteq Nat
      BY DEF IdentityInv, Identity!TypeOK, IdentityRecord, Identity!Rows
<1>2. /\ known' \in [Identity!Rows -> IdentityRecord] /\ known'[r] = new
      /\ \A q \in Identity!Rows : q # r => known'[q] = known[q]
      BY <1>1
<1>3. \A q \in Identity!Rows : known'[q].email = known[q].email
      BY <1>2
<1>4. known[r].code = Identity!None => shared[r] = {}
      BY IdentityBounds DEF IdentityInv, ShownOfOne, Identity!TypeOK
<1>5. \A q \in Identity!Rows : known'[q].code = known[q].code \/ shared[q] = {}
      BY <1>2, <1>4
<1>6. RowsOfOne'
  <2>1. ~(r > accounts)
    <3>1. known[r] # Identity!NoAccount
          BY DEF Identity!IsThere, Identity!NoAccount
    <3>2. QED BY <3>1 DEF IdentityInv, RowsOfOne
  <2>2. \A q \in Identity!Rows : q > accounts' => known'[q] = Identity!NoAccount
        BY <1>2, <2>1 DEF IdentityInv, RowsOfOne
  <2>3. \A q, s \in Identity!Rows : q # s => known'[q].code # known'[s].code \/ known'[q].code = Identity!None
        BY <1>2 DEF IdentityInv, RowsOfOne
  <2>4. \A q, s \in Identity!Rows : q # s => known'[q].email # known'[s].email \/ known'[q].email = Identity!None
        BY <1>3 DEF IdentityInv, RowsOfOne
  <2>5. \A s \in Identity!Rows, o \in Profiles : known'[s].uid = o.uid => known'[s].email = o.email
        BY <1>2, <1>3 DEF IdentityInv, RowsOfOne
  <2>6. QED BY <2>2, <2>3, <2>4, <2>5 DEF RowsOfOne
<1>7. QED BY <1>2, <1>3, <1>5, <1>6

LEMMA LinkStep ==
    ASSUME IdentityInv, NEW c \in Requests, Identity!Link(c) PROVE IdentityInv'
<1> DEFINE p == request[c].profile
           r == request[c].row
<1>1. /\ p \in Profiles /\ r \in Identity!Rows /\ r <= accounts /\ p # Identity!NoAccount
      /\ Identity!IsThere(r) => known[r].email = p.email
  <2>1. CallIsOfOne(c) /\ request[c].does = "link"
        BY DEF Identity!Link, IdentityInv, CallsOfOne
  <2>2. p \in Profiles
        BY <2>1 DEF CallIsOfOne
  <2>3. p # Identity!NoAccount
        BY <2>2, IdentityBounds DEF Identity!NoAccount
  <2>4. QED BY <2>1, <2>2, <2>3 DEF CallIsOfOne, AtRow
<1>2. /\ known \in [Identity!Rows -> IdentityRecord] /\ accounts \in Nat /\ requests \in 0..MaxRequests /\ accounts \in Identity!Rows
      /\ accounts' = accounts /\ requests' = requests
      BY DEF Identity!Link, IdentityInv, Identity!TypeOK, IdentityRecord, Identity!Rows
<1>3. CASE Identity!End(c) /\ UNCHANGED <<known, shared, entered>>
  <2>1. CallsOfOne'
        BY <1>2, <1>3, EndingKeeps DEF IdentityInv
  <2>2. QED BY <1>2, <1>3, <2>1, CallsOnly
<1>4. CASE /\ Identity!IsThere(r) /\ known' = [known EXCEPT ![r].uid = p.uid]
           /\ \/ Identity!Goes(c, "code", r) /\ UNCHANGED <<shared, entered>>
              \/ Identity!Answer(c, r, known[r].code)
  <2> DEFINE new == [known[r] EXCEPT !.uid = p.uid]
  <2>1. known[r] \in IdentityRecord
        BY <1>1, <1>2
  <2>2. /\ new \in IdentityRecord /\ new.email = known[r].email /\ new.code = known[r].code
        /\ new.uid = p.uid
        BY <1>1, <2>1 DEF IdentityRecord
  <2>3. known' = [known EXCEPT ![r] = new]
        BY <1>1, <1>2, <1>4
  <2> HIDE DEF new, r, p
  <2>4. \A o \in Profiles : new.uid = o.uid => known[r].email = o.email
        BY <1>1, <1>4, <2>2, IdentityBounds
  <2>5. /\ known' \in [Identity!Rows -> IdentityRecord] /\ known'[r] = new
        /\ \A q \in Identity!Rows : known'[q].email = known[q].email
        /\ \A q \in Identity!Rows : known'[q].code = known[q].code \/ shared[q] = {}
        /\ RowsOfOne'
        BY <1>1, <1>2, <1>4, <2>2, <2>3, <2>4, ChangingKeeps
  <2>6. \A q \in Identity!Rows : known'[q].code = known[q].code
    <3>1. \A q \in Identity!Rows : q # r => known'[q] = known[q]
          BY <1>2, <2>3
    <3>2. QED BY <3>1, <2>2, <2>5
  <2>7. CASE Identity!Goes(c, "code", r) /\ UNCHANGED <<shared, entered>>
    <3>1. CallsOfOne'
      <4>1. known[r].email = request[c].profile.email
            BY <1>1, <1>4 DEF p
      <4>2. QED BY <1>1, <1>2, <2>5, <2>7, <4>1, GoingKeeps DEF IdentityInv
    <3>2. ShownOfOne'
          BY <2>5, <2>6, <2>7 DEF IdentityInv, ShownOfOne, Identity!TypeOK
    <3>3. Identity!TypeOK'
          BY <1>2, <2>5, <2>7, <3>1 DEF IdentityInv, Identity!TypeOK, CallsOfOne, IdentityRecord, IdentityCall
    <3>4. QED BY <2>5, <3>1, <3>2, <3>3 DEF IdentityInv
  <2>8. CASE Identity!Answer(c, r, known[r].code)
    <3>1. CallsOfOne'
          BY <1>2, <2>5, <2>8, EndingKeeps DEF IdentityInv, Identity!Answer
    <3>2. ShownOfOne' /\ shared' \in [Identity!Rows -> SUBSET ReferralCodes] /\ entered' \in [Identity!Emails -> SUBSET Identity!Rows]
      <4>1. Identity!Answer(c, r, known'[r].code)
            BY <1>1, <2>6, <2>8
      <4>2. request[c].profile \in Profiles /\ known'[r].email = request[c].profile.email
            BY <1>1, <1>4, <2>5 DEF p
      <4>3. QED BY <1>1, <2>5, <4>1, <4>2, AnswerKeeps DEF IdentityInv
    <3>3. Identity!TypeOK'
          BY <1>2, <2>5, <3>1, <3>2 DEF Identity!TypeOK, CallsOfOne, IdentityRecord, IdentityCall
    <3>4. QED BY <2>5, <3>1, <3>2, <3>3 DEF IdentityInv
  <2>9. QED BY <1>4, <2>7, <2>8
<1>5. QED BY <1>3, <1>4 DEF Identity!Link

LEMMA AskReferralStatsStep ==
    ASSUME IdentityInv, NEW c \in Requests, NEW r \in Identity!Rows, Identity!AskReferralStats(c, r) PROVE IdentityInv'
<1>1. /\ known \in [Identity!Rows -> IdentityRecord] /\ accounts \in Nat /\ requests' \in 0..MaxRequests /\ accounts \in Identity!Rows
      /\ UNCHANGED <<known, accounts>> /\ request[c] = Identity!NoRequest /\ Identity!IsThere(r)
      BY IdentityBounds DEF Identity!AskReferralStats, IdentityInv, Identity!TypeOK, IdentityRecord, Identity!Rows
<1>2. request[c].profile = Identity!NoAccount
      BY <1>1 DEF Identity!NoRequest
<1>3. CASE Identity!Goes(c, "code", r) /\ UNCHANGED <<shared, entered>>
  <2>1. r <= accounts
    <3>1. known[r] # Identity!NoAccount
          BY <1>1 DEF Identity!IsThere, Identity!NoAccount
    <3>2. ~(r > accounts)
          BY <3>1 DEF IdentityInv, RowsOfOne
    <3>3. r \in Nat
          BY DEF Identity!Rows
    <3>4. QED BY <1>1, <3>2, <3>3
  <2>2. CallsOfOne'
        BY <1>1, <1>2, <1>3, <2>1, GoingKeeps DEF IdentityInv
  <2>3. QED BY <1>1, <1>3, <2>2, CallsOnly
<1>4. CASE Identity!Answer(c, r, known[r].code)
  <2>1. CallsOfOne'
        BY <1>1, <1>4, EndingKeeps DEF IdentityInv, Identity!Answer
  <2>2. Identity!Answer(c, r, known'[r].code)
        BY <1>1, <1>4
  <2>3. ShownOfOne' /\ shared' \in [Identity!Rows -> SUBSET ReferralCodes] /\ entered' \in [Identity!Emails -> SUBSET Identity!Rows]
        BY <1>1, <1>2, <2>2, AnswerKeeps DEF IdentityInv
  <2>4. RowsOfOne'
        BY <1>1 DEF IdentityInv, RowsOfOne
  <2>5. Identity!TypeOK'
        BY <1>1, <2>1, <2>3 DEF Identity!TypeOK, CallsOfOne, IdentityRecord, IdentityCall
  <2>6. QED BY <2>1, <2>3, <2>4, <2>5 DEF IdentityInv
<1>5. QED BY <1>3, <1>4 DEF Identity!AskReferralStats

LEMMA WriteCodeStep ==
    ASSUME IdentityInv, NEW c \in Requests, Identity!WriteCode(c) PROVE IdentityInv'
<1> DEFINE r == request[c].row
<1>1. /\ r \in Identity!Rows /\ r <= accounts
      /\ request[c].profile = Identity!NoAccount \/ ~Identity!IsThere(r) \/ known[r].email = request[c].profile.email
      BY DEF Identity!WriteCode, IdentityInv, CallsOfOne, CallIsOfOne, AtRow
<1>2. /\ known \in [Identity!Rows -> IdentityRecord] /\ accounts \in Nat /\ requests \in 0..MaxRequests /\ accounts \in Identity!Rows
      /\ UNCHANGED <<accounts, shared, entered, requests>> /\ Identity!Goes(c, "reread", r)
      BY DEF Identity!WriteCode, IdentityInv, Identity!TypeOK, IdentityRecord, Identity!Rows
<1>3. CASE UNCHANGED known
  <2>1. CallsOfOne'
        BY <1>1, <1>2, <1>3, GoingKeeps DEF IdentityInv
  <2>2. QED BY <1>2, <1>3, <2>1, CallsOnly
<1>4. ASSUME Identity!MayWriteCode(r), NEW code \in Identity!FreeCodes, known' = [known EXCEPT ![r].code = code] PROVE IdentityInv'
  <2> DEFINE new == [known[r] EXCEPT !.code = code]
  <2>1. known[r] \in IdentityRecord /\ code \in ReferralCodes /\ \A q \in Identity!Rows : known[q].code # code
        BY <1>1, <1>2 DEF Identity!FreeCodes
  <2>2. /\ new \in IdentityRecord /\ new.email = known[r].email /\ new.uid = known[r].uid /\ new.code = code
        BY <2>1 DEF IdentityRecord
  <2>3. known' = [known EXCEPT ![r] = new]
        BY <1>1, <1>2, <1>4
  <2> HIDE DEF new, r
  <2>4. Identity!IsThere(r) /\ known[r].code = Identity!None
        BY <1>4 DEF Identity!MayWriteCode
  <2>5. \A o \in Profiles : new.uid = o.uid => known[r].email = o.email
        BY <1>1, <2>2 DEF IdentityInv, RowsOfOne
  <2>6. /\ known' \in [Identity!Rows -> IdentityRecord] /\ known'[r] = new
        /\ \A q \in Identity!Rows : known'[q].email = known[q].email
        /\ \A q \in Identity!Rows : known'[q].code = known[q].code \/ shared[q] = {}
        /\ RowsOfOne'
        BY <1>1, <1>2, <2>1, <2>2, <2>3, <2>4, <2>5, ChangingKeeps
  <2>7. CallsOfOne'
        BY <1>1, <1>2, <2>6, GoingKeeps DEF IdentityInv
  <2>8. ShownOfOne'
        BY <1>2, <2>6 DEF IdentityInv, ShownOfOne, Identity!TypeOK
  <2>9. Identity!TypeOK'
        BY <1>2, <2>6, <2>7 DEF IdentityInv, Identity!TypeOK, CallsOfOne, IdentityRecord, IdentityCall
  <2>10. QED BY <2>6, <2>7, <2>8, <2>9 DEF IdentityInv
<1>5. QED BY <1>3, <1>4 DEF Identity!WriteCode

LEMMA RereadStep ==
    ASSUME IdentityInv, NEW c \in Requests, Identity!Reread(c) PROVE IdentityInv'
<1> DEFINE r == request[c].row
<1>1. /\ r \in Identity!Rows
      /\ request[c].profile = Identity!NoAccount \/ ~Identity!IsThere(r) \/ known[r].email = request[c].profile.email
      BY DEF Identity!Reread, IdentityInv, CallsOfOne, CallIsOfOne, AtRow
<1>2. /\ known \in [Identity!Rows -> IdentityRecord] /\ accounts \in Nat /\ requests \in 0..MaxRequests /\ accounts \in Identity!Rows
      /\ UNCHANGED <<known, accounts, requests>>
      BY DEF Identity!Reread, IdentityInv, Identity!TypeOK, IdentityRecord, Identity!Rows
<1>3. Identity!End(c)
      BY DEF Identity!Reread, Identity!Answer
<1>4. CallsOfOne'
      BY <1>2, <1>3, EndingKeeps DEF IdentityInv
<1>5. CASE UNCHANGED <<shared, entered>>
      BY <1>2, <1>4, <1>5, CallsOnly
<1>6. CASE Identity!IsThere(r) /\ Identity!Answer(c, r, known[r].code)
  <2>1. Identity!Answer(c, r, known'[r].code)
        BY <1>2, <1>6
  <2>2. request[c].profile = Identity!NoAccount \/ (request[c].profile \in Profiles /\ known'[r].email = request[c].profile.email)
    <3>1. request[c].profile \in Profiles \cup {Identity!NoAccount}
          BY DEF IdentityInv, CallsOfOne, IdentityCall
    <3>2. QED BY <1>1, <1>2, <1>6, <3>1
  <2>3. ShownOfOne' /\ shared' \in [Identity!Rows -> SUBSET ReferralCodes] /\ entered' \in [Identity!Emails -> SUBSET Identity!Rows]
        BY <1>1, <1>2, <2>1, <2>2, AnswerKeeps DEF IdentityInv
  <2>4. RowsOfOne'
        BY <1>2 DEF IdentityInv, RowsOfOne
  <2>5. Identity!TypeOK'
        BY <1>2, <1>4, <2>3 DEF Identity!TypeOK, CallsOfOne, IdentityRecord, IdentityCall
  <2>6. QED BY <1>4, <2>3, <2>4, <2>5 DEF IdentityInv
<1>7. QED BY <1>5, <1>6 DEF Identity!Reread

LEMMA DeleteStep ==
    ASSUME IdentityInv, NEW r \in Identity!Rows, Identity!Delete(r) PROVE IdentityInv'
<1>1. /\ known \in [Identity!Rows -> IdentityRecord] /\ accounts \in Identity!Rows
      /\ Identity!NoAccount \in IdentityRecord /\ Identity!NoAccount.email = Identity!None /\ Identity!NoAccount.uid = Identity!None /\ Identity!NoAccount.code = Identity!None
      BY DEF IdentityInv, Identity!TypeOK, IdentityRecord, Identity!NoAccount
<1>2. /\ known' \in [Identity!Rows -> IdentityRecord] /\ known'[r] = Identity!NoAccount
      /\ \A q \in Identity!Rows : q # r => known'[q] = known[q]
      BY <1>1 DEF Identity!Delete
<1>3. shared' \in [Identity!Rows -> SUBSET ReferralCodes] /\ entered' \in [Identity!Emails -> SUBSET Identity!Rows]
      BY DEF Identity!Delete, IdentityInv, Identity!TypeOK
<1>4. RowsOfOne'
      BY <1>1, <1>2, IdentityBounds DEF Identity!Delete, IdentityInv, RowsOfOne
<1>5. ShownOfOne'
  <2>1. shared'[r] = {} /\ \A q \in Identity!Rows : q # r => shared'[q] = shared[q]
        BY DEF Identity!Delete, IdentityInv, Identity!TypeOK
  <2>2. \A e \in Identity!Emails : entered'[e] = entered[e] \ {r}
        BY DEF Identity!Delete
  <2>3. \A q \in Identity!Rows : shared'[q] \subseteq {known'[q].code}
        BY <1>2, <2>1 DEF IdentityInv, ShownOfOne
  <2>4. ASSUME NEW e \in Identity!Emails, NEW q \in entered'[e] PROVE known'[q].email = e
    <3>1. q \in entered[e] /\ q # r /\ q \in Identity!Rows
          BY <2>2, <2>4 DEF IdentityInv, Identity!TypeOK
    <3>2. QED BY <1>2, <3>1 DEF IdentityInv, ShownOfOne
  <2>5. QED BY <2>3, <2>4 DEF ShownOfOne
<1>6. CallsOfOne'
  <2>1. ASSUME NEW c \in Requests PROVE CallIsOfOne(c)'
    <3>1. CallIsOfOne(c) /\ request' = request /\ accounts' = accounts
          BY DEF Identity!Delete, IdentityInv, CallsOfOne
    <3>2. CASE AtRow(c)
      <4>1. request[c].row \in Identity!Rows
            BY <3>1, <3>2 DEF CallIsOfOne
      <4>2. CASE request[c].row = r
            BY <1>1, <1>2, <3>1, <4>1, <4>2 DEF CallIsOfOne, AtRow, Identity!IsThere
      <4>3. CASE request[c].row # r
            BY <1>2, <3>1, <4>1, <4>3 DEF CallIsOfOne, AtRow, Identity!IsThere
      <4>4. QED BY <4>2, <4>3
    <3>3. CASE ~AtRow(c)
          BY <3>1, <3>3 DEF CallIsOfOne, AtRow
    <3>4. QED BY <3>2, <3>3
  <2>2. QED BY <2>1 DEF Identity!Delete, IdentityInv, CallsOfOne
<1>7. Identity!TypeOK'
      BY <1>2, <1>3 DEF Identity!Delete, IdentityInv, Identity!TypeOK, IdentityRecord
<1>8. QED BY <1>4, <1>5, <1>6, <1>7 DEF IdentityInv

LEMMA IdentityStep == IdentityInv /\ [Identity!Next]_identityVars => IdentityInv'
<1> SUFFICES ASSUME IdentityInv, [Identity!Next]_identityVars PROVE IdentityInv'
    OBVIOUS
<1>1. CASE UNCHANGED identityVars
      BY <1>1 DEF identityVars, IdentityInv, Identity!TypeOK, RowsOfOne, CallsOfOne, CallIsOfOne, AtRow, Identity!IsThere, ShownOfOne
<1>2. CASE \E c \in Requests, p \in Profiles : Identity!BeginSignIn(c, p)
      BY <1>2, BeginSignInStep
<1>3. CASE \E c \in Requests, r \in Identity!Rows : Identity!AskReferralStats(c, r)
      BY <1>3, AskReferralStatsStep
<1>4. CASE \E c \in Requests : Identity!Find(c)
      BY <1>4, FindStep
<1>5. CASE \E c \in Requests : Identity!Create(c)
      BY <1>5, CreateStep
<1>6. CASE \E c \in Requests : Identity!Link(c)
      BY <1>6, LinkStep
<1>7. CASE \E c \in Requests : Identity!WriteCode(c)
      BY <1>7, WriteCodeStep
<1>8. CASE \E c \in Requests : Identity!Reread(c)
      BY <1>8, RereadStep
<1>9. CASE \E r \in Identity!Rows : Identity!Delete(r)
      BY <1>9, DeleteStep
<1>10. QED BY <1>1, <1>2, <1>3, <1>4, <1>5, <1>6, <1>7, <1>8, <1>9 DEF Identity!Next

-------------------------------------------------------------------------------
\* Sessions.

Live(t) == token[t].state = "live"

\* A session is numbered by its first token; calls that rotate or revoke have one.
OrderInv ==
    /\ \A t \in Account!Tokens : token[t].state # "none" => t <= made
    /\ \A t \in Account!Tokens : Live(t) => token[t].session <= made
    /\ \A c \in Callers : caller[c].does \in {"rotate", "revoke"} => caller[c].token \in Account!Tokens
    /\ revoking <= epoch

OneLive == \A s, t \in Account!Tokens : Live(s) /\ Live(t) /\ s # t => token[s].session # token[t].session

\* A code is unmade, waiting, with one call, or used up.
CodeInv ==
    /\ \A k \in Account!Codes : k \in codes \/ k > codesMade => opened[k] = 0 /\ \A c \in Callers : caller[c].code # k
    /\ \A k \in codes : k <= codesMade
    /\ \A c \in Callers : caller[c].code # Account!NoToken =>
           /\ opened[caller[c].code] = 0
           /\ \A d \in Callers \ {c} : caller[d].code # caller[c].code
    /\ \A k \in Account!Codes : opened[k] <= 1

EpochInv ==
    /\ \A t \in Account!Tokens : Live(t) => token[t].epoch <= epoch
    /\ \A c \in Callers : caller[c].epoch <= epoch
    /\ ~user.active => /\ epoch > 0
                       /\ \A t \in Account!Tokens : Live(t) => token[t].epoch < epoch
                       /\ \A c \in Callers : caller[c].epoch < epoch

RevokedInv ==
    /\ standing <= made
    /\ revoking = 0 => \A t \in Account!Tokens : Live(t) => t > standing

AccountInv == Account!TypeOK /\ OrderInv /\ OneLive /\ CodeInv /\ EpochInv /\ RevokedInv

\* The rows of refresh_tokens and what a call remembers.
TokenRow == [state : {"none", "live", "dead"}, session : 0..MaxTokens, epoch : 0..MaxSwitches]
CallerRow == [does : {"idle", "issue", "code", "rotate", "revoke"},
            token : 0..MaxTokens, code : 0..MaxCodes, epoch : 0..MaxSwitches]

-------------------------------------------------------------------------------

\* The rows a step writes are of those types.
LEMMA TokenTypes ==
    ASSUME Account!TypeOK
    PROVE  /\ Account!Idle \in CallerRow /\ Account!Unmade \in TokenRow
           /\ \A t \in Account!Tokens : token[t] \in TokenRow /\ Account!Dead(t) \in TokenRow
           /\ \A c \in Callers : caller[c] \in CallerRow
<1>1. /\ \A t \in Account!Tokens : token[t] \in TokenRow
      /\ \A c \in Callers : caller[c] \in CallerRow
      BY DEF Account!TypeOK, TokenRow, CallerRow
<1>2. Account!Idle \in CallerRow /\ Account!Unmade \in TokenRow
      BY AccountBounds DEF Account!Idle, Account!Unmade, Account!NoToken, TokenRow, CallerRow
<1>3. ASSUME NEW t \in Account!Tokens PROVE Account!Dead(t) \in TokenRow
  <2>1. token[t] \in TokenRow /\ 0 \in 0..MaxSwitches
        BY <1>1, AccountBounds
  <2>2. QED BY <2>1 DEF Account!Dead, TokenRow
<1>4. QED BY <1>1, <1>2, <1>3

\* What of it is a number.
LEMMA TokenNumbers ==
    ASSUME Account!TypeOK
    PROVE  /\ made \in 0..MaxTokens /\ epoch \in Nat /\ standing \in Nat /\ revoking \in Nat /\ codesMade \in Nat
           /\ token \in [Account!Tokens -> TokenRow] /\ caller \in [Callers -> CallerRow]
           /\ \A t \in Account!Tokens : t \in Nat /\ t > 0 /\ token[t].session \in Nat /\ token[t].epoch \in Nat
           /\ \A c \in Callers : caller[c].epoch \in Nat /\ caller[c].code \in Account!Codes \cup {Account!NoToken}
           /\ Account!NoToken \notin Account!Codes /\ \A k \in Account!Codes : k \in Nat
<1>1. token \in [Account!Tokens -> TokenRow] /\ caller \in [Callers -> CallerRow]
      BY DEF Account!TypeOK, TokenRow, CallerRow
<1>2. /\ \A r \in TokenRow : r.session \in Nat /\ r.epoch \in Nat
      /\ \A r \in CallerRow : r.epoch \in Nat /\ r.code \in Account!Codes \cup {Account!NoToken}
      BY AccountBounds DEF TokenRow, CallerRow, Account!Codes, Account!NoToken
<1>3. QED BY <1>1, <1>2, AccountBounds DEF Account!TypeOK, Account!Tokens, Account!Codes, Account!NoToken

\* A call that ends, or goes on with a row, leaves the other calls alone.
LEMMA CallerTypes ==
    ASSUME Account!TypeOK, NEW c \in Callers, NEW r \in CallerRow, caller' = [caller EXCEPT ![c] = r]
    PROVE  caller' \in [Callers -> CallerRow]
  BY DEF Account!TypeOK, CallerRow

\* What issueTokens adds: nothing, or the next token, which begins a session.
Issued(c) ==
    \/ token' = token /\ made' = made
    \/ /\ made + 1 \in Account!Tokens /\ made' = made + 1
       /\ token' \in [Account!Tokens -> TokenRow]
       /\ token'[made + 1].state = "live" /\ token'[made + 1].session = made + 1
       /\ token'[made + 1].epoch = caller[c].epoch
       /\ \A t \in Account!Tokens : t # made + 1 => token'[t] = token[t]

\* What rotate does: nothing, or a token dies and the next one goes on with its session.
Rotated(c) ==
    \/ token' = token /\ made' = made
    \/ \E was \in Account!Tokens :
       /\ Live(was) /\ was <= made
       /\ made + 1 \in Account!Tokens /\ made' = made + 1
       /\ token' \in [Account!Tokens -> TokenRow]
       /\ token'[made + 1].state = "live" /\ token'[made + 1].session = token[was].session
       /\ token'[made + 1].epoch = caller[c].epoch
       /\ token'[was].state = "dead"
       /\ \A t \in Account!Tokens : t # was /\ t # made + 1 => token'[t] = token[t]

LEMMA IssueAdds ==
    ASSUME Account!TypeOK, NEW c \in Callers, Account!Issue(c)
    PROVE  Issued(c)
<1>1. CASE ~user.exists
      BY <1>1 DEF Account!Issue, Issued, Account!tokenVars
<1>2. CASE user.exists
  <2> DEFINE new == [state |-> "live", epoch |-> caller[c].epoch, session |-> made + 1]
  <2>1. made < MaxTokens /\ made' = made + 1 /\ token' = [token EXCEPT ![made + 1] = new]
        BY <1>2 DEF Account!Issue, Account!Make, Account!NoToken
  <2>2. made + 1 \in Account!Tokens /\ token \in [Account!Tokens -> TokenRow]
        BY <2>1, AccountBounds DEF Account!TypeOK, Account!Tokens, TokenRow
  <2>3. caller[c] \in CallerRow
        BY TokenTypes
  <2>4. new \in TokenRow
        BY <2>2, <2>3, AccountBounds DEF Account!Tokens, TokenRow, CallerRow
  <2>5. QED BY <2>1, <2>2, <2>4 DEF Issued
<1>3. QED BY <1>1, <1>2

LEMMA RotateReplaces ==
    ASSUME Account!TypeOK, OrderInv, NEW c \in Callers, Account!Rotate(c)
    PROVE  Rotated(c)
<1> DEFINE was == caller[c].token
           new == [state |-> "live", session |-> token[was].session, epoch |-> caller[c].epoch]
<1>1. CASE ~(Account!Consumable(was) /\ user.exists)
      BY <1>1 DEF Account!Rotate, Rotated, Account!tokenVars
<1>2. CASE Account!Consumable(was) /\ user.exists
  <2>1. /\ made < MaxTokens /\ made' = made + 1
        /\ token' = [token EXCEPT ![was] = Account!Dead(was), ![made + 1] = new]
        BY <1>2 DEF Account!Rotate
  <2>2. made + 1 \in Account!Tokens /\ token \in [Account!Tokens -> TokenRow]
        BY <2>1, AccountBounds DEF Account!TypeOK, Account!Tokens, TokenRow
  <2>3. was \in Account!Tokens /\ Live(was) /\ was <= made
        BY <1>2 DEF Account!Rotate, Account!Does, OrderInv, Account!Consumable, Live
  <2>4. caller[c] \in CallerRow /\ token[was] \in TokenRow /\ Account!Dead(was) \in TokenRow
        BY <2>3, TokenTypes
  <2>5. new \in TokenRow
        BY <2>4 DEF TokenRow, CallerRow
  <2>6. was # made + 1
        BY <2>3 DEF Account!TypeOK
  <2>7. Account!Dead(was).state = "dead"
        BY <2>4 DEF Account!Dead, TokenRow
  <2>8. QED BY <2>1, <2>2, <2>3, <2>4, <2>5, <2>6, <2>7 DEF Rotated
<1>3. QED BY <1>1, <1>2

-------------------------------------------------------------------------------

\* Every step keeps the types.
LEMMA TypesKept ==
    ASSUME Account!TypeOK, OrderInv, [Account!Next]_accountVars
    PROVE  Account!TypeOK'
<1>1. ASSUME NEW c \in Callers, Account!SignIn(c)
     PROVE  Account!TypeOK'
  <2>1. [Account!Idle EXCEPT !.does = "issue", !.epoch = epoch] \in CallerRow
    <3>1. Account!Idle \in CallerRow /\ epoch \in 0..MaxSwitches
          BY <1>1, TokenTypes DEF Account!TypeOK
    <3>2. QED BY <3>1 DEF CallerRow
  <2>2. caller' \in [Callers -> CallerRow]
        BY <1>1, <2>1, CallerTypes DEF Account!SignIn, Account!End
  <2>3. QED BY <1>1, <2>2, AccountBounds DEF Account!SignIn, Account!tokenVars, Account!codeVars, Account!adminVars, Account!Does, Account!Idle, Account!MayIssue, Account!TypeOK, Account!Tokens, Account!Codes, CallerRow
<1>2. ASSUME NEW c \in Callers, Account!CreateWebSession(c)
     PROVE  Account!TypeOK'
  <2>1. [Account!Idle EXCEPT !.does = "issue", !.epoch = epoch] \in CallerRow
    <3>1. Account!Idle \in CallerRow /\ epoch \in 0..MaxSwitches
          BY <1>2, TokenTypes DEF Account!TypeOK
    <3>2. QED BY <3>1 DEF CallerRow
  <2>2. caller' \in [Callers -> CallerRow]
        BY <1>2, <2>1, CallerTypes DEF Account!CreateWebSession, Account!End
  <2>3. QED BY <1>2, <2>2, AccountBounds DEF Account!CreateWebSession, Account!tokenVars, Account!codeVars, Account!adminVars, Account!Does, Account!Idle, Account!MayIssue, Account!TypeOK, Account!Tokens, Account!Codes, CallerRow
<1>3. ASSUME NEW c \in Callers, Account!Issue(c)
     PROVE  Account!TypeOK'
  <2>1. caller' \in [Callers -> CallerRow]
        BY <1>3, TokenTypes, CallerTypes DEF Account!Issue, Account!End
  <2>2. token' \in [Account!Tokens -> TokenRow] /\ made' \in 0..MaxTokens
    <3>1. Issued(c)
          BY <1>3, IssueAdds
    <3>2. token \in [Account!Tokens -> TokenRow] /\ made \in 0..MaxTokens
          BY DEF Account!TypeOK, TokenRow
    <3>3. made + 1 \in Account!Tokens => made + 1 \in 0..MaxTokens
          BY AccountBounds DEF Account!Tokens
    <3>4. QED BY <3>1, <3>2, <3>3 DEF Issued
  <2>3. opened' \in [Account!Codes -> Nat]
        BY <1>3 DEF Account!Issue, Account!TypeOK
  <2>4. UNCHANGED <<user, codes, codesMade, Account!adminVars>>
        BY <1>3 DEF Account!Issue
  <2>5. QED BY <2>1, <2>2, <2>3, <2>4 DEF Account!TypeOK, Account!adminVars, TokenRow, CallerRow
<1>4. ASSUME NEW c \in Callers, Account!ReadForCode(c)
     PROVE  Account!TypeOK'
  <2>1. (IF Account!CodeAccepted THEN [caller[c] EXCEPT !.does = "issue", !.epoch = epoch] ELSE Account!Idle) \in CallerRow
    <3>1. Account!Idle \in CallerRow /\ caller[c] \in CallerRow /\ epoch \in 0..MaxSwitches
          BY <1>4, TokenTypes DEF Account!TypeOK
    <3>2. QED BY <3>1 DEF CallerRow
  <2>2. caller' \in [Callers -> CallerRow]
        BY <1>4, <2>1, CallerTypes DEF Account!ReadForCode, Account!End
  <2>3. QED BY <1>4, <2>2, AccountBounds DEF Account!ReadForCode, Account!tokenVars, Account!codeVars, Account!adminVars, Account!Does, Account!Idle, Account!CodeAccepted, Account!MayIssue, Account!TypeOK, Account!Tokens, Account!Codes, CallerRow
<1>5. ASSUME NEW c \in Callers, NEW k \in codes, Account!ExchangeWebCode(c, k)
     PROVE  Account!TypeOK'
  <2>1. [Account!Idle EXCEPT !.does = "code", !.code = k] \in CallerRow
    <3>1. Account!Idle \in CallerRow /\ k \in 0..MaxCodes
          BY <1>5, TokenTypes, AccountBounds DEF Account!TypeOK, Account!Codes
    <3>2. QED BY <3>1 DEF CallerRow
  <2>2. caller' \in [Callers -> CallerRow]
        BY <1>5, <2>1, CallerTypes DEF Account!ExchangeWebCode, Account!End
  <2>3. QED BY <1>5, <2>2, AccountBounds DEF Account!ExchangeWebCode, Account!tokenVars, Account!adminVars, Account!Does, Account!Idle, Account!TakeCode, Account!TypeOK, Account!Tokens, Account!Codes, CallerRow
<1>6. ASSUME NEW c \in Callers, NEW t \in Account!Tokens, Account!Refresh(c, t)
     PROVE  Account!TypeOK'
  <2>1. [Account!Idle EXCEPT !.does = "rotate", !.token = t, !.epoch = epoch] \in CallerRow
    <3>1. Account!Idle \in CallerRow /\ t \in 0..MaxTokens /\ epoch \in 0..MaxSwitches
          BY <1>6, TokenTypes, AccountBounds DEF Account!TypeOK, Account!Tokens
    <3>2. QED BY <3>1 DEF CallerRow
  <2>2. caller' \in [Callers -> CallerRow]
        BY <1>6, <2>1, CallerTypes DEF Account!Refresh, Account!End
  <2>3. QED BY <1>6, <2>2, AccountBounds DEF Account!Refresh, Account!tokenVars, Account!codeVars, Account!adminVars, Account!Does, Account!Idle, Account!MayIssue, Account!TypeOK, Account!Tokens, Account!Codes, CallerRow
<1>7. ASSUME NEW c \in Callers, NEW t \in Account!Tokens, Account!Logout(c, t)
     PROVE  Account!TypeOK'
  <2>1. [Account!Idle EXCEPT !.does = "revoke", !.token = t] \in CallerRow
    <3>1. Account!Idle \in CallerRow /\ t \in 0..MaxTokens
          BY <1>7, TokenTypes, AccountBounds DEF Account!Tokens
    <3>2. QED BY <3>1 DEF CallerRow
  <2>2. caller' \in [Callers -> CallerRow]
        BY <1>7, <2>1, CallerTypes DEF Account!Logout, Account!End
  <2>3. QED BY <1>7, <2>2, AccountBounds DEF Account!Logout, Account!tokenVars, Account!codeVars, Account!adminVars, Account!Does, Account!Idle, Account!TypeOK, Account!Tokens, Account!Codes, CallerRow
<1>8. ASSUME NEW c \in Callers, Account!Rotate(c)
     PROVE  Account!TypeOK'
  <2>1. caller' \in [Callers -> CallerRow]
        BY <1>8, TokenTypes, CallerTypes DEF Account!Rotate, Account!End
  <2>2. token' \in [Account!Tokens -> TokenRow] /\ made' \in 0..MaxTokens
    <3>1. Rotated(c)
          BY <1>8, RotateReplaces
    <3>2. token \in [Account!Tokens -> TokenRow] /\ made \in 0..MaxTokens
          BY DEF Account!TypeOK, TokenRow
    <3>3. made + 1 \in Account!Tokens => made + 1 \in 0..MaxTokens
          BY AccountBounds DEF Account!Tokens
    <3>4. QED BY <3>1, <3>2, <3>3 DEF Rotated
  <2>3. UNCHANGED <<user, Account!codeVars, Account!adminVars>>
        BY <1>8 DEF Account!Rotate
  <2>4. QED BY <2>1, <2>2, <2>3 DEF Account!TypeOK, Account!codeVars, Account!adminVars, TokenRow, CallerRow
<1>9. ASSUME NEW c \in Callers, Account!Revoke(c)
     PROVE  Account!TypeOK'
  <2>1. caller' \in [Callers -> CallerRow]
        BY <1>9, TokenTypes, CallerTypes DEF Account!Revoke, Account!End
  <2>2. caller[c].token \in Account!Tokens
        BY <1>9 DEF Account!Revoke, Account!Does, OrderInv
  <2>3. token' \in [Account!Tokens -> TokenRow]
        BY <1>9, <2>2, TokenTypes DEF Account!Revoke, Account!TypeOK, TokenRow
  <2>4. QED BY <1>9, <2>1, <2>3 DEF Account!Revoke, Account!TypeOK, Account!codeVars, Account!adminVars, TokenRow, CallerRow
<1>10. ASSUME NEW k \in codes, Account!CodeExpires(k)
     PROVE  Account!TypeOK'
      BY <1>10, AccountBounds DEF Account!CodeExpires, Account!tokenVars, Account!adminVars, Account!TypeOK, Account!Tokens, Account!Codes
<1>11. ASSUME NEW t \in Account!Tokens, Account!Expire(t)
     PROVE  Account!TypeOK'
  <2>1. token' \in [Account!Tokens -> TokenRow]
        BY <1>11, TokenTypes DEF Account!Expire, Account!TypeOK, TokenRow
  <2>2. QED BY <1>11, <2>1 DEF Account!Expire, Account!TypeOK, Account!codeVars, Account!adminVars, TokenRow
<1>12. CASE Account!CreateWebCode
      BY <1>12, AccountBounds DEF Account!CreateWebCode, Account!tokenVars, Account!adminVars, Account!TypeOK, Account!Tokens, Account!Codes
<1>13. CASE Account!LogoutAll
  <2>1. token' \in [Account!Tokens -> TokenRow]
        BY <1>13, TokenTypes DEF Account!LogoutAll, Account!RevokeAll
  <2>2. QED BY <1>13, <2>1, AccountBounds DEF Account!LogoutAll, Account!TypeOK, Account!codeVars, Account!adminVars, TokenRow
<1>14. CASE Account!Deactivate
  <2>1. revoking' \in 0..MaxSwitches /\ epoch' \in 0..MaxSwitches /\ standing' \in 0..MaxTokens
        BY <1>14, AccountBounds DEF Account!Deactivate, OrderInv, Account!TypeOK
  <2>2. user' \in [exists : BOOLEAN, active : BOOLEAN]
        BY <1>14 DEF Account!Deactivate, Account!TypeOK
  <2>3. QED BY <1>14, <2>1, <2>2 DEF Account!Deactivate, Account!tokenVars, Account!codeVars, Account!TypeOK
<1>15. CASE Account!RevokeSessions
  <2>1. token' \in [Account!Tokens -> TokenRow]
        BY <1>15, TokenTypes DEF Account!RevokeSessions, Account!RevokeAll
  <2>2. QED BY <1>15, <2>1, AccountBounds DEF Account!RevokeSessions, Account!TypeOK, Account!codeVars, Account!adminVars, TokenRow
<1>16. CASE Account!Activate
      BY <1>16, AccountBounds DEF Account!Activate, Account!tokenVars, Account!codeVars, Account!adminVars, Account!TypeOK, Account!Tokens, Account!Codes
<1>17. CASE Account!DeleteAccount
  <2>1. token' \in [Account!Tokens -> TokenRow]
        BY <1>17, TokenTypes DEF Account!DeleteAccount
  <2>2. QED BY <1>17, <2>1 DEF Account!DeleteAccount, Account!TypeOK, Account!codeVars, Account!adminVars, TokenRow
<1>18. CASE Account!Restart
  <2>1. caller' \in [Callers -> CallerRow]
        BY <1>18, TokenTypes DEF Account!Restart
  <2>2. QED BY <1>18, <2>1 DEF Account!Restart, Account!TypeOK, Account!tokenVars, Account!adminVars, CallerRow
<1>19. CASE UNCHANGED accountVars
      BY <1>19, AccountBounds DEF accountVars, Account!tokenVars, Account!codeVars, Account!adminVars, Account!TypeOK, Account!Tokens, Account!Codes
<1>20. QED
      BY <1>1, <1>2, <1>3, <1>4, <1>5, <1>6, <1>7, <1>8, <1>9, <1>10, <1>11, <1>12, <1>13, <1>14, <1>15, <1>16, <1>17, <1>18, <1>19 DEF Account!Next

\* A step numbers at most one new token, the next.
LEMMA OrderKept ==
    ASSUME Account!TypeOK, OrderInv, [Account!Next]_accountVars
    PROVE  OrderInv'
<1>1. ASSUME NEW c \in Callers, Account!SignIn(c)
     PROVE  OrderInv'
      BY <1>1, AccountBounds DEF Account!SignIn, Account!tokenVars, Account!codeVars, Account!adminVars, Account!Does, Account!Idle, Account!MayIssue, Account!TypeOK, Account!Tokens, Account!NoToken, OrderInv, Live
<1>2. ASSUME NEW c \in Callers, Account!CreateWebSession(c)
     PROVE  OrderInv'
      BY <1>2, AccountBounds DEF Account!CreateWebSession, Account!tokenVars, Account!codeVars, Account!adminVars, Account!Does, Account!Idle, Account!MayIssue, Account!TypeOK, Account!Tokens, Account!NoToken, OrderInv, Live
<1>3. ASSUME NEW c \in Callers, Account!Issue(c)
     PROVE  OrderInv'
  <2>1. UNCHANGED <<user, Account!adminVars>> /\ caller' = [caller EXCEPT ![c] = Account!Idle]
        BY <1>3 DEF Account!Issue, Account!End
  <2>2. Issued(c)
        BY <1>3, IssueAdds
  <2>3. \A d \in Callers : caller'[d] = IF d = c THEN Account!Idle ELSE caller[d]
        BY <2>1, TokenNumbers
  <2>4. Account!Idle.epoch = 0 /\ Account!Idle.does = "idle"
        BY DEF Account!Idle
  <2>5. QED BY <2>1, <2>2, <2>3, <2>4, TokenNumbers DEF Issued, Account!adminVars, OrderInv, Live
<1>4. ASSUME NEW c \in Callers, Account!ReadForCode(c)
     PROVE  OrderInv'
      BY <1>4, AccountBounds DEF Account!ReadForCode, Account!tokenVars, Account!codeVars, Account!adminVars, Account!Does, Account!Idle, Account!CodeAccepted, Account!MayIssue, Account!TypeOK, Account!Tokens, Account!NoToken, OrderInv, Live
<1>5. ASSUME NEW c \in Callers, NEW k \in codes, Account!ExchangeWebCode(c, k)
     PROVE  OrderInv'
      BY <1>5, AccountBounds DEF Account!ExchangeWebCode, Account!tokenVars, Account!adminVars, Account!Does, Account!Idle, Account!TakeCode, Account!TypeOK, Account!Tokens, Account!NoToken, OrderInv, Live
<1>6. ASSUME NEW c \in Callers, NEW t \in Account!Tokens, Account!Refresh(c, t)
     PROVE  OrderInv'
      BY <1>6, AccountBounds DEF Account!Refresh, Account!tokenVars, Account!codeVars, Account!adminVars, Account!Does, Account!Idle, Account!MayIssue, Account!TypeOK, Account!Tokens, Account!NoToken, OrderInv, Live
<1>7. ASSUME NEW c \in Callers, NEW t \in Account!Tokens, Account!Logout(c, t)
     PROVE  OrderInv'
      BY <1>7, AccountBounds DEF Account!Logout, Account!tokenVars, Account!codeVars, Account!adminVars, Account!Does, Account!Idle, Account!TypeOK, Account!Tokens, Account!NoToken, OrderInv, Live
<1>8. ASSUME NEW c \in Callers, Account!Rotate(c)
     PROVE  OrderInv'
  <2>1. UNCHANGED <<user, Account!adminVars>> /\ caller' = [caller EXCEPT ![c] = Account!Idle]
        BY <1>8 DEF Account!Rotate, Account!End
  <2>2. Rotated(c)
        BY <1>8, RotateReplaces
  <2>3. \A d \in Callers : caller'[d] = IF d = c THEN Account!Idle ELSE caller[d]
        BY <2>1, TokenNumbers
  <2>4. Account!Idle.epoch = 0 /\ Account!Idle.does = "idle"
        BY DEF Account!Idle
  <2>5. QED BY <2>1, <2>2, <2>3, <2>4, TokenNumbers DEF Rotated, Account!adminVars, OrderInv, Live
<1>9. ASSUME NEW c \in Callers, Account!Revoke(c)
     PROVE  OrderInv'
      BY <1>9, AccountBounds DEF Account!Revoke, Account!codeVars, Account!adminVars, Account!Does, Account!End, Account!Idle, Account!Dead, Account!TypeOK, Account!Tokens, Account!NoToken, OrderInv, Live
<1>10. ASSUME NEW k \in codes, Account!CodeExpires(k)
     PROVE  OrderInv'
      BY <1>10, AccountBounds DEF Account!CodeExpires, Account!tokenVars, Account!adminVars, Account!TypeOK, Account!Tokens, Account!NoToken, OrderInv, Live
<1>11. ASSUME NEW t \in Account!Tokens, Account!Expire(t)
     PROVE  OrderInv'
      BY <1>11, AccountBounds DEF Account!Expire, Account!codeVars, Account!adminVars, Account!Dead, Account!TypeOK, Account!Tokens, Account!NoToken, OrderInv, Live
<1>12. CASE Account!CreateWebCode
      BY <1>12, AccountBounds DEF Account!CreateWebCode, Account!tokenVars, Account!adminVars, Account!TypeOK, Account!Tokens, Account!NoToken, OrderInv, Live
<1>13. CASE Account!LogoutAll
      BY <1>13, AccountBounds DEF Account!LogoutAll, Account!codeVars, Account!adminVars, Account!RevokeAll, Account!Dead, Account!TypeOK, Account!Tokens, Account!NoToken, OrderInv, Live
<1>14. CASE Account!Deactivate
      BY <1>14, AccountBounds DEF Account!Deactivate, Account!tokenVars, Account!codeVars, Account!TypeOK, Account!Tokens, Account!NoToken, OrderInv, Live
<1>15. CASE Account!RevokeSessions
  <2>1. revoking' <= epoch'
        BY <1>15, TokenNumbers DEF Account!RevokeSessions, OrderInv
  <2>2. \A t \in Account!Tokens : /\ Live(t)' => Live(t)
                                  /\ token'[t].state # "none" => token[t].state # "none"
                                  /\ token'[t].session = token[t].session
        BY <1>15 DEF Account!RevokeSessions, Account!RevokeAll, Account!Dead, Account!TypeOK, Live
  <2>3. QED BY <1>15, <2>1, <2>2 DEF Account!RevokeSessions, OrderInv, Live
<1>16. CASE Account!Activate
      BY <1>16, AccountBounds DEF Account!Activate, Account!tokenVars, Account!codeVars, Account!adminVars, Account!TypeOK, Account!Tokens, Account!NoToken, OrderInv, Live
<1>17. CASE Account!DeleteAccount
      BY <1>17, AccountBounds DEF Account!DeleteAccount, Account!codeVars, Account!adminVars, Account!Unmade, Account!TypeOK, Account!Tokens, Account!NoToken, OrderInv, Live
<1>18. CASE Account!Restart
      BY <1>18, AccountBounds DEF Account!Restart, Account!tokenVars, Account!adminVars, Account!Idle, Account!TypeOK, Account!Tokens, Account!NoToken, OrderInv, Live
<1>19. CASE UNCHANGED accountVars
      BY <1>19, AccountBounds DEF accountVars, Account!tokenVars, Account!codeVars, Account!adminVars, Account!TypeOK, Account!Tokens, Account!NoToken, OrderInv, Live
<1>20. QED
      BY <1>1, <1>2, <1>3, <1>4, <1>5, <1>6, <1>7, <1>8, <1>9, <1>10, <1>11, <1>12, <1>13, <1>14, <1>15, <1>16, <1>17, <1>18, <1>19 DEF Account!Next

\* A session's next token is made when its last one dies.
LEMMA OneKept ==
    ASSUME Account!TypeOK, OrderInv, OneLive, [Account!Next]_accountVars
    PROVE  OneLive'
<1>1. ASSUME NEW c \in Callers, Account!SignIn(c)
     PROVE  OneLive'
      BY <1>1, AccountBounds DEF Account!SignIn, Account!tokenVars, Account!codeVars, Account!adminVars, Account!Does, Account!Idle, Account!MayIssue, Account!TypeOK, Account!Tokens, Account!NoToken, OrderInv, OneLive, Live
<1>2. ASSUME NEW c \in Callers, Account!CreateWebSession(c)
     PROVE  OneLive'
      BY <1>2, AccountBounds DEF Account!CreateWebSession, Account!tokenVars, Account!codeVars, Account!adminVars, Account!Does, Account!Idle, Account!MayIssue, Account!TypeOK, Account!Tokens, Account!NoToken, OrderInv, OneLive, Live
<1>3. ASSUME NEW c \in Callers, Account!Issue(c)
     PROVE  OneLive'
  <2>1. UNCHANGED <<user, Account!adminVars>> /\ caller' = [caller EXCEPT ![c] = Account!Idle]
        BY <1>3 DEF Account!Issue, Account!End
  <2>2. Issued(c)
        BY <1>3, IssueAdds
  <2>3. \A d \in Callers : caller'[d] = IF d = c THEN Account!Idle ELSE caller[d]
        BY <2>1, TokenNumbers
  <2>4. Account!Idle.epoch = 0 /\ Account!Idle.does = "idle"
        BY DEF Account!Idle
  <2>5. QED BY <2>1, <2>2, <2>3, <2>4, TokenNumbers DEF Issued, Account!adminVars, OrderInv, OneLive, Live
<1>4. ASSUME NEW c \in Callers, Account!ReadForCode(c)
     PROVE  OneLive'
      BY <1>4, AccountBounds DEF Account!ReadForCode, Account!tokenVars, Account!codeVars, Account!adminVars, Account!Does, Account!Idle, Account!CodeAccepted, Account!MayIssue, Account!TypeOK, Account!Tokens, Account!NoToken, OrderInv, OneLive, Live
<1>5. ASSUME NEW c \in Callers, NEW k \in codes, Account!ExchangeWebCode(c, k)
     PROVE  OneLive'
      BY <1>5, AccountBounds DEF Account!ExchangeWebCode, Account!tokenVars, Account!adminVars, Account!Does, Account!Idle, Account!TakeCode, Account!TypeOK, Account!Tokens, Account!NoToken, OrderInv, OneLive, Live
<1>6. ASSUME NEW c \in Callers, NEW t \in Account!Tokens, Account!Refresh(c, t)
     PROVE  OneLive'
      BY <1>6, AccountBounds DEF Account!Refresh, Account!tokenVars, Account!codeVars, Account!adminVars, Account!Does, Account!Idle, Account!MayIssue, Account!TypeOK, Account!Tokens, Account!NoToken, OrderInv, OneLive, Live
<1>7. ASSUME NEW c \in Callers, NEW t \in Account!Tokens, Account!Logout(c, t)
     PROVE  OneLive'
      BY <1>7, AccountBounds DEF Account!Logout, Account!tokenVars, Account!codeVars, Account!adminVars, Account!Does, Account!Idle, Account!TypeOK, Account!Tokens, Account!NoToken, OrderInv, OneLive, Live
<1>8. ASSUME NEW c \in Callers, Account!Rotate(c)
     PROVE  OneLive'
  <2>1. UNCHANGED <<user, Account!adminVars>> /\ caller' = [caller EXCEPT ![c] = Account!Idle]
        BY <1>8 DEF Account!Rotate, Account!End
  <2>2. Rotated(c)
        BY <1>8, RotateReplaces
  <2>3. \A d \in Callers : caller'[d] = IF d = c THEN Account!Idle ELSE caller[d]
        BY <2>1, TokenNumbers
  <2>4. Account!Idle.epoch = 0 /\ Account!Idle.does = "idle"
        BY DEF Account!Idle
  <2>5. QED BY <2>1, <2>2, <2>3, <2>4, TokenNumbers DEF Rotated, Account!adminVars, OrderInv, OneLive, Live
<1>9. ASSUME NEW c \in Callers, Account!Revoke(c)
     PROVE  OneLive'
      BY <1>9, AccountBounds DEF Account!Revoke, Account!codeVars, Account!adminVars, Account!Does, Account!End, Account!Idle, Account!Dead, Account!TypeOK, Account!Tokens, Account!NoToken, OrderInv, OneLive, Live
<1>10. ASSUME NEW k \in codes, Account!CodeExpires(k)
     PROVE  OneLive'
      BY <1>10, AccountBounds DEF Account!CodeExpires, Account!tokenVars, Account!adminVars, Account!TypeOK, Account!Tokens, Account!NoToken, OrderInv, OneLive, Live
<1>11. ASSUME NEW t \in Account!Tokens, Account!Expire(t)
     PROVE  OneLive'
      BY <1>11, AccountBounds DEF Account!Expire, Account!codeVars, Account!adminVars, Account!Dead, Account!TypeOK, Account!Tokens, Account!NoToken, OrderInv, OneLive, Live
<1>12. CASE Account!CreateWebCode
      BY <1>12, AccountBounds DEF Account!CreateWebCode, Account!tokenVars, Account!adminVars, Account!TypeOK, Account!Tokens, Account!NoToken, OrderInv, OneLive, Live
<1>13. CASE Account!LogoutAll
      BY <1>13, AccountBounds DEF Account!LogoutAll, Account!codeVars, Account!adminVars, Account!RevokeAll, Account!Dead, Account!TypeOK, Account!Tokens, Account!NoToken, OrderInv, OneLive, Live
<1>14. CASE Account!Deactivate
      BY <1>14, AccountBounds DEF Account!Deactivate, Account!tokenVars, Account!codeVars, Account!TypeOK, Account!Tokens, Account!NoToken, OrderInv, OneLive, Live
<1>15. CASE Account!RevokeSessions
      BY <1>15, AccountBounds DEF Account!RevokeSessions, Account!codeVars, Account!RevokeAll, Account!Dead, Account!TypeOK, Account!Tokens, Account!NoToken, OrderInv, OneLive, Live
<1>16. CASE Account!Activate
      BY <1>16, AccountBounds DEF Account!Activate, Account!tokenVars, Account!codeVars, Account!adminVars, Account!TypeOK, Account!Tokens, Account!NoToken, OrderInv, OneLive, Live
<1>17. CASE Account!DeleteAccount
      BY <1>17, AccountBounds DEF Account!DeleteAccount, Account!codeVars, Account!adminVars, Account!Unmade, Account!TypeOK, Account!Tokens, Account!NoToken, OrderInv, OneLive, Live
<1>18. CASE Account!Restart
      BY <1>18, AccountBounds DEF Account!Restart, Account!tokenVars, Account!adminVars, Account!Idle, Account!TypeOK, Account!Tokens, Account!NoToken, OrderInv, OneLive, Live
<1>19. CASE UNCHANGED accountVars
      BY <1>19, AccountBounds DEF accountVars, Account!tokenVars, Account!codeVars, Account!adminVars, Account!TypeOK, Account!Tokens, Account!NoToken, OrderInv, OneLive, Live
<1>20. QED
      BY <1>1, <1>2, <1>3, <1>4, <1>5, <1>6, <1>7, <1>8, <1>9, <1>10, <1>11, <1>12, <1>13, <1>14, <1>15, <1>16, <1>17, <1>18, <1>19 DEF Account!Next

\* A code goes from hand to hand and is used up.
LEMMA CodesKept ==
    ASSUME Account!TypeOK, CodeInv, [Account!Next]_accountVars
    PROVE  CodeInv'
\* The codes stay as they are, and a caller may drop the one it holds.
<1>q. ASSUME UNCHANGED <<codes, codesMade, opened>>,
             \A d \in Callers : caller'[d].code \in {Account!NoToken, caller[d].code}
      PROVE  CodeInv'
  <2>1. UNCHANGED <<codes, codesMade, opened>> /\ \A k \in Account!Codes : k # Account!NoToken
        BY <1>q, AccountBounds DEF Account!Codes, Account!NoToken
  <2>2. \A d \in Callers : caller'[d].code # Account!NoToken => caller'[d].code = caller[d].code
        BY <1>q
  <2>3. \A d \in Callers, k \in Account!Codes : caller[d].code # k => caller'[d].code # k
        BY <2>1, <1>q
  <2>4. QED BY <2>1, <2>2, <2>3 DEF CodeInv
<1>r. /\ caller \in [Callers -> [does : {"idle", "issue", "code", "rotate", "revoke"},
                                token : 0..MaxTokens, code : 0..MaxCodes, epoch : 0..MaxSwitches]]
      /\ Account!Idle.code = Account!NoToken
      BY DEF Account!TypeOK, Account!Idle
<1>1. ASSUME NEW c \in Callers, Account!SignIn(c)
     PROVE  CodeInv'
      BY <1>1, <1>q, <1>r DEF Account!SignIn, Account!codeVars
<1>2. ASSUME NEW c \in Callers, Account!CreateWebSession(c)
     PROVE  CodeInv'
      BY <1>2, <1>q, <1>r DEF Account!CreateWebSession, Account!codeVars
<1>3. ASSUME NEW c \in Callers, Account!Issue(c)
     PROVE  CodeInv'
  <2>1. UNCHANGED <<codes, codesMade>> /\ caller' = [caller EXCEPT ![c] = Account!Idle]
        BY <1>3 DEF Account!Issue, Account!End
  <2>2. \A d \in Callers : caller'[d].code = IF d = c THEN Account!NoToken ELSE caller[d].code
        BY <2>1 DEF Account!TypeOK, Account!Idle
  <2>3. CASE opened' = opened
        BY <2>1, <2>2, <2>3 DEF CodeInv, Account!NoToken, Account!Codes
  <2>4. CASE opened' # opened
    <3> DEFINE k == caller[c].code
    <3>1. k # Account!NoToken /\ opened' = [opened EXCEPT ![k] = opened[k] + 1]
          BY <1>3, <2>4 DEF Account!Issue
    <3>2. k \in Account!Codes /\ opened[k] = 0 /\ k \notin codes /\ ~(k > codesMade)
          BY <3>1, AccountBounds DEF Account!TypeOK, CodeInv, Account!Codes, Account!NoToken
    <3>3. \A j \in Account!Codes : opened'[j] = IF j = k THEN 1 ELSE opened[j]
          BY <3>1, <3>2 DEF Account!TypeOK
    <3>4. \A d \in Callers : caller'[d].code # k
          BY <2>2, <3>1 DEF CodeInv
    <3>5. \A d \in Callers : caller'[d].code # Account!NoToken => caller[d].code = caller'[d].code /\ caller[d].code \in Account!Codes
          BY <2>2, AccountBounds DEF Account!TypeOK, Account!Codes, Account!NoToken
    <3>6. QED BY <2>1, <2>2, <3>2, <3>3, <3>4, <3>5, TokenNumbers DEF CodeInv
  <2>5. QED BY <2>3, <2>4
<1>4. ASSUME NEW c \in Callers, Account!ReadForCode(c)
     PROVE  CodeInv'
      BY <1>4, <1>q, <1>r DEF Account!ReadForCode, Account!codeVars
<1>5. ASSUME NEW c \in Callers, NEW k \in codes, Account!ExchangeWebCode(c, k)
     PROVE  CodeInv'
  <2>1. codes' = codes \ {k} /\ UNCHANGED <<codesMade, opened>>
        BY <1>5 DEF Account!ExchangeWebCode, Account!TakeCode
  <2>2. \A d \in Callers : caller'[d].code = IF d = c THEN k ELSE caller[d].code
        BY <1>5, <1>r DEF Account!ExchangeWebCode, Account!Idle
  <2>3. k \in Account!Codes /\ k <= codesMade /\ k # Account!NoToken /\ opened[k] = 0 /\ \A d \in Callers : caller[d].code # k
        BY AccountBounds DEF Account!TypeOK, Account!Codes, Account!NoToken, CodeInv
  <2>4. \A j \in Account!Codes : j \in codes' \/ j > codesMade' => (j \in codes \/ j > codesMade) /\ j # k
        BY <2>1, <2>3 DEF Account!TypeOK, Account!Codes
  <2>5. QED BY <2>1, <2>2, <2>3, <2>4 DEF CodeInv
<1>6. ASSUME NEW c \in Callers, NEW t \in Account!Tokens, Account!Refresh(c, t)
     PROVE  CodeInv'
      BY <1>6, <1>q, <1>r DEF Account!Refresh, Account!codeVars
<1>7. ASSUME NEW c \in Callers, NEW t \in Account!Tokens, Account!Logout(c, t)
     PROVE  CodeInv'
      BY <1>7, <1>q, <1>r DEF Account!Logout, Account!codeVars
<1>8. ASSUME NEW c \in Callers, Account!Rotate(c)
     PROVE  CodeInv'
      BY <1>8, <1>q, <1>r DEF Account!Rotate, Account!codeVars, Account!End
<1>9. ASSUME NEW c \in Callers, Account!Revoke(c)
     PROVE  CodeInv'
      BY <1>9, <1>q, <1>r DEF Account!Revoke, Account!codeVars, Account!End
<1>10. ASSUME NEW k \in codes, Account!CodeExpires(k)
     PROVE  CodeInv'
      BY <1>10, AccountBounds DEF Account!CodeExpires, Account!tokenVars, Account!adminVars, Account!TypeOK, Account!Codes, Account!NoToken, CodeInv
<1>11. ASSUME NEW t \in Account!Tokens, Account!Expire(t)
     PROVE  CodeInv'
      BY <1>11, AccountBounds DEF Account!Expire, Account!codeVars, Account!adminVars, Account!Dead, Account!TypeOK, Account!Codes, Account!NoToken, CodeInv
<1>12. CASE Account!CreateWebCode
      BY <1>12, AccountBounds DEF Account!CreateWebCode, Account!tokenVars, Account!adminVars, Account!TypeOK, Account!Codes, Account!NoToken, CodeInv
<1>13. CASE Account!LogoutAll
      BY <1>13, AccountBounds DEF Account!LogoutAll, Account!codeVars, Account!adminVars, Account!RevokeAll, Account!Dead, Account!TypeOK, Account!Codes, Account!NoToken, CodeInv
<1>14. CASE Account!Deactivate
      BY <1>14, AccountBounds DEF Account!Deactivate, Account!tokenVars, Account!codeVars, Account!TypeOK, Account!Codes, Account!NoToken, CodeInv
<1>15. CASE Account!RevokeSessions
      BY <1>15, AccountBounds DEF Account!RevokeSessions, Account!codeVars, Account!RevokeAll, Account!Dead, Account!TypeOK, Account!Codes, Account!NoToken, CodeInv
<1>16. CASE Account!Activate
      BY <1>16, AccountBounds DEF Account!Activate, Account!tokenVars, Account!codeVars, Account!adminVars, Account!TypeOK, Account!Codes, Account!NoToken, CodeInv
<1>17. CASE Account!DeleteAccount
      BY <1>17, AccountBounds DEF Account!DeleteAccount, Account!codeVars, Account!adminVars, Account!Unmade, Account!TypeOK, Account!Codes, Account!NoToken, CodeInv
<1>18. CASE Account!Restart
      BY <1>18, AccountBounds DEF Account!Restart, Account!tokenVars, Account!adminVars, Account!Idle, Account!TypeOK, Account!Codes, Account!NoToken, CodeInv
<1>19. CASE UNCHANGED accountVars
      BY <1>19, AccountBounds DEF accountVars, Account!tokenVars, Account!codeVars, Account!adminVars, Account!TypeOK, Account!Codes, Account!NoToken, CodeInv
<1>20. QED
      BY <1>1, <1>2, <1>3, <1>4, <1>5, <1>6, <1>7, <1>8, <1>9, <1>10, <1>11, <1>12, <1>13, <1>14, <1>15, <1>16, <1>17, <1>18, <1>19 DEF Account!Next

\* A call that has read an active account has read it before the next deactivation.
LEMMA EpochsKept ==
    ASSUME Account!TypeOK, OrderInv, EpochInv, [Account!Next]_accountVars
    PROVE  EpochInv'
<1>1. ASSUME NEW c \in Callers, Account!SignIn(c)
     PROVE  EpochInv'
      BY <1>1, AccountBounds DEF Account!SignIn, Account!tokenVars, Account!codeVars, Account!adminVars, Account!Does, Account!Idle, Account!MayIssue, Account!TypeOK, Account!Tokens, OrderInv, EpochInv, Live
<1>2. ASSUME NEW c \in Callers, Account!CreateWebSession(c)
     PROVE  EpochInv'
      BY <1>2, AccountBounds DEF Account!CreateWebSession, Account!tokenVars, Account!codeVars, Account!adminVars, Account!Does, Account!Idle, Account!MayIssue, Account!TypeOK, Account!Tokens, OrderInv, EpochInv, Live
<1>3. ASSUME NEW c \in Callers, Account!Issue(c)
     PROVE  EpochInv'
  <2>1. UNCHANGED <<user, Account!adminVars>> /\ caller' = [caller EXCEPT ![c] = Account!Idle]
        BY <1>3 DEF Account!Issue, Account!End
  <2>2. Issued(c)
        BY <1>3, IssueAdds
  <2>3. \A d \in Callers : caller'[d] = IF d = c THEN Account!Idle ELSE caller[d]
        BY <2>1, TokenNumbers
  <2>4. Account!Idle.epoch = 0 /\ Account!Idle.does = "idle"
        BY DEF Account!Idle
  <2>5. QED BY <2>1, <2>2, <2>3, <2>4, TokenNumbers DEF Issued, Account!adminVars, EpochInv, OrderInv, Live
<1>4. ASSUME NEW c \in Callers, Account!ReadForCode(c)
     PROVE  EpochInv'
      BY <1>4, AccountBounds DEF Account!ReadForCode, Account!tokenVars, Account!codeVars, Account!adminVars, Account!Does, Account!Idle, Account!CodeAccepted, Account!MayIssue, Account!TypeOK, Account!Tokens, OrderInv, EpochInv, Live
<1>5. ASSUME NEW c \in Callers, NEW k \in codes, Account!ExchangeWebCode(c, k)
     PROVE  EpochInv'
      BY <1>5, AccountBounds DEF Account!ExchangeWebCode, Account!tokenVars, Account!adminVars, Account!Does, Account!Idle, Account!TakeCode, Account!TypeOK, Account!Tokens, OrderInv, EpochInv, Live
<1>6. ASSUME NEW c \in Callers, NEW t \in Account!Tokens, Account!Refresh(c, t)
     PROVE  EpochInv'
      BY <1>6, AccountBounds DEF Account!Refresh, Account!tokenVars, Account!codeVars, Account!adminVars, Account!Does, Account!Idle, Account!MayIssue, Account!TypeOK, Account!Tokens, OrderInv, EpochInv, Live
<1>7. ASSUME NEW c \in Callers, NEW t \in Account!Tokens, Account!Logout(c, t)
     PROVE  EpochInv'
      BY <1>7, AccountBounds DEF Account!Logout, Account!tokenVars, Account!codeVars, Account!adminVars, Account!Does, Account!Idle, Account!TypeOK, Account!Tokens, OrderInv, EpochInv, Live
<1>8. ASSUME NEW c \in Callers, Account!Rotate(c)
     PROVE  EpochInv'
  <2>1. UNCHANGED <<user, Account!adminVars>> /\ caller' = [caller EXCEPT ![c] = Account!Idle]
        BY <1>8 DEF Account!Rotate, Account!End
  <2>2. Rotated(c)
        BY <1>8, RotateReplaces
  <2>3. \A d \in Callers : caller'[d] = IF d = c THEN Account!Idle ELSE caller[d]
        BY <2>1, TokenNumbers
  <2>4. Account!Idle.epoch = 0 /\ Account!Idle.does = "idle"
        BY DEF Account!Idle
  <2>5. QED BY <2>1, <2>2, <2>3, <2>4, TokenNumbers DEF Rotated, Account!adminVars, EpochInv, OrderInv, Live
<1>9. ASSUME NEW c \in Callers, Account!Revoke(c)
     PROVE  EpochInv'
      BY <1>9, AccountBounds DEF Account!Revoke, Account!codeVars, Account!adminVars, Account!Does, Account!End, Account!Idle, Account!Dead, Account!TypeOK, Account!Tokens, OrderInv, EpochInv, Live
<1>10. ASSUME NEW k \in codes, Account!CodeExpires(k)
     PROVE  EpochInv'
      BY <1>10, AccountBounds DEF Account!CodeExpires, Account!tokenVars, Account!adminVars, Account!TypeOK, Account!Tokens, OrderInv, EpochInv, Live
<1>11. ASSUME NEW t \in Account!Tokens, Account!Expire(t)
     PROVE  EpochInv'
      BY <1>11, AccountBounds DEF Account!Expire, Account!codeVars, Account!adminVars, Account!Dead, Account!TypeOK, Account!Tokens, OrderInv, EpochInv, Live
<1>12. CASE Account!CreateWebCode
      BY <1>12, AccountBounds DEF Account!CreateWebCode, Account!tokenVars, Account!adminVars, Account!TypeOK, Account!Tokens, OrderInv, EpochInv, Live
<1>13. CASE Account!LogoutAll
      BY <1>13, AccountBounds DEF Account!LogoutAll, Account!codeVars, Account!adminVars, Account!RevokeAll, Account!Dead, Account!TypeOK, Account!Tokens, OrderInv, EpochInv, Live
<1>14. CASE Account!Deactivate
      BY <1>14, AccountBounds DEF Account!Deactivate, Account!tokenVars, Account!codeVars, Account!TypeOK, Account!Tokens, OrderInv, EpochInv, Live
<1>15. CASE Account!RevokeSessions
      BY <1>15, AccountBounds DEF Account!RevokeSessions, Account!codeVars, Account!RevokeAll, Account!Dead, Account!TypeOK, Account!Tokens, OrderInv, EpochInv, Live
<1>16. CASE Account!Activate
      BY <1>16, AccountBounds DEF Account!Activate, Account!tokenVars, Account!codeVars, Account!adminVars, Account!TypeOK, Account!Tokens, OrderInv, EpochInv, Live
<1>17. CASE Account!DeleteAccount
      BY <1>17, AccountBounds DEF Account!DeleteAccount, Account!codeVars, Account!adminVars, Account!Unmade, Account!TypeOK, Account!Tokens, OrderInv, EpochInv, Live
<1>18. CASE Account!Restart
      BY <1>18, AccountBounds DEF Account!Restart, Account!tokenVars, Account!adminVars, Account!Idle, Account!TypeOK, Account!Tokens, OrderInv, EpochInv, Live
<1>19. CASE UNCHANGED accountVars
      BY <1>19, AccountBounds DEF accountVars, Account!tokenVars, Account!codeVars, Account!adminVars, Account!TypeOK, Account!Tokens, OrderInv, EpochInv, Live
<1>20. QED
      BY <1>1, <1>2, <1>3, <1>4, <1>5, <1>6, <1>7, <1>8, <1>9, <1>10, <1>11, <1>12, <1>13, <1>14, <1>15, <1>16, <1>17, <1>18, <1>19 DEF Account!Next

\* What stood at a deactivation is dead when its sessions have been revoked.
LEMMA RevokedKept ==
    ASSUME Account!TypeOK, OrderInv, RevokedInv, [Account!Next]_accountVars
    PROVE  RevokedInv'
<1>1. ASSUME NEW c \in Callers, Account!SignIn(c)
     PROVE  RevokedInv'
      BY <1>1, AccountBounds DEF Account!SignIn, Account!tokenVars, Account!codeVars, Account!adminVars, Account!Does, Account!Idle, Account!MayIssue, Account!TypeOK, Account!Tokens, OrderInv, RevokedInv, Live
<1>2. ASSUME NEW c \in Callers, Account!CreateWebSession(c)
     PROVE  RevokedInv'
      BY <1>2, AccountBounds DEF Account!CreateWebSession, Account!tokenVars, Account!codeVars, Account!adminVars, Account!Does, Account!Idle, Account!MayIssue, Account!TypeOK, Account!Tokens, OrderInv, RevokedInv, Live
<1>3. ASSUME NEW c \in Callers, Account!Issue(c)
     PROVE  RevokedInv'
  <2>1. UNCHANGED <<user, Account!adminVars>> /\ caller' = [caller EXCEPT ![c] = Account!Idle]
        BY <1>3 DEF Account!Issue, Account!End
  <2>2. Issued(c)
        BY <1>3, IssueAdds
  <2>3. \A d \in Callers : caller'[d] = IF d = c THEN Account!Idle ELSE caller[d]
        BY <2>1, TokenNumbers
  <2>4. Account!Idle.epoch = 0 /\ Account!Idle.does = "idle"
        BY DEF Account!Idle
  <2>5. QED BY <2>1, <2>2, <2>3, <2>4, TokenNumbers DEF Issued, Account!adminVars, RevokedInv, OrderInv, Live
<1>4. ASSUME NEW c \in Callers, Account!ReadForCode(c)
     PROVE  RevokedInv'
      BY <1>4, AccountBounds DEF Account!ReadForCode, Account!tokenVars, Account!codeVars, Account!adminVars, Account!Does, Account!Idle, Account!CodeAccepted, Account!MayIssue, Account!TypeOK, Account!Tokens, OrderInv, RevokedInv, Live
<1>5. ASSUME NEW c \in Callers, NEW k \in codes, Account!ExchangeWebCode(c, k)
     PROVE  RevokedInv'
      BY <1>5, AccountBounds DEF Account!ExchangeWebCode, Account!tokenVars, Account!adminVars, Account!Does, Account!Idle, Account!TakeCode, Account!TypeOK, Account!Tokens, OrderInv, RevokedInv, Live
<1>6. ASSUME NEW c \in Callers, NEW t \in Account!Tokens, Account!Refresh(c, t)
     PROVE  RevokedInv'
      BY <1>6, AccountBounds DEF Account!Refresh, Account!tokenVars, Account!codeVars, Account!adminVars, Account!Does, Account!Idle, Account!MayIssue, Account!TypeOK, Account!Tokens, OrderInv, RevokedInv, Live
<1>7. ASSUME NEW c \in Callers, NEW t \in Account!Tokens, Account!Logout(c, t)
     PROVE  RevokedInv'
      BY <1>7, AccountBounds DEF Account!Logout, Account!tokenVars, Account!codeVars, Account!adminVars, Account!Does, Account!Idle, Account!TypeOK, Account!Tokens, OrderInv, RevokedInv, Live
<1>8. ASSUME NEW c \in Callers, Account!Rotate(c)
     PROVE  RevokedInv'
  <2>1. UNCHANGED <<user, Account!adminVars>> /\ caller' = [caller EXCEPT ![c] = Account!Idle]
        BY <1>8 DEF Account!Rotate, Account!End
  <2>2. Rotated(c)
        BY <1>8, RotateReplaces
  <2>3. \A d \in Callers : caller'[d] = IF d = c THEN Account!Idle ELSE caller[d]
        BY <2>1, TokenNumbers
  <2>4. Account!Idle.epoch = 0 /\ Account!Idle.does = "idle"
        BY DEF Account!Idle
  <2>5. QED BY <2>1, <2>2, <2>3, <2>4, TokenNumbers DEF Rotated, Account!adminVars, RevokedInv, OrderInv, Live
<1>9. ASSUME NEW c \in Callers, Account!Revoke(c)
     PROVE  RevokedInv'
      BY <1>9, AccountBounds DEF Account!Revoke, Account!codeVars, Account!adminVars, Account!Does, Account!End, Account!Idle, Account!Dead, Account!TypeOK, Account!Tokens, OrderInv, RevokedInv, Live
<1>10. ASSUME NEW k \in codes, Account!CodeExpires(k)
     PROVE  RevokedInv'
      BY <1>10, AccountBounds DEF Account!CodeExpires, Account!tokenVars, Account!adminVars, Account!TypeOK, Account!Tokens, OrderInv, RevokedInv, Live
<1>11. ASSUME NEW t \in Account!Tokens, Account!Expire(t)
     PROVE  RevokedInv'
      BY <1>11, AccountBounds DEF Account!Expire, Account!codeVars, Account!adminVars, Account!Dead, Account!TypeOK, Account!Tokens, OrderInv, RevokedInv, Live
<1>12. CASE Account!CreateWebCode
      BY <1>12, AccountBounds DEF Account!CreateWebCode, Account!tokenVars, Account!adminVars, Account!TypeOK, Account!Tokens, OrderInv, RevokedInv, Live
<1>13. CASE Account!LogoutAll
      BY <1>13, AccountBounds DEF Account!LogoutAll, Account!codeVars, Account!adminVars, Account!RevokeAll, Account!Dead, Account!TypeOK, Account!Tokens, OrderInv, RevokedInv, Live
<1>14. CASE Account!Deactivate
      BY <1>14, AccountBounds DEF Account!Deactivate, Account!tokenVars, Account!codeVars, Account!TypeOK, Account!Tokens, OrderInv, RevokedInv, Live
<1>15. CASE Account!RevokeSessions
      BY <1>15, AccountBounds DEF Account!RevokeSessions, Account!codeVars, Account!RevokeAll, Account!Dead, Account!TypeOK, Account!Tokens, OrderInv, RevokedInv, Live
<1>16. CASE Account!Activate
      BY <1>16, AccountBounds DEF Account!Activate, Account!tokenVars, Account!codeVars, Account!adminVars, Account!TypeOK, Account!Tokens, OrderInv, RevokedInv, Live
<1>17. CASE Account!DeleteAccount
      BY <1>17, AccountBounds DEF Account!DeleteAccount, Account!codeVars, Account!adminVars, Account!Unmade, Account!TypeOK, Account!Tokens, OrderInv, RevokedInv, Live
<1>18. CASE Account!Restart
      BY <1>18, AccountBounds DEF Account!Restart, Account!tokenVars, Account!adminVars, Account!Idle, Account!TypeOK, Account!Tokens, OrderInv, RevokedInv, Live
<1>19. CASE UNCHANGED accountVars
      BY <1>19, AccountBounds DEF accountVars, Account!tokenVars, Account!codeVars, Account!adminVars, Account!TypeOK, Account!Tokens, OrderInv, RevokedInv, Live
<1>20. QED
      BY <1>1, <1>2, <1>3, <1>4, <1>5, <1>6, <1>7, <1>8, <1>9, <1>10, <1>11, <1>12, <1>13, <1>14, <1>15, <1>16, <1>17, <1>18, <1>19 DEF Account!Next

LEMMA AccountInit == Account!Init => AccountInv
  BY AccountBounds DEF Account!Init, AccountInv, Account!TypeOK, OrderInv, OneLive, CodeInv, EpochInv, RevokedInv, Live, Account!Idle, Account!Unmade, Account!NoToken, Account!Tokens, Account!Codes

LEMMA AccountStep == AccountInv /\ [Account!Next]_accountVars => AccountInv'
  BY TypesKept, OrderKept, OneKept, CodesKept, EpochsKept, RevokedKept DEF AccountInv

LEMMA SessionsHold == AccountInv => Account!SessionsAreSingle /\ Account!InactiveHasNoSession
<1>1. AccountInv => Account!SessionsAreSingle
      BY DEF AccountInv, OneLive, CodeInv, Account!SessionsAreSingle, Account!LiveTokens, Live
<1>2. AccountInv => Account!InactiveHasNoSession
      BY DEF AccountInv, EpochInv, RevokedInv, Account!InactiveHasNoSession, Account!LiveTokens, Live
<1>3. QED BY <1>1, <1>2

-------------------------------------------------------------------------------
\* Pushes.

RunRecord == [push : Push!Senders, mode : {"none", "direct", "due", "recover"},
              at : {"rest", "check", "inbox", "send", "record"}, todo : SUBSET Recipients]
LogRecord == [status : {"NONE", "SCHEDULED", "QUEUED"} \cup Push!Settled, stamp : Nat]

Runs(p) == {w \in Push!Senders : run[w].push = p}
Busy(p) == {w \in Runs(p) : run[w].at \in {"check", "inbox"}}

RunsInv ==
    /\ run \in [Push!Senders -> RunRecord]
    /\ \A w \in Push!Senders : run[w].at = "rest" <=> run[w].push = Scheduler
    /\ \A p \in Pushes : run[p].push \in {p, Scheduler}

\* One dispatch at most writes inbox rows of a push, and none while the row counts as
\* interrupted, be it now or since the sweep has read it; a row that was not taken up has
\* left nothing; a dispatch writes the rows that are missing, and while no fault touches
\* the push some dispatch has it until it is settled, past its inbox once it is sent.
PushOk(p) ==
    /\ \A v, w \in Busy(p) : v = w
    /\ p \in quiet => Busy(p) = {}
    /\ log[p].status = "QUEUED" /\ sweeping = "stuck" /\ <<p, log[p].stamp>> \in found => Busy(p) = {}
    /\ \A n \in Nat : <<p, n>> \in found /\ p \notin gone => n <= log[p].stamp
    /\ log[p].status \in {"NONE", "SCHEDULED"} =>
           Runs(p) = {} /\ p \notin quiet /\ p \notin sent /\ \A u \in Recipients : inbox[p][u] = 0
    /\ p \in gone => log[p].status = "NONE"
    /\ \A u \in Recipients : inbox[p][u] <= 1
    /\ \A w \in Runs(p) : run[w].at = "inbox" => \A u \in run[w].todo : inbox[p][u] = 0
    /\ p \in asInbox \ broken =>
           /\ log[p].status = "QUEUED" => Runs(p) # {}
           /\ p \in sent => \A u \in Recipients : inbox[p][u] = 1
           /\ \A w \in Runs(p), u \in Recipients : inbox[p][u] = 1 \/ (run[w].at = "inbox" /\ u \in run[w].todo)

PushInv == Push!TypeOK /\ RunsInv /\ \A p \in Pushes : PushOk(p)

LEMMA InboxesAreWritten == PushInv => Push!InboxWrittenOnce
<1> SUFFICES ASSUME PushInv, NEW p \in Pushes, NEW u \in Recipients
             PROVE  /\ inbox[p][u] <= 1
                    /\ p \in gone => inbox[p][u] = 0 /\ p \notin sent
                    /\ p \in (sent \cap asInbox) \ broken => inbox[p][u] = 1
    BY DEF Push!InboxWrittenOnce
<1>1. PushOk(p)
      BY DEF PushInv
<1>2. QED BY <1>1 DEF PushOk

LEMMA PushInit == Push!Init => PushInv
<1> SUFFICES ASSUME Push!Init PROVE PushInv
    OBVIOUS
<1> USE PushBounds
<1>1. Push!Resting \in RunRecord /\ Push!Resting.at = "rest" /\ Push!Resting.push = Scheduler
      BY DEF Push!Resting, RunRecord, Push!Senders
<1>2. Push!TypeOK
      BY <1>1 DEF Push!Init, Push!TypeOK, Push!Resting, RunRecord, Push!NoInbox, Push!Senders
<1>3. RunsInv
      BY <1>1 DEF Push!Init, RunsInv, Push!Senders
<1>4. ASSUME NEW p \in Pushes PROVE PushOk(p)
  <2>1. Runs(p) = {} /\ Busy(p) = {}
        BY <1>1 DEF Push!Init, Runs, Busy
  <2>2. QED BY <2>1 DEF Push!Init, PushOk, Push!NoInbox
<1>5. QED BY <1>2, <1>3, <1>4 DEF PushInv

\* A push the step is not about.
LEMMA OtherPush ==
    ASSUME NEW q \in Pushes, PushOk(q), log'[q] = log[q], inbox'[q] = inbox[q], q \in quiet' => q \in quiet,
           q \in sent' <=> q \in sent, asInbox' = asInbox, q \in gone' <=> q \in gone, broken \subseteq broken',
           \A w \in Push!Senders : run'[w].push = q <=> run[w].push = q,
           \A w \in Push!Senders : run[w].push = q => run'[w] = run[w],
           \A n : <<q, n>> \in found' => <<q, n>> \in found,
           sweeping' = "stuck" => sweeping = "stuck" \/ found' = {}
    PROVE  PushOk(q)'
<1>1. Runs(q)' = Runs(q) /\ \A w \in Runs(q) : run'[w] = run[w]
      BY DEF Runs
<1>2. Busy(q)' = Busy(q)
      BY <1>1 DEF Busy
<1>3. QED BY <1>1, <1>2 DEF PushOk

\* A dispatch, what it works on, and its next state.
LEMMA RunOf ==
    ASSUME PushInv, NEW w \in Push!Senders, run[w].at # "rest"
    PROVE  \E p \in Pushes : /\ p = run[w].push /\ w \in Runs(p) /\ run[w] \in RunRecord /\ PushOk(p)
                             /\ log[p].status \notin {"NONE", "SCHEDULED"} /\ log[p] \in LogRecord
<1>1. run[w] \in RunRecord /\ run[w].push \in Pushes
      BY PushBounds DEF PushInv, RunsInv, RunRecord, Push!Senders
<1>2. log[run[w].push] \in LogRecord
      BY <1>1 DEF PushInv, Push!TypeOK, LogRecord
<1>3. QED BY <1>1, <1>2 DEF PushInv, PushOk, Runs

LEMMA RunMoves ==
    ASSUME PushInv, NEW w \in Push!Senders, NEW next \in RunRecord, run' = [run EXCEPT ![w] = next],
           next.at = "rest" <=> next.push = Scheduler, next.push \in {w, Scheduler, run[w].push} \/ w = Scheduler
    PROVE  /\ RunsInv' /\ run'[w] = next /\ \A v \in Push!Senders : v # w => run'[v] = run[v]
<1>1. /\ run' \in [Push!Senders -> RunRecord] /\ run'[w] = next /\ \A v \in Push!Senders : v # w => run'[v] = run[v]
      BY DEF PushInv, RunsInv
<1>2. \A v \in Push!Senders : run'[v].at = "rest" <=> run'[v].push = Scheduler
      BY <1>1 DEF PushInv, RunsInv
<1>3. \A p \in Pushes : run'[p].push \in {p, Scheduler}
      BY <1>1, PushBounds DEF PushInv, RunsInv, Push!Senders
<1>4. QED BY <1>1, <1>2, <1>3 DEF RunsInv

\* The types of what a step writes, put together.
LEMMA PushTypes ==
    ASSUME PushInv, RunsInv', log' \in [Pushes -> LogRecord], asInbox' = asInbox, due' \subseteq Pushes, quiet' \subseteq Pushes,
           old' \subseteq Pushes, inbox' \in [Pushes -> [Recipients -> Nat]], sent' \subseteq Pushes,
           found' \subseteq Pushes \X Nat, sweeping' \in {"no", "due", "stuck"},
           gone' \subseteq Pushes, broken' \subseteq Pushes, trouble' \in 0..MaxTrouble
    PROVE  Push!TypeOK'
<1>1. \A w \in Push!Senders : run'[w] \in RunRecord
      BY DEF RunsInv
<1>2. asInbox' \subseteq Pushes
      BY DEF PushInv, Push!TypeOK
<1>3. \A w \in Push!Senders : /\ run'[w].push \in Pushes \cup {Scheduler} /\ run'[w].todo \subseteq Recipients
                              /\ run'[w].mode \in {"none", "direct", "due", "recover"}
                              /\ run'[w].at \in {"rest", "check", "inbox", "send", "record"}
      BY <1>1 DEF RunRecord, Push!Senders
<1>4. QED BY <1>2, <1>3 DEF Push!TypeOK, LogRecord

LEMMA OldTypes ==
    ASSUME PushInv
    PROVE  /\ log \in [Pushes -> LogRecord] /\ asInbox \subseteq Pushes /\ due \subseteq Pushes /\ quiet \subseteq Pushes
           /\ old \subseteq Pushes /\ inbox \in [Pushes -> [Recipients -> Nat]] /\ sent \subseteq Pushes
           /\ found \subseteq Pushes \X Nat /\ sweeping \in {"no", "due", "stuck"}
           /\ gone \subseteq Pushes /\ broken \subseteq Pushes /\ trouble \in 0..MaxTrouble
           /\ run \in [Push!Senders -> RunRecord]
    BY DEF PushInv, Push!TypeOK, RunsInv, LogRecord

LEMMA WriteTypes ==
    ASSUME PushInv, NEW p \in Pushes, NEW s \in {"NONE", "SCHEDULED", "QUEUED"} \cup Push!Settled, Push!Write(p, s)
    PROVE  /\ log' \in [Pushes -> LogRecord] /\ log'[p].status = s /\ log'[p].stamp = log[p].stamp + 1 /\ log[p].stamp \in Nat
           /\ \A q \in Pushes : q # p => log'[q] = log[q]
           /\ quiet' \subseteq quiet /\ p \notin quiet'
<1>1. log[p] \in LogRecord
      BY OldTypes
<1>2. log[p].stamp \in Nat
      BY <1>1 DEF LogRecord
<1> DEFINE new == [status |-> s, stamp |-> log[p].stamp + 1]
<1>3. new \in LogRecord /\ new.status = s /\ new.stamp = log[p].stamp + 1
      BY <1>2 DEF LogRecord
<1>4. log' = [log EXCEPT ![p] = new]
      BY DEF Push!Write
<1> HIDE DEF new
<1>5. QED BY <1>2, <1>3, <1>4, OldTypes DEF Push!Write

LEMMA CheckKeeps ==
    ASSUME PushInv, NEW w \in Push!Senders, Push!Check(w)
    PROVE  PushInv'
<1>1. PICK p \in Pushes : p = run[w].push /\ w \in Runs(p) /\ run[w] \in RunRecord /\ PushOk(p)
      BY RunOf DEF Push!Check, Push!Dispatching
<1> DEFINE next == [run[w] EXCEPT !.at = "inbox", !.todo = IF Push!AlreadyWritten(p) THEN {} ELSE run[w].todo]
<1>2. /\ UNCHANGED <<log, quiet, asInbox, due, old, inbox, sent, found, sweeping, gone, broken, trouble>>
      /\ run[w].at = "check"
      BY DEF Push!Check, Push!Dispatching, Push!logVars
<1>3. run' = [run EXCEPT ![w] = next]
      BY <1>1, OldTypes DEF Push!Check
<1>4. /\ next \in RunRecord /\ next.at = "inbox" /\ next.push = p
      /\ next.todo = IF Push!AlreadyWritten(p) THEN {} ELSE run[w].todo
      BY <1>1 DEF RunRecord
<1> HIDE DEF next
<1>5. RunsInv' /\ run'[w] = next /\ \A v \in Push!Senders : v # w => run'[v] = run[v]
      BY <1>1, <1>3, <1>4, RunMoves, PushBounds
<1>6. Push!TypeOK'
      BY <1>2, <1>5, PushTypes, OldTypes
<1>7. \A q \in Pushes : q # p => PushOk(q)'
      BY <1>1, <1>2, <1>4, <1>5, OtherPush DEF PushInv
<1>8. PushOk(p)'
  <2>1. Runs(p)' = Runs(p) /\ Busy(p)' = Busy(p) /\ w \in Busy(p)
        BY <1>1, <1>2, <1>4, <1>5 DEF Runs, Busy
  <2>2. \A u \in Recipients : inbox[p][u] \in Nat
        BY OldTypes
  <2>3. \A u \in next.todo : inbox[p][u] = 0
        BY <1>1, <1>4, <2>2 DEF Push!AlreadyWritten, RunRecord
  <2>4. p \in asInbox \ broken => \A u \in Recipients : inbox[p][u] = 1
        BY <1>1, <1>2 DEF PushOk
  <2>5. \A v \in Runs(p) : run'[v].at = "inbox" => \A u \in run'[v].todo : inbox[p][u] = 0
        BY <1>1, <1>5, <2>3 DEF PushOk, Runs
  <2>6. QED BY <1>1, <1>2, <2>1, <2>4, <2>5 DEF PushOk
<1>9. QED BY <1>5, <1>6, <1>7, <1>8 DEF PushInv

LEMMA WriteInboxKeeps ==
    ASSUME PushInv, NEW w \in Push!Senders, NEW u \in Recipients, Push!WriteInbox(w, u)
    PROVE  PushInv'
<1>1. PICK p \in Pushes : p = run[w].push /\ w \in Runs(p) /\ run[w] \in RunRecord /\ PushOk(p)
      BY RunOf DEF Push!WriteInbox, Push!Dispatching
<1> DEFINE next == [run[w] EXCEPT !.todo = run[w].todo \ {u}]
           rows == [inbox[p] EXCEPT ![u] = inbox[p][u] + 1]
<1>2. /\ UNCHANGED <<log, quiet, asInbox, due, old, sent, found, sweeping, gone, broken, trouble>>
      /\ run[w].at = "inbox" /\ u \in run[w].todo
      BY DEF Push!WriteInbox, Push!Dispatching, Push!logVars
<1>3. run' = [run EXCEPT ![w] = next] /\ inbox' = [inbox EXCEPT ![p] = rows]
      BY <1>1, OldTypes DEF Push!WriteInbox
<1>4. next \in RunRecord /\ next.at = "inbox" /\ next.push = p /\ next.todo = run[w].todo \ {u}
      BY <1>1, <1>2 DEF RunRecord
<1>5. inbox[p] \in [Recipients -> Nat]
      BY OldTypes
<1>6. inbox[p][u] = 0
      BY <1>1, <1>2 DEF PushOk
<1>7. rows \in [Recipients -> Nat] /\ rows[u] = 1 /\ \A x \in Recipients : x # u => rows[x] = inbox[p][x]
      BY <1>5, <1>6
<1> HIDE DEF next, rows
<1>8. RunsInv' /\ run'[w] = next /\ \A v \in Push!Senders : v # w => run'[v] = run[v]
      BY <1>1, <1>3, <1>4, RunMoves, PushBounds
<1>9. inbox' \in [Pushes -> [Recipients -> Nat]] /\ inbox'[p] = rows /\ \A q \in Pushes : q # p => inbox'[q] = inbox[q]
      BY <1>3, <1>7, OldTypes
<1>10. Push!TypeOK'
      BY <1>2, <1>8, <1>9, PushTypes, OldTypes
<1>11. \A q \in Pushes : q # p => PushOk(q)'
      BY <1>1, <1>2, <1>4, <1>8, <1>9, OtherPush DEF PushInv
<1>12. PushOk(p)'
  <2>1. Runs(p)' = Runs(p) /\ Busy(p)' = Busy(p) /\ w \in Busy(p)
        BY <1>1, <1>2, <1>4, <1>8 DEF Runs, Busy
  <2>2. \A v \in Runs(p) : v # w => run'[v] = run[v] /\ run[v].at # "inbox"
        BY <1>1, <1>8, <2>1 DEF PushOk, Runs, Busy
  <2>3. \A v \in Runs(p) : run'[v].at = "inbox" => \A x \in run'[v].todo : inbox'[p][x] = 0
        BY <1>1, <1>2, <1>4, <1>7, <1>8, <1>9, <2>2 DEF PushOk, RunRecord
  <2>4. \A x \in Recipients : inbox'[p][x] <= 1
        BY <1>1, <1>7, <1>9 DEF PushOk
  <2>5. p \in asInbox \ broken => (p \in sent => \A x \in Recipients : inbox'[p][x] = 1)
        BY <1>1, <1>7, <1>9 DEF PushOk
  <2>6. p \in asInbox \ broken => \A v \in Runs(p), x \in Recipients : inbox'[p][x] = 1 \/ (run'[v].at = "inbox" /\ x \in run'[v].todo)
        BY <1>1, <1>2, <1>4, <1>7, <1>8, <1>9, <2>2 DEF PushOk
  <2>7. log[p].status \notin {"NONE", "SCHEDULED"}
        BY <1>1 DEF PushOk
  <2>8. QED BY <1>1, <1>2, <2>1, <2>3, <2>4, <2>5, <2>6, <2>7 DEF PushOk
<1>13. QED BY <1>8, <1>10, <1>11, <1>12 DEF PushInv

\* A dispatch that has written its inbox rows goes on, or is over.
LEMMA BeyondInbox ==
    ASSUME PushInv, NEW w \in Push!Senders, run[w].at # "rest", NEW next \in RunRecord, run' = [run EXCEPT ![w] = next],
           \/ next.at \in {"send", "record"} /\ next.push = run[w].push /\ (run[w].at = "inbox" => run[w].todo = {}) /\ run[w].at # "check"
              /\ UNCHANGED <<log, broken>>
           \/ next = Push!Resting /\ (run[w].push \in broken' \/ log'[run[w].push].status # "QUEUED"),
           log' \in [Pushes -> LogRecord], \A q \in Pushes : q # run[w].push => log'[q] = log[q],
           \/ log'[run[w].push] = log[run[w].push]
           \/ /\ log'[run[w].push].stamp = log[run[w].push].stamp + 1 /\ log'[run[w].push].status \in Push!Settled,
           quiet' \subseteq quiet, sent' = sent \/ (sent' = sent \cup {run[w].push} /\ run[w].at = "send"),
           UNCHANGED <<asInbox, due, old, inbox, found, sweeping, gone>>, broken \subseteq broken',
           broken' \subseteq Pushes, trouble' \in 0..MaxTrouble
    PROVE  PushInv'
<1>1. PICK p \in Pushes : /\ p = run[w].push /\ w \in Runs(p) /\ run[w] \in RunRecord /\ PushOk(p)
                          /\ log[p].status \notin {"NONE", "SCHEDULED"} /\ log[p] \in LogRecord
      BY RunOf
<1>2. Push!Resting.at = "rest" /\ Push!Resting.push = Scheduler
      BY DEF Push!Resting
<1>3. (next.at = "rest" <=> next.push = Scheduler) /\ next.push \in {Scheduler, p}
      BY <1>1, <1>2, PushBounds
<1>4. RunsInv' /\ run'[w] = next /\ \A v \in Push!Senders : v # w => run'[v] = run[v]
      BY <1>1, <1>3, RunMoves
<1>5. Push!TypeOK'
      BY <1>1, <1>4, PushTypes, OldTypes
<1>6. \A q \in Pushes : q # p => (q \in sent' <=> q \in sent)
      BY <1>1
<1>7. \A q \in Pushes : q # p => PushOk(q)'
      BY <1>1, <1>3, <1>4, <1>6, OtherPush, PushBounds DEF PushInv
<1>8. PushOk(p)'
  <2>1. Runs(p)' \subseteq Runs(p) /\ Busy(p)' \subseteq Busy(p) /\ w \notin Busy(p)'
        BY <1>1, <1>2, <1>4, PushBounds DEF Runs, Busy
  <2>2. \A v \in Runs(p)' : v # w => run'[v] = run[v]
        BY <1>4, <2>1 DEF Runs
  <2>3. log'[p].status \notin {"NONE", "SCHEDULED"}
        BY <1>1 DEF Push!Settled
  <2>4. \A n \in Nat : <<p, n>> \in found /\ p \notin gone => n <= log'[p].stamp
        BY <1>1 DEF PushOk, LogRecord
  <2>5. log'[p].status = "QUEUED" => log'[p] = log[p]
        BY <1>1 DEF Push!Settled
  <2>6. p \in asInbox \ broken' =>
             /\ log'[p].status = "QUEUED" => Runs(p)' # {}
             /\ p \in sent' => \A u \in Recipients : inbox[p][u] = 1
             /\ \A v \in Runs(p)', u \in Recipients : inbox[p][u] = 1 \/ (run'[v].at = "inbox" /\ u \in run'[v].todo)
    <3>1. ASSUME p \in asInbox \ broken', log'[p].status = "QUEUED" PROVE Runs(p)' # {}
      <4>1. next # Push!Resting /\ next.push = p
            BY <1>1, <1>2, <3>1
      <4>2. w \in Runs(p)'
            BY <1>4, <4>1 DEF Runs
      <4>3. QED BY <4>2
    <3>2. ASSUME p \in asInbox \ broken', run[w].at # "check", run[w].at = "inbox" => run[w].todo = {}
          PROVE \A u \in Recipients : inbox[p][u] = 1
          BY <1>1, <3>2 DEF PushOk
    <3>3. ASSUME p \in asInbox \ broken', p \in sent' PROVE \A u \in Recipients : inbox[p][u] = 1
          BY <1>1, <3>2, <3>3 DEF PushOk
    <3>4. ASSUME p \in asInbox \ broken', NEW v \in Runs(p)', NEW u \in Recipients
          PROVE  inbox[p][u] = 1 \/ (run'[v].at = "inbox" /\ u \in run'[v].todo)
      <4>1. CASE v = w
        <5>1. next # Push!Resting
              BY <1>1, <1>2, <1>4, <3>4, <4>1, PushBounds DEF Runs
        <5>2. QED BY <3>2, <3>4, <5>1
      <4>2. CASE v # w
            BY <1>1, <2>1, <2>2, <3>4, <4>2 DEF PushOk
      <4>3. QED BY <4>1, <4>2
    <3>5. QED BY <3>1, <3>3, <3>4
  <2>7. \A v, x \in Busy(p)' : v = x
        BY <1>1, <2>1 DEF PushOk
  <2>8. p \in quiet' => Busy(p)' = {}
        BY <1>1, <2>1 DEF PushOk
  <2>9. log'[p].status = "QUEUED" /\ sweeping = "stuck" /\ <<p, log'[p].stamp>> \in found => Busy(p)' = {}
        BY <1>1, <2>1, <2>5 DEF PushOk
  <2>10. \A v \in Runs(p)' : run'[v].at = "inbox" => \A u \in run'[v].todo : inbox[p][u] = 0
    <3>1. ASSUME NEW v \in Runs(p)', run'[v].at = "inbox" PROVE v # w /\ v \in Runs(p)
          BY <1>2, <1>4, <2>1, <3>1
    <3>2. QED BY <1>1, <2>2, <3>1 DEF PushOk
  <2>11. /\ p \in gone => log'[p].status = "NONE"
         /\ \A u \in Recipients : inbox[p][u] <= 1
        BY <1>1 DEF PushOk
  <2>12. QED BY <2>3, <2>4, <2>6, <2>7, <2>8, <2>9, <2>10, <2>11 DEF PushOk
<1>9. QED BY <1>4, <1>5, <1>7, <1>8 DEF PushInv

LEMMA DispatchSteps ==
    ASSUME PushInv, NEW w \in Push!Senders, Push!BeginSend(w) \/ Push!EndSend(w) \/ Push!Record(w) \/ Push!RecordFails(w) \/ Push!DispatchFails(w)
    PROVE  PushInv'
<1>1. PICK p \in Pushes : /\ p = run[w].push /\ run[w] \in RunRecord /\ run[w].at # "rest"
                          /\ log[p].status \notin {"NONE", "SCHEDULED"} /\ log[p] \in LogRecord
      BY RunOf DEF Push!BeginSend, Push!EndSend, Push!Record, Push!RecordFails, Push!DispatchFails, Push!Dispatching
<1>2. Push!Resting \in RunRecord /\ Push!Resting.at = "rest"
      BY DEF Push!Resting, RunRecord, Push!Senders
<1>3. CASE Push!BeginSend(w)
  <2> DEFINE next == [run[w] EXCEPT !.at = "send"]
  <2>1. next \in RunRecord /\ next.at = "send" /\ next.push = p
        BY <1>1 DEF RunRecord
  <2>2. run' = [run EXCEPT ![w] = next] /\ run[w].at = "inbox" /\ run[w].todo = {}
        BY <1>3, OldTypes DEF Push!BeginSend, Push!Go, Push!Dispatching
  <2>3. UNCHANGED <<log, quiet, asInbox, due, old, inbox, sent, found, sweeping, gone, broken, trouble>>
        BY <1>3 DEF Push!BeginSend, Push!logVars
  <2> HIDE DEF next
  <2>4. QED BY <1>1, <2>1, <2>2, <2>3, BeyondInbox, OldTypes
<1>4. CASE Push!EndSend(w)
  <2> DEFINE next == [run[w] EXCEPT !.at = "record"]
  <2>1. next \in RunRecord /\ next.at = "record" /\ next.push = p
        BY <1>1 DEF RunRecord
  <2>2. run' = [run EXCEPT ![w] = next] /\ run[w].at = "send" /\ sent' = sent \cup {p}
        BY <1>1, <1>4, OldTypes DEF Push!EndSend, Push!Go, Push!Dispatching
  <2>3. UNCHANGED <<log, quiet, asInbox, due, old, inbox, found, sweeping, gone, broken, trouble>>
        BY <1>4 DEF Push!EndSend, Push!logVars
  <2> HIDE DEF next
  <2>4. QED BY <1>1, <2>1, <2>2, <2>3, BeyondInbox, OldTypes
<1>5. CASE Push!Record(w)
  <2>1. PICK s \in Push!Settled : Push!Write(p, s)
        BY <1>1, <1>5 DEF Push!Record
  <2>2. s \in {"NONE", "SCHEDULED", "QUEUED"} \cup Push!Settled /\ s # "QUEUED"
        BY DEF Push!Settled
  <2>3. /\ log' \in [Pushes -> LogRecord] /\ log'[p].status = s /\ log'[p].stamp = log[p].stamp + 1
        /\ \A q \in Pushes : q # p => log'[q] = log[q]
        /\ quiet' \subseteq quiet
        BY <2>1, <2>2, WriteTypes
  <2>4. run' = [run EXCEPT ![w] = Push!Resting] /\ UNCHANGED <<asInbox, due, old, inbox, sent, found, sweeping, gone, broken, trouble>>
        BY <1>5 DEF Push!Record, Push!Stop
  <2>5. QED BY <1>1, <1>2, <2>2, <2>3, <2>4, BeyondInbox, OldTypes
<1>6. CASE Push!RecordFails(w)
  <2>1. /\ run' = [run EXCEPT ![w] = Push!Resting] /\ broken' = broken \cup {p} /\ trouble' \in 0..MaxTrouble
        /\ UNCHANGED <<log, quiet, asInbox, due, old, inbox, sent, found, sweeping, gone>>
        BY <1>1, <1>6, PushBounds, OldTypes DEF Push!RecordFails, Push!Stop, Push!Trouble, Push!logVars
  <2>2. QED BY <1>1, <1>2, <2>1, BeyondInbox, OldTypes
<1>7. CASE Push!DispatchFails(w)
  <2>1. /\ run' = [run EXCEPT ![w] = Push!Resting] /\ broken' = broken \cup {p} /\ trouble' \in 0..MaxTrouble
        /\ UNCHANGED <<asInbox, due, old, inbox, sent, found, sweeping, gone>>
        /\ UNCHANGED <<log, quiet>> \/ Push!Write(p, "FAILED")
        BY <1>1, <1>7, PushBounds, OldTypes DEF Push!DispatchFails, Push!Stop, Push!Trouble, Push!logVars
  <2>2. CASE UNCHANGED <<log, quiet>>
        BY <1>1, <1>2, <2>1, <2>2, BeyondInbox, OldTypes
  <2>3. CASE Push!Write(p, "FAILED")
    <3>1. /\ log' \in [Pushes -> LogRecord] /\ log'[p].status = "FAILED" /\ log'[p].stamp = log[p].stamp + 1
          /\ \A q \in Pushes : q # p => log'[q] = log[q]
          /\ quiet' \subseteq quiet
          BY <2>3, WriteTypes DEF Push!Settled
    <3>2. "FAILED" \in Push!Settled /\ "FAILED" # "QUEUED"
          BY DEF Push!Settled
    <3>3. QED BY <1>1, <1>2, <2>1, <3>1, <3>2, BeyondInbox, OldTypes
  <2>4. QED BY <2>1, <2>2, <2>3
<1>8. QED BY <1>3, <1>4, <1>5, <1>6, <1>7

LEMMA ProgressKeeps ==
    ASSUME PushInv, NEW w \in Push!Senders, Push!Progress(w)
    PROVE  PushInv'
<1>1. PICK p \in Pushes : /\ p = run[w].push /\ PushOk(p)
                          /\ log[p].status \notin {"NONE", "SCHEDULED"} /\ log[p] \in LogRecord
      BY RunOf DEF Push!Progress, Push!Dispatching
<1>2. log[p].status \in {"NONE", "SCHEDULED", "QUEUED"} \cup Push!Settled
      BY <1>1 DEF LogRecord
<1>3. /\ log' \in [Pushes -> LogRecord] /\ log'[p].status = log[p].status /\ log'[p].stamp = log[p].stamp + 1 /\ log[p].stamp \in Nat
      /\ \A q \in Pushes : q # p => log'[q] = log[q]
      /\ quiet' \subseteq quiet /\ p \in quiet
      BY <1>1, <1>2, WriteTypes DEF Push!Progress
<1>4. UNCHANGED <<asInbox, due, old, inbox, sent, run, found, sweeping, gone, broken, trouble>>
      BY DEF Push!Progress
<1>5. RunsInv'
      BY <1>4 DEF PushInv, RunsInv
<1>6. Push!TypeOK'
      BY <1>3, <1>4, <1>5, PushTypes, OldTypes
<1>7. \A q \in Pushes : q # p => PushOk(q)'
      BY <1>3, <1>4, OtherPush DEF PushInv
<1>8. PushOk(p)'
  <2>1. Runs(p)' = Runs(p) /\ Busy(p)' = Busy(p) /\ Busy(p) = {}
        BY <1>1, <1>3, <1>4 DEF Runs, Busy, PushOk
  <2>2. \A n \in Nat : <<p, n>> \in found /\ p \notin gone => n <= log'[p].stamp
        BY <1>1, <1>3 DEF PushOk
  <2>3. QED BY <1>1, <1>3, <1>4, <2>1, <2>2 DEF PushOk
<1>9. QED BY <1>5, <1>6, <1>7, <1>8 DEF PushInv

\* A dispatch begins of a push that has none writing its inbox rows.
LEMMA StartKeeps ==
    ASSUME PushInv, NEW p \in Pushes, NEW w \in {p, Scheduler}, NEW m \in {"direct", "due", "recover"},
           run[w].push # p => run[w] = Push!Resting \/ w = p,
           Push!Write(p, "QUEUED"), Push!Start(w, p, m), p \notin gone, Busy(p) = {},
           \/ log[p].status \in {"NONE", "SCHEDULED"} /\ m # "recover"
           \/ log[p].status = "QUEUED" /\ m = "recover" /\ run[w] = Push!Resting,
           found' \subseteq found, UNCHANGED <<asInbox, due, old, inbox, sent, sweeping, gone, broken, trouble>>
    PROVE  PushInv'
<1> DEFINE next == [push |-> p, mode |-> m, at |-> IF m = "recover" THEN "check" ELSE "inbox",
                    todo |-> IF p \in asInbox THEN Recipients ELSE {}]
<1>1. /\ next \in RunRecord /\ next.push = p /\ next.at = (IF m = "recover" THEN "check" ELSE "inbox")
      /\ next.todo = (IF p \in asInbox THEN Recipients ELSE {})
      BY DEF RunRecord, Push!Senders
<1>2. run' = [run EXCEPT ![w] = next] /\ w \in Push!Senders
      BY DEF Push!Start, Push!Senders
<1> HIDE DEF next
<1>3. next.at # "rest" /\ next.push # Scheduler /\ next.at \in {"check", "inbox"}
      BY <1>1, PushBounds
<1>4. RunsInv' /\ run'[w] = next /\ \A v \in Push!Senders : v # w => run'[v] = run[v]
      BY <1>1, <1>2, <1>3, RunMoves
<1>5. /\ log' \in [Pushes -> LogRecord] /\ log'[p].status = "QUEUED" /\ log'[p].stamp = log[p].stamp + 1 /\ log[p].stamp \in Nat
      /\ \A q \in Pushes : q # p => log'[q] = log[q]
      /\ quiet' \subseteq quiet /\ p \notin quiet'
      BY WriteTypes
<1>6. Push!TypeOK'
      BY <1>4, <1>5, PushTypes, OldTypes
<1>7. \A q \in Pushes : q # p => run[w].push # q
      BY PushBounds DEF PushInv, RunsInv, Push!Resting
<1>8. \A q \in Pushes : q # p => PushOk(q)'
      BY <1>1, <1>4, <1>5, <1>7, OtherPush DEF PushInv
<1>9. PushOk(p)'
  <2>1. PushOk(p)
        BY DEF PushInv
  <2>2. Runs(p)' = Runs(p) \cup {w} /\ Busy(p)' = {w}
        BY <1>1, <1>2, <1>3, <1>4 DEF Runs, Busy
  <2>3. \A n \in Nat : <<p, n>> \in found' => n <= log[p].stamp
        BY <2>1 DEF PushOk
  <2>4. <<p, log'[p].stamp>> \notin found'
        BY <1>5, <2>3
  <2>5. \A n \in Nat : <<p, n>> \in found' /\ p \notin gone => n <= log'[p].stamp
        BY <1>5, <2>3
  <2>6. \A v \in Runs(p)' : v # w => v \in Runs(p) /\ run'[v] = run[v] /\ run[v].at \notin {"check", "inbox"}
        BY <1>4, <2>2 DEF Runs, Busy
  <2>7. \A v \in Runs(p)' : run'[v].at = "inbox" => v = w /\ m # "recover"
        BY <1>1, <1>4, <2>6
  <2>8. m # "recover" => \A u \in Recipients : inbox[p][u] = 0
        BY <2>1 DEF PushOk
  <2>9. \A v \in Runs(p)' : run'[v].at = "inbox" => \A u \in run'[v].todo : inbox[p][u] = 0
        BY <1>1, <1>4, <2>7, <2>8
  <2>10. p \in asInbox \ broken =>
            /\ p \in sent => \A u \in Recipients : inbox[p][u] = 1
            /\ \A v \in Runs(p)', u \in Recipients : inbox[p][u] = 1 \/ (run'[v].at = "inbox" /\ u \in run'[v].todo)
    <3>1. ASSUME p \in asInbox \ broken, m = "recover" PROVE \A u \in Recipients : inbox[p][u] = 1
      <4>1. Runs(p) # {}
            BY <2>1, <3>1 DEF PushOk
      <4>2. \A v \in Runs(p) : run[v].at # "inbox"
            BY DEF Busy
      <4>3. QED BY <2>1, <3>1, <4>1, <4>2 DEF PushOk
    <3>2. ASSUME p \in asInbox \ broken, m # "recover" PROVE p \notin sent /\ Runs(p) = {}
          BY <2>1, <3>2 DEF PushOk
    <3>3. QED BY <1>1, <1>4, <2>2, <3>1, <3>2
  <2>11. Runs(p)' # {}
        BY <2>2
  <2>12. /\ \A u \in Recipients : inbox[p][u] <= 1
        BY <2>1 DEF PushOk
  <2>13. QED BY <1>5, <2>2, <2>4, <2>5, <2>9, <2>10, <2>11, <2>12 DEF PushOk
<1>10. QED BY <1>4, <1>6, <1>8, <1>9 DEF PushInv

\* A step that moves no dispatch and at most one row.
LEMMA OneRow ==
    ASSUME PushInv, NEW p \in Pushes, UNCHANGED <<run, asInbox, inbox, sent, broken, trouble>>,
           log' \in [Pushes -> LogRecord], \A q \in Pushes : q # p => log'[q] = log[q],
           quiet' \subseteq Pushes, \A q \in Pushes : q # p => (q \in quiet' => q \in quiet),
           gone' \subseteq Pushes, \A q \in Pushes : q # p => (q \in gone' <=> q \in gone),
           due' \subseteq Pushes, old' \subseteq Pushes, found' \subseteq found, sweeping' = sweeping,
           PushOk(p)'
    PROVE  PushInv'
<1>1. RunsInv'
      BY DEF PushInv, RunsInv
<1>2. Push!TypeOK'
      BY <1>1, PushTypes, OldTypes
<1>3. \A q \in Pushes : q # p => PushOk(q)'
      BY OtherPush DEF PushInv
<1>4. QED BY <1>1, <1>2, <1>3 DEF PushInv

LEMMA SameRuns ==
    ASSUME NEW p \in Pushes, UNCHANGED run
    PROVE  Runs(p)' = Runs(p) /\ Busy(p)' = Busy(p)
    BY DEF Runs, Busy

\* Every row is as it was; the sweep, the clock or nothing has moved.
LEMMA NoRow ==
    ASSUME PushInv, UNCHANGED <<run, log, asInbox, inbox, sent, gone, broken, trouble>>,
           quiet' \subseteq Pushes, due' \subseteq Pushes, old' \subseteq Pushes,
           found' \subseteq Pushes \X Nat, sweeping' \in {"no", "due", "stuck"},
           \A p \in Pushes : p \in quiet' => Busy(p) = {} /\ (log[p].status = "QUEUED" \/ p \in quiet),
           \A p \in Pushes, n \in Nat : <<p, n>> \in found' => <<p, n>> \in found \/ n = log[p].stamp,
           \A p \in Pushes : log[p].status = "QUEUED" /\ sweeping' = "stuck" /\ <<p, log[p].stamp>> \in found' => Busy(p) = {}
    PROVE  PushInv'
<1>1. RunsInv'
      BY DEF PushInv, RunsInv
<1>2. Push!TypeOK'
      BY <1>1, PushTypes, OldTypes
<1>3. ASSUME NEW p \in Pushes PROVE PushOk(p)'
  <2>1. PushOk(p) /\ Runs(p)' = Runs(p) /\ Busy(p)' = Busy(p)
        BY SameRuns DEF PushInv
  <2>2. log[p].stamp \in Nat
        BY OldTypes DEF LogRecord
  <2>3. \A n \in Nat : <<p, n>> \in found' /\ p \notin gone => n <= log[p].stamp
        BY <2>1, <2>2 DEF PushOk
  <2>4. QED BY <2>1, <2>3 DEF PushOk
<1>4. QED BY <1>1, <1>2, <1>3 DEF PushInv

LEMMA SendNowKeeps ==
    ASSUME PushInv, NEW p \in Pushes, Push!SendNow(p)
    PROVE  PushInv'
<1>1. PushOk(p) /\ log[p].status = "NONE" /\ p \notin gone /\ Push!Write(p, "QUEUED") /\ Push!Start(p, p, "direct")
      BY DEF Push!SendNow, PushInv
<1>2. Busy(p) = {}
      BY <1>1 DEF PushOk, Busy
<1>3. UNCHANGED <<asInbox, due, old, inbox, sent, found, sweeping, gone, broken, trouble>>
      BY DEF Push!SendNow
<1>4. QED BY <1>1, <1>2, <1>3, StartKeeps

LEMMA ScheduleKeeps ==
    ASSUME PushInv, NEW p \in Pushes, Push!Schedule(p)
    PROVE  PushInv'
<1>1. PushOk(p) /\ log[p].status = "NONE" /\ p \notin gone /\ Push!Write(p, "SCHEDULED")
      BY DEF Push!Schedule, PushInv
<1>2. /\ log' \in [Pushes -> LogRecord] /\ log'[p].status = "SCHEDULED" /\ log'[p].stamp = log[p].stamp + 1 /\ log[p].stamp \in Nat
      /\ \A q \in Pushes : q # p => log'[q] = log[q]
      /\ quiet' \subseteq quiet /\ p \notin quiet'
      BY <1>1, WriteTypes
<1>3. UNCHANGED <<asInbox, due, old, inbox, sent, run, found, sweeping, gone, broken, trouble>>
      BY DEF Push!Schedule
<1>4. PushOk(p)'
  <2>1. Runs(p)' = Runs(p) /\ Busy(p)' = Busy(p)
        BY <1>3, SameRuns
  <2>2. \A n \in Nat : <<p, n>> \in found' /\ p \notin gone' => n <= log'[p].stamp
        BY <1>1, <1>2, <1>3 DEF PushOk
  <2>3. QED BY <1>1, <1>2, <1>3, <2>1, <2>2 DEF PushOk
<1>5. QED BY <1>2, <1>3, <1>4, OneRow, OldTypes

LEMMA CancelKeeps ==
    ASSUME PushInv, NEW p \in Pushes, Push!CancelScheduled(p)
    PROVE  PushInv'
<1>1. PushOk(p) /\ log[p].status = "SCHEDULED"
      BY DEF Push!CancelScheduled, Push!Cancellable, PushInv
<1> DEFINE new == [status |-> "NONE", stamp |-> 0]
<1>2. new \in LogRecord /\ new.status = "NONE"
      BY DEF LogRecord
<1>3. log' = [log EXCEPT ![p] = new] /\ gone' = gone \cup {p}
      BY DEF Push!CancelScheduled
<1> HIDE DEF new
<1>4. log' \in [Pushes -> LogRecord] /\ log'[p] = new /\ \A q \in Pushes : q # p => log'[q] = log[q]
      BY <1>2, <1>3, OldTypes
<1>5. UNCHANGED <<quiet, asInbox, due, old, inbox, sent, run, found, sweeping, broken, trouble>>
      BY DEF Push!CancelScheduled
<1>6. PushOk(p)'
  <2>1. Runs(p)' = Runs(p) /\ Busy(p)' = Busy(p)
        BY <1>5, SameRuns
  <2>2. QED BY <1>1, <1>2, <1>3, <1>4, <1>5, <2>1 DEF PushOk
<1>7. QED BY <1>3, <1>4, <1>5, <1>6, OneRow, OldTypes

\* A row the sweep has read is looked at, and no dispatch begins.
LEMMA LookedAt ==
    ASSUME PushInv, NEW f \in found, found' = found \ {f},
           UNCHANGED <<log, quiet, run, asInbox, due, old, inbox, sent, sweeping, gone, broken, trouble>>
    PROVE  PushInv'
<1>1. \A p \in Pushes : PushOk(p)
      BY DEF PushInv
<1>2. QED BY <1>1, NoRow, OldTypes DEF PushOk

LEMMA ClaimDueKeeps ==
    ASSUME PushInv, NEW f \in found, Push!ClaimDue(f)
    PROVE  PushInv'
<1>1. PICK p \in Pushes, n \in Nat : f = <<p, n>>
      BY OldTypes
<1>2. /\ f[1] = p /\ found' = found \ {f} /\ run[Scheduler] = Push!Resting
      /\ UNCHANGED <<asInbox, due, old, inbox, sent, sweeping, gone, broken, trouble>>
      BY <1>1 DEF Push!ClaimDue
<1>3. CASE log[p].status = "SCHEDULED"
  <2>1. PushOk(p) /\ Push!Write(p, "QUEUED") /\ Push!Start(Scheduler, p, "due")
        BY <1>2, <1>3 DEF Push!ClaimDue, PushInv
  <2>2. Busy(p) = {} /\ p \notin gone
        BY <1>3, <2>1 DEF PushOk, Busy
  <2>3. QED BY <1>2, <1>3, <2>1, <2>2, StartKeeps
<1>4. CASE log[p].status # "SCHEDULED"
  <2>1. UNCHANGED <<log, quiet, run>>
        BY <1>2, <1>4 DEF Push!ClaimDue, Push!logVars
  <2>2. QED BY <1>2, <2>1, LookedAt
<1>5. QED BY <1>3, <1>4

LEMMA ClaimStuckKeeps ==
    ASSUME PushInv, NEW f \in found, Push!ClaimStuck(f)
    PROVE  PushInv'
<1>1. PICK p \in Pushes, n \in Nat : f = <<p, n>>
      BY OldTypes
<1>2. /\ f[1] = p /\ f[2] = n /\ found' = found \ {f} /\ run[Scheduler] = Push!Resting /\ sweeping = "stuck"
      /\ UNCHANGED <<asInbox, due, old, inbox, sent, sweeping, gone, broken, trouble>>
      /\ PushOk(p)
      BY <1>1 DEF Push!ClaimStuck, PushInv
<1>3. CASE log[p].status = "QUEUED" /\ log[p].stamp = n /\ p \in old
  <2>1. Push!Write(p, "FAILED") /\ UNCHANGED run
        BY <1>2, <1>3 DEF Push!ClaimStuck
  <2>2. /\ log' \in [Pushes -> LogRecord] /\ log'[p].status = "FAILED" /\ log'[p].stamp = log[p].stamp + 1 /\ log[p].stamp \in Nat
        /\ \A q \in Pushes : q # p => log'[q] = log[q]
        /\ quiet' \subseteq quiet /\ p \notin quiet'
        BY <2>1, WriteTypes DEF Push!Settled
  <2>3. PushOk(p)'
    <3>1. Runs(p)' = Runs(p) /\ Busy(p)' = Busy(p)
          BY <2>1, SameRuns
    <3>2. \A k \in Nat : <<p, k>> \in found' /\ p \notin gone' => k <= log'[p].stamp
          BY <1>2, <2>2 DEF PushOk
    <3>3. p \notin gone
          BY <1>2, <1>3 DEF PushOk
    <3>4. QED BY <1>2, <1>3, <2>1, <2>2, <3>1, <3>2, <3>3 DEF PushOk
  <2>4. QED BY <1>2, <2>1, <2>2, <2>3, OneRow, OldTypes
<1>4. CASE log[p].status = "QUEUED" /\ log[p].stamp = n /\ p \notin old
  <2>1. Push!Write(p, "QUEUED") /\ Push!Start(Scheduler, p, "recover")
        BY <1>2, <1>4 DEF Push!ClaimStuck
  <2>2. Busy(p) = {} /\ p \notin gone
        BY <1>1, <1>2, <1>4 DEF PushOk
  <2>3. QED BY <1>2, <1>4, <2>1, <2>2, StartKeeps
<1>5. CASE ~(log[p].status = "QUEUED" /\ log[p].stamp = n)
  <2>1. UNCHANGED <<log, quiet, run>>
        BY <1>2, <1>5 DEF Push!ClaimStuck, Push!logVars
  <2>2. QED BY <1>2, <2>1, LookedAt
<1>6. QED BY <1>3, <1>4, <1>5

LEMMA SweepKeeps ==
    ASSUME PushInv, Push!Sweep
    PROVE  PushInv'
<1>1. \A p \in Pushes : PushOk(p) /\ log[p].stamp \in Nat
      BY OldTypes DEF PushInv, LogRecord
<1>2. CASE Push!FindDue
  <2>1. /\ found' = {<<p, log[p].stamp>> : p \in {q \in due : log[q].status = "SCHEDULED"}}
        /\ UNCHANGED <<log, quiet, asInbox, due, old, inbox, sent, run, gone, broken, trouble>> /\ sweeping' = "due"
        BY <1>2 DEF Push!FindDue, Push!logVars
  <2>2. found' \subseteq Pushes \X Nat
        BY <1>1, <2>1, OldTypes
  <2>3. \A p \in Pushes, n \in Nat : <<p, n>> \in found' => n = log[p].stamp
        BY <2>1
  <2>4. QED BY <1>1, <2>1, <2>2, <2>3, NoRow, OldTypes DEF PushOk
<1>3. CASE Push!FindStuck
  <2>1. /\ found' = {<<p, log[p].stamp>> : p \in {q \in Pushes : Push!Interrupted(q)}}
        /\ UNCHANGED <<log, quiet, asInbox, due, old, inbox, sent, run, gone, broken, trouble>> /\ sweeping' = "stuck"
        BY <1>3 DEF Push!FindStuck, Push!logVars
  <2>2. found' \subseteq Pushes \X Nat
        BY <1>1, <2>1
  <2>3. \A p \in Pushes, n \in Nat : <<p, n>> \in found' => n = log[p].stamp /\ p \in quiet
        BY <2>1 DEF Push!Interrupted
  <2>4. QED BY <1>1, <2>1, <2>2, <2>3, NoRow, OldTypes DEF PushOk
<1>4. CASE Push!EndSweep
  <2>1. UNCHANGED <<log, quiet, asInbox, due, old, inbox, sent, run, found, gone, broken, trouble>> /\ sweeping' = "no"
        BY <1>4 DEF Push!EndSweep, Push!logVars
  <2>2. QED BY <1>1, <2>1, NoRow, OldTypes DEF PushOk
<1>5. QED BY <1>2, <1>3, <1>4, ClaimDueKeeps, ClaimStuckKeeps DEF Push!Sweep

LEMMA ClockKeeps ==
    ASSUME PushInv, NEW p \in Pushes, Push!Due(p) \/ Push!Quiet(p) \/ Push!Old(p)
    PROVE  PushInv'
<1>1. \A q \in Pushes : PushOk(q)
      BY DEF PushInv
<1>2. CASE Push!Due(p)
      BY <1>1, <1>2, NoRow, OldTypes DEF PushOk, Push!Due, Push!logVars
<1>3. CASE Push!Quiet(p)
  <2>1. Busy(p) = {} /\ log[p].status = "QUEUED"
        BY <1>3 DEF Push!Quiet, Busy, Runs
  <2>2. quiet' = quiet \cup {p} /\ UNCHANGED <<log, asInbox, due, old, inbox, sent, run, found, sweeping, gone, broken, trouble>>
        BY <1>3 DEF Push!Quiet
  <2>3. QED BY <1>1, <2>1, <2>2, NoRow, OldTypes DEF PushOk
<1>4. CASE Push!Old(p)
      BY <1>1, <1>4, NoRow, OldTypes DEF PushOk, Push!Old, Push!logVars
<1>5. QED BY <1>2, <1>3, <1>4

LEMMA RestartKeeps ==
    ASSUME PushInv, Push!Restart
    PROVE  PushInv'
<1>1. Push!Resting \in RunRecord /\ Push!Resting.at = "rest" /\ Push!Resting.push = Scheduler
      BY DEF Push!Resting, RunRecord, Push!Senders
<1>2. /\ run' = [w \in Push!Senders |-> Push!Resting] /\ found' = {} /\ sweeping' = "no"
      /\ broken' = broken \cup ({run[w].push : w \in Push!Senders} \cap Pushes) /\ trouble' \in 0..MaxTrouble
      /\ UNCHANGED <<log, quiet, asInbox, due, old, inbox, sent, gone>>
      BY OldTypes, PushBounds DEF Push!Restart, Push!Trouble, Push!logVars
<1>3. RunsInv'
      BY <1>1, <1>2, PushBounds DEF RunsInv, Push!Senders
<1>4. broken' \subseteq Pushes
      BY <1>2, OldTypes
<1>5. Push!TypeOK'
      BY <1>2, <1>3, <1>4, PushTypes, OldTypes
<1>6. ASSUME NEW p \in Pushes PROVE PushOk(p)'
  <2>1. PushOk(p)
        BY DEF PushInv
  <2>2. Runs(p)' = {} /\ Busy(p)' = {}
        BY <1>1, <1>2, PushBounds DEF Runs, Busy
  <2>3. p \notin broken' => Runs(p) = {}
        BY <1>2 DEF Runs
  <2>4. QED BY <1>2, <2>1, <2>2, <2>3 DEF PushOk
<1>7. QED BY <1>3, <1>5, <1>6 DEF PushInv

LEMMA PushStep == PushInv /\ [Push!Next]_pushVars => PushInv'
<1> SUFFICES ASSUME PushInv, [Push!Next]_pushVars PROVE PushInv'
    OBVIOUS
<1>1. CASE UNCHANGED pushVars
  <2>1. UNCHANGED <<run, log, quiet, asInbox, due, old, inbox, sent, found, sweeping, gone, broken, trouble>>
        BY <1>1 DEF pushVars, Push!logVars
  <2>2. \A p \in Pushes : PushOk(p)
        BY DEF PushInv
  <2>3. QED BY <2>1, <2>2, NoRow, OldTypes DEF PushOk
<1>2. CASE Push!Next
  <2>1. ASSUME NEW w \in Push!Senders, Push!Dispatch(w) \/ Push!Progress(w) \/ Push!RecordFails(w) \/ Push!DispatchFails(w)
        PROVE  PushInv'
        BY <2>1, CheckKeeps, WriteInboxKeeps, DispatchSteps, ProgressKeeps DEF Push!Dispatch
  <2>2. QED BY <1>2, <2>1, SendNowKeeps, ScheduleKeeps, CancelKeeps, ClockKeeps, SweepKeeps, RestartKeeps DEF Push!Next
<1>3. QED BY <1>1, <1>2

-------------------------------------------------------------------------------
\* Rewards and invitations.

AccountRecord == [exists : BOOLEAN, active : BOOLEAN, by : Members \cup {Reward!NoUser}, marked : BOOLEAN]
SubmissionRecord == [status : {"NONE", "PENDING", "APPROVED", "REJECTED"}, reward : Prizes \cup {0}]
ReviewRecord == [item : Reward!Items \cup {Reward!NoReview.item}, reward : Prizes \cup {0}]
TxnRecord == [kind : {"none", "refer", "delete"}, to : Members \cup {Reward!NoUser}, want : Members \cup {Reward!NoUser}]
LedgerRow == [ref : Reward!Refs, amount : Prizes \cup {0}, balanceAfter : Int]
PayRecord == [ref : Reward!Refs, amount : Prizes \cup {0}]

Explained(u) ==
    /\ \A k \in 1..Len(paid[u]) : paid[u][k].balanceAfter = Reward!Before(u, k) + paid[u][k].amount
    /\ coins[u] = Reward!Before(u, Len(paid[u]) + 1)

\* There is one row for the event; there is none.
One(u, ref) == \E k \in Nat : Reward!Paid(u, ref) = {k}
No(u, ref) == Reward!Paid(u, ref) = {}

\* The rows of a wallet and what they are for; what a reviewer has read of a claim is
\* what it still says; who is gone has nothing.
SubmissionsInv ==
    \A x \in Reward!Items :
        /\ submission[x].status # "NONE" => Reward!Exists(x[2])
        /\ submission[x].status = "APPROVED" => One(x[2], x)
        /\ submission[x].status # "APPROVED" => No(x[2], x)
        /\ x[1] = "claim" => \A k \in Reward!Paid(x[2], x) : paid[x[2]][k].amount = submission[x].reward
ReviewsInv ==
    \A r \in Reviewers : review[r] # Reward!NoReview =>
        /\ review[r].item \in Reward!Items
        /\ Reward!Exists(review[r].item[2]) => submission[review[r].item].status # "NONE"
        /\ review[r].item[1] = "claim" /\ submission[review[r].item].status # "NONE" =>
               review[r].reward = submission[review[r].item].reward
InvitationsInv ==
    /\ \A u \in Members : account[u].marked => One(u, <<"referral-join", u>>)
    /\ \A u \in Members : ~account[u].marked => No(u, <<"referral-join", u>>)
    /\ \A u, v \in Members : Reward!Exists(v) /\ account[v].by = u => One(u, <<"referral", v>>) /\ account[u].by # v
    /\ \A u, v \in Members : Reward!Exists(v) /\ ~account[v].marked => No(u, <<"referral", v>>)
GoneInv ==
    \A u \in Members : /\ ~Reward!Exists(u) => account[u].by = Reward!NoUser /\ ~account[u].marked
                       /\ Explained(u)

MoneyInv == SubmissionsInv /\ ReviewsInv /\ InvitationsInv /\ GoneInv

\* An invitation has locked a part of its two rows, the lesser ones, and asks for the next.
Rows(u) == {u, txn[u].to}
OrderedTxn(u) ==
    /\ txn[u].kind = "none" => txn[u].want = Reward!NoUser /\ Reward!Held(u) = {}
    /\ txn[u].kind = "refer" =>
        /\ txn[u].to \in Members \ {u}
        /\ Reward!Held(u) \subseteq Rows(u)
        /\ \A v \in Reward!Held(u), w \in Reward!Needs(u) : v < w
        /\ txn[u].want # Reward!NoUser =>
            /\ txn[u].want \in Rows(u)
            /\ \A v \in Reward!Held(u) : v < txn[u].want
            /\ \A w \in Reward!Needs(u) \ {txn[u].want} : txn[u].want < w
LockInv == \A u \in Members : OrderedTxn(u)

RewardInv == Reward!TypeOK /\ MoneyInv /\ LockInv

\* The types of what the actions write.
LEMMA RewardTypes ==
    ASSUME Reward!TypeOK
    PROVE  /\ account \in [Members -> AccountRecord] /\ submission \in [Reward!Items -> SubmissionRecord]
           /\ review \in [Reviewers -> ReviewRecord] /\ txn \in [Members -> TxnRecord]
           /\ paid \in [Members -> Seq(LedgerRow)] /\ coins \in [Members -> Int]
           /\ Reward!NoTxn \in TxnRecord /\ Reward!NoReview \in ReviewRecord
           /\ Reward!NoTxn.kind = "none" /\ Reward!NoTxn.want = Reward!NoUser /\ Reward!NoReview.item \notin Reward!Items
           /\ Members \subseteq Nat /\ Reward!NoUser \notin Members /\ Prizes \cup {0} \subseteq Nat
<1>1. Reward!NoReview.item \notin Reward!Items
      BY DEF Reward!NoReview, Reward!Items, Reward!Kinds
<1>2. Reward!NoTxn \in TxnRecord /\ Reward!NoReview \in ReviewRecord /\ Reward!NoTxn.kind = "none" /\ Reward!NoTxn.want = Reward!NoUser
      BY DEF Reward!NoTxn, Reward!NoReview, TxnRecord, ReviewRecord
<1>3. Members \subseteq Nat /\ Reward!NoUser \notin Members
      BY RewardBounds
<1>4. Prizes \cup {0} \subseteq Nat
      BY RewardBounds
<1>5. QED BY <1>1, <1>2, <1>3, <1>4 DEF Reward!TypeOK, AccountRecord, SubmissionRecord, ReviewRecord, TxnRecord, LedgerRow

\* The greatest of some users.
LEMMA GreatestUser ==
    ASSUME NEW S \in SUBSET Members, S # {}
    PROVE  \E m \in S : \A u \in S : u <= m
<1>1. PICK n \in Nat : \A u \in Members : u <= n /\ u \in Nat
      BY RewardBounds
<1> DEFINE T == {n - u : u \in S}
<1>2. T \subseteq Nat /\ T # {}
      BY <1>1
<1>3. PICK t \in T : \A s \in T : ~(<<s, t>> \in OpToRel(<, Nat))
      BY <1>2, NatLessThanWellFounded, WFMin
<1>4. PICK m \in S : t = n - m
      BY <1>3
<1>5. \A u \in S : u <= m
  <2>1. ASSUME NEW u \in S PROVE u <= m
    <3>1. n - u \in T /\ n - u \in Nat /\ t \in Nat
          BY <1>2
    <3>2. ~(n - u < t)
          BY <1>3, <3>1 DEF OpToRel
    <3>3. QED BY <1>1, <1>4, <3>1, <3>2
  <2>2. QED BY <2>1
<1>6. QED BY <1>5

\* Invitations alone wait for ever greater rows.
LEMMA OrderPreventsCycles == Reward!TypeOK /\ LockInv => Reward!ReferralsDoNotDeadlock
<1> SUFFICES ASSUME Reward!TypeOK, LockInv, NEW S \in Reward!Cycles, \A u \in S : txn[u].kind # "delete" PROVE FALSE
    BY DEF Reward!ReferralsDoNotDeadlock
<1>1. /\ S \subseteq Members /\ S # {}
      /\ \A u \in S : txn[u].want # Reward!NoUser /\ lock[txn[u].want] \in S
  <2>1. S \in SUBSET Members
        BY DEF Reward!Cycles
  <2>2. S \notin {{}}
        BY DEF Reward!Cycles
  <2>3. QED BY <2>1, <2>2 DEF Reward!Cycles
<1>2. \A u \in S : txn[u].kind = "refer" /\ txn[u].want \in Members
      BY <1>1, RewardTypes DEF LockInv, OrderedTxn, TxnRecord
<1> DEFINE W == {txn[u].want : u \in S}
<1>3. W \in SUBSET Members /\ W # {}
      BY <1>1, <1>2
<1>4. PICK m \in W : \A w \in W : w <= m
      BY <1>3, GreatestUser
<1>5. lock[m] \in S /\ m \in Members
      BY <1>1, <1>3
<1>6. m \in Reward!Held(lock[m])
      BY <1>5 DEF Reward!Held
<1>7. m < txn[lock[m]].want
      BY <1>1, <1>2, <1>5, <1>6 DEF LockInv, OrderedTxn
<1>8. txn[lock[m]].want <= m
      BY <1>4, <1>5
<1>9. m \in Nat /\ txn[lock[m]].want \in Nat
      BY <1>2, <1>3, <1>5, RewardBounds
<1>10. QED BY <1>7, <1>8, <1>9

\* A transaction another one's step passes by: rows are only ever taken away.
LEMMA PassedBy ==
    ASSUME NEW u \in Members, OrderedTxn(u), txn'[u] = txn[u], Reward!Held(u)' = Reward!Held(u),
           \A v \in Members : Reward!Exists(v)' => Reward!Exists(v)
    PROVE  OrderedTxn(u)'
<1>1. txn[u].kind = "refer" => Reward!Needs(u)' \subseteq Reward!Needs(u) /\ Rows(u)' = Rows(u)
      BY DEF Reward!Needs, Rows, OrderedTxn
<1>2. QED BY <1>1 DEF OrderedTxn

LEMMA LocksPassedBy ==
    ASSUME LockInv, UNCHANGED <<txn, lock>>, \A v \in Members : Reward!Exists(v)' => Reward!Exists(v)
    PROVE  LockInv'
<1>1. \A u \in Members : Reward!Held(u)' = Reward!Held(u)
      BY DEF Reward!Held
<1>2. QED BY <1>1, PassedBy DEF LockInv

LEMMA FinishKeeps ==
    ASSUME Reward!TypeOK, LockInv, NEW u \in Members, Reward!Finish(u), \A v \in Members : Reward!Exists(v)' => Reward!Exists(v)
    PROVE  LockInv'
<1>1. txn'[u] = Reward!NoTxn /\ \A w \in Members : w # u => txn'[w] = txn[w]
      BY RewardTypes DEF Reward!Finish
<1>2. \A w \in Members : w # u => Reward!Held(w)' = Reward!Held(w)
      BY RewardTypes DEF Reward!Finish, Reward!Held
<1>3. Reward!Held(u)' = {}
      BY RewardTypes DEF Reward!Finish, Reward!Held
<1>4. OrderedTxn(u)'
      BY <1>1, <1>3, RewardTypes DEF OrderedTxn
<1>5. \A w \in Members : w # u => OrderedTxn(w)'
      BY <1>1, <1>2, PassedBy DEF LockInv
<1>6. QED BY <1>4, <1>5 DEF LockInv

LEMMA BeginKeeps ==
    ASSUME Reward!TypeOK, LockInv, NEW u \in Members, NEW next \in TxnRecord, txn[u] = Reward!NoTxn,
           txn' = [txn EXCEPT ![u] = next], UNCHANGED <<account, lock>>, next.want = Reward!NoUser, next.kind # "none",
           next.kind = "refer" => next.to \in Members \ {u}
    PROVE  LockInv'
<1>1. txn'[u] = next /\ \A w \in Members : w # u => txn'[w] = txn[w]
      BY RewardTypes
<1>2. Reward!Held(u) = {}
      BY RewardTypes DEF LockInv, OrderedTxn
<1>3. \A w \in Members : Reward!Held(w)' = Reward!Held(w)
      BY DEF Reward!Held
<1>4. OrderedTxn(u)'
      BY <1>1, <1>2, <1>3 DEF OrderedTxn
<1>5. \A w \in Members : w # u => OrderedTxn(w)'
      BY <1>1, <1>3, PassedBy DEF LockInv, Reward!Exists
<1>6. QED BY <1>4, <1>5 DEF LockInv

LEMMA AskKeeps ==
    ASSUME Reward!TypeOK, LockInv, NEW u \in Members, Reward!Ask(u)
    PROVE  LockInv'
<1>1. /\ txn[u] \in TxnRecord /\ OrderedTxn(u) /\ UNCHANGED <<account, lock>>
      /\ txn[u] # Reward!NoTxn /\ txn[u].want = Reward!NoUser
      BY RewardTypes DEF LockInv, Reward!Ask
<1>2. PICK v : /\ txn' = [txn EXCEPT ![u].want = v]
               /\ \/ txn[u].kind = "refer" /\ Reward!Needs(u) # {} /\ v = Reward!LockOrder(u, Reward!Needs(u))
                  \/ txn[u].kind = "delete"
      BY DEF Reward!Ask
<1> DEFINE next == [txn[u] EXCEPT !.want = v]
<1>3. next.kind = txn[u].kind /\ next.to = txn[u].to /\ next.want = v
      BY <1>1 DEF TxnRecord
<1>4. txn' = [txn EXCEPT ![u] = next]
      BY <1>1, <1>2, RewardTypes
<1> HIDE DEF next
<1>5. txn'[u] = next /\ \A w \in Members : w # u => txn'[w] = txn[w]
      BY <1>4, RewardTypes
<1>6. \A w \in Members : Reward!Held(w)' = Reward!Held(w)
      BY <1>1 DEF Reward!Held
<1>7. \A w \in Members : w # u => OrderedTxn(w)'
      BY <1>1, <1>5, <1>6, PassedBy DEF LockInv, Reward!Exists
<1>8. CASE txn[u].kind = "refer"
  <2>1. Reward!Needs(u) # {} /\ v = Reward!LockOrder(u, Reward!Needs(u)) /\ Reward!Needs(u) \subseteq {u, txn[u].to} /\ txn[u].to \in Members
        BY <1>1, <1>2, <1>8 DEF Reward!Needs, OrderedTxn
  <2> DEFINE to == txn[u].to
             rows == Reward!Needs(u)
  <2>n. u \in Nat /\ to \in Nat /\ \A w \in rows : w \in Nat
        BY <2>1, RewardTypes
  <2> HIDE DEF to, rows
  <2>2. \E x \in rows : \A w \in rows : x <= w
    <3>1. rows # {} /\ rows \subseteq {u, to}
          BY <2>1 DEF rows, to
    <3>2. CASE rows = {u} \/ rows = {to}
          BY <2>n, <3>2
    <3>3. CASE rows = {u, to}
          BY <2>n, <3>3
    <3>4. QED BY <3>1, <3>2, <3>3
  <2>3. v \in Reward!Needs(u) /\ \A w \in Reward!Needs(u) : v <= w
        BY <2>1, <2>2 DEF Reward!LockOrder, rows
  <2>4. Reward!Needs(u)' = Reward!Needs(u) /\ Rows(u)' = Rows(u)
        BY <1>1, <1>3, <1>5, <1>6, <1>8 DEF Reward!Needs, Rows, Reward!Exists
  <2>5. \A w \in Reward!Needs(u) \ {v} : v < w
    <3>1. ASSUME NEW w \in Reward!Needs(u) \ {v} PROVE v < w
      <4>1. v \in Nat /\ w \in Nat /\ v <= w /\ v # w
            BY <2>3, <2>n, <3>1 DEF rows
      <4>2. QED BY <4>1
    <3>2. QED BY <3>1
  <2>6. OrderedTxn(u)'
        BY <1>1, <1>3, <1>5, <1>6, <1>8, <2>1, <2>3, <2>4, <2>5 DEF OrderedTxn, Rows
  <2>7. QED BY <1>7, <2>6 DEF LockInv
<1>9. CASE txn[u].kind = "delete"
  <2>1. OrderedTxn(u)'
        BY <1>3, <1>5, <1>9 DEF OrderedTxn
  <2>2. QED BY <1>7, <2>1 DEF LockInv
<1>10. QED BY <1>2, <1>8, <1>9

LEMMA TakeKeeps ==
    ASSUME Reward!TypeOK, LockInv, NEW u \in Members, Reward!Take(u)
    PROVE  LockInv'
<1> DEFINE v == txn[u].want
           next == [txn[u] EXCEPT !.want = Reward!NoUser]
<1>1. /\ txn[u] \in TxnRecord /\ OrderedTxn(u) /\ UNCHANGED account
      /\ v \in Members /\ lock[v] = Reward!NoUser
      BY RewardTypes DEF LockInv, Reward!Take, TxnRecord
<1>2. next.kind = txn[u].kind /\ next.to = txn[u].to /\ next.want = Reward!NoUser
      BY <1>1 DEF TxnRecord
<1>3. txn' = [txn EXCEPT ![u] = next] /\ lock' = [lock EXCEPT ![v] = IF Reward!Exists(v) THEN u ELSE Reward!NoUser]
      BY <1>1, RewardTypes DEF Reward!Take
<1> HIDE DEF next, v
<1>4. txn'[u] = next /\ \A w \in Members : w # u => txn'[w] = txn[w]
      BY <1>3, RewardTypes
<1>5. \A w \in Members : w # u => Reward!Held(w)' = Reward!Held(w)
      BY <1>1, <1>3, RewardTypes DEF Reward!Held, Reward!TypeOK
<1>6. Reward!Held(u)' = IF Reward!Exists(v) THEN Reward!Held(u) \cup {v} ELSE Reward!Held(u)
      BY <1>1, <1>3, RewardTypes DEF Reward!Held, Reward!TypeOK
<1>7. \A w \in Members : w # u => OrderedTxn(w)'
      BY <1>1, <1>4, <1>5, PassedBy DEF LockInv, Reward!Exists
<1>8. OrderedTxn(u)'
  <2>1. CASE txn[u].kind = "refer"
    <3>1. /\ txn[u].to \in Members \ {u} /\ Reward!Held(u) \subseteq Rows(u)
          /\ \A w \in Reward!Held(u), x \in Reward!Needs(u) : w < x
          /\ v \in Rows(u) /\ \A w \in Reward!Needs(u) \ {v} : v < w
          BY <1>1, <2>1, RewardTypes DEF OrderedTxn, v
    <3>2. Rows(u)' = Rows(u)
          BY <1>2, <1>4 DEF Rows
    <3>3. Reward!Needs(u)' = {x \in Rows(u) : Reward!Exists(x)} \ Reward!Held(u)' /\ Reward!Needs(u) = {x \in Rows(u) : Reward!Exists(x)} \ Reward!Held(u)
          BY <1>1, <1>2, <1>4, <2>1, <3>2 DEF Reward!Needs, Rows, Reward!Exists
    <3>4. Reward!Needs(u)' \subseteq Reward!Needs(u) /\ (Reward!Exists(v) => v \notin Reward!Needs(u)')
          BY <1>6, <3>3
    <3>5. \A w \in Reward!Held(u)', x \in Reward!Needs(u)' : w < x
          BY <1>6, <3>1, <3>4
    <3>6. Reward!Held(u)' \subseteq Rows(u)'
          BY <1>6, <3>1, <3>2
    <3>7. QED BY <1>2, <1>4, <2>1, <3>1, <3>5, <3>6 DEF OrderedTxn
  <2>2. CASE txn[u].kind # "refer"
        BY <1>1, <1>2, <1>4, <2>2, RewardTypes DEF OrderedTxn, v
  <2>3. QED BY <2>1, <2>2
<1>9. QED BY <1>7, <1>8 DEF LockInv

\* What Pay adds to the wallets it pays to, and that it leaves the others.
LEMMA PayAdds ==
    ASSUME Reward!TypeOK, NEW pays, DOMAIN pays \subseteq Members, \A w \in DOMAIN pays : pays[w] \in PayRecord, Reward!Pay(pays)
    PROVE  /\ coins' \in [Members -> Int] /\ paid' \in [Members -> Seq(LedgerRow)]
           /\ \A w \in Members : \A k \in 1..Len(paid[w]) : paid'[w][k] = paid[w][k]
           /\ \A w \in Members \ DOMAIN pays : \A ref : Reward!Paid(w, ref)' = Reward!Paid(w, ref)
           /\ \A w \in DOMAIN pays : \A ref :
                 Reward!Paid(w, ref)' = IF ref = pays[w].ref THEN Reward!Paid(w, ref) \cup {Len(paid[w]) + 1} ELSE Reward!Paid(w, ref)
           /\ \A w \in DOMAIN pays : Len(paid[w]) + 1 \in Nat /\ paid'[w][Len(paid[w]) + 1].amount = pays[w].amount
           /\ \A w \in Members : Explained(w) => Explained(w)'
<1>1. paid \in [Members -> Seq(LedgerRow)] /\ coins \in [Members -> Int]
      BY RewardTypes
<1>2. ASSUME NEW w \in DOMAIN pays
      PROVE  /\ coins'[w] = coins[w] + pays[w].amount /\ coins'[w] \in Int
             /\ paid'[w] = Append(paid[w], Reward!Row(w, pays[w])) /\ Reward!Row(w, pays[w]) \in LedgerRow
             /\ paid[w] \in Seq(LedgerRow) /\ paid'[w] \in Seq(LedgerRow)
  <2>1. w \in Members /\ pays[w] \in PayRecord /\ coins[w] \in Int /\ paid[w] \in Seq(LedgerRow)
        BY <1>1
  <2>2. pays[w].amount \in Int /\ pays[w].amount \in Prizes \cup {0} /\ pays[w].ref \in Reward!Refs
        BY <2>1, RewardTypes DEF PayRecord
  <2>3. Reward!Row(w, pays[w]) \in LedgerRow
        BY <2>1, <2>2 DEF Reward!Row, LedgerRow
  <2>4. coins'[w] = coins[w] + pays[w].amount /\ paid'[w] = Append(paid[w], Reward!Row(w, pays[w]))
        BY <2>1 DEF Reward!Pay
  <2>5. paid'[w] \in Seq(LedgerRow)
        BY <2>1, <2>3, <2>4
  <2>6. coins'[w] \in Int
        BY <2>1, <2>2, <2>4
  <2>7. QED BY <2>1, <2>3, <2>4, <2>5, <2>6
<1>3. \A w \in Members \ DOMAIN pays : coins'[w] = coins[w] /\ paid'[w] = paid[w]
      BY DEF Reward!Pay
<1>4. \A w \in Members : coins'[w] \in Int /\ paid'[w] \in Seq(LedgerRow)
  <2>1. ASSUME NEW w \in DOMAIN pays PROVE coins'[w] \in Int /\ paid'[w] \in Seq(LedgerRow)
        BY <1>2
  <2>2. QED BY <1>1, <1>3, <2>1
<1>5. coins' \in [Members -> Int] /\ paid' \in [Members -> Seq(LedgerRow)]
  <2>1. coins' = [u \in Members |-> coins'[u]] /\ paid' = [u \in Members |-> paid'[u]]
        BY DEF Reward!Pay
  <2>2. QED BY <1>4, <2>1
<1>6. ASSUME NEW w \in DOMAIN pays
      PROVE  /\ Len(paid[w]) \in Nat /\ Len(paid'[w]) = Len(paid[w]) + 1
             /\ paid'[w][Len(paid[w]) + 1] = Reward!Row(w, pays[w])
             /\ paid'[w][Len(paid[w]) + 1].amount = pays[w].amount
             /\ \A k \in 1..Len(paid[w]) : paid'[w][k] = paid[w][k]
  <2>1. /\ Len(paid[w]) \in Nat /\ Len(paid'[w]) = Len(paid[w]) + 1
        /\ paid'[w][Len(paid[w]) + 1] = Reward!Row(w, pays[w])
        /\ \A k \in 1..Len(paid[w]) : paid'[w][k] = paid[w][k]
        BY <1>2
  <2>2. Reward!Row(w, pays[w]).amount = pays[w].amount
        BY DEF Reward!Row
  <2>3. QED BY <2>1, <2>2
<1>7. \A w \in Members : \A k \in 1..Len(paid[w]) : paid'[w][k] = paid[w][k]
      BY <1>3, <1>6
<1>8. \A w \in Members \ DOMAIN pays : \A ref : Reward!Paid(w, ref)' = Reward!Paid(w, ref)
      BY <1>3 DEF Reward!Paid
<1>9. ASSUME NEW w \in DOMAIN pays, NEW ref
      PROVE  Reward!Paid(w, ref)' = IF ref = pays[w].ref THEN Reward!Paid(w, ref) \cup {Len(paid[w]) + 1} ELSE Reward!Paid(w, ref)
  <2>1. Reward!Row(w, pays[w]).ref = pays[w].ref
        BY DEF Reward!Row
  <2>2. 1..(Len(paid[w]) + 1) = 1..Len(paid[w]) \cup {Len(paid[w]) + 1} /\ Len(paid[w]) + 1 \notin 1..Len(paid[w])
        BY <1>6
  <2>3. QED BY <1>6, <2>1, <2>2 DEF Reward!Paid
<1>10. ASSUME NEW w \in DOMAIN pays PROVE paid'[w][Len(paid[w]) + 1].amount = pays[w].amount
      BY <1>6
<1>11. ASSUME NEW w \in Members, Explained(w) PROVE Explained(w)'
  <2>1. CASE w \notin DOMAIN pays
        BY <1>3, <1>11, <2>1 DEF Explained, Reward!Before
  <2>2. CASE w \in DOMAIN pays
    <3>n. PICK n \in Nat : n = Len(paid[w])
          BY <1>6, <2>2
    <3>1. n \in Nat /\ Len(paid'[w]) = n + 1 /\ paid'[w][n + 1] = Reward!Row(w, pays[w])
          /\ \A k \in 1..n : paid'[w][k] = paid[w][k]
          BY <1>6, <2>2, <3>n
    <3>2. Reward!Row(w, pays[w]).balanceAfter = coins[w] + pays[w].amount /\ Reward!Row(w, pays[w]).amount = pays[w].amount
          BY DEF Reward!Row
    <3>3. ASSUME NEW k \in 1..(n + 1) PROVE Reward!Before(w, k)' = Reward!Before(w, k)
      <4>1. CASE k = 1
            BY <4>1 DEF Reward!Before
      <4>2. CASE k # 1
        <5>1. k - 1 \in 1..n
              BY <3>1, <4>2
        <5>2. paid'[w][k - 1] = paid[w][k - 1]
              BY <3>1, <5>1
        <5>3. QED BY <4>2, <5>2 DEF Reward!Before
      <4>3. QED BY <4>1, <4>2
    <3>4. n + 1 \in 1..(n + 1)
          BY <3>1
    <3>5. Reward!Before(w, (n + 1) + 1)' = coins[w] + pays[w].amount
      <4>1. (n + 1) + 1 # 1 /\ ((n + 1) + 1) - 1 = n + 1
            BY <3>1
      <4>2. QED BY <3>1, <3>2, <4>1 DEF Reward!Before
    <3>6. coins[w] = Reward!Before(w, n + 1) /\ \A k \in 1..n : paid[w][k].balanceAfter = Reward!Before(w, k) + paid[w][k].amount
          BY <1>11, <3>n DEF Explained
    <3>7. coins'[w] = coins[w] + pays[w].amount
          BY <1>2, <2>2
    <3>8. \A k \in 1..(n + 1) : k \in 1..n \/ k = n + 1
          BY <3>1
    <3>9. \A k \in 1..(n + 1) : paid'[w][k].balanceAfter = Reward!Before(w, k)' + paid'[w][k].amount
      <4>1. ASSUME NEW k \in 1..n PROVE paid'[w][k].balanceAfter = Reward!Before(w, k)' + paid'[w][k].amount
            BY <3>1, <3>3, <3>6, <3>8
      <4>2. paid'[w][n + 1].balanceAfter = Reward!Before(w, n + 1)' + paid'[w][n + 1].amount
            BY <3>1, <3>2, <3>3, <3>4, <3>6
      <4>3. QED BY <3>8, <4>1, <4>2
    <3>10. \A k \in 1..Len(paid'[w]) : paid'[w][k].balanceAfter = Reward!Before(w, k)' + paid'[w][k].amount
          BY <3>1, <3>9
    <3>11. coins'[w] = Reward!Before(w, Len(paid[w]) + 1)'
          BY <3>1, <3>5, <3>7 DEF Reward!Before
    <3>12. QED BY <3>10, <3>11 DEF Explained
  <2>3. QED BY <2>1, <2>2
<1>12. QED BY <1>5, <1>6, <1>7, <1>8, <1>9, <1>10, <1>11

LEMMA RewardInit == Reward!Init => RewardInv
<1> SUFFICES ASSUME Reward!Init PROVE RewardInv
    OBVIOUS
<1>1. Reward!TypeOK
      BY RewardBounds DEF Reward!Init, Reward!TypeOK, Reward!NoReview, Reward!NoTxn
<1>2. \A u \in Members : \A ref : Reward!Paid(u, ref) = {}
      BY DEF Reward!Init, Reward!Paid
<1>3. \A u \in Members : Explained(u)
      BY DEF Reward!Init, Explained, Reward!Before
<1>4. MoneyInv
  <2>1. SubmissionsInv
    <3>1. \A x \in Reward!Items : x[2] \in Members
          BY DEF Reward!Items
    <3>2. \A x \in Reward!Items : submission[x].status = "NONE"
          BY DEF Reward!Init
    <3>3. QED BY <1>2, <3>1, <3>2 DEF SubmissionsInv, No
  <2>2. ReviewsInv
        BY DEF Reward!Init, ReviewsInv
  <2>3. InvitationsInv
        BY <1>2, RewardTypes, <1>1 DEF Reward!Init, InvitationsInv, No
  <2>4. GoneInv
        BY <1>3 DEF Reward!Init, GoneInv, Reward!Exists
  <2>5. QED BY <2>1, <2>2, <2>3, <2>4 DEF MoneyInv
<1>5. LockInv
      BY <1>1, RewardTypes DEF Reward!Init, LockInv, OrderedTxn, Reward!Held
<1>6. QED BY <1>1, <1>4, <1>5 DEF RewardInv

\* What is said of wallets depends on nothing else.
LEMMA SameRows ==
    ASSUME UNCHANGED <<coins, paid>>
    PROVE  \A u \in Members : /\ Explained(u) => Explained(u)'
                              /\ \A ref : Reward!Paid(u, ref)' = Reward!Paid(u, ref)
                              /\ \A ref : (One(u, ref)' <=> One(u, ref)) /\ (No(u, ref)' <=> No(u, ref))
<1>1. ASSUME NEW u \in Members, Explained(u) PROVE Explained(u)'
      BY <1>1 DEF Explained, Reward!Before
<1>2. \A u \in Members : \A ref : Reward!Paid(u, ref)' = Reward!Paid(u, ref)
      BY DEF Reward!Paid
<1>3. QED BY <1>1, <1>2 DEF One, No

LEMMA InvitationsFrame ==
    ASSUME InvitationsInv, GoneInv, UNCHANGED <<account, coins, paid>>
    PROVE  InvitationsInv' /\ GoneInv'
<1>1. InvitationsInv'
      BY SameRows DEF InvitationsInv, Reward!Exists
<1>2. GoneInv'
      BY SameRows DEF GoneInv, Reward!Exists
<1>3. QED BY <1>1, <1>2

LEMMA MoneyFrame ==
    ASSUME MoneyInv, UNCHANGED <<account, submission, review, coins, paid>>
    PROVE  MoneyInv'
<1>1. SubmissionsInv'
  <2>1. \A y \in Reward!Items : y[2] \in Members
        BY DEF Reward!Items
  <2>2. QED BY <2>1, SameRows DEF MoneyInv, SubmissionsInv, Reward!Exists
<1>2. ReviewsInv'
      BY DEF MoneyInv, ReviewsInv, Reward!Exists
<1>3. QED BY <1>1, <1>2, InvitationsFrame DEF MoneyInv

LEMMA Counted == ASSUME Reward!TypeOK, Reward!Begin PROVE begunCalls' \in 0..MaxCalls
    BY RewardBounds DEF Reward!TypeOK, Reward!Begin

LEMMA EndSubmitKeeps ==
    ASSUME RewardInv, NEW s \in submitting, Reward!EndSubmit(s)
    PROVE  RewardInv'
<1>1. /\ Reward!TypeOK /\ MoneyInv /\ LockInv /\ s.item \in Reward!Items /\ s.reward \in Prizes
      /\ UNCHANGED <<account, txn, lock, coins, paid, review, offered, begunCalls>> /\ submitting' \subseteq submitting
      BY DEF Reward!EndSubmit, RewardInv, Reward!TypeOK, Reward!accountVars, Reward!walletVars
<1>2. LockInv'
      BY <1>1, LocksPassedBy DEF Reward!Exists
<1>3. CASE UNCHANGED submission
      BY <1>1, <1>2, <1>3, MoneyFrame DEF RewardInv, Reward!TypeOK
<1>4. CASE submission[s.item].status = "NONE" /\ Reward!Exists(s.item[2])
  <2> DEFINE x == s.item
             new == [status |-> "PENDING", reward |-> IF s.item[1] = "claim" THEN s.reward ELSE 0]
  <2>1. submission' = [submission EXCEPT ![x] = new]
        BY <1>4 DEF Reward!EndSubmit
  <2>2. new \in SubmissionRecord /\ new.status = "PENDING" /\ new.status # "APPROVED" /\ new.status # "NONE" /\ x \in Reward!Items
        BY <1>1 DEF SubmissionRecord
  <2> HIDE DEF new
  <2>3. /\ submission' \in [Reward!Items -> SubmissionRecord] /\ submission'[x] = new
        /\ \A y \in Reward!Items : y # x => submission'[y] = submission[y]
        BY <1>1, <2>1, <2>2, RewardTypes
  <2>4. \A u \in Members : \A ref : Reward!Paid(u, ref)' = Reward!Paid(u, ref)
        BY <1>1 DEF Reward!Paid
  <2>5. Reward!Paid(x[2], x) = {}
        BY <1>1, <1>4 DEF MoneyInv, SubmissionsInv, No
  <2>6. SubmissionsInv'
    <3>1. ASSUME NEW y \in Reward!Items
          PROVE  /\ submission'[y].status # "NONE" => Reward!Exists(y[2])
                 /\ submission'[y].status = "APPROVED" => One(y[2], y)
                 /\ submission'[y].status # "APPROVED" => No(y[2], y)
                 /\ y[1] = "claim" => \A k \in Reward!Paid(y[2], y) : paid[y[2]][k].amount = submission'[y].reward
      <4>1. CASE y = x
            BY <1>4, <2>2, <2>3, <2>5, <4>1 DEF No
      <4>2. CASE y # x
            BY <1>1, <2>3, <4>2 DEF MoneyInv, SubmissionsInv
      <4>3. QED BY <4>1, <4>2
    <3>2. \A y \in Reward!Items : y[2] \in Members
          BY DEF Reward!Items
    <3>3. QED BY <1>1, <3>1, <3>2, SameRows DEF SubmissionsInv, Reward!Exists
  <2>7. ReviewsInv'
    <3>1. ASSUME NEW r \in Reviewers, review[r] # Reward!NoReview PROVE review[r].item \in Reward!Items /\ review[r].item # x
          BY <1>1, <1>4, <3>1 DEF MoneyInv, ReviewsInv
    <3>2. QED BY <1>1, <2>3, <3>1 DEF MoneyInv, ReviewsInv, Reward!Exists
  <2>8. InvitationsInv' /\ GoneInv'
        BY <1>1, InvitationsFrame DEF MoneyInv
  <2>9. Reward!TypeOK'
        BY <1>1, <2>3 DEF Reward!TypeOK, SubmissionRecord
  <2>10. QED BY <1>2, <2>6, <2>7, <2>8, <2>9 DEF RewardInv, MoneyInv
<1>5. QED BY <1>3, <1>4 DEF Reward!EndSubmit

LEMMA BeginReviewKeeps ==
    ASSUME RewardInv, NEW r \in Reviewers, NEW x \in Reward!Items, Reward!BeginReview(r, x)
    PROVE  RewardInv'
<1> DEFINE new == [item |-> x, reward |-> IF x[1] = "claim" THEN submission[x].reward ELSE offered]
<1>1. /\ Reward!TypeOK /\ MoneyInv /\ LockInv /\ submission[x].status = "PENDING"
      /\ UNCHANGED <<account, txn, lock, coins, paid, submission, offered, submitting>>
      /\ review' = [review EXCEPT ![r] = new] /\ Reward!Begin
      BY DEF Reward!BeginReview, RewardInv, Reward!accountVars, Reward!walletVars
<1>2. LockInv'
      BY <1>1, LocksPassedBy DEF Reward!Exists
<1>3. new \in ReviewRecord /\ new.item = x /\ (x[1] = "claim" => new.reward = submission[x].reward)
      BY <1>1, RewardTypes DEF ReviewRecord, SubmissionRecord, Reward!TypeOK
<1> HIDE DEF new
<1>4. /\ review' \in [Reviewers -> ReviewRecord] /\ review'[r] = new
      /\ \A q \in Reviewers : q # r => review'[q] = review[q]
      BY <1>1, <1>3, RewardTypes
<1>5. ReviewsInv'
      BY <1>1, <1>3, <1>4 DEF MoneyInv, ReviewsInv, Reward!Exists
<1>6. SubmissionsInv' /\ InvitationsInv' /\ GoneInv'
  <2>1. \A y \in Reward!Items : y[2] \in Members
        BY DEF Reward!Items
  <2>2. SubmissionsInv'
        BY <1>1, <2>1, SameRows DEF MoneyInv, SubmissionsInv, Reward!Exists
  <2>3. QED BY <1>1, <2>2, InvitationsFrame DEF MoneyInv
<1>7. Reward!TypeOK'
      BY <1>1, <1>4, Counted DEF Reward!TypeOK, ReviewRecord
<1>8. QED BY <1>2, <1>5, <1>6, <1>7 DEF RewardInv, MoneyInv

LEMMA RejectKeeps ==
    ASSUME RewardInv, NEW r \in Reviewers, Reward!Reject(r)
    PROVE  RewardInv'
<1> DEFINE x == review[r].item
<1>1. /\ Reward!TypeOK /\ MoneyInv /\ LockInv /\ x \in Reward!Items
      /\ UNCHANGED <<account, txn, lock, coins, paid, offered, submitting, begunCalls>>
      BY DEF Reward!Reject, RewardInv, MoneyInv, ReviewsInv, Reward!accountVars, Reward!walletVars
<1>2. LockInv'
      BY <1>1, LocksPassedBy DEF Reward!Exists
<1>3. /\ review' \in [Reviewers -> ReviewRecord] /\ review'[r] = Reward!NoReview
      /\ \A q \in Reviewers : q # r => review'[q] = review[q]
      BY <1>1, RewardTypes DEF Reward!Reject
<1>4. /\ submission' \in [Reward!Items -> SubmissionRecord]
      /\ \A y \in Reward!Items : /\ submission'[y].reward = submission[y].reward
                                  /\ (submission'[y].status = "NONE" <=> submission[y].status = "NONE")
                                  /\ (submission'[y].status = "APPROVED" <=> submission[y].status = "APPROVED")
  <2>1. CASE Reward!Reviewable(x)
    <3> DEFINE new == [submission[x] EXCEPT !.status = "REJECTED"]
    <3>1. submission[x] \in SubmissionRecord /\ submission[x].status = "PENDING"
          BY <1>1, <2>1, RewardTypes DEF Reward!Reviewable
    <3>2. new \in SubmissionRecord /\ new.status = "REJECTED" /\ new.reward = submission[x].reward
          BY <3>1 DEF SubmissionRecord
    <3>3. submission' = [submission EXCEPT ![x] = new]
          BY <1>1, <2>1, RewardTypes DEF Reward!Reject
    <3> HIDE DEF new, x
    <3>4. submission' \in [Reward!Items -> SubmissionRecord] /\ submission'[x] = new /\ \A y \in Reward!Items : y # x => submission'[y] = submission[y]
          BY <1>1, <3>2, <3>3, RewardTypes
    <3>5. QED BY <3>1, <3>2, <3>4
  <2>2. CASE ~Reward!Reviewable(x)
        BY <1>1, <2>2, RewardTypes DEF Reward!Reject
  <2>3. QED BY <2>1, <2>2
<1> HIDE DEF x
<1>5. ReviewsInv'
      BY <1>1, <1>3, <1>4 DEF MoneyInv, ReviewsInv, Reward!Exists
<1>6. SubmissionsInv'
  <2>1. \A y \in Reward!Items : y[2] \in Members
        BY DEF Reward!Items
  <2>2. QED BY <1>1, <1>4, <2>1, SameRows DEF MoneyInv, SubmissionsInv, Reward!Exists
<1>7. InvitationsInv' /\ GoneInv'
      BY <1>1, InvitationsFrame DEF MoneyInv
<1>8. Reward!TypeOK'
      BY <1>1, <1>3, <1>4 DEF Reward!TypeOK, ReviewRecord, SubmissionRecord
<1>9. QED BY <1>2, <1>5, <1>6, <1>7, <1>8 DEF RewardInv, MoneyInv

LEMMA ApproveKeeps ==
    ASSUME RewardInv, NEW r \in Reviewers, Reward!Approve(r)
    PROVE  RewardInv'
<1>1. PICK x : /\ Reward!TypeOK /\ MoneyInv /\ LockInv /\ x \in Reward!Items /\ x = review[r].item /\ review[r] # Reward!NoReview
               /\ UNCHANGED <<account, txn, lock, offered, submitting, begunCalls>>
      BY DEF Reward!Approve, RewardInv, MoneyInv, ReviewsInv, Reward!accountVars
<1>2. LockInv'
      BY <1>1, LocksPassedBy DEF Reward!Exists
<1>3. /\ review' \in [Reviewers -> ReviewRecord] /\ review'[r] = Reward!NoReview
      /\ \A q \in Reviewers : q # r => review'[q] = review[q]
      BY <1>1, RewardTypes DEF Reward!Approve
<1>4. CASE ~Reward!Reviewable(x)
  <2>1. UNCHANGED <<submission, coins, paid>>
        BY <1>1, <1>4 DEF Reward!Approve, Reward!walletVars
  <2>2. \A y \in Reward!Items : y[2] \in Members
        BY DEF Reward!Items
  <2>3. SubmissionsInv'
        BY <1>1, <2>1, <2>2, SameRows DEF MoneyInv, SubmissionsInv, Reward!Exists
  <2>4. ReviewsInv'
        BY <1>1, <1>3, <2>1 DEF MoneyInv, ReviewsInv, Reward!Exists
  <2>5. InvitationsInv' /\ GoneInv'
        BY <1>1, <2>1, InvitationsFrame DEF MoneyInv
  <2>6. Reward!TypeOK'
        BY <1>1, <1>3, <2>1 DEF Reward!TypeOK, ReviewRecord
  <2>7. QED BY <1>2, <2>3, <2>4, <2>5, <2>6 DEF RewardInv, MoneyInv
<1>5. CASE Reward!Reviewable(x)
  <2>1. submission[x].status = "PENDING" /\ x[2] \in Members /\ x[1] \in Reward!Kinds /\ x \in Reward!Refs /\ x = <<x[1], x[2]>>
        BY <1>1, <1>5 DEF Reward!Reviewable, Reward!Items, Reward!Refs
  <2>2. PICK u \in Members : u = x[2]
        BY <2>1
  <2> DEFINE pay == [ref |-> x, amount |-> review[r].reward]
             pays == [w \in {u} |-> pay]
             new == [submission[x] EXCEPT !.status = "APPROVED"]
  <2>3. submission' = [submission EXCEPT ![x] = new] /\ Reward!Pay(pays)
        BY <1>1, <1>5, <2>2, RewardTypes DEF Reward!Approve
  <2>4. pay \in PayRecord /\ pay.ref = x /\ pay.amount = review[r].reward
    <3>1. review[r].reward \in Prizes \cup {0}
          BY <1>1, RewardTypes DEF ReviewRecord
    <3>2. QED BY <2>1, <3>1 DEF PayRecord
  <2>5. DOMAIN pays = {u} /\ pays[u] = pay
        OBVIOUS
  <2>6. submission[x] \in SubmissionRecord
        BY <1>1, RewardTypes
  <2>7. new \in SubmissionRecord /\ new.status = "APPROVED" /\ new.reward = submission[x].reward
        BY <2>6 DEF SubmissionRecord
  <2> HIDE DEF pay, pays, new
  <2>8. /\ submission' \in [Reward!Items -> SubmissionRecord] /\ submission'[x] = new
        /\ \A y \in Reward!Items : y # x => submission'[y] = submission[y]
        BY <1>1, <2>3, <2>7, RewardTypes
  <2>9. /\ coins' \in [Members -> Int] /\ paid' \in [Members -> Seq(LedgerRow)]
        /\ \A w \in Members : \A k \in 1..Len(paid[w]) : paid'[w][k] = paid[w][k]
        /\ \A w \in Members : \A ref : w # u \/ ref # x => Reward!Paid(w, ref)' = Reward!Paid(w, ref)
        /\ Reward!Paid(u, x)' = Reward!Paid(u, x) \cup {Len(paid[u]) + 1}
        /\ Len(paid[u]) + 1 \in Nat /\ paid'[u][Len(paid[u]) + 1].amount = review[r].reward
        /\ \A w \in Members : Explained(w) => Explained(w)'
    <3>1. /\ coins' \in [Members -> Int] /\ paid' \in [Members -> Seq(LedgerRow)]
          /\ \A w \in Members : \A k \in 1..Len(paid[w]) : paid'[w][k] = paid[w][k]
          /\ \A w \in Members \ DOMAIN pays : \A ref : Reward!Paid(w, ref)' = Reward!Paid(w, ref)
          /\ \A w \in DOMAIN pays : \A ref :
                Reward!Paid(w, ref)' = IF ref = pays[w].ref THEN Reward!Paid(w, ref) \cup {Len(paid[w]) + 1} ELSE Reward!Paid(w, ref)
          /\ \A w \in DOMAIN pays : Len(paid[w]) + 1 \in Nat /\ paid'[w][Len(paid[w]) + 1].amount = pays[w].amount
          /\ \A w \in Members : Explained(w) => Explained(w)'
          BY <1>1, <2>3, <2>4, <2>5, PayAdds
    <3>2. \A w \in Members : \A ref : w # u \/ ref # x => Reward!Paid(w, ref)' = Reward!Paid(w, ref)
          BY <2>4, <2>5, <3>1
    <3>3. Reward!Paid(u, x)' = Reward!Paid(u, x) \cup {Len(paid[u]) + 1}
          BY <2>4, <2>5, <3>1
    <3>4. Len(paid[u]) + 1 \in Nat /\ paid'[u][Len(paid[u]) + 1].amount = review[r].reward
          BY <2>4, <2>5, <3>1
    <3>5. QED BY <3>1, <3>2, <3>3, <3>4
  <2>10. Reward!Paid(u, x) = {}
        BY <1>1, <2>1, <2>2 DEF MoneyInv, SubmissionsInv, No
  <2>11. \A w \in Members : \A ref : w # u \/ ref # x => (One(w, ref)' <=> One(w, ref)) /\ (No(w, ref)' <=> No(w, ref))
        BY <2>9 DEF One, No
  <2>12. SubmissionsInv'
    <3>1. ASSUME NEW y \in Reward!Items
          PROVE  /\ submission'[y].status # "NONE" => Reward!Exists(y[2])
                 /\ submission'[y].status = "APPROVED" => One(y[2], y)'
                 /\ submission'[y].status # "APPROVED" => No(y[2], y)'
                 /\ y[1] = "claim" => \A k \in Reward!Paid(y[2], y)' : paid'[y[2]][k].amount = submission'[y].reward
      <4>1. CASE y = x
        <5>1. Reward!Exists(u)
              BY <1>1, <2>1, <2>2 DEF MoneyInv, SubmissionsInv
        <5>2. One(u, x)'
              BY <2>9, <2>10 DEF One
        <5>3. x[1] = "claim" => review[r].reward = submission[x].reward
              BY <1>1, <2>1 DEF MoneyInv, ReviewsInv
        <5>4. QED BY <2>2, <2>7, <2>8, <2>9, <2>10, <4>1, <5>1, <5>2, <5>3
      <4>2. CASE y # x
        <5>1. y[2] \in Members
              BY DEF Reward!Items
        <5>2. Reward!Paid(y[2], y)' = Reward!Paid(y[2], y)
              BY <2>9, <4>2, <5>1
        <5>3. Reward!Paid(y[2], y) \subseteq 1..Len(paid[y[2]])
              BY DEF Reward!Paid
        <5>4. \A k \in Reward!Paid(y[2], y)' : k \in Reward!Paid(y[2], y) /\ paid'[y[2]][k] = paid[y[2]][k]
              BY <2>9, <5>1, <5>2, <5>3
        <5>5. (One(y[2], y)' <=> One(y[2], y)) /\ (No(y[2], y)' <=> No(y[2], y))
              BY <2>11, <4>2, <5>1
        <5>6. QED BY <1>1, <2>8, <4>2, <5>4, <5>5 DEF MoneyInv, SubmissionsInv
      <4>3. QED BY <4>1, <4>2
    <3>2. QED BY <1>1, <3>1 DEF SubmissionsInv, Reward!Exists
  <2>13. ReviewsInv'
        BY <1>1, <1>3, <2>1, <2>7, <2>8 DEF MoneyInv, ReviewsInv, Reward!Exists
  <2>14. InvitationsInv'
    <3>1. \A w \in Members : <<"referral-join", w>> # x /\ <<"referral", w>> # x
          BY <2>1 DEF Reward!Kinds
    <3>2. QED BY <1>1, <2>11, <3>1 DEF MoneyInv, InvitationsInv, Reward!Exists
  <2>15. GoneInv'
        BY <1>1, <2>9 DEF MoneyInv, GoneInv, Reward!Exists
  <2>16. Reward!TypeOK'
        BY <1>1, <1>3, <2>8, <2>9 DEF Reward!TypeOK, ReviewRecord, SubmissionRecord, LedgerRow
  <2>17. QED BY <1>2, <2>12, <2>13, <2>14, <2>15, <2>16 DEF RewardInv, MoneyInv
<1>6. QED BY <1>4, <1>5

\* Transactions and submissions under way are typed with their parts.
LEMMA FinishTypes ==
    ASSUME Reward!TypeOK, NEW u \in Members, Reward!Finish(u)
    PROVE  txn' \in [Members -> TxnRecord] /\ lock' \in [Members -> Members \cup {Reward!NoUser}]
    BY RewardTypes DEF Reward!Finish, Reward!TypeOK

LEMMA ReferKeeps ==
    ASSUME RewardInv, NEW u \in Members, Reward!Refer(u)
    PROVE  RewardInv'
<1>1. PICK v \in Members : /\ Reward!TypeOK /\ MoneyInv /\ LockInv /\ v = txn[u].to /\ v # u
                           /\ Reward!Exists(u) /\ Reward!Exists(v) /\ ~account[u].marked /\ account[v].by # u
      BY DEF Reward!Refer, Reward!Locked, Reward!Eligible, RewardInv, LockInv, OrderedTxn
<1>2. PICK a \in Prizes, b \in Prizes :
            Reward!Pay([w \in {u, v} |-> IF w = v THEN [ref |-> <<"referral", u>>, amount |-> a]
                                         ELSE [ref |-> <<"referral-join", u>>, amount |-> b]])
      BY <1>1 DEF Reward!Refer
<1> DEFINE p == [ref |-> <<"referral", u>>, amount |-> a]
           q == [ref |-> <<"referral-join", u>>, amount |-> b]
           pays == [w \in {u, v} |-> IF w = v THEN p ELSE q]
           new == [account[u] EXCEPT !.by = v, !.marked = TRUE]
<1>3. /\ UNCHANGED <<submission, offered, submitting, review, begunCalls>> /\ Reward!Finish(u)
      /\ account' = [account EXCEPT ![u] = new]
      BY <1>1, RewardTypes DEF Reward!Refer, Reward!reviewVars
<1>4. account[u] \in AccountRecord /\ account[u].exists
      BY <1>1, RewardTypes DEF Reward!Exists
<1>5. new \in AccountRecord /\ new.by = v /\ new.marked = TRUE /\ new.exists
      BY <1>1, <1>4 DEF AccountRecord
<1>6. p \in PayRecord /\ q \in PayRecord /\ p.ref = <<"referral", u>> /\ q.ref = <<"referral-join", u>>
      BY DEF PayRecord, Reward!Refs
<1>7. DOMAIN pays = {u, v} /\ pays[u] = q /\ pays[v] = p /\ Reward!Pay(pays)
      BY <1>1, <1>2
<1> HIDE DEF p, q, pays, new
<1>8. /\ account' \in [Members -> AccountRecord] /\ account'[u] = new
      /\ \A w \in Members : w # u => account'[w] = account[w]
      BY <1>1, <1>3, <1>5, RewardTypes
<1>9. /\ coins' \in [Members -> Int] /\ paid' \in [Members -> Seq(LedgerRow)]
      /\ \A w \in Members : \A k \in 1..Len(paid[w]) : paid'[w][k] = paid[w][k]
      /\ \A w \in Members : Explained(w) => Explained(w)'
      /\ \A w \in Members \ {u, v} : \A ref : Reward!Paid(w, ref)' = Reward!Paid(w, ref)
      /\ \A ref : Reward!Paid(u, ref)' = IF ref = q.ref THEN Reward!Paid(u, ref) \cup {Len(paid[u]) + 1} ELSE Reward!Paid(u, ref)
      /\ \A ref : Reward!Paid(v, ref)' = IF ref = p.ref THEN Reward!Paid(v, ref) \cup {Len(paid[v]) + 1} ELSE Reward!Paid(v, ref)
      /\ Len(paid[u]) + 1 \in Nat /\ Len(paid[v]) + 1 \in Nat
  <2>1. /\ coins' \in [Members -> Int] /\ paid' \in [Members -> Seq(LedgerRow)]
        /\ \A w \in Members : \A k \in 1..Len(paid[w]) : paid'[w][k] = paid[w][k]
        /\ \A w \in Members \ DOMAIN pays : \A ref : Reward!Paid(w, ref)' = Reward!Paid(w, ref)
        /\ \A w \in DOMAIN pays : \A ref :
              Reward!Paid(w, ref)' = IF ref = pays[w].ref THEN Reward!Paid(w, ref) \cup {Len(paid[w]) + 1} ELSE Reward!Paid(w, ref)
        /\ \A w \in DOMAIN pays : Len(paid[w]) + 1 \in Nat /\ paid'[w][Len(paid[w]) + 1].amount = pays[w].amount
        /\ \A w \in Members : Explained(w) => Explained(w)'
        BY <1>1, <1>6, <1>7, PayAdds
  <2>2. u \in DOMAIN pays /\ v \in DOMAIN pays
        BY <1>7
  <2>3. \A ref : Reward!Paid(u, ref)' = IF ref = q.ref THEN Reward!Paid(u, ref) \cup {Len(paid[u]) + 1} ELSE Reward!Paid(u, ref)
        BY <1>7, <2>1, <2>2
  <2>4. \A ref : Reward!Paid(v, ref)' = IF ref = p.ref THEN Reward!Paid(v, ref) \cup {Len(paid[v]) + 1} ELSE Reward!Paid(v, ref)
        BY <1>7, <2>1, <2>2
  <2>5. \A w \in Members \ {u, v} : \A ref : Reward!Paid(w, ref)' = Reward!Paid(w, ref)
        BY <1>7, <2>1
  <2>6. QED BY <2>1, <2>2, <2>3, <2>4, <2>5
<1>10. \A w \in Members : \A ref : ref # <<"referral-join", u>> /\ ref # <<"referral", u>> => Reward!Paid(w, ref)' = Reward!Paid(w, ref)
      BY <1>6, <1>9
<1>11. \A w \in Members : \A ref : ref # <<"referral-join", u>> /\ ref # <<"referral", u>> =>
            (One(w, ref)' <=> One(w, ref)) /\ (No(w, ref)' <=> No(w, ref))
      BY <1>10 DEF One, No
<1>12. One(u, <<"referral-join", u>>)' /\ One(v, <<"referral", u>>)'
  <2>1. Reward!Paid(u, <<"referral-join", u>>) = {} /\ Reward!Paid(v, <<"referral", u>>) = {}
        BY <1>1 DEF MoneyInv, InvitationsInv, No
  <2>2. QED BY <1>6, <1>9, <2>1 DEF One
<1>13. \A w \in Members : w # u => <<"referral-join", w>> # <<"referral-join", u>> /\ <<"referral", w>> # <<"referral", u>>
      OBVIOUS
<1>14. \A w, x \in Members : <<"referral-join", w>> # <<"referral", x>>
      OBVIOUS
<1>15. InvitationsInv'
  <2>1. \A w \in Members : account'[w].marked => One(w, <<"referral-join", w>>)'
        BY <1>1, <1>8, <1>11, <1>12, <1>13, <1>14 DEF MoneyInv, InvitationsInv
  <2>2. \A w \in Members : ~account'[w].marked => No(w, <<"referral-join", w>>)'
        BY <1>1, <1>5, <1>8, <1>11, <1>13, <1>14 DEF MoneyInv, InvitationsInv
  <2>3. ASSUME NEW w \in Members, NEW x \in Members, account'[x].exists, account'[x].by = w
        PROVE  One(w, <<"referral", x>>)' /\ account'[w].by # x
    <3>1. CASE x = u
          BY <1>1, <1>5, <1>8, <1>12, <2>3, <3>1
    <3>2. CASE x # u
      <4>1. Reward!Exists(x) /\ account[x].by = w
            BY <1>8, <2>3, <3>2 DEF Reward!Exists
      <4>2. One(w, <<"referral", x>>)' /\ account[w].by # x
            BY <1>1, <1>11, <1>13, <1>14, <3>2, <4>1 DEF MoneyInv, InvitationsInv
      <4>3. CASE w = u
            BY <1>1, <1>5, <1>8, <4>1, <4>2, <4>3
      <4>4. CASE w # u
            BY <1>8, <4>2, <4>4
      <4>5. QED BY <4>2, <4>3, <4>4
    <3>3. QED BY <3>1, <3>2
  <2>4. \A w, x \in Members : account'[x].exists /\ ~account'[x].marked => No(w, <<"referral", x>>)'
        BY <1>1, <1>5, <1>8, <1>11, <1>13, <1>14 DEF MoneyInv, InvitationsInv, Reward!Exists
  <2>5. QED BY <2>1, <2>2, <2>3, <2>4 DEF InvitationsInv, Reward!Exists
<1>16. \A w \in Members : Reward!Exists(w)' <=> Reward!Exists(w)
      BY <1>4, <1>5, <1>8 DEF Reward!Exists
<1>17. SubmissionsInv'
  <2>1. ASSUME NEW y \in Reward!Items
        PROVE  /\ y[2] \in Members /\ (One(y[2], y)' <=> One(y[2], y)) /\ (No(y[2], y)' <=> No(y[2], y))
               /\ \A k \in Reward!Paid(y[2], y)' : k \in Reward!Paid(y[2], y) /\ paid'[y[2]][k] = paid[y[2]][k]
    <3>1. y[2] \in Members /\ y # <<"referral-join", u>> /\ y # <<"referral", u>>
          BY DEF Reward!Items, Reward!Kinds
    <3>2. Reward!Paid(y[2], y)' = Reward!Paid(y[2], y)
          BY <1>10, <3>1
    <3>3. Reward!Paid(y[2], y) \subseteq 1..Len(paid[y[2]])
          BY DEF Reward!Paid
    <3>4. QED BY <1>9, <1>11, <3>1, <3>2, <3>3
  <2>2. QED BY <1>1, <1>3, <1>16, <2>1 DEF MoneyInv, SubmissionsInv
<1>18. ReviewsInv'
  <2>1. \A r \in Reviewers : review[r] # Reward!NoReview => review[r].item[2] \in Members
        BY <1>1 DEF MoneyInv, ReviewsInv, Reward!Items
  <2>2. QED BY <1>1, <1>3, <1>16, <2>1 DEF MoneyInv, ReviewsInv
<1>19. GoneInv'
      BY <1>1, <1>5, <1>8, <1>9 DEF MoneyInv, GoneInv, Reward!Exists
<1>20. LockInv'
      BY <1>1, <1>3, <1>16, FinishKeeps
<1>21. Reward!TypeOK'
      BY <1>1, <1>3, <1>8, <1>9, FinishTypes DEF Reward!TypeOK, AccountRecord, TxnRecord, LedgerRow
<1>22. QED BY <1>15, <1>17, <1>18, <1>19, <1>20, <1>21 DEF RewardInv, MoneyInv

LEMMA DeleteKeeps ==
    ASSUME RewardInv, NEW u \in Members, Reward!Delete(u)
    PROVE  RewardInv'
<1> DEFINE leaver == [exists |-> FALSE, active |-> FALSE, by |-> Reward!NoUser, marked |-> FALSE]
           none == [status |-> "NONE", reward |-> 0]
<1>1. /\ Reward!TypeOK /\ MoneyInv /\ LockInv /\ Reward!Finish(u) /\ UNCHANGED <<offered, submitting, review, begunCalls>>
      /\ account' = [v \in Members |-> IF v = u THEN leaver
                                       ELSE IF account[v].by = u THEN [account[v] EXCEPT !.by = Reward!NoUser] ELSE account[v]]
      /\ submission' = [x \in Reward!Items |-> IF x[2] = u THEN none ELSE submission[x]]
      /\ coins' = [coins EXCEPT ![u] = 0] /\ paid' = [paid EXCEPT ![u] = <<>>]
      BY DEF Reward!Delete, RewardInv
<1>2. /\ leaver \in AccountRecord /\ ~leaver.exists /\ leaver.by = Reward!NoUser /\ ~leaver.marked
      /\ none \in SubmissionRecord /\ none.status = "NONE"
      BY DEF AccountRecord, SubmissionRecord
<1>3. ASSUME NEW v \in Members, v # u
      PROVE  /\ account'[v] \in AccountRecord
             /\ account'[v].exists = account[v].exists /\ account'[v].marked = account[v].marked
             /\ account'[v].by = account[v].by \/ account'[v].by = Reward!NoUser
             /\ account'[v].by # u
  <2>1. account[v] \in AccountRecord
        BY <1>1, RewardTypes
  <2>2. CASE account[v].by = u
    <3>1. account'[v] = [account[v] EXCEPT !.by = Reward!NoUser]
          BY <1>1, <1>3, <2>2
    <3>2. Reward!NoUser \notin Members
          BY <1>1, RewardTypes
    <3>3. QED BY <2>1, <3>1, <3>2 DEF AccountRecord
  <2>3. CASE account[v].by # u
        BY <1>1, <1>3, <2>1, <2>3
  <2>4. QED BY <2>2, <2>3
<1>4. account'[u] = leaver
      BY <1>1
<1>5. account' \in [Members -> AccountRecord]
  <2>1. \A v \in Members : account'[v] \in AccountRecord
        BY <1>2, <1>3, <1>4
  <2>2. account' = [v \in Members |-> account'[v]]
        BY <1>1
  <2>3. QED BY <2>1, <2>2
<1>6. /\ submission' \in [Reward!Items -> SubmissionRecord]
      /\ \A x \in Reward!Items : x[2] = u => submission'[x] = none
      /\ \A x \in Reward!Items : x[2] # u => submission'[x] = submission[x]
      BY <1>1, <1>2, RewardTypes
<1> HIDE DEF leaver, none
<1>7. /\ paid' \in [Members -> Seq(LedgerRow)] /\ coins' \in [Members -> Int]
      /\ paid'[u] = <<>> /\ coins'[u] = 0
      /\ \A v \in Members : v # u => paid'[v] = paid[v] /\ coins'[v] = coins[v]
  <2>1. paid' \in [Members -> Seq(LedgerRow)] /\ paid'[u] = <<>> /\ \A v \in Members : v # u => paid'[v] = paid[v]
        BY <1>1, RewardTypes
  <2>2. coins' \in [Members -> Int] /\ coins'[u] = 0 /\ \A v \in Members : v # u => coins'[v] = coins[v]
        BY <1>1, RewardTypes
  <2>3. QED BY <2>1, <2>2
<1>8. \A v \in Members : \A ref : v # u => Reward!Paid(v, ref)' = Reward!Paid(v, ref)
      BY <1>7 DEF Reward!Paid
<1>9. \A ref : No(u, ref)'
      BY <1>7 DEF No, Reward!Paid
<1>10. \A v \in Members : \A ref : v # u => (One(v, ref)' <=> One(v, ref)) /\ (No(v, ref)' <=> No(v, ref))
      BY <1>8 DEF One, No
<1>11. ASSUME NEW v \in Members PROVE Explained(v)'
  <2>1. CASE v = u
        BY <1>7, <2>1 DEF Explained, Reward!Before
  <2>2. CASE v # u
        BY <1>1, <1>7, <2>2 DEF MoneyInv, GoneInv, Explained, Reward!Before
  <2>3. QED BY <2>1, <2>2
<1>12. \A v \in Members : Reward!Exists(v)' <=> Reward!Exists(v) /\ v # u
      BY <1>2, <1>3, <1>4 DEF Reward!Exists
<1>13. GoneInv'
      BY <1>1, <1>2, <1>3, <1>4, <1>11, <1>12 DEF MoneyInv, GoneInv
<1>14. SubmissionsInv'
  <2>1. ASSUME NEW x \in Reward!Items
        PROVE  /\ submission'[x].status # "NONE" => Reward!Exists(x[2])'
               /\ submission'[x].status = "APPROVED" => One(x[2], x)'
               /\ submission'[x].status # "APPROVED" => No(x[2], x)'
               /\ x[1] = "claim" => \A k \in Reward!Paid(x[2], x)' : paid'[x[2]][k].amount = submission'[x].reward
    <3>1. x[2] \in Members
          BY DEF Reward!Items
    <3>2. CASE x[2] = u
          BY <1>2, <1>6, <1>9, <3>2 DEF No
    <3>3. CASE x[2] # u
          BY <1>1, <1>6, <1>7, <1>8, <1>10, <1>12, <3>1, <3>3 DEF MoneyInv, SubmissionsInv
    <3>4. QED BY <3>2, <3>3
  <2>2. QED BY <2>1 DEF SubmissionsInv
<1>15. ReviewsInv'
  <2>1. \A r \in Reviewers : review[r] # Reward!NoReview => review[r].item[2] \in Members
        BY <1>1 DEF MoneyInv, ReviewsInv, Reward!Items
  <2>2. QED BY <1>1, <1>2, <1>6, <1>12, <2>1 DEF MoneyInv, ReviewsInv
<1>16. InvitationsInv'
  <2>1. \A v \in Members : account'[v].marked => One(v, <<"referral-join", v>>)'
        BY <1>1, <1>2, <1>3, <1>4, <1>10 DEF MoneyInv, InvitationsInv
  <2>2. \A v \in Members : ~account'[v].marked => No(v, <<"referral-join", v>>)'
        BY <1>1, <1>3, <1>9, <1>10 DEF MoneyInv, InvitationsInv
  <2>3. ASSUME NEW w \in Members, NEW x \in Members, Reward!Exists(x)', account'[x].by = w
        PROVE  One(w, <<"referral", x>>)' /\ account'[w].by # x
    <3>1. x # u /\ Reward!Exists(x) /\ w # u /\ account[x].by = w
          BY <1>1, <1>3, <1>12, <2>3, RewardTypes
    <3>2. One(w, <<"referral", x>>) /\ account[w].by # x
          BY <1>1, <3>1 DEF MoneyInv, InvitationsInv
    <3>3. x # Reward!NoUser
          BY <1>1, RewardTypes
    <3>4. QED BY <1>3, <1>10, <3>1, <3>2, <3>3
  <2>4. ASSUME NEW w \in Members, NEW x \in Members, Reward!Exists(x)', ~account'[x].marked
        PROVE  No(w, <<"referral", x>>)'
    <3>1. x # u /\ Reward!Exists(x) /\ ~account[x].marked
          BY <1>3, <1>12, <2>4
    <3>2. No(w, <<"referral", x>>)
          BY <1>1, <3>1 DEF MoneyInv, InvitationsInv
    <3>3. QED BY <1>9, <1>10, <3>2
  <2>5. QED BY <2>1, <2>2, <2>3, <2>4 DEF InvitationsInv
<1>17. LockInv'
      BY <1>1, <1>12, FinishKeeps
<1>18. Reward!TypeOK'
      BY <1>1, <1>5, <1>6, <1>7, FinishTypes DEF Reward!TypeOK, AccountRecord, SubmissionRecord, TxnRecord, LedgerRow
<1>19. QED BY <1>13, <1>14, <1>15, <1>16, <1>17, <1>18 DEF RewardInv, MoneyInv

LEMMA SetActiveKeeps ==
    ASSUME RewardInv, NEW u \in Members, NEW b \in BOOLEAN, Reward!SetActive(u, b)
    PROVE  RewardInv'
<1> DEFINE new == [account[u] EXCEPT !.active = b]
<1>1. /\ Reward!TypeOK /\ MoneyInv /\ LockInv /\ Reward!Begin /\ UNCHANGED <<txn, lock, coins, paid, submission, offered, submitting, review>>
      /\ account' = [account EXCEPT ![u] = new]
      BY RewardTypes DEF Reward!SetActive, RewardInv, Reward!walletVars, Reward!reviewVars
<1>2. account[u] \in AccountRecord
      BY <1>1, RewardTypes
<1>3. /\ new \in AccountRecord /\ new.exists = account[u].exists /\ new.by = account[u].by /\ new.marked = account[u].marked
      BY <1>2 DEF AccountRecord
<1> HIDE DEF new
<1>4. /\ account' \in [Members -> AccountRecord]
      /\ \A v \in Members : /\ account'[v].exists = account[v].exists /\ account'[v].by = account[v].by
                            /\ account'[v].marked = account[v].marked
  <2>1. account' \in [Members -> AccountRecord] /\ account'[u] = new /\ \A v \in Members : v # u => account'[v] = account[v]
        BY <1>1, <1>3, RewardTypes
  <2>2. QED BY <1>3, <2>1
<1>5. \A v \in Members : Reward!Exists(v)' <=> Reward!Exists(v)
      BY <1>4 DEF Reward!Exists
<1>6. LockInv'
      BY <1>1, <1>5, LocksPassedBy
<1>7. SubmissionsInv'
  <2>1. \A x \in Reward!Items : x[2] \in Members
        BY DEF Reward!Items
  <2>2. QED BY <1>1, <1>5, <2>1, SameRows DEF MoneyInv, SubmissionsInv
<1>8. ReviewsInv'
  <2>1. \A r \in Reviewers : review[r] # Reward!NoReview => review[r].item[2] \in Members
        BY <1>1 DEF MoneyInv, ReviewsInv, Reward!Items
  <2>2. QED BY <1>1, <1>5, <2>1 DEF MoneyInv, ReviewsInv
<1>9. InvitationsInv'
      BY <1>1, <1>4, <1>5, SameRows DEF MoneyInv, InvitationsInv
<1>10. GoneInv'
      BY <1>1, <1>4, <1>5, SameRows DEF MoneyInv, GoneInv
<1>11. Reward!TypeOK'
      BY <1>1, <1>4, Counted DEF Reward!TypeOK, AccountRecord
<1>12. QED BY <1>6, <1>7, <1>8, <1>9, <1>10, <1>11 DEF RewardInv, MoneyInv

\* The steps of transactions that decide nothing.
LEMMA LockSteps ==
    ASSUME RewardInv, NEW u \in Members,
           Reward!Ask(u) \/ Reward!Take(u) \/ Reward!Abort(u) \/ Reward!RefuseReferral(u) \/ Reward!BeginDelete(u) \/ \E v \in Members : Reward!BeginReferral(u, v)
    PROVE  RewardInv'
<1>1. /\ Reward!TypeOK /\ MoneyInv /\ LockInv /\ UNCHANGED <<account, coins, paid, submission, offered, submitting, review>>
      BY DEF RewardInv, Reward!Ask, Reward!Take, Reward!Abort, Reward!RefuseReferral, Reward!BeginDelete, Reward!BeginReferral, Reward!walletVars, Reward!reviewVars
<1>2. MoneyInv'
      BY <1>1, MoneyFrame
<1>3. \A v \in Members : Reward!Exists(v)' => Reward!Exists(v)
      BY <1>1 DEF Reward!Exists
<1>4. LockInv' /\ txn' \in [Members -> TxnRecord] /\ lock' \in [Members -> Members \cup {Reward!NoUser}] /\ begunCalls' \in 0..MaxCalls
  <2>1. CASE Reward!Ask(u)
    <3>1. txn[u] \in TxnRecord /\ UNCHANGED <<lock, begunCalls>>
          BY <1>1, <2>1, RewardTypes DEF Reward!Ask
    <3>2. PICK v \in Members : txn' = [txn EXCEPT ![u].want = v]
      <4>1. CASE txn[u].kind = "refer"
        <5>1. Reward!Needs(u) # {} /\ Reward!Needs(u) \subseteq {u, txn[u].to} /\ txn[u].to \in Members
              BY <1>1, <2>1, <4>1 DEF Reward!Ask, Reward!Needs, LockInv, OrderedTxn
        <5>2. \E x \in Reward!Needs(u) : \A w \in Reward!Needs(u) : x <= w
          <6>1. u \in Nat /\ txn[u].to \in Nat
                BY <1>1, <5>1, RewardTypes
          <6>2. Reward!Needs(u) = {u} \/ Reward!Needs(u) = {txn[u].to} \/ Reward!Needs(u) = {u, txn[u].to}
                BY <5>1
          <6>3. QED BY <6>1, <6>2
        <5>3. Reward!LockOrder(u, Reward!Needs(u)) \in Members
              BY <5>1, <5>2 DEF Reward!LockOrder
        <5>4. QED BY <2>1, <4>1, <5>3 DEF Reward!Ask
      <4>2. CASE txn[u].kind # "refer"
            BY <2>1, <4>2 DEF Reward!Ask, Reward!Needs
      <4>3. QED BY <4>1, <4>2
    <3>3. [txn[u] EXCEPT !.want = v] \in TxnRecord
          BY <3>1 DEF TxnRecord
    <3>4. txn' \in [Members -> TxnRecord]
          BY <1>1, <3>2, <3>3, RewardTypes
    <3>5. QED BY <1>1, <2>1, <3>1, <3>4, AskKeeps DEF Reward!TypeOK
  <2>2. CASE Reward!Take(u)
    <3>1. txn[u] \in TxnRecord /\ UNCHANGED begunCalls
          BY <1>1, <2>2, RewardTypes DEF Reward!Take
    <3>2. [txn[u] EXCEPT !.want = Reward!NoUser] \in TxnRecord
          BY <3>1 DEF TxnRecord
    <3>3. txn' \in [Members -> TxnRecord]
          BY <1>1, <2>2, <3>2, RewardTypes DEF Reward!Take
    <3>4. lock' \in [Members -> Members \cup {Reward!NoUser}]
          BY <1>1, <2>2 DEF Reward!Take, Reward!TypeOK
    <3>5. QED BY <1>1, <2>2, <3>1, <3>3, <3>4, TakeKeeps DEF Reward!TypeOK
  <2>3. CASE Reward!Abort(u) \/ Reward!RefuseReferral(u)
    <3>1. Reward!Finish(u) /\ UNCHANGED begunCalls
          BY <2>3 DEF Reward!Abort, Reward!RefuseReferral
    <3>2. QED BY <1>1, <1>3, <3>1, FinishKeeps, FinishTypes DEF Reward!TypeOK
  <2>4. CASE Reward!BeginDelete(u)
    <3> DEFINE next == [Reward!NoTxn EXCEPT !.kind = "delete"]
    <3>1. next \in TxnRecord /\ next.want = Reward!NoUser /\ next.kind = "delete"
          BY DEF Reward!NoTxn, TxnRecord
    <3>2. txn[u] = Reward!NoTxn /\ txn' = [txn EXCEPT ![u] = next] /\ UNCHANGED lock /\ Reward!Begin
          BY <2>4 DEF Reward!BeginDelete
    <3> HIDE DEF next
    <3>3. QED BY <1>1, <3>1, <3>2, BeginKeeps, Counted, RewardTypes DEF Reward!TypeOK
  <2>5. ASSUME NEW v \in Members, Reward!BeginReferral(u, v)
        PROVE  LockInv' /\ txn' \in [Members -> TxnRecord] /\ lock' \in [Members -> Members \cup {Reward!NoUser}] /\ begunCalls' \in 0..MaxCalls
    <3> DEFINE next == [Reward!NoTxn EXCEPT !.kind = "refer", !.to = v]
    <3>1. next \in TxnRecord /\ next.want = Reward!NoUser /\ next.kind = "refer" /\ next.to = v
          BY DEF Reward!NoTxn, TxnRecord
    <3>2. txn[u] = Reward!NoTxn /\ txn' = [txn EXCEPT ![u] = next] /\ UNCHANGED lock /\ Reward!Begin /\ u # v
          BY <2>5 DEF Reward!BeginReferral
    <3> HIDE DEF next
    <3>3. QED BY <1>1, <3>1, <3>2, BeginKeeps, Counted, RewardTypes DEF Reward!TypeOK
  <2>6. QED BY <2>1, <2>2, <2>3, <2>4, <2>5
<1>5. Reward!TypeOK'
      BY <1>1, <1>4 DEF Reward!TypeOK, TxnRecord
<1>6. QED BY <1>2, <1>4, <1>5 DEF RewardInv

LEMMA RewardStep == RewardInv /\ [Reward!Next]_rewardVars => RewardInv'
<1> SUFFICES ASSUME RewardInv, [Reward!Next]_rewardVars PROVE RewardInv'
    OBVIOUS
<1>1. CASE UNCHANGED rewardVars
  <2>1. MoneyInv'
        BY <1>1, MoneyFrame DEF rewardVars, Reward!accountVars, Reward!walletVars, Reward!reviewVars, RewardInv
  <2>2. LockInv'
        BY <1>1, LocksPassedBy DEF rewardVars, Reward!accountVars, RewardInv, Reward!Exists
  <2>3. QED BY <1>1, <2>1, <2>2 DEF rewardVars, Reward!accountVars, Reward!walletVars, Reward!reviewVars, RewardInv, Reward!TypeOK
<1>2. ASSUME \/ \E x \in Reward!Items : Reward!BeginSubmit(x)
             \/ \E a \in Prizes : Reward!SetReward(a)
      PROVE  RewardInv'
  <2>1. /\ UNCHANGED <<account, txn, lock, coins, paid, submission, review>> /\ Reward!Begin
        /\ submitting' \subseteq [item : Reward!Items, reward : Prizes] /\ offered' \in Prizes
        BY <1>2 DEF Reward!BeginSubmit, Reward!SetReward, Reward!accountVars, Reward!walletVars, RewardInv, Reward!TypeOK
  <2>2. MoneyInv'
        BY <2>1, MoneyFrame DEF RewardInv
  <2>3. LockInv'
        BY <2>1, LocksPassedBy DEF RewardInv, Reward!Exists
  <2>4. Reward!TypeOK'
        BY <2>1, Counted DEF RewardInv, Reward!TypeOK
  <2>5. QED BY <2>2, <2>3, <2>4 DEF RewardInv
<1>3. CASE \E s \in submitting : Reward!EndSubmit(s)
      BY <1>3, EndSubmitKeeps
<1>4. CASE \E x \in Reward!Items, r \in Reviewers : Reward!BeginReview(r, x)
      BY <1>4, BeginReviewKeeps
<1>5. CASE \E r \in Reviewers : Reward!Reject(r)
      BY <1>5, RejectKeeps
<1>6. CASE \E r \in Reviewers : Reward!Approve(r)
      BY <1>6, ApproveKeeps
<1>7. CASE \E u \in Members : Reward!Refer(u)
      BY <1>7, ReferKeeps
<1>8. CASE \E u \in Members : Reward!Delete(u)
      BY <1>8, DeleteKeeps
<1>9. CASE \E u \in Members, b \in BOOLEAN : Reward!SetActive(u, b)
      BY <1>9, SetActiveKeeps
<1>10. CASE \E u \in Members : Reward!Ask(u) \/ Reward!Take(u) \/ Reward!Abort(u) \/ Reward!RefuseReferral(u) \/ Reward!BeginDelete(u) \/ \E v \in Members : Reward!BeginReferral(u, v)
      BY <1>10, LockSteps
<1>11. QED BY <1>1, <1>2, <1>3, <1>4, <1>5, <1>6, <1>7, <1>8, <1>9, <1>10 DEF Reward!Next

\* The sizes Rewards speaks of are those of finite sets.
LEMMA SameCardinality == \A S : Reward!Cardinality(S) = Cardinality(S)
  BY DEF Reward!Cardinality, Cardinality

\* One row is one paid, and none is none.
LEMMA RewardsArePaid == RewardInv => Reward!RewardsPaidOnce
<1> SUFFICES ASSUME RewardInv, NEW u \in Members, Reward!Exists(u)
             PROVE  /\ \A k \in 1..Len(paid[u]) : paid[u][k].balanceAfter = Reward!Before(u, k) + paid[u][k].amount
                    /\ coins[u] = Reward!Before(u, Len(paid[u]) + 1)
                    /\ \A k \in Reward!Kinds : Reward!Cardinality(Reward!Paid(u, <<k, u>>)) = IF submission[<<k, u>>].status = "APPROVED" THEN 1 ELSE 0
                    /\ \A k \in Reward!Paid(u, <<"claim", u>>) : paid[u][k].amount = submission[<<"claim", u>>].reward
                    /\ Reward!Cardinality(Reward!Paid(u, <<"referral-join", u>>)) = IF account[u].marked THEN 1 ELSE 0
                    /\ \A v \in Members : Reward!Exists(v) /\ account[v].by = u =>
                        Reward!Cardinality(Reward!Paid(u, <<"referral", v>>)) = 1 /\ account[u].by # v
    BY DEF Reward!RewardsPaidOnce
<1>1. \A ref : (One(u, ref) => Reward!Cardinality(Reward!Paid(u, ref)) = 1) /\ (No(u, ref) => Reward!Cardinality(Reward!Paid(u, ref)) = 0)
      BY SameCardinality, FS_Singleton, FS_EmptySet DEF One, No
<1>2. Explained(u)
      BY DEF RewardInv, MoneyInv, GoneInv
<1>3. ASSUME NEW k \in Reward!Kinds
      PROVE  /\ Reward!Cardinality(Reward!Paid(u, <<k, u>>)) = IF submission[<<k, u>>].status = "APPROVED" THEN 1 ELSE 0
             /\ k = "claim" => \A n \in Reward!Paid(u, <<k, u>>) : paid[u][n].amount = submission[<<k, u>>].reward
  <2> DEFINE x == <<k, u>>
  <2>1. x \in Reward!Items /\ x[1] = k /\ x[2] = u
        BY DEF Reward!Items
  <2> HIDE DEF x
  <2>2. /\ submission[x].status = "APPROVED" => One(u, x)
        /\ submission[x].status # "APPROVED" => No(u, x)
        /\ k = "claim" => \A n \in Reward!Paid(u, x) : paid[u][n].amount = submission[x].reward
        BY <2>1 DEF RewardInv, MoneyInv, SubmissionsInv
  <2>3. x = <<k, u>>
        BY DEF x
  <2>4. QED BY <1>1, <2>2, <2>3
<1>4. Reward!Cardinality(Reward!Paid(u, <<"referral-join", u>>)) = IF account[u].marked THEN 1 ELSE 0
      BY <1>1 DEF RewardInv, MoneyInv, InvitationsInv
<1>5. \A v \in Members : Reward!Exists(v) /\ account[v].by = u => Reward!Cardinality(Reward!Paid(u, <<"referral", v>>)) = 1 /\ account[u].by # v
      BY <1>1 DEF RewardInv, MoneyInv, InvitationsInv
<1>6. "claim" \in Reward!Kinds
      BY DEF Reward!Kinds
<1>7. QED BY <1>2, <1>3, <1>4, <1>5, <1>6 DEF Explained

-------------------------------------------------------------------------------
\* Sockets, sessions and clean-ups.

\* Not only who is authenticated: an open socket owns the session from its registration on.
OpenOwns ==
    \A s \in Sockets : Socket!Identified(s) /\ readyState[s] = "OPEN" => sessions[TokenOf[s]] = s

\* A socket authenticates once it is open.
OpenFirst == \A s \in Sockets : readyState[s] = "CONNECTING" => stage[s] = "UNKNOWN"

\* Who is queued, or is about to be, has a session or a clean-up coming, or is forgotten.
Attended ==
    \A u \in Players : queueEntry[u] = "QUEUED" \/ locked[u] = Socket!Joining =>
        sessions[u] # NoSocket \/ u \in forgotten \/ Socket!Pending(u)

SocketInv == Socket!TypeOK /\ Socket!SessionsAreAlive /\ OpenOwns /\ OpenFirst /\ Attended

LEMMA SocketInit == Socket!Init => SocketInv
<1> SUFFICES ASSUME Socket!Init PROVE SocketInv
    OBVIOUS
<1> USE SocketBounds
<1>1. Socket!TypeOK
      BY DEF Socket!Init, Socket!TypeOK, Socket!ReadyStates, Socket!Stages, Socket!CleanUps, Socket!Entries
<1>2. Socket!SessionsAreAlive /\ OpenOwns /\ OpenFirst
      BY DEF Socket!Init, Socket!SessionsAreAlive, OpenOwns, OpenFirst, Socket!Identified
<1>3. Attended
      BY DEF Socket!Init, Attended, Socket!Unlocked, Socket!Joining
<1>4. QED BY <1>1, <1>2, <1>3 DEF SocketInv

\* Closing a socket leaves fewer of them open, and closes none for good.
LEMMA ClosingTyped ==
    ASSUME Socket!TypeOK, NEW s \in Sockets
    PROVE  /\ Socket!Closing(s) \in [Sockets -> Socket!ReadyStates]
           /\ \A t \in Sockets : /\ Socket!Closing(s)[t] = "OPEN" => readyState[t] = "OPEN" /\ t # s
                                 /\ Socket!Closing(s)[t] = "CLOSED" => readyState[t] = "CLOSED"
                                 /\ Socket!Closing(s)[t] = "CONNECTING" => readyState[t] = "CONNECTING"
  BY DEF Socket!TypeOK, Socket!Closing, Socket!ReadyStates

\* A socket that opens or is being closed, while nothing else changes.
LEMMA HangKeeps ==
    ASSUME SocketInv, UNCHANGED <<stage, sessions, cleaning, locked, queueEntry, forgotten>>,
           readyState' \in [Sockets -> Socket!ReadyStates],
           \A t \in Sockets : /\ readyState'[t] = "OPEN" => readyState[t] = "OPEN" \/ stage[t] = "UNKNOWN"
                              /\ readyState'[t] = "CLOSED" => readyState[t] = "CLOSED"
                              /\ readyState'[t] = "CONNECTING" => readyState[t] = "CONNECTING"
    PROVE  SocketInv'
<1>1. Socket!TypeOK'
      BY DEF SocketInv, Socket!TypeOK
<1>2. Socket!SessionsAreAlive' /\ OpenOwns' /\ OpenFirst'
      BY DEF SocketInv, Socket!TypeOK, Socket!SessionsAreAlive, OpenOwns, OpenFirst, Socket!Identified
<1>3. Attended'
      BY DEF SocketInv, Attended, Socket!Pending, Socket!Joining
<1>4. QED BY <1>1, <1>2, <1>3 DEF SocketInv

\* The queue and the clean-ups leave sockets and sessions alone.
LEMMA HubStays ==
    ASSUME SocketInv, UNCHANGED <<readyState, stage, sessions>>, Socket!TypeOK', Attended'
    PROVE  SocketInv'
  BY DEF SocketInv, Socket!SessionsAreAlive, OpenOwns, OpenFirst, Socket!Identified

LEMMA SocketStep ==
    ASSUME SocketInv, [Socket!Next]_socketVars
    PROVE  SocketInv'
<1> USE SocketBounds
<1>t. /\ readyState \in [Sockets -> Socket!ReadyStates] /\ stage \in [Sockets -> Socket!Stages]
      /\ sessions \in [Players -> Sockets \cup {NoSocket}] /\ cleaning \subseteq Socket!CleanUps
      /\ locked \in [Players -> {Socket!Unlocked, Socket!Joining} \cup Socket!CleanUps]
      /\ queueEntry \in [Players -> Socket!Entries] /\ forgotten \subseteq Players
      BY DEF SocketInv, Socket!TypeOK
<1>d. Socket!Unlocked # Socket!Joining /\ \A c \in Socket!CleanUps : c # Socket!Joining
      BY DEF Socket!Unlocked, Socket!Joining, Socket!CleanUps
<1>c. \A c \in Socket!CleanUps : c[1] \in Sockets /\ TokenOf[c[1]] \in Players
      BY DEF Socket!CleanUps
<1>1. ASSUME NEW s \in Sockets, Socket!Open(s) PROVE SocketInv'
  <2>1. stage[s] = "UNKNOWN"
        BY <1>1 DEF SocketInv, OpenFirst, Socket!Open
  <2>2. /\ readyState' \in [Sockets -> Socket!ReadyStates]
        /\ \A t \in Sockets : /\ readyState'[t] = "OPEN" => readyState[t] = "OPEN" \/ stage[t] = "UNKNOWN"
                              /\ readyState'[t] = "CLOSED" => readyState[t] = "CLOSED"
                              /\ readyState'[t] = "CONNECTING" => readyState[t] = "CONNECTING"
        BY <1>1, <1>t, <2>1 DEF Socket!Open, Socket!ReadyStates
  <2>3. QED BY <1>1, <2>2, HangKeeps DEF Socket!Open, Socket!queueVars
<1>2. ASSUME NEW s \in Sockets, Socket!Hangs(s) PROVE SocketInv'
      BY <1>2, ClosingTyped, HangKeeps DEF SocketInv, Socket!Hangs, Socket!queueVars
<1>3. ASSUME NEW s \in Sockets, Socket!Close(s) PROVE SocketInv'
  <2> DEFINE u == TokenOf[s]
  <2>1. Socket!TypeOK'
        BY <1>3, <1>t DEF Socket!Close, Socket!Without, Socket!TypeOK, Socket!ReadyStates, Socket!CleanUps, Socket!queueVars
  <2>2. Socket!SessionsAreAlive' /\ OpenOwns' /\ OpenFirst'
        BY <1>3, <1>t DEF SocketInv, Socket!Close, Socket!Without, Socket!SessionsAreAlive, OpenOwns, OpenFirst, Socket!Identified, Socket!queueVars
  <2>3. Attended'
    <3> SUFFICES ASSUME NEW v \in Players, queueEntry[v] = "QUEUED" \/ locked[v] = Socket!Joining
                 PROVE  sessions'[v] # NoSocket \/ v \in forgotten \/ Socket!Pending(v)'
        BY <1>3 DEF Attended, Socket!Close, Socket!queueVars, Socket!Joining
    <3>1. CASE sessions'[v] = sessions[v]
          BY <1>3, <3>1 DEF SocketInv, Attended, Socket!Pending, Socket!Close
    <3>2. CASE sessions'[v] # sessions[v]
      <4>1. Socket!Identified(s) /\ sessions[u] = s /\ v = u
            BY <1>3, <1>t, <3>2 DEF Socket!Close, Socket!Without
      <4>2. <<s, "close">> \in cleaning' /\ <<s, "close">>[1] = s
            BY <1>3, <4>1 DEF Socket!Close
      <4>3. QED BY <4>1, <4>2 DEF Socket!Pending
    <3>3. QED BY <3>1, <3>2
  <2>4. QED BY <2>1, <2>2, <2>3 DEF SocketInv
<1>4. ASSUME NEW s \in Sockets, Socket!Authenticate(s) \/ Socket!Resume(s) PROVE SocketInv'
  <2>0. /\ stage' \in [Sockets -> Socket!Stages] /\ UNCHANGED <<readyState, sessions, cleaning, locked, queueEntry, forgotten>>
        /\ \A t \in Sockets : Socket!Identified(t)' <=> Socket!Identified(t)
        /\ \A t \in Sockets : readyState[t] = "CONNECTING" => stage'[t] = stage[t]
        BY <1>4, <1>t DEF Socket!Authenticate, Socket!Resume, Socket!Stays, Socket!Stages, Socket!Identified, Socket!queueVars
  <2>1. Socket!TypeOK'
        BY <2>0, <1>t DEF Socket!TypeOK
  <2>2. Socket!SessionsAreAlive' /\ OpenOwns' /\ OpenFirst'
        BY <1>t, <2>0 DEF SocketInv, Socket!SessionsAreAlive, OpenOwns, OpenFirst
  <2>3. Attended'
        BY <2>0 DEF SocketInv, Attended, Socket!Pending, Socket!Joining
  <2>4. QED BY <2>1, <2>2, <2>3 DEF SocketInv
<1>5. ASSUME NEW s \in Sockets, Socket!CheckFails(s) PROVE SocketInv'
  <2>1. Socket!TypeOK'
        BY <1>5, <1>t, ClosingTyped DEF SocketInv, Socket!CheckFails, Socket!Stays, Socket!TypeOK, Socket!Stages, Socket!queueVars
  <2>2. Socket!SessionsAreAlive' /\ OpenOwns' /\ OpenFirst'
        BY <1>5, <1>t, ClosingTyped DEF SocketInv, Socket!CheckFails, Socket!Stays, Socket!SessionsAreAlive, OpenOwns, OpenFirst, Socket!Identified
  <2>3. Attended'
        BY <1>5 DEF SocketInv, Attended, Socket!Pending, Socket!Joining, Socket!CheckFails, Socket!queueVars
  <2>4. QED BY <2>1, <2>2, <2>3 DEF SocketInv
<1>6. ASSUME NEW s \in Sockets, Socket!Register(s) PROVE SocketInv'
  <2> DEFINE u == TokenOf[s]
  <2>0. /\ readyState' \in [Sockets -> Socket!ReadyStates]
        /\ \A t \in Sockets : /\ readyState'[t] = "OPEN" => readyState[t] = "OPEN"
                              /\ readyState'[t] = "CLOSED" => readyState[t] = "CLOSED"
                              /\ readyState'[t] = "CONNECTING" => readyState[t] = "CONNECTING"
        /\ sessions[u] # NoSocket => readyState'[sessions[u]] # "OPEN"
        BY <1>6, <1>t, ClosingTyped DEF SocketInv, Socket!Register
  <2>1. Socket!TypeOK'
        BY <1>6, <1>t, <2>0 DEF Socket!Register, Socket!Stays, Socket!TypeOK, Socket!Stages
  <2>2. Socket!SessionsAreAlive'
        BY <1>6, <1>t, <2>0 DEF SocketInv, Socket!Register, Socket!Stays, Socket!SessionsAreAlive, Socket!Identified
  <2>3. OpenOwns' /\ OpenFirst'
        BY <1>6, <1>t, <2>0 DEF SocketInv, Socket!Register, Socket!Stays, OpenOwns, OpenFirst, Socket!Identified
  <2>4. Attended'
    <3>1. sessions'[u] # NoSocket /\ \A v \in Players \ {u} : sessions'[v] = sessions[v] /\ (v \in forgotten => v \in forgotten')
          BY <1>6, <1>t DEF Socket!Register
    <3>2. UNCHANGED <<cleaning, locked, queueEntry>>
          BY <1>6 DEF Socket!Register
    <3>3. QED BY <3>1, <3>2 DEF SocketInv, Attended, Socket!Pending, Socket!Joining
  <2>5. QED BY <2>1, <2>2, <2>3, <2>4 DEF SocketInv
<1>7. ASSUME NEW s \in Sockets, Socket!ResumeFails(s) PROVE SocketInv'
  <2> DEFINE u == TokenOf[s]
  <2>1. Socket!TypeOK'
        BY <1>7, <1>t, ClosingTyped DEF SocketInv, Socket!ResumeFails, Socket!Stays, Socket!Without, Socket!TypeOK, Socket!Stages, Socket!CleanUps, Socket!queueVars
  <2>2. Socket!SessionsAreAlive' /\ OpenOwns' /\ OpenFirst'
        BY <1>7, <1>t, ClosingTyped DEF SocketInv, Socket!ResumeFails, Socket!Stays, Socket!Without, Socket!SessionsAreAlive, OpenOwns, OpenFirst, Socket!Identified
  <2>3. Attended'
    <3> SUFFICES ASSUME NEW v \in Players, queueEntry[v] = "QUEUED" \/ locked[v] = Socket!Joining, sessions'[v] = NoSocket
                 PROVE  v \in forgotten \/ Socket!Pending(v)'
        BY <1>7 DEF Attended, Socket!ResumeFails, Socket!queueVars, Socket!Joining
    <3>1. CASE v = u
      <4>1. <<s, "failure">> \in cleaning' /\ <<s, "failure">>[1] = s
            BY <1>7, <3>1 DEF Socket!ResumeFails
      <4>2. QED BY <3>1, <4>1 DEF Socket!Pending
    <3>2. CASE v # u
      <4>1. sessions'[v] = sessions[v] /\ cleaning \subseteq cleaning'
            BY <1>7, <1>t, <3>2 DEF Socket!ResumeFails, Socket!Without
      <4>2. QED BY <4>1 DEF SocketInv, Attended, Socket!Pending
    <3>3. QED BY <3>1, <3>2
  <2>4. QED BY <2>1, <2>2, <2>3 DEF SocketInv
\* The queue and the clean-ups: what they hold, whom they take out, and which calls end.
<1>8. ASSUME NEW s \in Sockets, Socket!BeginJoin(s) PROVE SocketInv'
  <2>1. Socket!TypeOK'
        BY <1>8, <1>t DEF Socket!BeginJoin, Socket!Locks, Socket!hubVars, Socket!TypeOK
  <2>2. Attended'
        BY <1>8, <1>t DEF SocketInv, Socket!BeginJoin, Socket!Locks, Socket!hubVars, Attended, Socket!Pending, Socket!Joining
  <2>3. QED BY <1>8, <2>1, <2>2, HubStays DEF Socket!BeginJoin, Socket!hubVars
<1>9. ASSUME NEW u \in Players, Socket!EndJoin(u) \/ Socket!Leave(u) \/ Socket!Expire(u) \/ Socket!SeeConnected(u)
      PROVE  SocketInv'
  <2>0. /\ UNCHANGED <<readyState, stage, sessions, cleaning, forgotten>>
        /\ locked' \in [Players -> {Socket!Unlocked, Socket!Joining} \cup Socket!CleanUps]
        /\ queueEntry' \in [Players -> Socket!Entries]
        /\ \A v \in Players : queueEntry'[v] = "QUEUED" \/ locked'[v] = Socket!Joining
               => queueEntry[v] = "QUEUED" \/ locked[v] = Socket!Joining
    <3>1. CASE Socket!EndJoin(u)
          BY <1>t, <1>d, <3>1 DEF Socket!EndJoin, Socket!Goes, Socket!Locks, Socket!hubVars, Socket!Entries
    <3>2. CASE Socket!Leave(u) \/ Socket!Expire(u) \/ Socket!SeeConnected(u)
          BY <1>t, <3>2 DEF Socket!Leave, Socket!Expire, Socket!SeeConnected, Socket!Goes, Socket!hubVars, Socket!Entries, Socket!Joining
    <3>3. QED BY <1>9, <3>1, <3>2
  <2>1. Socket!TypeOK'
        BY <1>t, <2>0 DEF Socket!TypeOK
  <2>2. Attended'
        BY <2>0 DEF SocketInv, Attended, Socket!Pending, Socket!Joining
  <2>3. QED BY <2>0, <2>1, <2>2, HubStays
<1>15. ASSUME NEW u \in Players, Socket!PutBack(u) PROVE SocketInv'
  <2>0. /\ UNCHANGED <<readyState, stage, sessions, cleaning, locked>> /\ forgotten \subseteq forgotten'
        /\ queueEntry' \in [Players -> Socket!Entries] /\ forgotten' \subseteq Players
        /\ \A v \in Players \ {u} : queueEntry'[v] = queueEntry[v]
        /\ sessions[u] # NoSocket \/ u \in forgotten' \/ Socket!Pending(u)
        BY <1>15, <1>t DEF Socket!PutBack, Socket!Goes, Socket!hubVars, Socket!Entries
  <2>1. Socket!TypeOK'
        BY <1>t, <2>0 DEF Socket!TypeOK
  <2>2. Attended'
        BY <2>0 DEF SocketInv, Attended, Socket!Pending, Socket!Joining
  <2>3. QED BY <2>0, <2>1, <2>2, HubStays
<1>10. ASSUME NEW c \in cleaning, Socket!BeginCleanUp(c) PROVE SocketInv'
  <2> DEFINE u == TokenOf[c[1]]
  <2>0. c \in Socket!CleanUps /\ u \in Players
        BY <1>t, <1>c
  <2>1. Socket!TypeOK'
        BY <1>10, <1>t, <2>0 DEF Socket!BeginCleanUp, Socket!Locks, Socket!hubVars, Socket!TypeOK
  <2>2. Attended'
    <3> SUFFICES ASSUME NEW v \in Players, queueEntry[v] = "QUEUED" \/ locked'[v] = Socket!Joining
                 PROVE  sessions[v] # NoSocket \/ v \in forgotten \/ Socket!Pending(v)'
        BY <1>10 DEF Attended, Socket!BeginCleanUp, Socket!hubVars, Socket!Joining
    <3>1. queueEntry[v] = "QUEUED" \/ locked[v] = Socket!Joining
          BY <1>10, <1>t, <1>d, <2>0 DEF Socket!BeginCleanUp, Socket!Locks
    <3>2. cleaning' = cleaning \/ (cleaning' = cleaning \ {c} /\ sessions[u] # NoSocket)
          BY <1>10 DEF Socket!BeginCleanUp
    <3>3. QED BY <3>1, <3>2 DEF SocketInv, Attended, Socket!Pending
  <2>3. QED BY <1>10, <2>1, <2>2, HubStays DEF Socket!BeginCleanUp, Socket!hubVars
<1>11. ASSUME NEW c \in cleaning, Socket!EndCleanUp(c) \/ Socket!CleanUpFails(c) PROVE SocketInv'
  <2> DEFINE u == TokenOf[c[1]]
  <2>0. c \in Socket!CleanUps /\ u \in Players
        BY <1>t, <1>c
  <2>1. /\ UNCHANGED <<readyState, stage, sessions>> /\ cleaning' = cleaning \ {c}
        /\ locked' = [locked EXCEPT ![u] = Socket!Unlocked]
        /\ queueEntry' \in [Players -> Socket!Entries] /\ forgotten \subseteq forgotten' /\ forgotten' \subseteq Players
        /\ \A v \in Players : queueEntry'[v] = "QUEUED" => queueEntry[v] = "QUEUED"
        /\ queueEntry'[u] # "QUEUED" \/ sessions[u] # NoSocket \/ u \in forgotten'
        BY <1>11, <1>t, <2>0 DEF Socket!EndCleanUp, Socket!CleanUpFails, Socket!Locks, Socket!hubVars, Socket!Entries
  <2>2. Socket!TypeOK'
        BY <1>t, <2>1 DEF Socket!TypeOK
  <2>3. Attended'
    <3> SUFFICES ASSUME NEW v \in Players, queueEntry'[v] = "QUEUED" \/ locked'[v] = Socket!Joining
                 PROVE  sessions[v] # NoSocket \/ v \in forgotten' \/ Socket!Pending(v)'
        BY <2>1 DEF Attended, Socket!Joining
    <3>1. CASE v = u
          BY <1>t, <1>d, <2>0, <2>1, <3>1
    <3>2. CASE v # u
      <4>1. queueEntry[v] = "QUEUED" \/ locked[v] = Socket!Joining
            BY <1>t, <2>0, <2>1, <3>2
      <4>2. QED BY <2>1, <3>2, <4>1 DEF SocketInv, Attended, Socket!Pending
    <3>3. QED BY <3>1, <3>2
  <2>4. QED BY <2>1, <2>2, <2>3, HubStays
<1>12. ASSUME UNCHANGED socketVars PROVE SocketInv'
  <2>1. Socket!TypeOK' /\ Attended'
        BY <1>12 DEF SocketInv, socketVars, Socket!TypeOK, Attended, Socket!Pending, Socket!Joining
  <2>2. QED BY <1>12, <2>1, HubStays DEF socketVars
<1>13. ASSUME NEW s \in Sockets, Socket!HangUp(s) \/ Socket!Reject(s) PROVE Socket!Hangs(s)
       BY <1>13 DEF Socket!HangUp, Socket!Reject
<1>14. ASSUME NEW u \in Players, Socket!CloseStale(u) PROVE \E s \in Sockets : Socket!Hangs(s)
       BY <1>14, <1>t DEF Socket!CloseStale
<1>17. QED BY <1>1, <1>2, <1>3, <1>4, <1>5, <1>6, <1>7, <1>8, <1>9, <1>10, <1>11, <1>12, <1>13, <1>14, <1>15 DEF Socket!Next

\* What is seen of it.
LEMMA SocketsFollow == SocketInv => Socket!SessionsFollowSockets
<1> SUFFICES ASSUME SocketInv PROVE Socket!SessionsFollowSockets
    OBVIOUS
<1>1. Socket!AuthenticatedIsReached
      BY DEF SocketInv, OpenOwns, Socket!AuthenticatedIsReached, Socket!Identified
<1>2. Socket!QueuedIsCleanedUp
      BY DEF SocketInv, Socket!TypeOK, Attended, Socket!Pending, Socket!QueuedIsCleanedUp
<1>3. QED BY <1>1, <1>2 DEF SocketInv, Socket!SessionsFollowSockets

-------------------------------------------------------------------------------
\* The components in one.

\* A step of the platform is a step of one component, and a step of none of the others.
LEMMA PartSteps ==
    ASSUME [PlatformNext]_<<part, vars, rewardVars, pushVars, accountVars, voucherVars, uploadVars, identityVars, socketVars>>
    PROVE  /\ [Next]_vars
           /\ [Reward!Next]_rewardVars /\ [Push!Next]_pushVars /\ [Account!Next]_accountVars
           /\ [Voucher!Next]_voucherVars /\ [Upload!Next]_uploadVars /\ [Identity!Next]_identityVars
           /\ [Socket!Next]_socketVars
  BY DEF PlatformNext

\* The invariants of the components, together.
PlatformInv ==
    RewardInv /\ PushInv /\ AccountInv /\ VoucherInv /\ UploadInv /\ IdentityInv /\ SocketInv

THEOREM PlatformKeeps == PlatformSpec => []PlatformInv
<1>1. PlatformInit => PlatformInv
      BY RewardInit, PushInit, AccountInit, VoucherInit, UploadInit, IdentityInit, SocketInit DEF PlatformInit, PlatformInv
<1>2. PlatformInv /\ [PlatformNext]_<<part, vars, rewardVars, pushVars, accountVars, voucherVars, uploadVars, identityVars, socketVars>> => PlatformInv'
      BY PartSteps, RewardStep, PushStep, AccountStep, VoucherStep, UploadStep, IdentityStep, SocketStep DEF PlatformInv
<1>3. QED BY <1>1, <1>2, PTL DEF PlatformSpec

\* What holds of postbacks for themselves holds beside the other components.
LEMMA PostbacksAlone == PlatformSpec => Spec
<1>1. PlatformInit => Init
      BY DEF PlatformInit
<1>2. [PlatformNext]_<<part, vars, rewardVars, pushVars, accountVars, voucherVars, uploadVars, identityVars, socketVars>> => [Next]_vars
      BY PartSteps
<1>3. QED BY <1>1, <1>2, PTL DEF PlatformSpec, Spec

\* The types of every part, for every number of users, calls, pushes, images and faults.
THEOREM TypesAlwaysOK == PlatformSpec => []TypesOK
<1>1. TypeOK /\ HoldInv /\ PlatformInv => TypesOK
      BY DEF PlatformInv, RewardInv, PushInv, AccountInv, VoucherInv, UploadInv, IdentityInv, SocketInv, TypesOK
<1>2. QED BY <1>1, PostbacksAlone, TypeCorrect, PlatformKeeps, PTL

\* Coins of a postback agree with its row, beside the other components (CpxService).
THEOREM CoinsAlwaysMatchRow == PlatformSpec => []CoinsMatchRow
  BY PostbacksAlone, Invariant, PTL

\* However reviews of a submission, invitations and deletions interleave, what is approved
\* is paid once with the reward that was on it, an invitation pays each side once, and
\* every balance is the one its rows explain (review, applyReferral).
THEOREM RewardsAlwaysPaidOnce == PlatformSpec => []RewardsPaidOnce
<1>1. PlatformInv => RewardsPaidOnce
      BY RewardsArePaid DEF PlatformInv, RewardsPaidOnce
<1>2. QED BY <1>1, PlatformKeeps, PTL

\* Invitations of any number of users never wait for one another in a circle: each takes
\* its two rows in the order of their ids (applyReferral).
THEOREM ReferralsNeverDeadlock == PlatformSpec => []ReferralsDoNotDeadlock
<1>1. PlatformInv => ReferralsDoNotDeadlock
      BY OrderPreventsCycles DEF PlatformInv, RewardInv, ReferralsDoNotDeadlock
<1>2. QED BY <1>1, PlatformKeeps, PTL

\* Whatever is sent, recovered, cancelled or interrupted, and however often the process
\* restarts: no user has two inbox rows of a push, none has one of a push cancelled in
\* time, and a push no fault has touched is in every inbox before it is sent (recoverStuck).
THEOREM InboxAlwaysWrittenOnce == PlatformSpec => []InboxWrittenOnce
<1>1. PlatformInv => InboxWrittenOnce
      BY InboxesAreWritten DEF PlatformInv, InboxWrittenOnce
<1>2. QED BY <1>1, PlatformKeeps, PTL

\* A session has one live token, a code opens one session, and an account has one referral
\* code and every identity of its email (rotate, exchangeWebCode, upsertFirebaseUser).
THEOREM SessionsAndAccountsAlwaysSingle == PlatformSpec => []SessionsAndAccountsAreSingle
<1>1. PlatformInv => SessionsAndAccountsAreSingle
      BY SessionsHold, IdentitiesAreKept DEF PlatformInv, SessionsAndAccountsAreSingle
<1>2. QED BY <1>1, PlatformKeeps, PTL

\* A deactivated account keeps no session, and gets none of a call begun later
\* (updateUserStatus).
THEOREM InactiveNeverHasSession == PlatformSpec => []InactiveHasNoSession
<1>1. PlatformInv => InactiveHasNoSession
      BY SessionsHold DEF PlatformInv, InactiveHasNoSession
<1>2. QED BY <1>1, PlatformKeeps, PTL

\* However attempts overlap, the token the provider honours is the stored one or is on its
\* way to the file, until a rotation is cut off (persistTokenState).
THEOREM TokenAlwaysKept == PlatformSpec => []TokenIsKept
<1>1. PlatformInv => TokenIsKept
      BY DEF PlatformInv, VoucherInv, TokenIsKept
<1>2. QED BY <1>1, PlatformKeeps, PTL

\* Store and table agree on every image but those being written or deleted and those cut off
\* half-way, whatever order uploads, retirements and sweeps take (uploadImage, retire).
THEOREM RowsAlwaysMatchObjects == PlatformSpec => []RowsMatchObjects
<1>1. PlatformInv => RowsMatchObjects
      BY DEF PlatformInv, UploadInv, RowsMatchObjects
<1>2. QED BY <1>1, PlatformKeeps, PTL

\* However many sockets of a user open, authenticate, replace one another, fail and close, in
\* whatever order: a session is alive and of its user, who was told to be authenticated and has
\* an open socket is reached by it, and who is queued without a session has a clean-up coming,
\* unless it failed, or was over when a cancelled handshake put the user back (register,
\* unregister, the close handler, markDisconnected, cancelPreGameRoom).
THEOREM SessionsAlwaysFollowSockets == PlatformSpec => []SessionsFollowSockets
<1>1. PlatformInv => SessionsFollowSockets
      BY SocketsFollow DEF PlatformInv, SessionsFollowSockets
<1>2. QED BY <1>1, PlatformKeeps, PTL
===============================================================================
