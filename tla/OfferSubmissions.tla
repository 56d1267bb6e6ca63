---------------------------- MODULE OfferSubmissions ----------------------------
(***************************************************************************)
(* Proof-of-completion submissions for offers and their review             *)
(* (hot-offers.service.ts, hot-offers.repository.ts).                      *)
(*                                                                         *)
(* A slot is the one row an (offer, user) pair can have.  submitProof is a *)
(* chain of separate statements with the download of every screenshot in   *)
(* the middle, and an approval counts the approved rows before its own     *)
(* transaction, so both are processes; the other operations are one        *)
(* guarded update each, whose WHERE repeats what they read beforehand.     *)
(***************************************************************************)
EXTENDS Integers, Sequences, FiniteSets

CONSTANTS
    Slots, Offers,
    Offer,            \* Offer[s]: the offer slot s is for
    Calls,            \* calls of submitProof
    Slot,             \* Slot[c]: the row call c writes
    Shots,            \* Shots[c]: the hashes of its screenshots
    Admins,
    Coins,            \* rewards an offer may pay
    MaxUsers, MaxRewards, DailyLimit,   \* the caps of every offer
    AllowResubmit,    \* the setting submission.allowResubmitAfterReject
    RejectDuplicates, \* the setting fraud.rejectDuplicateImages
    Overlapping,      \* the slots whose user may have two calls in flight
    NoSlot,           \* a reviewer with no approval in flight
    MaxReopens        \* bound: reopenings of one slot

ASSUME ConstantsAssumption ==
    /\ Offer \in [Slots -> Offers]
    /\ Slot \in [Calls -> Slots]
    /\ Coins \subseteq Nat
    /\ {MaxUsers, MaxRewards, DailyLimit, MaxReopens} \subseteq Nat
    /\ {AllowResubmit, RejectDuplicates} \subseteq BOOLEAN
    /\ Overlapping \subseteq Slots
    /\ NoSlot \notin Slots
    /\ IsFiniteSet(Slots) /\ IsFiniteSet(Admins)
    /\ \A c \in Calls : IsFiniteSet(Shots[c])

VARIABLES
    status, reward,   \* offer_submissions: its status, its snapshot of the reward
    images, today,    \* submission_images: the calls whose images are stored, and since midnight
    price,            \* offers.rewardAmount
    credited,         \* credited[s]: amounts of the ledger rows "offer-submission:<s>"
    step,             \* progress of each call of submitProof
    found,            \* whether the call found a row for its slot
    quote,            \* the reward the call read from the offer
    reviewing,        \* the slot an admin has counted the cap for and is about to approve
    submits, reopens  \* history: times a slot was submitted, and reopened

rowVars == <<status, reward, images, today>>
callVars == <<step, found, quote>>
historyVars == <<submits, reopens>>
vars == <<rowVars, price, credited, callVars, reviewing, historyVars>>

Statuses == {"NONE", "PENDING", "APPROVED", "REJECTED", "NEED_MORE_PROOF", "CANCELLED"}
Steps == {"idle", "gated", "capped", "hashed", "written", "over"}
InFlight(c) == step[c] \notin {"idle", "over"}

Init ==
    /\ status = [s \in Slots |-> "NONE"]
    /\ reward = [s \in Slots |-> 0]
    /\ images = {}
    /\ today = {}
    /\ price \in [Offers -> Coins]
    /\ credited = [s \in Slots |-> <<>>]
    /\ step = [c \in Calls |-> "idle"]
    /\ found = [c \in Calls |-> FALSE]
    /\ quote = [c \in Calls |-> 0]
    /\ reviewing = [a \in Admins |-> NoSlot]
    /\ submits = [s \in Slots |-> 0]
    /\ reopens = [s \in Slots |-> 0]

-------------------------------------------------------------------------------
\* submitProof

Advance(c, next) == step' = [step EXCEPT ![c] = next]

\* A mutant of MaySubmit: a rewarded row.
MaySubmitRewarded(s) == status[s] # "PENDING" /\ (status[s] = "REJECTED" => AllowResubmit)

\* The gate on the row found: nothing under review, nothing rewarded.
MaySubmit(s) ==
    /\ status[s] \notin {"PENDING", "APPROVED"}
    /\ status[s] = "REJECTED" => AllowResubmit

\* The offer and the user's row are read and gated.  The offer contributes only
\* the reward, a snapshot whenever it is read.
Gate(c) ==
    /\ step[c] = "idle"
    /\ Slot[c] \in Overlapping \/ \A d \in Calls : Slot[d] = Slot[c] => ~InFlight(d)
    /\ MaySubmit(Slot[c])
    /\ Advance(c, "gated")
    /\ found' = [found EXCEPT ![c] = status[Slot[c]] # "NONE"]
    /\ quote' = [quote EXCEPT ![c] = price[Offer[Slot[c]]]]
    /\ UNCHANGED <<rowVars, price, credited, reviewing, historyVars>>

Participants(o) == {s \in Slots : Offer[s] = o /\ status[s] \notin {"NONE", "CANCELLED"}}

\* The images that some of the calls stored for row s.
ShotsOf(calls, s) == UNION {{c} \X Shots[c] : c \in {d \in calls : Slot[d] = s}}

\* A mutant of WithinCaps: the screenshots of this call are not counted.
WithinCapsBefore(c) ==
    /\ found[c] \/ Cardinality(Participants(Offer[Slot[c]])) < MaxUsers
    /\ Cardinality(ShotsOf(today, Slot[c])) <= DailyLimit

\* maxUsers for a user with no row yet, dailyLimit over today's images.
WithinCaps(c) ==
    /\ found[c] \/ Cardinality(Participants(Offer[Slot[c]])) < MaxUsers
    /\ Cardinality(ShotsOf(today, Slot[c])) + Cardinality(Shots[c]) <= DailyLimit

CheckCaps(c) ==
    /\ step[c] = "gated"
    /\ WithinCaps(c)
    /\ Advance(c, "capped")
    /\ UNCHANGED <<rowVars, price, credited, found, quote, reviewing, historyVars>>

\* findDuplicateImage: the hash is stored for an active submission, the
\* caller's own row excepted if it had one.
IsReused(c) ==
    \E d \in images :
        /\ Shots[d] \cap Shots[c] # {}
        /\ status[Slot[d]] \in {"PENDING", "APPROVED"}
        /\ found[c] => Slot[d] # Slot[c]

\* Every screenshot has been downloaded and hashed; none is a reused one, where
\* that matters.
CheckImages(c) ==
    /\ step[c] = "capped"
    /\ RejectDuplicates => ~IsReused(c)
    /\ Advance(c, "hashed")
    /\ UNCHANGED <<rowVars, price, credited, found, quote, reviewing, historyVars>>

WriteRow(c) ==
    /\ status' = [status EXCEPT ![Slot[c]] = "PENDING"]
    /\ reward' = [reward EXCEPT ![Slot[c]] = quote[c]]
    /\ submits' = [submits EXCEPT ![Slot[c]] = @ + 1]
    /\ UNCHANGED <<images, today, reopens>>

\* resubmit: an update by id, with no condition on the status it replaces.
Resubmit(c) ==
    /\ step[c] = "hashed"
    /\ found[c]
    /\ WriteRow(c)
    /\ Advance(c, "written")
    /\ UNCHANGED <<price, credited, found, quote, reviewing>>

\* createSubmission: the unique key (offer, user) refuses a second row.
CreateSubmission(c) ==
    /\ step[c] = "hashed"
    /\ ~found[c]
    /\ status[Slot[c]] = "NONE"
    /\ WriteRow(c)
    /\ Advance(c, "written")
    /\ UNCHANGED <<price, credited, found, quote, reviewing>>

\* createSubmissionImages, a statement of its own.
StoreImages(c) ==
    /\ step[c] = "written"
    /\ images' = images \cup {c}
    /\ today' = today \cup {c}
    /\ Advance(c, "over")
    /\ UNCHANGED <<status, reward, price, credited, found, quote, reviewing, historyVars>>

\* A check refuses the call, a statement throws, a download times out or the
\* process dies: what was written before stays.
StopSubmit(c) ==
    /\ InFlight(c)
    /\ Advance(c, "over")
    /\ UNCHANGED <<rowVars, price, credited, found, quote, reviewing, historyVars>>

-------------------------------------------------------------------------------
\* The user's cancellation and the admins' reviews

SetStatus(s, next) == status' = [status EXCEPT ![s] = next]

\* cancelSubmission.
Cancel(s) ==
    /\ status[s] = "PENDING"
    /\ SetStatus(s, "CANCELLED")
    /\ UNCHANGED <<reward, images, today, price, credited, callVars, reviewing, historyVars>>

Approved(o) == {s \in Slots : Offer[s] = o /\ status[s] = "APPROVED"}

UnderRewardCap(s) == Cardinality(Approved(Offer[s])) < MaxRewards

\* reviewSubmission(APPROVE), up to the count of approved rows.
BeginApprove(a, s) ==
    /\ reviewing[a] = NoSlot
    /\ status[s] = "PENDING"
    /\ UnderRewardCap(s)
    /\ reviewing' = [reviewing EXCEPT ![a] = s]
    /\ UNCHANGED <<rowVars, price, credited, callVars, historyVars>>

\* Mutants of Payout: the offer's reward of today, and that on top of the quoted
\* one.
PayoutOfToday(s) == price[Offer[s]]
PayoutOfBoth(s) == reward[s] + price[Offer[s]]

CanApprove(s) == status[s] = "PENDING"
Payout(s) == reward[s]

\* approveSubmission: mark and credit in one transaction.
CommitApprove(a, s) ==
    /\ reviewing[a] = s
    /\ CanApprove(s)
    /\ SetStatus(s, "APPROVED")
    /\ credited' = [credited EXCEPT ![s] = Append(@, Payout(s))]
    /\ reviewing' = [reviewing EXCEPT ![a] = NoSlot]
    /\ UNCHANGED <<reward, images, today, price, callVars, historyVars>>

\* The row was reviewed or cancelled meanwhile, or the process died.
AbandonApprove(a) ==
    /\ reviewing[a] # NoSlot
    /\ reviewing' = [reviewing EXCEPT ![a] = NoSlot]
    /\ UNCHANGED <<rowVars, price, credited, callVars, historyVars>>

\* setReviewOutcome.
SetOutcome(s, outcome) ==
    /\ status[s] = "PENDING"
    /\ SetStatus(s, outcome)
    /\ UNCHANGED <<reward, images, today, price, credited, callVars, reviewing, historyVars>>

Reopened == "CANCELLED"
CanReopen(s) == status[s] \in {"APPROVED", "REJECTED", "NEED_MORE_PROOF"}

\* reopenSubmission: the user may take part again; coins credited stay.
Reopen(s) ==
    /\ CanReopen(s)
    /\ reopens[s] < MaxReopens
    /\ SetStatus(s, Reopened)
    /\ reopens' = [reopens EXCEPT ![s] = @ + 1]
    /\ UNCHANGED <<reward, images, today, price, credited, callVars, reviewing, submits>>

\* updateOffer changes the reward.
EditOffer(o, c) ==
    /\ price' = [price EXCEPT ![o] = c]
    /\ UNCHANGED <<rowVars, credited, callVars, reviewing, historyVars>>

\* Midnight.
NewDay ==
    /\ today' = {}
    /\ UNCHANGED <<status, reward, images, price, credited, callVars, reviewing, historyVars>>

-------------------------------------------------------------------------------

SubmitStep(c) ==
    \/ Gate(c)
    \/ CheckCaps(c)
    \/ CheckImages(c)
    \/ Resubmit(c)
    \/ CreateSubmission(c)
    \/ StoreImages(c)
    \/ StopSubmit(c)

RowStep(s) ==
    \/ Cancel(s)
    \/ \E outcome \in {"REJECTED", "NEED_MORE_PROOF"} : SetOutcome(s, outcome)
    \/ Reopen(s)
    \/ \E a \in Admins : BeginApprove(a, s) \/ CommitApprove(a, s)

Next ==
    \/ \E c \in Calls : SubmitStep(c)
    \/ \E s \in Slots : RowStep(s)
    \/ \E a \in Admins : AbandonApprove(a)
    \/ \E o \in Offers, c \in Coins : EditOffer(o, c)
    \/ NewDay

Spec == Init /\ [][Next]_vars

-------------------------------------------------------------------------------
\* Properties

TypeOK ==
    /\ status \in [Slots -> Statuses]
    /\ reward \in [Slots -> Coins \cup {0}]
    /\ today \subseteq images /\ images \subseteq Calls
    /\ price \in [Offers -> Coins]
    /\ credited \in [Slots -> Seq(Coins \cup {0})]
    /\ step \in [Calls -> Steps]
    /\ found \in [Calls -> BOOLEAN]
    /\ quote \in [Calls -> Coins \cup {0}]
    /\ reviewing \in [Admins -> Slots \cup {NoSlot}]
    /\ submits \in [Slots -> Nat]
    /\ reopens \in [Slots -> 0..MaxReopens]

\* However reviewers, users and resubmissions interleave, one submission is
\* paid at most once: every credit has a submission of its own, and a pending
\* row is one not paid yet (the WHERE of approveSubmission).
OneCreditPerSubmission ==
    \A s \in Slots : Len(credited[s]) + (IF status[s] = "PENDING" THEN 1 ELSE 0) <= submits[s]

Once(s) == Len(credited[s]) <= 1 + reopens[s]

\* A user is rewarded once for an offer, and once more for each time an admin
\* reopened it (the gate "You have already been rewarded for this offer").
RewardedOnce == \A s \in Slots : Once(s)

\* ... which the code achieves for a user who submits one proof at a time.
RewardedOnceInTurn == \A s \in Slots \ Overlapping : Once(s)

\* What is credited is the reward some call of the user read when submitting,
\* whatever an admin made of the offer since: never a reward no call was quoted.
CreditedAsQuoted ==
    \A s \in Slots : \A k \in 1..Len(credited[s]) :
        \E c \in Calls : Slot[c] = s /\ step[c] \in {"written", "over"} /\ quote[c] = credited[s][k]

\* "per-user submissions per day": the images such a user stores in a day.
WithinDailyLimit ==
    \A s \in Slots \ Overlapping : Cardinality(ShotsOf(today, s)) <= DailyLimit

\* "cap on approved rewards", with one admin approving at a time.
WithinRewardCap ==
    Cardinality(Admins) = 1 => \A o \in Offers : Cardinality(Approved(o)) <= MaxRewards
===============================================================================
