---------------------------------- MODULE Platform ----------------------------------
(***************************************************************************)
(* The components around the games and the offers: CPX postbacks, claims and *)
(* missions with invitations, pushes, sign-in, the tokens of the voucher      *)
(* provider, uploads, and the sockets of the games.  They meet in wallets, which each credits under     *)
(* references of its own, and in the row of a user, whose sessions and whose  *)
(* invitations do not read one another; a behaviour of the platform is        *)
(* therefore given as a behaviour of one of them, chosen in the initial       *)
(* state, while the others rest in theirs.                                   *)
(***************************************************************************)
EXTENDS CpxPostbacks

CONSTANTS
    Members, Reviewers, Prizes, MaxCalls,                          \* Rewards
    Pushes, Recipients, Scheduler, MaxStamp, MaxTrouble,           \* PushDelivery
    Callers, MaxTokens, MaxCodes, MaxSwitches,                     \* Accounts
    Attempts, MaxRotations, MaxOutages,                            \* VoucherTokens
    Images, Proofs, Batch, MaxBreaks,                              \* Uploads
    Profiles, InvitedAs, ReferralCodes, Requests, MaxRows, MaxRequests,  \* Identities
    Sockets, Players, TokenOf, NoSocket                            \* LudoSockets

VARIABLES
    part,      \* the component that acts
    account, submission, offered, submitting, review, txn, lock, coins, paid, begunCalls,   \* Rewards
    log, asInbox, due, quiet, old, inbox, sent, run, found, sweeping, gone, broken, trouble,   \* PushDelivery
    user, token, made, codes, codesMade, opened, caller, revoking, epoch, standing,   \* Accounts
    granted, settings, tokenFile, attempt, lost, outages,   \* VoucherTokens
    object, asset, upload, expired, attaching, referred, retiring, todo, erased, cut, breaks,   \* Uploads
    known, accounts, request, shared, entered, requests,   \* Identities
    readyState, stage, sessions, cleaning, locked, queueEntry, forgotten   \* LudoSockets

Reward == INSTANCE Rewards WITH Users <- Members, Amounts <- Prizes, balance <- coins, ledger <- paid
Push == INSTANCE PushDelivery
Account == INSTANCE Accounts
Voucher == INSTANCE VoucherTokens
Upload == INSTANCE Uploads WITH submitting <- attaching
Identity == INSTANCE Identities WITH account <- known
Socket == INSTANCE LudoSockets

\* The numbers of every bound, and what keys tell: a user has a number, of which the
\* greatest is some user's; a proof is an image, and an identity of Firebase has one email.
ASSUME RewardBounds ==
    /\ Prizes \subseteq Nat /\ MaxCalls \in Nat
    /\ Members \subseteq Nat \ {Reward!NoUser} /\ \E m \in Members : \A u \in Members : u <= m
ASSUME PushBounds == Scheduler \notin Pushes /\ MaxTrouble \in Nat
ASSUME AccountBounds == MaxTokens \in Nat /\ MaxCodes \in Nat /\ MaxSwitches \in Nat
ASSUME VoucherBounds == MaxRotations \in Nat /\ MaxOutages \in Nat
ASSUME UploadBounds == Images \subseteq Nat \ {0} /\ Proofs \subseteq Images /\ MaxBreaks \in Nat
ASSUME IdentityBounds ==
    /\ Identity!None \notin ReferralCodes /\ MaxRows \in Nat \ {0} /\ MaxRequests \in Nat
    /\ \A p \in Profiles : p.uid # Identity!None /\ p.email # Identity!None
    /\ \A p, q \in Profiles : p.uid = q.uid => p.email = q.email
ASSUME SocketBounds == TokenOf \in [Sockets -> Players] /\ NoSocket \notin Sockets

rewardVars == <<account, submission, offered, submitting, review, txn, lock, coins, paid, begunCalls>>
pushVars == <<log, asInbox, due, quiet, old, inbox, sent, run, found, sweeping, gone, broken, trouble>>
accountVars == <<user, token, made, codes, codesMade, opened, caller, revoking, epoch, standing>>
voucherVars == <<granted, settings, tokenFile, attempt, lost, outages>>
uploadVars == <<object, asset, upload, expired, attaching, referred, retiring, todo, erased, cut, breaks>>
identityVars == <<known, accounts, request, shared, entered, requests>>
socketVars == <<readyState, stage, sessions, cleaning, locked, queueEntry, forgotten>>

PlatformInit ==
    /\ part \in {"cpx", "rewards", "push", "accounts", "vouchers", "uploads", "identities", "sockets"}
    /\ Init
    /\ Reward!Init /\ (part # "rewards" => offered = 0)
    /\ Push!Init /\ (part # "push" => asInbox = {})
    /\ Account!Init
    /\ Voucher!Init
    /\ Upload!Init
    /\ Identity!Init
    /\ Socket!Init

PlatformNext ==
    \/ /\ part = "cpx" /\ Next
       /\ UNCHANGED <<part, rewardVars, pushVars, accountVars, voucherVars, uploadVars, identityVars, socketVars>>
    \/ /\ part = "rewards" /\ Reward!Next
       /\ UNCHANGED <<part, vars, pushVars, accountVars, voucherVars, uploadVars, identityVars, socketVars>>
    \/ /\ part = "push" /\ Push!Next
       /\ UNCHANGED <<part, vars, rewardVars, accountVars, voucherVars, uploadVars, identityVars, socketVars>>
    \/ /\ part = "accounts" /\ Account!Next
       /\ UNCHANGED <<part, vars, rewardVars, pushVars, voucherVars, uploadVars, identityVars, socketVars>>
    \/ /\ part = "vouchers" /\ Voucher!Next
       /\ UNCHANGED <<part, vars, rewardVars, pushVars, accountVars, uploadVars, identityVars, socketVars>>
    \/ /\ part = "uploads" /\ Upload!Next
       /\ UNCHANGED <<part, vars, rewardVars, pushVars, accountVars, voucherVars, identityVars, socketVars>>
    \/ /\ part = "identities" /\ Identity!Next
       /\ UNCHANGED <<part, vars, rewardVars, pushVars, accountVars, voucherVars, uploadVars, socketVars>>
    \/ /\ part = "sockets" /\ Socket!Next
       /\ UNCHANGED <<part, vars, rewardVars, pushVars, accountVars, voucherVars, uploadVars, identityVars>>

\* The fairness of the parts that have some: what their own modules state.
PlatformFairness ==
    /\ \A c \in Calls : WF_vars(part = "cpx" /\ Call(c))
    /\ \A w \in Pushes \cup {Scheduler} : WF_pushVars(part = "push" /\ Push!Dispatch(w))
    /\ WF_pushVars(part = "push" /\ Push!Sweep)
    /\ \A p \in Pushes : WF_pushVars(part = "push" /\ Push!Clock(p))
    /\ WF_uploadVars(part = "uploads" /\ Upload!Sweep)
    /\ WF_uploadVars(part = "uploads" /\ Upload!SweepErase)
    /\ WF_uploadVars(part = "uploads" /\ Upload!SweepAsset)

PlatformSpec ==
    /\ PlatformInit
    /\ [][PlatformNext]_<<part, vars, rewardVars, pushVars, accountVars, voucherVars, uploadVars, identityVars, socketVars>>
    /\ PlatformFairness

\* The types of every part.
TypesOK ==
    /\ TypeOK /\ Reward!TypeOK /\ Push!TypeOK /\ Account!TypeOK /\ Voucher!TypeOK
    /\ Upload!TypeOK /\ Identity!TypeOK /\ Socket!TypeOK

\* Every postback is answered although inserts wait for one another (CpxService).
PostbacksAnswered == part = "cpx" => EveryCallAnswered

\* Approvals and invitations are paid exactly once (review, applyReferral).
RewardsPaidOnce == Reward!RewardsPaidOnce

\* Invitations alone never wait for one another in a circle (applyReferral).
ReferralsDoNotDeadlock == Reward!ReferralsDoNotDeadlock

\* No inbox row is written twice, nor for a push cancelled in time (recoverStuck).
InboxWrittenOnce == Push!InboxWrittenOnce

\* Every push that was taken up is settled (deliverDue, recoverStuck).
EveryPushSettles == Push!EveryPushSettles

\* A session has one live token, a code opens one session (rotate, exchangeWebCode), and
\* an account has one referral code and all identities of its email (upsertFirebaseUser).
SessionsAndAccountsAreSingle == Account!SessionsAreSingle /\ Identity!IdentitiesKeepAccounts

\* A deactivated account keeps no session, nor gets one of a call begun later (updateUserStatus).
InactiveHasNoSession == Account!InactiveHasNoSession

\* The token the provider honours is kept (persistTokenState).
TokenIsKept == Voucher!TokenIsKept

\* Images and their rows agree (uploadImage, retire).
RowsMatchObjects == Upload!RowsMatchObjects

\* Proofs past the retention are retired in the end (retireExpiredProofs).
ExpiredProofsRetire == Upload!ExpiredProofsRetire

\* Whatever sockets of a user open, fail and close: a session is alive, an authenticated user
\* with an open socket is reached, and who is queued without one is cleaned up behind
\* (register, unregister, markDisconnected).
SessionsFollowSockets == Socket!SessionsFollowSockets
===============================================================================
