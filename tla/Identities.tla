-------------------------------- MODULE Identities --------------------------------
(***************************************************************************)
(* Which row of users an identity checked by Firebase signs in to, and the    *)
(* referral code of that row (users.repository.ts: upsertFirebaseUser,       *)
(* ensureReferralCode; users.service.ts: getReferralStats).                  *)
(*                                                                         *)
(* Every query is a step of its own.  The columns email, firebaseUid and     *)
(* referralCode are unique in the table: a write that would repeat a value   *)
(* fails.  A code that is taken is drawn again until it is free, which is     *)
(* one step here.                                                            *)
(***************************************************************************)
EXTENDS Naturals

CONSTANTS
    Profiles,       \* identities: [uid, email]; Firebase has verified one email for each uid
    InvitedAs,      \* the email of a row that was made before its user signed in
    ReferralCodes,
    Requests,       \* calls under way
    MaxRows,        \* bound: rows made
    MaxRequests     \* bound: calls begun

Rows == 1..MaxRows
None == 0           \* null, or no row
Emails == {p.email : p \in Profiles}

VARIABLES
    account,        \* users: email, uid, code; no email for a row that is not there
    accounts,       \* rows made so far
    request,
    shared,         \* ghost: the codes each row's user has been shown
    entered,        \* ghost: the rows each email has signed in to
    requests

vars == <<account, accounts, request, shared, entered, requests>>

NoAccount == [email |-> None, uid |-> None, code |-> None]
NoRequest == [does |-> "idle", profile |-> NoAccount, row |-> None]
IsThere(r) == account[r].email # None

\* One row was made by an invitation or before codes: neither identity nor code.
Init ==
    /\ account = [r \in Rows |-> IF r = 1 THEN [NoAccount EXCEPT !.email = InvitedAs] ELSE NoAccount]
    /\ accounts = 1
    /\ request = [c \in Requests |-> NoRequest]
    /\ shared = [r \in Rows |-> {}]
    /\ entered = [e \in Emails |-> {}]
    /\ requests = 0

Goes(c, step, r) == request' = [request EXCEPT ![c].does = step, ![c].row = r]
End(c) == request' = [request EXCEPT ![c] = NoRequest]
\* The caller has its answer: the row, for a sign-in, with the code it has.
Answer(c, r, code) ==
    /\ End(c)
    /\ shared' = [shared EXCEPT ![r] = IF code = None THEN shared[r] ELSE shared[r] \cup {code}]
    /\ LET e == request[c].profile.email
       IN  entered' = IF e = None THEN entered ELSE [entered EXCEPT ![e] = entered[e] \cup {r}]
FreeCodes == ReferralCodes \ {account[r].code : r \in Rows}

BeginSignIn(c, p) ==
    /\ request[c] = NoRequest /\ requests < MaxRequests
    /\ requests' = requests + 1
    /\ request' = [request EXCEPT ![c] = [does |-> "find", profile |-> p, row |-> None]]
    /\ UNCHANGED <<account, accounts, shared, entered>>

\* Any row with the identity or with its email.
Matches(p) == {r \in Rows : IsThere(r) /\ (account[r].uid = p.uid \/ account[r].email = p.email)}

Find(c) ==
    LET found == Matches(request[c].profile)
    IN  /\ request[c].does = "find"
        /\ IF found = {} THEN Goes(c, "create", None)
           ELSE \E r \in found : Goes(c, "link", r)
        /\ UNCHANGED <<account, accounts, shared, entered, requests>>

\* Of two first sign-ins one makes the row; the other fails.
Create(c) ==
    LET p == request[c].profile
    IN  /\ request[c].does = "create"
        /\ IF Matches(p) # {}
           THEN End(c) /\ UNCHANGED <<account, accounts, shared, entered>>
           ELSE /\ accounts < MaxRows
                /\ accounts' = accounts + 1
                /\ \E code \in FreeCodes :
                    /\ account' = [account EXCEPT ![accounts + 1] = [email |-> p.email, uid |-> p.uid, code |-> code]]
                    /\ Answer(c, accounts + 1, code)
        /\ UNCHANGED requests

\* The row takes the identity, unless it is gone or another row has the identity; a
\* row without a code gets one next.
Link(c) ==
    LET r == request[c].row  p == request[c].profile
    IN  /\ request[c].does = "link"
        /\ IF ~IsThere(r) \/ \E q \in Rows \ {r} : account[q].uid = p.uid
           THEN End(c) /\ UNCHANGED <<account, shared, entered>>
           ELSE /\ account' = [account EXCEPT ![r].uid = p.uid]
                /\ IF account[r].code = None
                   THEN Goes(c, "code", r) /\ UNCHANGED <<shared, entered>>
                   ELSE Answer(c, r, account[r].code)
        /\ UNCHANGED <<accounts, requests>>

\* getReferralStats, for a user who is signed in: the row is read first.
AskReferralStats(c, r) ==
    /\ request[c] = NoRequest /\ requests < MaxRequests
    /\ IsThere(r) /\ account[r].uid # None
    /\ requests' = requests + 1
    /\ IF account[r].code = None
       THEN Goes(c, "code", r) /\ UNCHANGED <<shared, entered>>
       ELSE Answer(c, r, account[r].code)
    /\ UNCHANGED <<account, accounts>>

MayWriteCode(r) == IsThere(r) /\ account[r].code = None

\* ensureReferralCode: a code, if there is still none.
WriteCode(c) ==
    LET r == request[c].row
    IN  /\ request[c].does = "code"
        /\ \/ /\ MayWriteCode(r)
              /\ \E code \in FreeCodes : account' = [account EXCEPT ![r].code = code]
           \/ ~MayWriteCode(r) /\ UNCHANGED account
        /\ Goes(c, "reread", r)
        /\ UNCHANGED <<accounts, shared, entered, requests>>

\* "Return the stored code": it may be another request's.
Reread(c) ==
    LET r == request[c].row
    IN  /\ request[c].does = "reread"
        /\ IF IsThere(r) THEN Answer(c, r, account[r].code) ELSE End(c) /\ UNCHANGED <<shared, entered>>
        /\ UNCHANGED <<account, accounts, requests>>

\* deleteAccount: the email, the identity and the code are free again.
Delete(r) ==
    /\ IsThere(r) /\ account[r].uid # None
    /\ account' = [account EXCEPT ![r] = NoAccount]
    /\ shared' = [shared EXCEPT ![r] = {}]
    /\ entered' = [e \in Emails |-> entered[e] \ {r}]
    /\ UNCHANGED <<accounts, request, requests>>

Next ==
    \/ \E c \in Requests :
        \/ \E p \in Profiles : BeginSignIn(c, p)
        \/ \E r \in Rows : AskReferralStats(c, r)
        \/ Find(c) \/ Create(c) \/ Link(c) \/ WriteCode(c) \/ Reread(c)
    \/ \E r \in Rows : Delete(r)

Spec == Init /\ [][Next]_vars

-------------------------------------------------------------------------------
TypeOK ==
    /\ account \in [Rows -> [email : Emails \cup {None, InvitedAs}, uid : {p.uid : p \in Profiles} \cup {None},
                             code : ReferralCodes \cup {None}]]
    /\ accounts \in Rows
    /\ \A c \in Requests : request[c].does \in {"idle", "find", "create", "link", "code", "reread"}
                           /\ request[c].row \in Rows \cup {None}
    /\ shared \in [Rows -> SUBSET ReferralCodes]
    /\ entered \in [Emails -> SUBSET Rows]
    /\ requests \in 0..MaxRequests

\* A referral code that a user has been shown stays that user's and nobody else's: not
\* "replacing a code another user has already copied or shared" (ensureReferralCode).
\* All identities of one email sign in to one account (upsertFirebaseUser).
IdentitiesKeepAccounts ==
    /\ \A r \in Rows : shared[r] \subseteq {account[r].code}
    /\ \A q, r \in Rows : q # r => shared[q] \cap shared[r] = {}
    /\ \A e \in Emails : \A q, r \in entered[e] : q = r
===============================================================================
