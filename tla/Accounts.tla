--------------------------------- MODULE Accounts ---------------------------------
(***************************************************************************)
(* The sessions of one account (auth.service.ts, refresh-token.repository.ts): *)
(* sign-in, rotating refresh tokens, web sessions and the one-time codes for  *)
(* them, logout, deactivation by an admin and deletion by its owner.         *)
(*                                                                         *)
(* Every call reads first and writes later.  Access tokens are not modelled: *)
(* whoever has held a session may call until they run out.                   *)
(***************************************************************************)
EXTENDS Naturals, FiniteSets

CONSTANTS
    Callers,       \* calls that run at a time
    MaxTokens,     \* bound: refresh tokens made
    MaxCodes,      \* bound: codes made
    MaxSwitches    \* bound: deactivations

Tokens == 1..MaxTokens
Codes == 1..MaxCodes
NoToken == 0

VARIABLES
    user,        \* users: exists, isActive
    token,       \* refresh_tokens
    made,        \* tokens made so far
    codes,       \* webCodes, in memory
    codesMade,
    opened,      \* ghost: for each code the sessions it has opened
    caller,      \* what each call is doing
    revoking,    \* deactivations that have still to revoke the sessions
    epoch,       \* ghost: deactivations so far
    standing     \* ghost: tokens made before the last of them

tokenVars == <<token, made>>
codeVars == <<codes, codesMade, opened>>
adminVars == <<revoking, epoch, standing>>
vars == <<user, tokenVars, codeVars, caller, adminVars>>

Idle == [does |-> "idle", token |-> NoToken, code |-> NoToken, epoch |-> 0]

\* A refresh token: live, or dead once revoked or expired, the session it continues,
\* and the epoch in which the call that made it had read the account.
Unmade == [state |-> "none", session |-> NoToken, epoch |-> 0]

Init ==
    /\ user = [exists |-> TRUE, active |-> TRUE]
    /\ token = [t \in Tokens |-> Unmade]
    /\ made = 0
    /\ codes = {} /\ codesMade = 0
    /\ opened = [k \in Codes |-> 0]
    /\ caller = [c \in Callers |-> Idle]
    /\ revoking = 0
    /\ epoch = 0
    /\ standing = 0

Dead(t) == [token[t] EXCEPT !.state = "dead", !.epoch = 0]

Does(c, what) == caller[c].does = what
End(c) == caller' = [caller EXCEPT ![c] = Idle]
Known == made > 0      \* somebody has held a session

\* The account, read with the active flag, permits a session.
MayIssue == user.exists /\ user.active

\* prepareTokens and the insert.
Make(session, readIn) ==
    /\ made < MaxTokens
    /\ made' = made + 1
    /\ token' = [token EXCEPT ![made + 1] = [state |-> "live", epoch |-> readIn,
                    session |-> IF session = NoToken THEN made + 1 ELSE session]]

-------------------------------------------------------------------------------
\* Sign-in, web sessions, codes

\* Firebase has checked the identity; an unknown one is linked by its email.
SignIn(c) ==
    /\ Does(c, "idle")
    /\ MayIssue
    /\ caller' = [caller EXCEPT ![c] = [Idle EXCEPT !.does = "issue", !.epoch = epoch]]
    /\ UNCHANGED <<user, tokenVars, codeVars, adminVars>>

CreateWebSession(c) ==
    /\ Does(c, "idle") /\ Known
    /\ MayIssue
    /\ caller' = [caller EXCEPT ![c] = [Idle EXCEPT !.does = "issue", !.epoch = epoch]]
    /\ UNCHANGED <<user, tokenVars, codeVars, adminVars>>

\* The insert of a token fails when the account is gone.
Issue(c) ==
    /\ Does(c, "issue")
    /\ IF user.exists
       THEN /\ Make(NoToken, caller[c].epoch)
            /\ opened' = IF caller[c].code = NoToken THEN opened
                         ELSE [opened EXCEPT ![caller[c].code] = @ + 1]
       ELSE UNCHANGED <<tokenVars, opened>>
    /\ End(c)
    /\ UNCHANGED <<user, codes, codesMade, adminVars>>

\* createWebCode asks nothing of the account.
CreateWebCode ==
    /\ Known /\ codesMade < MaxCodes
    /\ codesMade' = codesMade + 1
    /\ codes' = codes \cup {codesMade + 1}
    /\ UNCHANGED <<user, tokenVars, opened, caller, adminVars>>

CodeExpires(k) ==
    /\ k \in codes
    /\ codes' = codes \ {k}
    /\ UNCHANGED <<user, tokenVars, codesMade, opened, caller, adminVars>>

\* Read and deleted in one go, before the account is read.
TakeCode(k) == k \in codes /\ codes' = codes \ {k}

ExchangeWebCode(c, k) ==
    /\ Does(c, "idle")
    /\ TakeCode(k)
    /\ caller' = [caller EXCEPT ![c] = [Idle EXCEPT !.does = "code", !.code = k]]
    /\ UNCHANGED <<user, tokenVars, codesMade, opened, adminVars>>

\* A mutant of CodeAccepted: any account that is there.
CodeAcceptedInactive == user.exists

CodeAccepted == MayIssue

ReadForCode(c) ==
    /\ Does(c, "code")
    /\ caller' = [caller EXCEPT ![c] = IF CodeAccepted THEN [caller[c] EXCEPT !.does = "issue", !.epoch = epoch] ELSE Idle]
    /\ UNCHANGED <<user, tokenVars, codeVars, adminVars>>

-------------------------------------------------------------------------------
\* Refresh and logout

\* Token and account are read together; a live token of an active account goes on.
Refresh(c, t) ==
    /\ Does(c, "idle")
    /\ token[t].state = "live" /\ MayIssue
    /\ caller' = [caller EXCEPT ![c] = [Idle EXCEPT !.does = "rotate", !.token = t, !.epoch = epoch]]
    /\ UNCHANGED <<user, tokenVars, codeVars, adminVars>>

\* A mutant of Consumable: by what was read.
ConsumableRead(t) == token[t].state # "none"

Consumable(t) == token[t].state = "live"

\* One transaction: the old token is consumed and the new one made, or neither.
Rotate(c) ==
    LET t == caller[c].token
    IN  /\ Does(c, "rotate")
        /\ IF Consumable(t) /\ user.exists
           THEN /\ made < MaxTokens
                /\ made' = made + 1
                /\ token' = [token EXCEPT ![t] = Dead(t),
                        ![made + 1] = [state |-> "live", session |-> token[t].session, epoch |-> caller[c].epoch]]
           ELSE UNCHANGED tokenVars
        /\ End(c)
        /\ UNCHANGED <<user, codeVars, adminVars>>

Logout(c, t) ==
    /\ Does(c, "idle")
    /\ token[t].state = "live"
    /\ caller' = [caller EXCEPT ![c] = [Idle EXCEPT !.does = "revoke", !.token = t]]
    /\ UNCHANGED <<user, tokenVars, codeVars, adminVars>>

Revoke(c) ==
    /\ Does(c, "revoke")
    /\ LET t == caller[c].token
       IN  token' = IF token[t].state = "live" THEN [token EXCEPT ![t] = Dead(t)] ELSE token
    /\ End(c)
    /\ UNCHANGED <<user, made, codeVars, adminVars>>

RevokeAll == token' = [t \in Tokens |-> IF token[t].state = "live" THEN Dead(t) ELSE token[t]]

LogoutAll ==
    /\ Known
    /\ RevokeAll
    /\ UNCHANGED <<user, made, codeVars, caller, adminVars>>

Expire(t) ==
    /\ token[t].state = "live"
    /\ token' = [token EXCEPT ![t] = Dead(t)]
    /\ UNCHANGED <<user, made, codeVars, caller, adminVars>>

-------------------------------------------------------------------------------
\* Status and deletion

\* updateUserStatus: the flag first, then the sessions.
Deactivate ==
    /\ user.exists /\ epoch < MaxSwitches
    /\ user' = [user EXCEPT !.active = FALSE]
    /\ epoch' = epoch + 1
    /\ revoking' = revoking + 1
    /\ standing' = made
    /\ UNCHANGED <<tokenVars, codeVars, caller>>

RevokeSessions ==
    /\ revoking > 0
    /\ revoking' = revoking - 1
    /\ RevokeAll
    /\ UNCHANGED <<user, made, codeVars, caller, epoch, standing>>

Activate ==
    /\ user.exists /\ ~user.active
    /\ user' = [user EXCEPT !.active = TRUE]
    /\ UNCHANGED <<tokenVars, codeVars, caller, adminVars>>

\* Firebase forgets the identity first.  When the transaction then fails the account
\* stays as it is and signing in links it again by its email; otherwise the tokens go
\* with the row.
DeleteAccount ==
    /\ Known /\ user.exists
    /\ user' = [user EXCEPT !.exists = FALSE]
    /\ token' = [t \in Tokens |-> Unmade]
    /\ UNCHANGED <<made, codeVars, caller, adminVars>>

\* Codes and calls are lost; a deactivation may have lost its second half, which
\* stays open.
Restart ==
    /\ codes' = {}
    /\ caller' = [c \in Callers |-> Idle]
    /\ UNCHANGED <<user, tokenVars, codesMade, opened, adminVars>>

Next ==
    \/ \E c \in Callers :
        \/ SignIn(c) \/ CreateWebSession(c) \/ Issue(c) \/ ReadForCode(c)
        \/ \E k \in codes : ExchangeWebCode(c, k)
        \/ \E t \in Tokens : Refresh(c, t) \/ Logout(c, t)
        \/ Rotate(c) \/ Revoke(c)
    \/ \E k \in codes : CodeExpires(k)
    \/ \E t \in Tokens : Expire(t)
    \/ CreateWebCode \/ LogoutAll \/ Deactivate \/ RevokeSessions \/ Activate
    \/ DeleteAccount \/ Restart

Spec == Init /\ [][Next]_vars

-------------------------------------------------------------------------------
TypeOK ==
    /\ user \in [exists : BOOLEAN, active : BOOLEAN]
    /\ token \in [Tokens -> [state : {"none", "live", "dead"}, session : 0..MaxTokens, epoch : 0..MaxSwitches]]
    /\ made \in 0..MaxTokens /\ codes \subseteq Codes /\ codesMade \in 0..MaxCodes
    /\ opened \in [Codes -> Nat]
    /\ caller \in [Callers -> [does : {"idle", "issue", "code", "rotate", "revoke"},
                               token : 0..MaxTokens, code : 0..MaxCodes, epoch : 0..MaxSwitches]]
    /\ revoking \in 0..MaxSwitches /\ epoch \in 0..MaxSwitches /\ standing \in 0..MaxTokens

LiveTokens == {t \in Tokens : token[t].state = "live"}

\* A session has at most one live token, "only one request can rotate a token"
\* (rotate), and a code opens at most one session, "single-use" (exchangeWebCode),
\* whatever calls cross.
SessionsAreSingle ==
    /\ \A s, t \in LiveTokens : s # t => token[s].session # token[t].session
    /\ \A k \in Codes : opened[k] <= 1

\* "Deactivation revokes every active session immediately" (updateUserStatus): once it
\* has, no token made before it lives, and one that lives is of a call that had read
\* the account before it was deactivated.
InactiveHasNoSession ==
    ~user.active /\ revoking = 0 => \A t \in LiveTokens : t > standing /\ token[t].epoch < epoch
===============================================================================
