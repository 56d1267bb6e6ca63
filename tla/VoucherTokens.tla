------------------------------- MODULE VoucherTokens -------------------------------
(***************************************************************************)
(* The tokens of the voucher provider (xoxoday-base.provider.ts and the      *)
(* registry that builds a provider object for each attempt).  The provider    *)
(* replaces the refresh token each time it is used; the new one lives in a    *)
(* file that outlives the process.                                           *)
(*                                                                         *)
(* Refresh tokens are numbered by the rotations before them; 0 is the one in  *)
(* the settings.  The provider honours only the latest.                      *)
(***************************************************************************)
EXTENDS Naturals

CONSTANTS
    Attempts,      \* vouchers being issued, and connection tests
    MaxRotations,  \* bound: refreshes the provider grants
    MaxOutages     \* bound: lost answers, failed writes, crashes

NoFile == MaxRotations + 1

VARIABLES
    granted,    \* the provider: the refresh token in force
    settings,   \* the token an admin has entered
    tokenFile,  \* XOXODAY_TOKEN_STATE_FILE
    attempt,    \* progress of each attempt, and the token its object holds
    lost,       \* ghost: a rotation was cut off between the provider and the file
    outages

vars == <<granted, settings, tokenFile, attempt, lost, outages>>

Unused == [does |-> "idle", token |-> 0, test |-> FALSE]

Init ==
    /\ granted = 0 /\ settings = 0
    /\ tokenFile = NoFile
    /\ attempt = [a \in Attempts |-> Unused]
    /\ lost = FALSE
    /\ outages = 0

At(a, what) == attempt[a].does = what
Goes(a, what) == attempt' = [attempt EXCEPT ![a].does = what]
Ends(a) == attempt' = [attempt EXCEPT ![a] = Unused]
Outage == outages < MaxOutages /\ outages' = outages + 1

\* resolve() or test(): an object with the tokens of the settings.
Build(a) ==
    /\ At(a, "idle")
    /\ \E test \in BOOLEAN : attempt' = [attempt EXCEPT ![a] = [does |-> "load", token |-> settings, test |-> test]]
    /\ UNCHANGED <<granted, settings, tokenFile, lost, outages>>

\* loadTokenState: the file, when there is one, goes before the settings.
LoadTokenState(a) ==
    /\ At(a, "load")
    /\ attempt' = [attempt EXCEPT ![a].does = IF attempt[a].test THEN "refresh" ELSE "post",
                                  ![a].token = IF tokenFile = NoFile THEN attempt[a].token ELSE tokenFile]
    /\ UNCHANGED <<granted, settings, tokenFile, lost, outages>>

\* The order goes through, is refused or gets no answer; 401 asks for a new token.
Post(a) ==
    /\ At(a, "post")
    /\ Ends(a) \/ Goes(a, "refresh")
    /\ UNCHANGED <<granted, settings, tokenFile, lost, outages>>

PostAgain(a) ==
    /\ At(a, "retry")
    /\ Ends(a)
    /\ UNCHANGED <<granted, settings, tokenFile, lost, outages>>

\* A mutant of TakeNew: only the access token is replaced.
TakeNewAccess(a) == Goes(a, "persist")

\* The answer of a refresh replaces the object's pair.
TakeNew(a) == attempt' = [attempt EXCEPT ![a].does = "persist", ![a].token = granted + 1]

Refresh(a) ==
    /\ At(a, "refresh")
    /\ attempt[a].token = granted /\ granted < MaxRotations
    /\ granted' = granted + 1
    /\ TakeNew(a)
    /\ UNCHANGED <<settings, tokenFile, lost, outages>>

\* The provider has rotated; the answer does not arrive within 15 seconds.
RefreshUnanswered(a) ==
    /\ At(a, "refresh") /\ Outage
    /\ attempt[a].token = granted /\ granted < MaxRotations
    /\ granted' = granted + 1
    /\ lost' = TRUE
    /\ Ends(a)
    /\ UNCHANGED <<settings, tokenFile>>

\* Another attempt has used the token up, or it was lost.
RefreshRefused(a) ==
    /\ At(a, "refresh")
    /\ attempt[a].token # granted
    /\ Ends(a)
    /\ UNCHANGED <<granted, settings, tokenFile, lost, outages>>

\* persistTokenState: a temporary file takes the place of the old one.
Persist(a) ==
    /\ At(a, "persist")
    /\ tokenFile' = attempt[a].token
    /\ IF attempt[a].test THEN Ends(a) ELSE Goes(a, "retry")
    /\ UNCHANGED <<granted, settings, lost, outages>>

PersistFails(a) ==
    /\ At(a, "persist") /\ Outage
    /\ lost' = TRUE
    /\ Ends(a)
    /\ UNCHANGED <<granted, settings, tokenFile>>

Restart ==
    /\ Outage
    /\ lost' = (lost \/ \E a \in Attempts : At(a, "persist"))
    /\ attempt' = [a \in Attempts |-> Unused]
    /\ UNCHANGED <<granted, settings, tokenFile>>

\* The admin fetches a new pair from the provider and enters it.
EnterTokens ==
    /\ lost /\ granted < MaxRotations
    /\ granted' = granted + 1
    /\ settings' = granted + 1
    /\ UNCHANGED <<tokenFile, attempt, lost, outages>>

Next ==
    \/ \E a \in Attempts :
        \/ Build(a) \/ LoadTokenState(a) \/ Post(a) \/ PostAgain(a)
        \/ Refresh(a) \/ RefreshUnanswered(a) \/ RefreshRefused(a)
        \/ Persist(a) \/ PersistFails(a)
    \/ Restart \/ EnterTokens

Spec == Init /\ [][Next]_vars

-------------------------------------------------------------------------------
TypeOK ==
    /\ granted \in 0..MaxRotations /\ settings \in 0..granted
    /\ tokenFile \in 0..NoFile
    /\ attempt \in [Attempts -> [does : {"idle", "load", "post", "refresh", "persist", "retry"},
                                 token : 0..MaxRotations, test : BOOLEAN]]
    /\ lost \in BOOLEAN /\ outages \in 0..MaxOutages

\* What a new process would use.
Stored == IF tokenFile = NoFile THEN settings ELSE tokenFile

\* However attempts overlap, the token the provider honours is the stored one or is on
\* its way to the file, until a rotation is cut off: "so restarts do not reuse an
\* invalidated environment token" (README.md).
TokenIsKept == lost \/ Stored = granted \/ \E a \in Attempts : At(a, "persist") /\ attempt[a].token = granted

\* Tokens an admin enters are the ones the next attempt uses, "so a settings change takes
\* effect without a redeploy" (voucher-provider-registry.ts).
EnteredTokensAreUsed == settings > 0 /\ (\A a \in Attempts : ~At(a, "persist")) => Stored >= settings
===============================================================================
