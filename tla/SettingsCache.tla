------------------------------- MODULE SettingsCache -------------------------------
(***************************************************************************)
(* The settings an admin changes and the process-local cache every other     *)
(* module reads them through (settings.service.ts).  A value read is          *)
(* modelled by the number of updates it contains.                            *)
(***************************************************************************)
EXTENDS Naturals

CONSTANTS
    Askers,       \* reads of a setting under way
    NoAsker,
    MaxUpdates,   \* bound: updates that commit
    MaxMishaps    \* bound: failed queries, lost replies

Empty == MaxUpdates + 1     \* no snapshot

VARIABLES
    stored,         \* the settings table: updates committed
    told,           \* ghost: updates whose call has returned
    snapshot,       \* cache and loadedAt
    version,        \* generation
    loading,        \* inFlightLoad: its generation and the call that began it
    asker,
    committing,     \* an update has committed and not returned yet
    outdated,       \* ghost: some read missed an update acknowledged before it began
    mishaps

vars == <<stored, told, snapshot, version, loading, asker, committing, outdated, mishaps>>

NoSnapshot == [value |-> Empty, fresh |-> FALSE]
NoLoad == [version |-> 0, by |-> NoAsker]
Quiet == [does |-> "idle", since |-> 0, version |-> 0, seen |-> 0, leader |-> NoAsker]

Init ==
    /\ stored = 0 /\ told = 0
    /\ snapshot = NoSnapshot
    /\ version = 0
    /\ loading = NoLoad
    /\ asker = [a \in Askers |-> Quiet]
    /\ committing = FALSE
    /\ outdated = FALSE
    /\ mishaps = 0

IsFresh == snapshot.value # Empty /\ snapshot.fresh
IsLoading == loading.by # NoAsker /\ loading.version = version

\* Those who share the promise of a's load.
Joined(a) == {b \in Askers : asker[b].does = "join" /\ asker[b].leader = a}
Becomes(a, next, answered) ==
    asker' = [b \in Askers |-> IF b = a THEN next ELSE IF b \in answered THEN Quiet ELSE asker[b]]

\* overrides(), entered by a call whose read began after "since" updates; its earlier
\* load has answered others, and may have misled one of them.
Enter(a, since, answered, missed) ==
    \/ /\ IsFresh
       /\ Becomes(a, Quiet, answered)
       /\ outdated' = (outdated \/ missed \/ snapshot.value < since)
       /\ loading' = IF loading.by = a THEN NoLoad ELSE loading
    \/ /\ ~IsFresh /\ IsLoading
       /\ Becomes(a, [Quiet EXCEPT !.does = "join", !.since = since, !.leader = loading.by], answered)
       /\ outdated' = (outdated \/ missed)
       /\ UNCHANGED loading
    \/ /\ ~IsFresh /\ ~IsLoading
       /\ Becomes(a, [Quiet EXCEPT !.does = "load", !.since = since, !.version = version], answered)
       /\ loading' = [version |-> version, by |-> a]
       /\ outdated' = (outdated \/ missed)

Ask(a) ==
    /\ asker[a].does = "idle"
    /\ Enter(a, told, {}, FALSE)
    /\ UNCHANGED <<stored, told, snapshot, version, committing, mishaps>>

\* The query reads the table; its answer is on the way.
Load(a) ==
    /\ asker[a].does = "load"
    /\ asker' = [asker EXCEPT ![a].does = "loaded", ![a].seen = stored]
    /\ UNCHANGED <<stored, told, snapshot, version, loading, committing, outdated, mishaps>>

LoadFails(a) ==
    /\ asker[a].does \in {"load", "loaded"} /\ mishaps < MaxMishaps
    /\ mishaps' = mishaps + 1
    /\ asker' = [b \in Askers |-> IF b \in Joined(a) \cup {a} THEN Quiet ELSE asker[b]]
    /\ loading' = IF loading.by = a THEN NoLoad ELSE loading
    /\ UNCHANGED <<stored, told, snapshot, version, committing, outdated>>

IsCurrent(a) == asker[a].version = version

\* The answer arrives, for a and for those that share it.  "Never repopulate the cache
\* with that stale snapshot; reload the new version": a loads again, the others do not.
Keep(a) ==
    LET missed == \E b \in Joined(a) : asker[a].seen < asker[b].since
    IN  /\ asker[a].does = "loaded"
        /\ IF IsCurrent(a)
           THEN /\ snapshot' = [value |-> asker[a].seen, fresh |-> TRUE]
                /\ loading' = IF loading.by = a THEN NoLoad ELSE loading
                /\ Becomes(a, Quiet, Joined(a))
                /\ outdated' = (outdated \/ missed \/ asker[a].seen < asker[a].since)
           ELSE Enter(a, asker[a].since, Joined(a), missed) /\ UNCHANGED snapshot
        /\ UNCHANGED <<stored, told, version, committing, mishaps>>

\* 60 seconds pass.
Expire ==
    /\ IsFresh
    /\ snapshot' = [snapshot EXCEPT !.fresh = FALSE]
    /\ UNCHANGED <<stored, told, version, loading, asker, committing, outdated, mishaps>>

\* upsertMany is one transaction.
Update ==
    /\ ~committing /\ stored < MaxUpdates
    /\ stored' = stored + 1
    /\ committing' = TRUE
    /\ UNCHANGED <<told, snapshot, version, loading, asker, outdated, mishaps>>

Acknowledge ==
    /\ committing
    /\ committing' = FALSE
    /\ told' = stored
    /\ version' = version + 1
    /\ snapshot' = NoSnapshot
    /\ UNCHANGED <<stored, loading, asker, outdated, mishaps>>

\* The database has committed and its answer is lost: the cache is left as it is.
LoseReply ==
    /\ committing /\ mishaps < MaxMishaps
    /\ committing' = FALSE
    /\ mishaps' = mishaps + 1
    /\ UNCHANGED <<stored, told, snapshot, version, loading, asker, outdated>>

Next ==
    \/ \E a \in Askers : Ask(a) \/ Load(a) \/ LoadFails(a) \/ Keep(a)
    \/ Expire \/ Update \/ Acknowledge \/ LoseReply

Spec == Init /\ [][Next]_vars

-------------------------------------------------------------------------------
TypeOK ==
    /\ stored \in 0..MaxUpdates /\ told \in 0..stored /\ version \in 0..MaxUpdates
    /\ snapshot \in [value : 0..Empty, fresh : BOOLEAN]
    /\ loading \in [version : 0..version, by : Askers \cup {NoAsker}]
    /\ asker \in [Askers -> [does : {"idle", "join", "load", "loaded"}, since : 0..MaxUpdates,
                             version : 0..version, seen : 0..MaxUpdates, leader : Askers \cup {NoAsker}]]
    /\ committing \in BOOLEAN /\ mishaps \in 0..MaxMishaps

\* A read that starts after an update was acknowledged contains it, in this process
\* (update: "force reload on next read within this process").
UpdatesAreSeen == ~outdated
===============================================================================
