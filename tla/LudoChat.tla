------------------------------- MODULE LudoChat -------------------------------
(***************************************************************************)
(* What the players of one Ludo room write to one another (ludo.service.ts:  *)
(* sendQuickChat, sendTextChat, getSnapshot, setMute, setBlock).             *)
(*                                                                         *)
(* A message is a client action: a retry carries the id of the first call    *)
(* and is a call of its own.  Calls of one socket run in turn; those of a    *)
(* socket that was replaced may still run beside those of its successor.     *)
(***************************************************************************)
EXTENDS LudoTalk

CONSTANTS
    Messages, Sayer, Text,     \* actions of chat; functions on them: who says it, what (NoText for a quick one)
    NoText,
    Calls, Says,               \* calls of sendQuickChat or sendTextChat; the message of each
    RateLimit,                 \* chatRateLimitPer10Seconds
    Listeners                  \* bound: users who keep lists and ask for snapshots

VARIABLES
    wishes,      \* of each list, the pairs whose first does not want to hear the second
    age,         \* of each message's row: absent, within ten seconds, of a text within fifteen, older
    hiding,      \* of each message and list: who has had its sayer there ever since it was written
    heard,       \* of each message: who was sent it, by the broadcast
    told,        \* of each message: how often it was broadcast
    call,        \* how far each call is, the lists it has still to read, whom it has found
                 \* there, and whether another call of the same user ran beside it
    view         \* a snapshot under way or shown, per viewer

saidVars == <<age, hiding, heard, told>>
vars == <<roomVars, wishes, saidVars, call, view>>

Lists == {"mutes", "blocks"}
Idle == [step |-> "idle", unread |-> {}, excluded |-> {}, beside |-> FALSE]
Unhidden == [l \in Lists |-> {}]
NotViewing == [step |-> "idle", unread |-> {}, hidden |-> {}, since |-> Unhidden, shows |-> {}]

Init ==
    /\ RoomInit
    /\ wishes = Unhidden
    /\ age = [m \in Messages |-> "none"]
    /\ hiding = [m \in Messages |-> Unhidden]
    /\ heard = [m \in Messages |-> {}]
    /\ told = [m \in Messages |-> 0]
    /\ call = [c \in Calls |-> Idle]
    /\ view = [u \in Listeners |-> NotViewing]

\* The queries of chatExclusions, and the other way round those of getSnapshot.
HidFrom(u, l) == {v \in Users : <<v, u>> \in wishes[l]}
Hidden(u, l) == {v \in Users : <<u, v>> \in wishes[l]}

-------------------------------------------------------------------------------
\* Chat.  A call is answered, refused or cut off by an error: then it is "done".

Goto(c, step) == call' = [call EXCEPT ![c].step = step]
Finish(c) == call' = [call EXCEPT ![c].step = "done", ![c].unread = {}, ![c].excluded = {}]
Beside(c) ==
    {d \in Calls \ {c} : Sayer[Says[d]] = Sayer[Says[c]] /\ call[d].step \notin {"idle", "done"}}

\* A message that is there already is sent to its sayer alone.
Ask(c) ==
    /\ call[c].step = "idle"
    /\ IF IsMember(Sayer[Says[c]]) /\ age[Says[c]] = "none"
       THEN call' = [d \in Calls |->
                        IF d = c THEN [call[c] EXCEPT !.step = "asked", !.beside = Beside(c) # {}]
                        ELSE [call[d] EXCEPT !.beside = call[d].beside \/ d \in Beside(c)]]
       ELSE Finish(c)
    /\ UNCHANGED <<roomVars, wishes, saidVars, view>>

Recent(u) == {m \in Messages : Sayer[m] = u /\ age[m] = "fresh"}
\* A text that was said a moment ago, under this id or another one.
IsRepeated(m) ==
    /\ Text[m] # NoText
    /\ \E n \in Messages : Sayer[n] = Sayer[m] /\ Text[n] = Text[m] /\ age[n] \in {"fresh", "recent"}

MaySay(m) ==
    /\ Sayer[m] \notin silenced
    /\ Cardinality(Recent(Sayer[m])) < RateLimit
    /\ ~IsRepeated(m)

Allow(c) ==
    /\ call[c].step = "asked"
    /\ IF MaySay(Says[c]) THEN Goto(c, "allowed") ELSE Finish(c)
    /\ UNCHANGED <<roomVars, wishes, saidVars, view>>

\* The unique key of room, user and action makes one row of several calls.
Write(c) ==
    LET m == Says[c] IN
    /\ call[c].step = "allowed"
    /\ \/ /\ age[m] = "none"
          /\ age' = [age EXCEPT ![m] = "fresh"]
          /\ hiding' = [hiding EXCEPT ![m] = [l \in Lists |-> HidFrom(Sayer[m], l)]]
          /\ call' = [call EXCEPT ![c].step = "written", ![c].unread = Lists]
       \/ /\ age[m] # "none"
          /\ Finish(c)
          /\ UNCHANGED <<age, hiding>>
    /\ UNCHANGED <<roomVars, wishes, heard, told, view>>

\* A mutant of Exclude: it leaves out only who asked for it after the message.
ExcludeNewer(c, l) ==
    /\ call[c].step = "written" /\ l \in call[c].unread
    /\ call' = [call EXCEPT ![c].unread = call[c].unread \ {l},
                            ![c].excluded = call[c].excluded \cup (HidFrom(Sayer[Says[c]], l) \ hiding[Says[c]][l])]
    /\ UNCHANGED <<roomVars, wishes, saidVars, view>>

\* chatExclusions asks for both lists at once, and the answers are read one before the other.
Exclude(c, l) ==
    /\ call[c].step = "written" /\ l \in call[c].unread
    /\ call' = [call EXCEPT ![c].unread = call[c].unread \ {l},
                            ![c].excluded = call[c].excluded \cup HidFrom(Sayer[Says[c]], l)]
    /\ UNCHANGED <<roomVars, wishes, saidVars, view>>

\* broadcastLudoRoom
Broadcast(c) ==
    LET m == Says[c] IN
    /\ call[c].step = "written" /\ call[c].unread = {}
    /\ heard' = [heard EXCEPT ![m] = heard[m] \cup (routed \ call[c].excluded)]
    /\ told' = [told EXCEPT ![m] = told[m] + 1]
    /\ Finish(c)
    /\ UNCHANGED <<roomVars, wishes, age, hiding, view>>

\* A query fails: the call ends, whatever it has written stays.
Fail(c) ==
    /\ call[c].step \in {"asked", "allowed", "written"}
    /\ Finish(c)
    /\ UNCHANGED <<roomVars, wishes, saidVars, view>>

\* Ten and fifteen seconds after a text, ten after a quick message.
Ages(m) ==
    /\ age[m] \in {"fresh", "recent"}
    /\ age' = [age EXCEPT ![m] = IF age[m] = "fresh" /\ Text[m] # NoText THEN "recent" ELSE "old"]
    /\ UNCHANGED <<roomVars, wishes, hiding, heard, told, call, view>>

-------------------------------------------------------------------------------
\* Snapshots: the lists of the viewer are read first, each by a query of its own, then the
\* room with its messages.

AskSnapshot(u) ==
    /\ Change
    /\ view[u].step # "asked"
    /\ view' = [view EXCEPT ![u] = [NotViewing EXCEPT !.step = "asked", !.unread = Lists,
                                                      !.since = [l \in Lists |-> Hidden(u, l)]]]
    /\ UNCHANGED <<presence, silenced, wishes, saidVars, call>>

ReadWishes(u, l) ==
    /\ view[u].step = "asked" /\ l \in view[u].unread
    /\ view' = [view EXCEPT ![u].unread = view[u].unread \ {l}, ![u].hidden = view[u].hidden \cup Hidden(u, l)]
    /\ UNCHANGED <<roomVars, wishes, saidVars, call>>

ReadRoom(u) ==
    /\ view[u].step = "asked" /\ view[u].unread = {}
    /\ view' = [view EXCEPT ![u].step = "shown",
                            ![u].shows = {m \in Messages : age[m] # "none" /\ Sayer[m] \notin view[u].hidden}]
    /\ UNCHANGED <<roomVars, wishes, saidVars, call>>

-------------------------------------------------------------------------------
\* Wishes of the players

\* Who leaves a list leaves its histories.
Wish(l, pairs) ==
    /\ wishes' = [wishes EXCEPT ![l] = pairs]
    /\ hiding' = [n \in Messages |->
                    [hiding[n] EXCEPT ![l] = {u \in hiding[n][l] : <<u, Sayer[n]>> \in pairs}]]
    /\ view' = [u \in Listeners |-> IF view[u].step = "shown" THEN view[u]
                                ELSE [view[u] EXCEPT !.since[l] = {v \in view[u].since[l] : <<u, v>> \in pairs}]]
    /\ UNCHANGED <<presence, silenced, age, heard, told, call>>

\* The row is written or deleted; to do so twice changes nothing.
Wishes(l, u, v) ==
    Wish(l, IF <<u, v>> \in wishes[l] THEN wishes[l] \ {<<u, v>>} ELSE wishes[l] \cup {<<u, v>>})

SetMute(u, v) == Change /\ u # v /\ IsMember(u) /\ Wishes("mutes", u, v)
SetBlock(u, v) == Change /\ u # v /\ Wishes("blocks", u, v)

Next ==
    \/ \E c \in Calls : Ask(c) \/ Allow(c) \/ Write(c) \/ Broadcast(c) \/ Fail(c)
    \/ \E c \in Calls, l \in Lists : Exclude(c, l)
    \/ \E m \in Messages : Ages(m)
    \/ \E u \in Listeners : AskSnapshot(u) \/ ReadRoom(u)
    \/ \E u \in Listeners, l \in Lists : ReadWishes(u, l)
    \/ \E u \in Listeners, v \in Users : SetMute(u, v) \/ SetBlock(u, v)
    \/ /\ \/ \E u \in Users : Restrict(u) \/ LoseSocket(u) \/ MarkDisconnected(u) \/ ComeBack(u) \/ GiveUp(u)
          \/ Finished
       /\ UNCHANGED <<wishes, saidVars, call, view>>

Spec == Init /\ [][Next]_vars

-------------------------------------------------------------------------------
\* The types of the variables.
TypeOK ==
    /\ RoomTypeOK
    /\ wishes \in [Lists -> SUBSET (Users \X Users)]
    /\ age \in [Messages -> {"none", "fresh", "recent", "old"}]
    /\ hiding \in [Messages -> [Lists -> SUBSET Users]] /\ heard \in [Messages -> SUBSET Users]
    /\ told \in [Messages -> Nat]
    /\ call \in [Calls -> [step : {"idle", "asked", "allowed", "written", "done"}, unread : SUBSET Lists,
                           excluded : SUBSET Users, beside : BOOLEAN]]
    /\ view \in [Listeners -> [step : {"idle", "asked", "shown"}, unread : SUBSET Lists, hidden : SUBSET Users,
                              since : [Lists -> SUBSET Users], shows : SUBSET Messages]]

\* Whoever muted a player before a message was written, or before a snapshot was asked for,
\* and has not taken it back, is not shown it, and so with who blocked a player
\* (chatExclusions, getSnapshot).  Who goes from one list to the other may be missed by both.
HiddenIsNotHeard ==
    /\ \A m \in Messages, l \in Lists : heard[m] \cap hiding[m][l] = {}
    /\ \A u \in Listeners, l \in Lists : \A m \in view[u].shows : Sayer[m] \notin view[u].since[l]

\* However often a message is sent again, the room is told of it once at most
\* (existingChatEvent); if the call that wrote it fails, the room is not told.
ToldOnceAtMost == \A m \in Messages : told[m] <= 1

\* Messages whose calls no other call of the sayer ran beside keep the sayer's rate
\* (enforceChatRate); calls that overlap are each counted before the other's message.
RateKept ==
    \A u \in Users :
        Cardinality({m \in Recent(u) : \A c \in Calls : Says[c] = m => ~call[c].beside}) <= RateLimit
===============================================================================
