------------------------------- MODULE LudoVoice -------------------------------
(***************************************************************************)
(* The voice session of one Ludo room (ludo.service.ts: joinVoice,           *)
(* relayVoice, leaveVoice).  Calls are cut at their queries; sockets close   *)
(* and come back meanwhile.                                                  *)
(***************************************************************************)
EXTENDS LudoTalk

CONSTANTS
    Joiners,           \* users entitled to voice
    Joins, Caller      \* calls of joinVoice, and the user of each

VARIABLES
    voice,       \* the room's voice session
    talking,     \* participants that have not left
    joining,     \* of each call: how far it is, the participants it has read, and whether its
                 \* caller still has the socket it was asked on and has not left since
    parting,     \* users whose leave is written and not yet told
    answered,    \* users whose join was told to the socket they have, and who have not left since
    offers       \* pairs: the first has been told to offer a connection to the second

voiceVars == <<voice, talking, joining, parting, answered, offers>>
vars == <<roomVars, voiceVars>>

Init ==
    /\ RoomInit
    /\ voice = "NONE" /\ talking = {} /\ parting = {} /\ answered = {} /\ offers = {}
    /\ joining = [c \in Joins |-> [step |-> "idle", holds |-> FALSE, read |-> {}]]

Goto(c, step) == joining' = [joining EXCEPT ![c].step = step]
Finish(c) == joining' = [joining EXCEPT ![c] = [step |-> "done", holds |-> FALSE, read |-> {}]]
Running(c) == joining[c].step \notin {"idle", "done"}

\* What the calls of u will tell does not count for u: the socket is gone, or u has left.
LetGo(u) ==
    joining' = [c \in Joins |-> IF Caller[c] = u THEN [joining[c] EXCEPT !.holds = FALSE] ELSE joining[c]]

-------------------------------------------------------------------------------
\* joinVoice

\* effectiveEntitlement and assertNotRestricted
MayTalk(u) == u \in Joiners \ silenced

\* Calls of one socket run in turn; those of a socket that is gone are still worked off.
AskVoice(c) ==
    LET u == Caller[c] IN
    /\ joining[c].step = "idle"
    /\ u \in Joiners /\ IsMember(u)
    /\ \/ /\ u \in routed
          /\ \A d \in Joins : Caller[d] = u => ~(Running(d) /\ joining[d].holds)
          /\ joining' = [joining EXCEPT ![c].step = "asked", ![c].holds = TRUE]
       \/ Goto(c, "asked")
    /\ UNCHANGED <<roomVars, voice, talking, parting, answered, offers>>

CheckVoice(c) ==
    /\ joining[c].step = "asked" /\ Caller[c] \notin silenced
    /\ Goto(c, "checked")
    /\ UNCHANGED <<roomVars, voice, talking, parting, answered, offers>>

\* The upsert opens a session that has ended again.
OpenVoice(c) ==
    /\ joining[c].step = "checked"
    /\ Goto(c, "opened")
    /\ voice' = "OPEN"
    /\ UNCHANGED <<roomVars, talking, parting, answered, offers>>

EnterVoice(c) ==
    /\ joining[c].step = "opened"
    /\ Goto(c, "entered")
    /\ talking' = talking \cup {Caller[c]}
    /\ UNCHANGED <<roomVars, voice, parting, answered, offers>>

\* The participants are read beside the room; the slower of the two is waited for.
ReadTalking(c) ==
    /\ joining[c].step = "entered"
    /\ joining' = [joining EXCEPT ![c].step = "read", ![c].read = talking \ {Caller[c]}]
    /\ UNCHANGED <<roomVars, voice, talking, parting, answered, offers>>

\* voice.participant_updated names the caller as the one who offers to all that were read.
OffersOf(c) == {<<Caller[c], v>> : v \in joining[c].read}

AnswerJoin(c) ==
    LET u == Caller[c] IN
    /\ joining[c].step = "read"
    /\ Finish(c)
    /\ offers' = IF u \in routed THEN offers \cup OffersOf(c) ELSE offers
    /\ answered' = IF joining[c].holds THEN answered \cup {u} ELSE answered
    /\ UNCHANGED <<roomVars, voice, talking, parting>>

\* A check refuses, or a query of joinVoice fails: what was written stays.
FailJoin(c) ==
    /\ Running(c)
    /\ Finish(c)
    /\ UNCHANGED <<roomVars, voice, talking, parting, answered, offers>>

\* relayVoice: both may talk and have joined, and the peer has a socket.
MayRelay(u, v) ==
    /\ u # v /\ IsMember(u) /\ IsMember(v) /\ MayTalk(u) /\ MayTalk(v)
    /\ voice = "OPEN" /\ {u, v} \subseteq talking
    /\ v \in routed

-------------------------------------------------------------------------------
\* leaveVoice, one call of a user at a time; its checks may be outdated.  Who leaves hangs up,
\* and the others do when they are told.

Without(u) == {p \in offers : p[1] # u /\ p[2] # u}
HangsUp(u) ==
    /\ answered' = answered \ {u}
    /\ offers' = Without(u)
    /\ LetGo(u)

LeaveVoice(u) ==
    /\ Change
    /\ voice # "NONE" /\ u \notin parting
    /\ talking' = talking \ {u}
    /\ parting' = parting \cup {u}
    /\ HangsUp(u)
    /\ UNCHANGED <<presence, silenced, voice>>

\* Told, or cut off by an error.
TellLeave(u) ==
    /\ u \in parting
    /\ parting' = parting \ {u}
    /\ HangsUp(u) \/ UNCHANGED <<answered, offers, joining>>
    /\ UNCHANGED <<roomVars, voice, talking>>

-------------------------------------------------------------------------------
\* The room

\* markDisconnected leaves the voice session alone; a client without a socket is out of it.
Disconnect(u) ==
    /\ LoseSocket(u)
    /\ HangsUp(u)
    /\ UNCHANGED <<voice, talking, parting>>

\* mutateActiveRoom takes who forfeits out of the voice session.
Forfeit(u) ==
    /\ GiveUp(u)
    /\ talking' = talking \ {u}
    /\ HangsUp(u)
    /\ UNCHANGED <<voice, parting>>

\* settleCompletedRoom ends the voice session, not its participants.
Complete ==
    /\ Finished
    /\ voice' = IF voice = "OPEN" THEN "ENDED" ELSE voice
    /\ answered' = {} /\ offers' = {}
    /\ joining' = [c \in Joins |-> [joining[c] EXCEPT !.holds = FALSE]]
    /\ UNCHANGED <<talking, parting>>

Next ==
    \/ \E c \in Joins :
        AskVoice(c) \/ CheckVoice(c) \/ OpenVoice(c) \/ EnterVoice(c) \/ ReadTalking(c) \/ AnswerJoin(c) \/ FailJoin(c)
    \/ \E u \in Users :
        \/ LeaveVoice(u) \/ TellLeave(u) \/ Disconnect(u) \/ Forfeit(u)
        \/ (Restrict(u) \/ MarkDisconnected(u) \/ ComeBack(u)) /\ UNCHANGED voiceVars
    \/ Complete

Spec == Init /\ [][Next]_vars

-------------------------------------------------------------------------------
\* The types of the variables.
TypeOK ==
    /\ RoomTypeOK
    /\ voice \in {"NONE", "OPEN", "ENDED"} /\ talking \subseteq Users
    /\ joining \in [Joins -> [step : {"idle", "asked", "checked", "opened", "entered", "read", "done"},
                              holds : BOOLEAN, read : SUBSET Users]]
    /\ parting \subseteq Users /\ answered \subseteq Users /\ offers \subseteq Users \X Users

\* Of two players who were each told of their join on the socket they still have, and have not
\* left since, one has been told to offer the connection (joinVoice), whatever sockets were
\* lost between a read of the participants and its broadcast; and the offer is relayed unless
\* an admin has silenced one of them since (relayVoice).
PairsAreOffered ==
    \A u, v \in answered :
        \/ u = v
        \/ /\ <<u, v>> \in offers \/ <<v, u>> \in offers
           /\ {u, v} \cap silenced = {} => MayRelay(u, v)
===============================================================================
