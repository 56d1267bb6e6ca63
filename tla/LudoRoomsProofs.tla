--------------------------- MODULE LudoRoomsProofs ----------------------------
(***************************************************************************)
(* What holds of LudoRooms for every set of users, rooms and modes.        *)
(* SeatedOnce is inductive with what the room locks keep in place; that a  *)
(* resumed player stays online needs, besides, what the presence locks     *)
(* keep apart: reading in resumeActive and marking in markDisconnected.    *)
(***************************************************************************)
EXTENDS LudoRooms, FiniteSetTheorems, TLAPS

\* A handshake has only players, and only they accept, until it ends.
PlayersInv(r) ==
    /\ room[r].status = "NONE" => \A u \in Users : u \notin Seated(r)
    /\ room[r].status \in PreGame =>
          \A u \in Users : u \in Seated(r) => row[r][u].engine = "ACTIVE"
AcceptingInv(r) ==
    accepting[r] # Nobody =>
        /\ accepting[r] \in Seated(r)
        /\ room[r].status \in PreGame
        /\ ~(sweeping.kind = "cancel" /\ sweeping.room = r)
RoomsInv == \A r \in Rooms : PlayersInv(r) /\ AcceptingInv(r)

\* The sweeper works on rooms, and cancels only a handshake.
SweeperInv ==
    /\ sweeping.kind # "idle" => sweeping.room \in Rooms
    /\ sweeping.kind = "absent" => sweeping.user \in Users
    /\ sweeping.kind = "cancel" => room[sweeping.room].status \in PreGame

\* Who resumes or is marked has a seat, and the two exclude each other.
ResumingInv(u) ==
    /\ session[u] = "resuming" => resuming[u].step # "idle"
    /\ session[u] = "open" => resuming[u].step = "idle"
    /\ resuming[u].step \in {"read", "written"} =>
          resuming[u].room \in Rooms /\ u \in Seated(resuming[u].room)
    /\ resuming[u].step = "read" => marking[u] = NoRoom
MarkingInv(u) ==
    marking[u] # NoRoom =>
        /\ session[u] = "none" \/ resuming[u].step = "called"
        /\ u \in Seated(marking[u])
        /\ \/ HoldsSeat(u, marking[u])
           \/ row[marking[u]][u].status \notin {"ACTIVE", "DISCONNECTED"}
PresenceInv == \A u \in Users : ResumingInv(u) /\ MarkingInv(u)

\* A disconnected player still has its seat, and its session has not yet resumed.
AwayInv(u, r) ==
    room[r].status = "ACTIVE" /\ row[r][u].status = "DISCONNECTED" =>
        /\ HoldsSeat(u, r)
        /\ session[u] # "open"
        /\ resuming[u].step = "read" => resuming[u].room = r
        /\ resuming[u].step = "written" => session[u] = "none"
DisconnectedInv == \A u \in Users, r \in Rooms : AwayInv(u, r)

IInv == TypeOK /\ SeatedOnce /\ RoomsInv /\ SweeperInv
PInv == IInv /\ PresenceInv /\ DisconnectedInv

-------------------------------------------------------------------------------

RowRecords == [status : RowStatuses, key : BOOLEAN, engine : EngineStatuses, strikes : Nat]
RoomRecords == [status : RoomStatuses, turn : Users \cup {Nobody}, version : Nat,
                late : BOOLEAN, turnLate : BOOLEAN]
EntryRecords == [status : EntryStatuses, mode : Modes \cup {NoMode}, room : Rooms \cup {NoRoom}]
ResumeRecords == [step : {"idle", "called", "read", "written"}, room : Rooms \cup {NoRoom}]

\* A row with a new status is a row; seat and engine are as before.
LEMMA RowUpdate ==
    ASSUME NEW x \in RowRecords, NEW st \in RowStatuses, NEW y, y = [x EXCEPT !.status = st]
    PROVE  /\ y \in RowRecords
           /\ y.status = st /\ y.key = x.key /\ y.engine = x.engine
BY DEF RowRecords

\* A room with the next version, and perhaps a new status, is a room.
LEMMA RoomUpdate ==
    ASSUME NEW x \in RoomRecords, NEW st \in RoomStatuses
    PROVE  /\ [x EXCEPT !.version = @ + 1] \in RoomRecords
           /\ [x EXCEPT !.version = @ + 1].status = x.status
           /\ [x EXCEPT !.version = @ + 1, !.status = st, !.late = FALSE] \in RoomRecords
           /\ [x EXCEPT !.version = @ + 1, !.status = st, !.late = FALSE].status = st
<1>1. x.version + 1 \in Nat
      BY DEF RoomRecords
<1>2. ASSUME NEW n \in Nat
      PROVE  /\ [x EXCEPT !.version = n] \in RoomRecords
             /\ [x EXCEPT !.version = n].status = x.status
      BY DEF RoomRecords
<1>3. ASSUME NEW n \in Nat
      PROVE  /\ [x EXCEPT !.version = n, !.status = st, !.late = FALSE] \in RoomRecords
             /\ [x EXCEPT !.version = n, !.status = st, !.late = FALSE].status = st
      BY DEF RoomRecords
<1>4. QED BY <1>1, <1>2, <1>3

\* The row of who does not sit in a room, and of who has just been seated.
LEMMA Fresh ==
    /\ Unseated \in RowRecords /\ Unseated.status = "NONE" /\ ~Unseated.key
    /\ LET sat == [Unseated EXCEPT !.status = "MATCHED", !.key = TRUE]
       IN sat \in RowRecords /\ sat.status = "MATCHED" /\ sat.key /\ sat.engine = "ACTIVE"
<1>1. /\ Unseated \in RowRecords /\ Unseated.status = "NONE" /\ ~Unseated.key
      /\ Unseated.engine = "ACTIVE"
      BY DEF Unseated, RowRecords, RowStatuses, EngineStatuses
<1>2. ASSUME NEW x \in RowRecords
      PROVE  LET sat == [x EXCEPT !.status = "MATCHED", !.key = TRUE]
             IN /\ sat \in RowRecords /\ sat.status = "MATCHED" /\ sat.key
                /\ sat.engine = x.engine
      BY DEF RowRecords, RowStatuses
<1>3. QED BY <1>1, <1>2

\* The room of a match just made.
LEMMA NewRoomRecord ==
    ASSUME NEW u \in Users
    PROVE  LET new == [NoneYet EXCEPT !.status = "MATCHED", !.turn = u]
           IN new \in RoomRecords /\ new.status = "MATCHED"
BY DEF NoneYet, RoomRecords, RoomStatuses

\* A queue entry with another status and room.
LEMMA EntryUpdate ==
    ASSUME NEW x \in EntryRecords, NEW st \in EntryStatuses, NEW r \in Rooms \cup {NoRoom}
    PROVE  LET new == [x EXCEPT !.status = st, !.room = r]
           IN new \in EntryRecords /\ new.status = st /\ new.room = r
BY DEF EntryRecords

\* A room that is over.
LEMMA OverRecord ==
    ASSUME NEW st \in RoomStatuses
    PROVE  Over(st) \in RoomRecords /\ Over(st).status = st
BY DEF Over, NoneYet, RoomRecords, RoomStatuses

\* The row of a player in a room that is over.
LEMMA PastRecord ==
    ASSUME NEW st \in RowStatuses
    PROVE  Past(st) \in RowRecords /\ Past(st).status = st /\ ~Past(st).key
BY DEF Past, Unseated, RowRecords, EngineStatuses

\* A step keeps who sits where, and what the engine says of them.
SeatsKept ==
    \A s \in Rooms, v \in Users : /\ HoldsSeat(v, s)' = HoldsSeat(v, s)
                                  /\ v \in Seated(s)' <=> v \in Seated(s)
                                  /\ row'[s][v].engine = row[s][v].engine

\* A new status of one seated player is all that changes in the rows.
LEMMA OneStatus ==
    ASSUME TypeOK, NEW r \in Rooms, NEW u \in Seated(r), NEW st \in RowStatuses \ {"NONE"},
           row' = [row EXCEPT ![r][u].status = st]
    PROVE  /\ row' \in [Rooms -> [Users -> RowRecords]]
           /\ \A s \in Rooms, v \in Users :
                 row'[s][v] = IF s = r /\ v = u THEN [row[s][v] EXCEPT !.status = st] ELSE row[s][v]
           /\ SeatsKept
<1>1. u \in Users /\ row \in [Rooms -> [Users -> RowRecords]]
      BY DEF Seated, TypeOK, RowRecords
<1>2. \A s \in Rooms, v \in Users :
         row'[s][v] = IF s = r /\ v = u THEN [row[s][v] EXCEPT !.status = st] ELSE row[s][v]
      BY <1>1
<1>3. [row[r][u] EXCEPT !.status = st] \in RowRecords
      BY <1>1 DEF RowRecords
<1>4. row' \in [Rooms -> [Users -> RowRecords]]
      BY <1>1, <1>3
<1>5. \A v \in Users, s \in Rooms : /\ row'[s][v].key = row[s][v].key
                                    /\ row'[s][v].engine = row[s][v].engine
                                    /\ row'[s][v].status = "NONE" <=> row[s][v].status = "NONE"
      BY <1>1, <1>2 DEF RowRecords, Seated
<1>6. SeatsKept
      BY <1>5 DEF SeatsKept, HoldsSeat, Seated
<1>7. QED BY <1>2, <1>4, <1>6

\* Steps of the sockets, of the queues' readers and of leaving a queue: no seat moves.
LEMMA SocketSteps ==
    ASSUME PInv, NEW u \in Users,
           \/ Connect(u) \/ ResumeDone(u) \/ ResumeNothing(u) \/ ResumeFails(u) \/ Close(u)
           \/ CleanUp(u) \/ LeaveQueue(u) \/ SweepEntry(u)
           \/ \E m \in Modes : Join(u, m)
           \/ \E r \in Rooms : ResumeRead(u, r) \/ AcceptBegin(u, r)
    PROVE  PInv'
<1> USE DEF PInv, IInv, SeatedOnce
<1> DEFINE A == Connect(u) \/ ResumeDone(u) \/ ResumeNothing(u) \/ ResumeFails(u) \/ Close(u)
           B == CleanUp(u) \/ LeaveQueue(u) \/ SweepEntry(u) \/ \E m \in Modes : Join(u, m)
           C == \E r \in Rooms : ResumeRead(u, r) \/ AcceptBegin(u, r)
<1>1. CASE A
  <2>1. UNCHANGED <<entry, room, row, settled, picked, accepting, sweeping, crashes>>
        BY <1>1 DEF Connect, ResumeDone, ResumeNothing, ResumeFails, Close, Authenticate, dbVars,
           opVars
  <2>2. marking' = marking
        BY <1>1 DEF Connect, ResumeDone, ResumeNothing, ResumeFails, Close, Authenticate,
           presenceVars
  <2>3. TypeOK'
    <3>1. CASE Connect(u)
      <4>1. /\ session' \in [Users -> {"none", "resuming", "open"}]
            /\ connects' \in [Users -> Nat]
            /\ leaving' = leaving
            BY <3>1 DEF Connect, TypeOK
      <4>2. resuming' \in [Users -> [step : {"idle", "called", "read", "written"},
                                     room : Rooms \cup {NoRoom}]]
        <5>1. resuming \in [Users -> ResumeRecords]
              BY DEF TypeOK, ResumeRecords
        <5>2. resuming' = [resuming EXCEPT ![u].step = "called"]
              BY <3>1 DEF Connect
        <5>3. [resuming[u] EXCEPT !.step = "called"] \in ResumeRecords
              BY <5>1 DEF ResumeRecords
        <5>4. resuming' \in [Users -> ResumeRecords]
              BY <5>1, <5>2, <5>3
        <5>5. QED BY <5>4 DEF ResumeRecords
      <4>3. QED BY <2>1, <2>2, <4>1, <4>2 DEF TypeOK
    <3>2. CASE ResumeDone(u)
          BY <3>2, <2>1, <2>2 DEF ResumeDone, Authenticate, TypeOK, hubVars, presenceVars, Resting
    <3>3. CASE ResumeNothing(u)
          BY <3>3, <2>1, <2>2 DEF ResumeNothing, Authenticate, TypeOK, hubVars, presenceVars,
             Resting
    <3>4. CASE ResumeFails(u)
          BY <3>4, <2>1, <2>2 DEF ResumeFails, TypeOK, hubVars, presenceVars, Resting
    <3>5. CASE Close(u)
          BY <3>5, <2>1, <2>2 DEF Close, TypeOK, hubVars, presenceVars, Resting
    <3>6. QED BY <1>1, <3>1, <3>2, <3>3, <3>4, <3>5
  <2>4. OneSeat' /\ SeatsFollowRooms' /\ RoomsInv' /\ SweeperInv'
        BY <2>1 DEF OneSeat, ActiveSeat, SeatsFollowRooms, RoomsInv, PlayersInv, AcceptingInv,
           SweeperInv, HoldsSeat, Seated
  <2>5. PresenceInv'
    <3>1. CASE Connect(u)
          BY <3>1, <2>1 DEF Connect, TypeOK, hubVars, presenceVars, Resting, PresenceInv,
             ResumingInv, MarkingInv, HoldsSeat, Seated
    <3>2. CASE ResumeDone(u)
          BY <3>2, <2>1 DEF ResumeDone, Authenticate, TypeOK, hubVars, presenceVars, Resting,
             PresenceInv, ResumingInv, MarkingInv, HoldsSeat, Seated
    <3>3. CASE ResumeNothing(u)
          BY <3>3, <2>1 DEF ResumeNothing, Authenticate, TypeOK, hubVars, presenceVars, Resting,
             PresenceInv, ResumingInv, MarkingInv, HoldsSeat, Seated, PresenceFree
    <3>4. CASE ResumeFails(u)
          BY <3>4, <2>1 DEF ResumeFails, TypeOK, hubVars, presenceVars, Resting, PresenceInv,
             ResumingInv, MarkingInv, HoldsSeat, Seated, PresenceFree
    <3>5. CASE Close(u)
          BY <3>5, <2>1 DEF Close, TypeOK, hubVars, presenceVars, Resting, PresenceInv,
             ResumingInv, MarkingInv, HoldsSeat, Seated
    <3>6. QED BY <1>1, <3>1, <3>2, <3>3, <3>4, <3>5
  <2>6. DisconnectedInv'
    <3>1. CASE Connect(u)
          BY <3>1, <2>1 DEF Connect, TypeOK, hubVars, presenceVars, Resting, PresenceInv,
             DisconnectedInv, AwayInv, HoldsSeat
    <3>2. CASE ResumeDone(u)
          BY <3>2, <2>1 DEF ResumeDone, Authenticate, TypeOK, hubVars, presenceVars, Resting,
             PresenceInv, ResumingInv, MarkingInv, DisconnectedInv, AwayInv, HoldsSeat
    <3>3. CASE ResumeNothing(u)
          BY <3>3, <2>1 DEF ResumeNothing, Authenticate, TypeOK, hubVars, presenceVars, Resting,
             PresenceInv, ResumingInv, MarkingInv, DisconnectedInv, AwayInv, HoldsSeat, ActiveSeat
    <3>4. CASE ResumeFails(u)
          BY <3>4, <2>1 DEF ResumeFails, TypeOK, hubVars, presenceVars, Resting, PresenceInv,
             DisconnectedInv, AwayInv, HoldsSeat
    <3>5. CASE Close(u)
          BY <3>5, <2>1 DEF Close, TypeOK, hubVars, presenceVars, Resting, PresenceInv,
             DisconnectedInv, AwayInv, HoldsSeat
    <3>6. QED BY <1>1, <3>1, <3>2, <3>3, <3>4, <3>5
  <2>7. QED BY <2>3, <2>4, <2>5, <2>6
<1>2. CASE B
  <2>1. UNCHANGED <<room, row, settled, session, picked, accepting, resuming, sweeping,
                    connects, crashes>>
        BY <1>2 DEF CleanUp, LeaveQueue, SweepEntry, Join, hubVars, presenceVars, opVars
  <2>2. PICK e \in {Closed} \cup [status : {"QUEUED"}, mode : Modes, room : {NoRoom}] :
           /\ entry' = [entry EXCEPT ![u] = e] \/ entry' = entry
           /\ e # Closed => ~ActiveSeat(u)
    <3>1. CASE CleanUp(u) \/ LeaveQueue(u) \/ SweepEntry(u)
      <4>1. entry' = [entry EXCEPT ![u] = Closed] \/ entry' = entry
            BY <3>1 DEF CleanUp, LeaveQueue, SweepEntry
      <4>2. QED BY <4>1
    <3>2. ASSUME NEW m \in Modes, Join(u, m)
          PROVE  /\ entry' = [entry EXCEPT ![u] =
                        [status |-> "QUEUED", mode |-> m, room |-> NoRoom]]
                 /\ ~ActiveSeat(u)
          BY <3>2 DEF Join
    <3>3. QED BY <1>2, <3>1, <3>2
  <2>3. /\ entry' \in [Users -> [status : EntryStatuses, mode : Modes \cup {NoMode},
                                 room : Rooms \cup {NoRoom}]]
        /\ \A v \in Users : entry'[v].status = "QUEUED" /\ ActiveSeat(v)
                               => entry[v].status = "QUEUED"
    <3>1. e \in [status : EntryStatuses, mode : Modes \cup {NoMode}, room : Rooms \cup {NoRoom}]
          BY DEF EntryStatuses, Closed
    <3>2. e.status = "QUEUED" => ~ActiveSeat(u)
          BY <2>2 DEF Closed
    <3>3. entry' \in [Users -> [status : EntryStatuses, mode : Modes \cup {NoMode},
                                room : Rooms \cup {NoRoom}]]
          BY <2>2, <3>1 DEF TypeOK
    <3>4. \A v \in Users : entry'[v] = entry[v] \/ (v = u /\ entry'[v] = e)
          BY <2>2 DEF TypeOK
    <3>5. QED BY <3>2, <3>3, <3>4
  <2>4. /\ leaving' \in [Users -> BOOLEAN]
        /\ marking' = marking
           \/ /\ session[u] = "none" /\ PresenceFree(u)
              /\ \E r \in Rooms \cup {NoRoom} : /\ marking' = [marking EXCEPT ![u] = r]
                                                /\ r # NoRoom => HoldsSeat(u, r)
    <3>1. CASE CleanUp(u)
      <4>1. (\E r \in Rooms : HoldsSeat(u, r) /\ room[r].status = "ACTIVE") =>
               LET c == CHOOSE r \in Rooms : HoldsSeat(u, r) /\ room[r].status = "ACTIVE"
               IN c \in Rooms /\ HoldsSeat(u, c)
            OBVIOUS
      <4>2. QED BY <3>1, <4>1 DEF CleanUp, TypeOK
    <3>2. CASE leaving' = leaving /\ marking' = marking
          BY <3>2 DEF TypeOK
    <3>3. QED BY <1>2, <3>1, <3>2 DEF LeaveQueue, SweepEntry, Join, presenceVars
  <2>5. marking' \in [Users -> Rooms \cup {NoRoom}]
        BY <2>4 DEF TypeOK
  <2>6. TypeOK'
        BY <2>1, <2>3, <2>4, <2>5 DEF TypeOK
  <2>7. OneSeat' /\ SeatsFollowRooms' /\ RoomsInv' /\ SweeperInv'
        BY <2>1, <2>3 DEF OneSeat, ActiveSeat, SeatsFollowRooms, RoomsInv, PlayersInv,
           AcceptingInv, SweeperInv, HoldsSeat, Seated
  <2>8. PresenceInv'
        BY <2>1, <2>4, ConstantsAssumption
        DEF PresenceInv, ResumingInv, MarkingInv, PresenceFree, HoldsSeat, Seated,
            SeatsFollowRooms, TypeOK
  <2>9. DisconnectedInv'
        BY <2>1 DEF DisconnectedInv, AwayInv, HoldsSeat
  <2>10. QED BY <2>6, <2>7, <2>8, <2>9
<1>3. CASE C
  <2>1. UNCHANGED <<dbVars, hubVars, leaving, marking, picked, sweeping, crashes>>
        BY <1>3 DEF ResumeRead, AcceptBegin, dbVars, hubVars, opVars, presenceVars
  <2>2. TypeOK'
    <3>1. accepting' \in [Rooms -> Users \cup {Nobody}]
          BY <1>3 DEF TypeOK, ResumeRead, AcceptBegin, opVars
    <3>2. resuming' \in [Users -> [step : {"idle", "called", "read", "written"},
                                   room : Rooms \cup {NoRoom}]]
          BY <1>3 DEF TypeOK, ResumeRead, AcceptBegin, presenceVars
    <3>3. QED BY <2>1, <3>1, <3>2 DEF TypeOK, dbVars, hubVars
  <2>3. OneSeat' /\ SeatsFollowRooms' /\ SweeperInv'
        BY <2>1 DEF OneSeat, ActiveSeat, SeatsFollowRooms, SweeperInv, HoldsSeat, Seated, dbVars
  <2>4. RoomsInv'
    <3>1. ASSUME NEW q \in Rooms PROVE PlayersInv(q)'
          BY <2>1 DEF RoomsInv, PlayersInv, Seated, dbVars
    <3>2. ASSUME NEW q \in Rooms PROVE AcceptingInv(q)'
      <4>1. CASE accepting'[q] = accepting[q]
            BY <4>1, <2>1 DEF RoomsInv, AcceptingInv, Seated, dbVars
      <4>2. CASE accepting'[q] # accepting[q]
        <5>1. AcceptBegin(u, q)
              BY <4>2, <1>3 DEF ResumeRead, AcceptBegin, TypeOK, opVars
        <5>2. QED BY <5>1, <2>1 DEF AcceptBegin, AcceptingInv, TypeOK, RoomFree, Seated, dbVars
      <4>3. QED BY <4>1, <4>2
    <3>3. QED BY <3>1, <3>2 DEF RoomsInv
  <2>5. PresenceInv'
    <3>1. ASSUME NEW r \in Rooms, ResumeRead(u, r)
          PROVE  PresenceInv'
      <4>1. /\ resuming[u].step = "called" /\ u \in Seated(r) /\ marking[u] = NoRoom
            /\ resuming'[u].step \in {"read", "written"} /\ resuming'[u].room = r
            /\ session[u] # "open"
        <5>1. resuming[u].step = "called" /\ marking[u] = NoRoom /\ HoldsSeat(u, r)
              BY <3>1 DEF ResumeRead, PresenceFree
        <5>2. u \in Seated(r)
              BY <5>1 DEF SeatsFollowRooms, HoldsSeat, Seated
        <5>3. resuming'[u].step \in {"read", "written"} /\ resuming'[u].room = r
              BY <3>1 DEF ResumeRead, TypeOK
        <5>4. session[u] # "open"
              BY <5>1 DEF PresenceInv, ResumingInv
        <5>5. QED BY <5>1, <5>2, <5>3, <5>4
      <4>2. \A v \in Users : v # u => resuming'[v] = resuming[v]
            BY <3>1 DEF ResumeRead, TypeOK
      <4>3. ASSUME NEW v \in Users PROVE ResumingInv(v)'
            BY <4>1, <4>2, <2>1 DEF PresenceInv, ResumingInv, Seated, dbVars, hubVars
      <4>4. ASSUME NEW v \in Users PROVE MarkingInv(v)'
            BY <4>1, <4>2, <2>1 DEF PresenceInv, MarkingInv, HoldsSeat, Seated, dbVars, hubVars
      <4>5. QED BY <4>3, <4>4 DEF PresenceInv
    <3>2. CASE resuming' = resuming
          BY <3>2, <2>1 DEF PresenceInv, ResumingInv, MarkingInv, HoldsSeat, Seated, dbVars, hubVars
    <3>3. QED BY <1>3, <3>1, <3>2 DEF AcceptBegin, presenceVars
  <2>6. DisconnectedInv'
        BY <1>3, <2>1 DEF DisconnectedInv, AwayInv, ResumeRead, AcceptBegin, TypeOK, OneSeat,
           HoldsSeat, dbVars, hubVars, presenceVars
  <2>7. QED BY <2>2, <2>3, <2>4, <2>5, <2>6
<1>4. QED BY <1>1, <1>2, <1>3

\* Where the seats and the life of the rooms are kept, so is what is said of them.
LEMMA SeatsKeptSuffices ==
    ASSUME PInv, SeatsKept, UNCHANGED entry,
           \A s \in Rooms : room'[s].status \in Live <=> room[s].status \in Live
    PROVE  OneSeat' /\ SeatsFollowRooms'
<1>1. OneSeat'
      BY DEF PInv, IInv, SeatedOnce, OneSeat, ActiveSeat, SeatsKept
<1>2. SeatsFollowRooms'
      BY DEF PInv, IInv, SeatedOnce, SeatsFollowRooms, SeatsKept
<1>3. QED BY <1>1, <1>2

\* The updates of resumeActive and markDisconnected.
LEMMA PresenceSteps ==
    ASSUME PInv, NEW u \in Users, ResumeWrite(u) \/ MarkDisconnected(u)
    PROVE  PInv'
<1> USE DEF PInv, IInv, SeatedOnce
<1>1. CASE ResumeWrite(u)
  <2> DEFINE r == resuming[u].room
  <2>1. r \in Rooms /\ u \in Seated(r) /\ marking[u] = NoRoom
        BY <1>1 DEF ResumeWrite, PresenceInv, ResumingInv, MarkingInv
  <2>2. /\ row' = [row EXCEPT ![r][u].status = "ACTIVE"]
        /\ "ACTIVE" \in RowStatuses \ {"NONE"}
        /\ UNCHANGED <<entry, room, settled, session, connects, picked, accepting, sweeping,
                       leaving, marking, crashes>>
        BY <1>1 DEF ResumeWrite, RowStatuses, hubVars, opVars
  <2>3. /\ row' \in [Rooms -> [Users -> RowRecords]]
        /\ \A s \in Rooms, v \in Users :
              row'[s][v] = IF s = r /\ v = u THEN [row[s][v] EXCEPT !.status = "ACTIVE"]
                           ELSE row[s][v]
        /\ SeatsKept
        BY <2>1, <2>2, OneStatus
  <2> HIDE DEF r
  <2>4. /\ resuming' \in [Users -> ResumeRecords]
        /\ \A v \in Users : resuming'[v].room = resuming[v].room
        /\ \A v \in Users \ {u} : resuming'[v] = resuming[v]
        /\ resuming'[u].step = "written"
    <3>1. resuming \in [Users -> ResumeRecords]
          BY DEF TypeOK, ResumeRecords
    <3>2. resuming' = [resuming EXCEPT ![u].step = "written"]
          BY <1>1 DEF ResumeWrite
    <3>3. [resuming[u] EXCEPT !.step = "written"] \in ResumeRecords
          BY <3>1 DEF ResumeRecords
    <3>4. QED BY <3>1, <3>2, <3>3 DEF ResumeRecords
  <2>5. TypeOK'
        BY <2>2, <2>3, <2>4 DEF TypeOK, RowRecords, ResumeRecords
  <2>6. OneSeat' /\ SeatsFollowRooms'
        BY <2>2, <2>3, SeatsKeptSuffices
  <2>7. RoomsInv' /\ SweeperInv'
        BY <2>2, <2>3, ConstantsAssumption DEF RoomsInv, PlayersInv, AcceptingInv, SweeperInv,
           SeatsKept, TypeOK
  <2>8. PresenceInv'
    <3>1. resuming[u].step = "read" /\ session[u] # "open"
          BY <1>1 DEF ResumeWrite, PresenceInv, ResumingInv, MarkingInv
    <3>2. ASSUME NEW v \in Users
          PROVE  ResumingInv(v)'
          BY <2>1, <2>2, <2>3, <2>4, <3>1 DEF PresenceInv, ResumingInv, MarkingInv, SeatsKept, r
    <3>3. ASSUME NEW v \in Users, marking'[v] # NoRoom
          PROVE  MarkingInv(v)'
      <4>1. v # u /\ marking[v] \in Rooms
            BY <2>1, <2>2, <3>3 DEF TypeOK
      <4>2. row'[marking[v]][v] = row[marking[v]][v]
            BY <2>3, <4>1
      <4>3. QED BY <2>2, <2>3, <2>4, <3>3, <4>1, <4>2 DEF PresenceInv, MarkingInv, SeatsKept
    <3>4. QED BY <3>2, <3>3 DEF PresenceInv, ResumingInv, MarkingInv
  <2>9. DisconnectedInv'
    <3>1. ASSUME NEW v \in Users, NEW s \in Rooms, row'[s][v].status = "DISCONNECTED"
          PROVE  (s # r \/ v # u) /\ row'[s][v] = row[s][v]
      <4>1. row[r][u] \in RowRecords
            BY <2>1 DEF TypeOK, RowRecords, Seated
      <4>2. [row[r][u] EXCEPT !.status = "ACTIVE"].status = "ACTIVE"
            BY <4>1 DEF RowRecords
      <4>3. QED BY <2>3, <3>1, <4>2
    <3>2. resuming[u].step = "read" /\ session[u] # "open"
          BY <1>1 DEF ResumeWrite, PresenceInv, ResumingInv, MarkingInv
    <3>3. ASSUME NEW v \in Users, NEW s \in Rooms, room'[s].status = "ACTIVE",
                 row'[s][v].status = "DISCONNECTED"
          PROVE  AwayInv(v, s)'
      <4>1. AwayInv(v, s) /\ row'[s][v] = row[s][v] /\ room'[s] = room[s]
            BY <2>2, <3>1, <3>3 DEF DisconnectedInv
      <4>2. v # u
            BY <3>1, <3>2, <3>3, <4>1 DEF AwayInv, r
      <4>3. QED BY <2>2, <2>4, <3>3, <4>1, <4>2 DEF AwayInv, HoldsSeat
    <3>4. QED BY <3>3 DEF DisconnectedInv, AwayInv
  <2>10. QED BY <2>5, <2>6, <2>7, <2>8, <2>9
<1>2. CASE MarkDisconnected(u)
  <2> DEFINE r == marking[u]
  <2>1. /\ r \in Rooms /\ u \in Seated(r)
        /\ session[u] = "none" \/ resuming[u].step = "called"
        /\ session[u] # "open"
        /\ resuming[u].step # "read"
        /\ row[r][u].status = "ACTIVE" => HoldsSeat(u, r)
        BY <1>2 DEF MarkDisconnected, PresenceInv, ResumingInv, MarkingInv, TypeOK
  <2>2. /\ UNCHANGED <<entry, room, settled, session, connects, picked, accepting, sweeping,
                       leaving, resuming, crashes>>
        /\ marking' = [marking EXCEPT ![u] = NoRoom]
        BY <1>2 DEF MarkDisconnected, hubVars, opVars
  <2>3. /\ row' \in [Rooms -> [Users -> RowRecords]]
        /\ \A s \in Rooms, v \in Users :
              \/ row'[s][v] = row[s][v]
              \/ /\ s = r /\ v = u /\ row[s][v].status = "ACTIVE"
                 /\ row'[s][v] = [row[s][v] EXCEPT !.status = "DISCONNECTED"]
        /\ SeatsKept
    <3>1. CASE row[r][u].status = "ACTIVE"
      <4>1. row' = [row EXCEPT ![r][u].status = "DISCONNECTED"]
            BY <1>2, <3>1 DEF MarkDisconnected
      <4>2. "DISCONNECTED" \in RowStatuses \ {"NONE"}
            BY DEF RowStatuses
      <4>3. QED BY <2>1, <3>1, <4>1, <4>2, OneStatus
    <3>2. CASE row[r][u].status # "ACTIVE"
      <4>1. row' = row
            BY <1>2, <3>2 DEF MarkDisconnected
      <4>2. QED BY <4>1 DEF TypeOK, RowRecords, SeatsKept, HoldsSeat, Seated
    <3>3. QED BY <3>1, <3>2
  <2> HIDE DEF r
  <2>4. TypeOK'
        BY <2>2, <2>3 DEF TypeOK, RowRecords
  <2>5. OneSeat' /\ SeatsFollowRooms'
        BY <2>2, <2>3, SeatsKeptSuffices
  <2>6. RoomsInv' /\ SweeperInv'
        BY <2>2, <2>3, ConstantsAssumption DEF RoomsInv, PlayersInv, AcceptingInv, SweeperInv,
           SeatsKept, TypeOK
  <2>7. PresenceInv'
    <3>1. ASSUME NEW v \in Users
          PROVE  ResumingInv(v)'
          BY <2>1, <2>2, <2>3 DEF PresenceInv, ResumingInv, MarkingInv, SeatsKept, TypeOK
    <3>2. ASSUME NEW v \in Users, marking'[v] # NoRoom
          PROVE  MarkingInv(v)'
      <4>1. v # u /\ marking[v] \in Rooms /\ marking'[v] = marking[v]
            BY <2>2, <3>2 DEF TypeOK
      <4>2. row'[marking[v]][v] = row[marking[v]][v]
            BY <2>3, <4>1
      <4>3. QED BY <2>2, <2>3, <3>2, <4>1, <4>2 DEF PresenceInv, ResumingInv, MarkingInv, SeatsKept
    <3>3. QED BY <3>1, <3>2 DEF PresenceInv, ResumingInv, MarkingInv
  <2>8. DisconnectedInv'
    <3>1. ASSUME NEW v \in Users, NEW s \in Rooms, room'[s].status = "ACTIVE",
                 row'[s][v].status = "DISCONNECTED"
          PROVE  AwayInv(v, s)'
      <4>1. CASE row'[s][v] = row[s][v]
            BY <2>2, <3>1, <4>1 DEF DisconnectedInv, AwayInv, HoldsSeat
      <4>2. CASE s = r /\ v = u /\ row[s][v].status = "ACTIVE"
            BY <2>1, <2>2, <2>3, <4>2 DEF SeatsKept, AwayInv
      <4>3. QED BY <2>3, <4>1, <4>2
    <3>2. QED BY <3>1 DEF DisconnectedInv, AwayInv
  <2>9. QED BY <2>4, <2>5, <2>6, <2>7, <2>8
<1>3. QED BY <1>1, <1>2

\* acceptMatch and readyRoom: the statuses of players in a handshake.
LEMMA HandshakeSteps ==
    ASSUME PInv, NEW r \in Rooms, AcceptCommit(r) \/ \E u \in Users : Ready(u, r)
    PROVE  PInv'
<1> USE DEF PInv, IInv, SeatedOnce
<1>1. /\ room \in [Rooms -> RoomRecords]
      /\ row \in [Rooms -> [Users -> RowRecords]]
      /\ UNCHANGED <<entry, settled, session, connects, picked, sweeping, resuming, leaving,
                     marking, crashes>>
      /\ accepting' \in [Rooms -> Users \cup {Nobody}]
      /\ \A s \in Rooms : accepting'[s] \in {Nobody, accepting[s]}
      /\ accepting'[r] = Nobody
      /\ room[r].status \in PreGame
      BY DEF AcceptCommit, Ready, RoomFree, PreGame, TypeOK, RoomRecords, RowRecords, RoomsInv,
         AcceptingInv, hubVars, presenceVars, opVars
<1>2. ASSUME NEW u \in Seated(r), NEW st \in {"ACCEPTED", "READY"}, NEW t \in RoomRecords,
             row' = [row EXCEPT ![r][u].status = st],
             room' = [room EXCEPT ![r] = t], t.status \in PreGame
      PROVE  PInv'
  <2>1. st \in RowStatuses \ {"NONE"}
        BY DEF RowStatuses
  <2>2. /\ row' \in [Rooms -> [Users -> RowRecords]]
        /\ \A s \in Rooms, v \in Users :
              row'[s][v] = IF s = r /\ v = u THEN [row[s][v] EXCEPT !.status = st] ELSE row[s][v]
        /\ SeatsKept
        BY <1>2, <2>1, OneStatus
  <2>3. /\ room' \in [Rooms -> RoomRecords]
        /\ room'[r].status \in PreGame
        /\ \A s \in Rooms \ {r} : room'[s] = room[s]
        BY <1>1, <1>2
  <2>4. TypeOK'
        BY <1>1, <2>2, <2>3 DEF TypeOK, RoomRecords, RowRecords
  <2>5. OneSeat' /\ SeatsFollowRooms'
    <3>1. \A s \in Rooms : room'[s].status \in Live <=> room[s].status \in Live
          BY <1>1, <2>3 DEF Live
    <3>2. QED BY <1>1, <2>2, <3>1, SeatsKeptSuffices
  <2>6. RoomsInv'
    <3>1. ASSUME NEW s \in Rooms
          PROVE  PlayersInv(s)'
      <4>1. CASE s = r
        <5>1. PlayersInv(r)
              BY DEF RoomsInv
        <5>2. /\ room'[r].status # "NONE"
              /\ \A v \in Users : v \in Seated(r) => row[r][v].engine = "ACTIVE"
              BY <1>1, <2>3, <5>1 DEF PlayersInv, PreGame
        <5>3. QED BY <2>2, <4>1, <5>2 DEF PlayersInv, SeatsKept
      <4>2. CASE s # r
        <5>1. PlayersInv(s) /\ room'[s] = room[s]
              BY <2>3, <4>2 DEF RoomsInv
        <5>2. QED BY <2>2, <5>1 DEF PlayersInv, SeatsKept
      <4>3. QED BY <4>1, <4>2
    <3>2. ASSUME NEW s \in Rooms, accepting'[s] # Nobody
          PROVE  AcceptingInv(s)'
      <4>1. s # r /\ accepting'[s] = accepting[s] /\ room'[s] = room[s] /\ AcceptingInv(s)
            BY <1>1, <2>3, <3>2 DEF RoomsInv
      <4>2. accepting[s] \in Users
            BY <3>2, <4>1 DEF TypeOK
      <4>3. QED BY <1>1, <2>2, <3>2, <4>1, <4>2 DEF AcceptingInv, SeatsKept
    <3>3. QED BY <3>1, <3>2 DEF RoomsInv, AcceptingInv
  <2>7. SweeperInv'
        BY <1>1, <2>3 DEF SweeperInv
  <2>8. [row[r][u] EXCEPT !.status = st].status = st
        BY <1>1, <2>1, RowUpdate DEF Seated
  <2>9. PresenceInv'
    <3>1. ASSUME NEW v \in Users
          PROVE  ResumingInv(v)'
          BY <1>1, <2>2 DEF PresenceInv, ResumingInv, SeatsKept
    <3>2. ASSUME NEW v \in Users, marking[v] # NoRoom
          PROVE  MarkingInv(v)'
      <4>1. marking[v] \in Rooms
            BY <3>2 DEF TypeOK
      <4>2. CASE marking[v] = r /\ v = u
        <5>1. row'[r][v].status = st
              BY <2>2, <2>8, <4>2
        <5>2. QED BY <1>1, <2>2, <3>2, <4>1, <4>2, <5>1 DEF PresenceInv, MarkingInv, SeatsKept
      <4>3. CASE ~(marking[v] = r /\ v = u)
            BY <1>1, <2>2, <3>2, <4>1, <4>3 DEF PresenceInv, MarkingInv, SeatsKept
      <4>4. QED BY <4>2, <4>3
    <3>3. QED BY <1>1, <3>1, <3>2 DEF PresenceInv, MarkingInv
  <2>10. DisconnectedInv'
    <3>1. ASSUME NEW v \in Users, NEW s \in Rooms, room'[s].status = "ACTIVE"
          PROVE  AwayInv(v, s)'
      <4>1. s # r
            BY <2>3, <3>1 DEF PreGame
      <4>2. room'[s] = room[s] /\ row'[s][v] = row[s][v] /\ AwayInv(v, s)
            BY <2>2, <2>3, <4>1 DEF DisconnectedInv
      <4>3. QED BY <1>1, <4>2 DEF AwayInv, HoldsSeat
    <3>2. QED BY <3>1 DEF DisconnectedInv, AwayInv
  <2>11. QED BY <2>4, <2>5, <2>6, <2>7, <2>9, <2>10
<1>3. CASE AcceptCommit(r)
  <2> DEFINE all == \A u \in Seated(r) \ {accepting[r]} : row[r][u].status # "MATCHED"
             t == IF all THEN [room[r] EXCEPT !.version = @ + 1, !.status = "WAITING_READY",
                                              !.late = FALSE]
                  ELSE [room[r] EXCEPT !.version = @ + 1]
  <2>1. accepting[r] \in Seated(r)
        BY <1>3 DEF AcceptCommit, RoomsInv, AcceptingInv
  <2>2. /\ row' = [row EXCEPT ![r][accepting[r]].status = "ACCEPTED"]
        /\ room' = [room EXCEPT ![r] = t]
    <3>1. row' = [row EXCEPT ![r][accepting[r]].status = "ACCEPTED"]
          BY <1>3 DEF AcceptCommit
    <3>2. room' = [room EXCEPT ![r] = t]
      <4>1. CASE all
            BY <1>1, <1>3, <4>1 DEF AcceptCommit, RoomRecords
      <4>2. CASE ~all
            BY <1>1, <1>3, <4>2 DEF AcceptCommit, RoomRecords
      <4>3. QED BY <4>1, <4>2
    <3>3. QED BY <3>1, <3>2
  <2>3. t \in RoomRecords /\ t.status \in PreGame
    <3>1. "WAITING_READY" \in RoomStatuses \cap PreGame
          BY DEF PreGame, RoomStatuses
    <3>2. QED BY <1>1, <3>1, RoomUpdate
  <2> HIDE DEF t
  <2>4. QED BY <1>2, <2>1, <2>2, <2>3
<1>4. ASSUME NEW u \in Users, Ready(u, r), ~\A v \in Seated(r) \ {u} : row[r][v].status = "READY"
      PROVE  PInv'
  <2> DEFINE t == [room[r] EXCEPT !.version = @ + 1]
  <2>1. u \in Seated(r)
        BY <1>4 DEF Ready, Seated
  <2>2. row' = [row EXCEPT ![r][u].status = "READY"] /\ room' = [room EXCEPT ![r] = t]
        BY <1>1, <1>4 DEF Ready, RoomRecords
  <2>3. t \in RoomRecords /\ t.status \in PreGame
    <3>1. room[r] \in RoomRecords /\ room[r].status \in RoomStatuses
          BY <1>1 DEF RoomRecords
    <3>2. QED BY <1>1, <3>1, RoomUpdate
  <2> HIDE DEF t
  <2>4. QED BY <1>2, <2>1, <2>2, <2>3
<1>5. ASSUME NEW u \in Users, Ready(u, r), \A v \in Seated(r) \ {u} : row[r][v].status = "READY"
      PROVE  PInv'
  <2>1. /\ row' = [row EXCEPT ![r] = [v \in Users |->
                      IF v \in Seated(r) THEN [row[r][v] EXCEPT !.status = "ACTIVE"]
                      ELSE row[r][v]]]
        /\ room' = [room EXCEPT ![r] = [room[r] EXCEPT !.version = @ + 1, !.status = "ACTIVE",
                                                       !.late = FALSE]]
        BY <1>1, <1>5 DEF Ready, RoomRecords
  <2>2. /\ row' \in [Rooms -> [Users -> RowRecords]]
        /\ \A s \in Rooms, v \in Users :
              row'[s][v] = IF s = r /\ v \in Seated(r) THEN [row[s][v] EXCEPT !.status = "ACTIVE"]
                           ELSE row[s][v]
    <3>1. ASSUME NEW v \in Users
          PROVE  [row[r][v] EXCEPT !.status = "ACTIVE"] \in RowRecords
          BY <1>1, RowUpdate DEF RowStatuses
    <3>2. QED BY <1>1, <2>1, <3>1
  <2>3. \A s \in Rooms, v \in Users :
           /\ row'[s][v].key = row[s][v].key
           /\ row'[s][v].engine = row[s][v].engine
           /\ row'[s][v].status = IF s = r /\ v \in Seated(r) THEN "ACTIVE" ELSE row[s][v].status
    <3>1. ASSUME NEW s \in Rooms, NEW v \in Users
          PROVE  LET new == [row[s][v] EXCEPT !.status = "ACTIVE"]
                 IN /\ new.status = "ACTIVE" /\ new.key = row[s][v].key
                    /\ new.engine = row[s][v].engine
          BY <1>1, RowUpdate DEF RowStatuses
    <3>2. ASSUME NEW s \in Rooms, NEW v \in Users
          PROVE  /\ row'[s][v].key = row[s][v].key
                 /\ row'[s][v].engine = row[s][v].engine
                 /\ row'[s][v].status = IF s = r /\ v \in Seated(r) THEN "ACTIVE"
                                        ELSE row[s][v].status
      <4>1. CASE s = r /\ v \in Seated(r)
        <5>1. row'[s][v] = [row[s][v] EXCEPT !.status = "ACTIVE"]
              BY <2>2, <4>1
        <5>2. QED BY <3>1, <4>1, <5>1
      <4>2. CASE ~(s = r /\ v \in Seated(r))
            BY <2>2, <4>2
      <4>3. QED BY <4>1, <4>2
    <3>3. QED BY <3>2
  <2>4. SeatsKept
        BY <2>3 DEF SeatsKept, HoldsSeat, Seated
  <2>5. /\ room' \in [Rooms -> RoomRecords]
        /\ room'[r].status = "ACTIVE"
        /\ \A s \in Rooms \ {r} : room'[s] = room[s]
    <3>1. /\ [room[r] EXCEPT !.version = @ + 1, !.status = "ACTIVE", !.late = FALSE]
                \in RoomRecords
          /\ [room[r] EXCEPT !.version = @ + 1, !.status = "ACTIVE", !.late = FALSE].status
                = "ACTIVE"
          BY <1>1, RoomUpdate DEF RoomStatuses
    <3>2. QED BY <1>1, <2>1, <3>1
  <2>6. TypeOK'
        BY <1>1, <2>2, <2>5 DEF TypeOK, RoomRecords, RowRecords
  <2>7. OneSeat' /\ SeatsFollowRooms'
    <3>1. \A s \in Rooms : room'[s].status \in Live <=> room[s].status \in Live
          BY <1>1, <2>5 DEF Live
    <3>2. QED BY <1>1, <2>4, <3>1, SeatsKeptSuffices
  <2>8. RoomsInv'
    <3>1. ASSUME NEW s \in Rooms
          PROVE  PlayersInv(s)'
      <4>1. CASE s = r
        <5>1. PlayersInv(r)
              BY DEF RoomsInv
        <5>2. /\ room'[r].status # "NONE"
              /\ \A v \in Users : v \in Seated(r) => row[r][v].engine = "ACTIVE"
              BY <1>1, <2>5, <5>1 DEF PlayersInv, PreGame
        <5>3. QED BY <2>4, <4>1, <5>2 DEF PlayersInv, SeatsKept
      <4>2. CASE s # r
        <5>1. PlayersInv(s) /\ room'[s] = room[s]
              BY <2>5, <4>2 DEF RoomsInv
        <5>2. QED BY <2>4, <5>1 DEF PlayersInv, SeatsKept
      <4>3. QED BY <4>1, <4>2
    <3>2. ASSUME NEW s \in Rooms, accepting'[s] # Nobody
          PROVE  AcceptingInv(s)'
      <4>1. s # r /\ accepting'[s] = accepting[s] /\ room'[s] = room[s] /\ AcceptingInv(s)
            BY <1>1, <2>5, <3>2 DEF RoomsInv
      <4>2. accepting[s] \in Users
            BY <3>2, <4>1 DEF TypeOK
      <4>3. QED BY <1>1, <2>4, <3>2, <4>1, <4>2 DEF AcceptingInv, SeatsKept
    <3>3. QED BY <3>1, <3>2 DEF RoomsInv, AcceptingInv
  <2>9. SweeperInv'
        BY <1>1, <1>5, <2>5 DEF SweeperInv, Ready, RoomFree
  <2>10. PresenceInv'
    <3>1. ASSUME NEW v \in Users
          PROVE  ResumingInv(v)'
          BY <1>1, <2>4 DEF PresenceInv, ResumingInv, SeatsKept
    <3>2. ASSUME NEW v \in Users, marking[v] # NoRoom
          PROVE  MarkingInv(v)'
      <4>1. marking[v] \in Rooms /\ v \in Seated(marking[v])
            BY <3>2 DEF TypeOK, PresenceInv, MarkingInv
      <4>2. CASE marking[v] = r
        <5>1. row[r][v].engine # "FORFEITED"
              BY <1>1, <4>1, <4>2 DEF RoomsInv, PlayersInv, Seated
        <5>2. HoldsSeat(v, r)
              BY <1>1, <4>1, <4>2, <5>1 DEF SeatsFollowRooms, Live
        <5>3. QED BY <1>1, <2>4, <3>2, <4>2, <5>2 DEF PresenceInv, MarkingInv, SeatsKept
      <4>3. CASE marking[v] # r
            BY <1>1, <2>2, <2>4, <3>2, <4>1, <4>3 DEF PresenceInv, MarkingInv, SeatsKept
      <4>4. QED BY <4>2, <4>3
    <3>3. QED BY <1>1, <3>1, <3>2 DEF PresenceInv, MarkingInv
  <2>11. DisconnectedInv'
    <3>1. ASSUME NEW v \in Users, NEW s \in Rooms, room'[s].status = "ACTIVE",
                 row'[s][v].status = "DISCONNECTED"
          PROVE  s # r
          BY <2>3, <3>1 DEF Seated
    <3>2. ASSUME NEW v \in Users, NEW s \in Rooms, room'[s].status = "ACTIVE",
                 row'[s][v].status = "DISCONNECTED"
          PROVE  AwayInv(v, s)'
      <4>1. room'[s] = room[s] /\ row'[s][v] = row[s][v] /\ AwayInv(v, s)
            BY <2>2, <2>5, <3>1, <3>2 DEF DisconnectedInv
      <4>2. QED BY <1>1, <4>1 DEF AwayInv, HoldsSeat
    <3>3. QED BY <3>2 DEF DisconnectedInv, AwayInv
  <2>12. QED BY <2>6, <2>7, <2>8, <2>9, <2>10, <2>11
<1>6. QED BY <1>3, <1>4, <1>5

\* tryCreateMatch: players without a seat sit down in a room nobody has used.
LEMMA MatchSteps ==
    ASSUME PInv, NEW m \in Modes,
           CreateMatch(m) \/ NoMatch(m) \/ \E us \in SUBSET Users : PickCandidates(m, us)
    PROVE  PInv'
<1> USE DEF PInv, IInv, SeatedOnce
<1>1. CASE NoMatch(m) \/ \E us \in SUBSET Users : PickCandidates(m, us)
  <2>1. /\ UNCHANGED <<dbVars, hubVars, presenceVars, accepting, sweeping, crashes>>
        /\ picked' \in [Modes -> SUBSET Users]
    <3>1. CASE NoMatch(m)
          BY <3>1 DEF NoMatch, TypeOK
    <3>2. ASSUME NEW us \in SUBSET Users, PickCandidates(m, us)
          PROVE  /\ UNCHANGED <<dbVars, hubVars, presenceVars, accepting, sweeping, crashes>>
                 /\ picked' \in [Modes -> SUBSET Users]
          BY <3>2 DEF PickCandidates, TypeOK
    <3>3. QED BY <1>1, <3>1, <3>2
  <2>2. TypeOK'
        BY <2>1 DEF TypeOK, dbVars, hubVars, presenceVars
  <2>3. OneSeat' /\ SeatsFollowRooms' /\ RoomsInv' /\ SweeperInv'
        BY <2>1 DEF OneSeat, ActiveSeat, SeatsFollowRooms, RoomsInv, PlayersInv, AcceptingInv,
           SweeperInv, HoldsSeat, Seated, dbVars
  <2>4. PresenceInv' /\ DisconnectedInv'
        BY <2>1 DEF PresenceInv, ResumingInv, MarkingInv, DisconnectedInv, AwayInv, HoldsSeat,
           Seated, dbVars, hubVars, presenceVars
  <2>5. QED BY <2>2, <2>3, <2>4
<1>2. CASE CreateMatch(m)
  <2> DEFINE r == NewRoom
             us == picked[m]
             sat == [Unseated EXCEPT !.status = "MATCHED", !.key = TRUE]
  <2>1. r \in Rooms /\ room[r].status = "NONE"
        BY <1>2 DEF CreateMatch, NewRoom, Unused
  <2>2. CreateMatchIn(m, r)
        BY <1>2 DEF CreateMatch
  <2> HIDE DEF r
  <2>3. /\ us \subseteq Users
        /\ \A v \in us : ~ActiveSeat(v)
        BY <2>2 DEF CreateMatchIn, StillWaiting, TypeOK
  <2>4. /\ UNCHANGED <<settled, session, connects, resuming, leaving, marking, accepting, sweeping,
                       crashes>>
        /\ picked' \in [Modes -> SUBSET Users]
        BY <2>2 DEF CreateMatchIn, hubVars, presenceVars, TypeOK
  <2>5. /\ sat \in RowRecords /\ sat.status = "MATCHED" /\ sat.key /\ sat.engine = "ACTIVE"
        /\ Unseated \in RowRecords /\ Unseated.status = "NONE" /\ ~Unseated.key
        BY Fresh
  <2> HIDE DEF sat
  <2>6. /\ row' \in [Rooms -> [Users -> RowRecords]]
        /\ \A v \in Users : row'[r][v] = IF v \in us THEN sat ELSE Unseated
        /\ \A s \in Rooms \ {r} : row'[s] = row[s]
    <3>1. row' = [row EXCEPT ![r] = [v \in Users |-> IF v \in us THEN sat ELSE Unseated]]
          BY <2>2 DEF CreateMatchIn, sat
    <3>2. QED BY <2>1, <2>5, <3>1 DEF TypeOK, RowRecords
  <2>7. /\ room' \in [Rooms -> RoomRecords]
        /\ room'[r].status = "MATCHED"
        /\ \A s \in Rooms \ {r} : room'[s] = room[s]
    <3>1. PICK first \in us :
             room' = [room EXCEPT ![r] = [NoneYet EXCEPT !.status = "MATCHED", !.turn = first]]
          BY <2>2 DEF CreateMatchIn
    <3>2. LET new == [NoneYet EXCEPT !.status = "MATCHED", !.turn = first]
          IN new \in RoomRecords /\ new.status = "MATCHED"
          BY <2>3, NewRoomRecord
    <3>3. room \in [Rooms -> RoomRecords]
          BY DEF TypeOK, RoomRecords
    <3>4. QED BY <2>1, <3>1, <3>2, <3>3
  <2>8. /\ entry' \in [Users -> EntryRecords]
        /\ \A v \in us : entry'[v].status = "MATCHED"
        /\ \A v \in Users \ us : entry'[v] = entry[v]
    <3>1. entry' = [v \in Users |-> IF v \in us
                                    THEN [entry[v] EXCEPT !.status = "MATCHED", !.room = r]
                                    ELSE entry[v]]
          BY <2>2 DEF CreateMatchIn
    <3>2. entry \in [Users -> EntryRecords]
          BY DEF TypeOK, EntryRecords
    <3>3. ASSUME NEW v \in Users
          PROVE  LET new == [entry[v] EXCEPT !.status = "MATCHED", !.room = r]
                 IN new \in EntryRecords /\ new.status = "MATCHED"
          BY <2>1, <3>2, EntryUpdate DEF EntryStatuses
    <3>4. QED BY <2>3, <3>1, <3>2, <3>3
  <2>9. TypeOK'
        BY <2>4, <2>6, <2>7, <2>8 DEF TypeOK, RoomRecords, RowRecords, EntryRecords
  <2>10. /\ \A v \in Users, s \in Rooms :
               HoldsSeat(v, s)' <=> IF s = r THEN v \in us ELSE HoldsSeat(v, s)
         /\ \A v \in Users, s \in Rooms :
               v \in Seated(s)' <=> IF s = r THEN v \in us ELSE v \in Seated(s)
        BY <2>5, <2>6 DEF HoldsSeat, Seated, Unseated, TypeOK
  <2>11. Seated(r) = {}
        BY <2>1 DEF RoomsInv, PlayersInv, Seated
  <2>12. OneSeat'
        BY <2>3, <2>8, <2>10 DEF OneSeat, ActiveSeat
  <2>13. SeatsFollowRooms'
        BY <2>1, <2>5, <2>6, <2>7, <2>10 DEF SeatsFollowRooms, Live, PreGame
  <2>14. RoomsInv'
    <3>1. ASSUME NEW s \in Rooms
          PROVE  PlayersInv(s)'
          BY <2>4, <2>5, <2>6, <2>7, <2>10 DEF RoomsInv, PlayersInv
    <3>2. ASSUME NEW s \in Rooms, accepting'[s] # Nobody
          PROVE  AcceptingInv(s)'
      <4>1. s # r
            BY <2>1, <2>4, <2>11, <3>2 DEF RoomsInv, AcceptingInv
      <4>2. QED BY <2>4, <2>7, <2>10, <3>2, <4>1 DEF RoomsInv, AcceptingInv, TypeOK
    <3>3. QED BY <3>1, <3>2 DEF RoomsInv, AcceptingInv
  <2>15. SweeperInv'
        BY <2>1, <2>4, <2>7 DEF SweeperInv, PreGame
  <2>16. PresenceInv'
    <3>1. ASSUME NEW v \in Users
          PROVE  ResumingInv(v)'
          BY <2>4, <2>10, <2>11 DEF PresenceInv, ResumingInv
    <3>2. ASSUME NEW v \in Users, marking[v] # NoRoom
          PROVE  MarkingInv(v)'
      <4>1. marking[v] \in Rooms \ {r}
            BY <2>11, <3>2 DEF TypeOK, PresenceInv, MarkingInv
      <4>2. QED BY <2>4, <2>6, <2>10, <3>2, <4>1 DEF PresenceInv, MarkingInv
    <3>3. QED BY <2>4, <3>1, <3>2 DEF PresenceInv, MarkingInv
  <2>17. DisconnectedInv'
        BY <2>4, <2>6, <2>7, <2>10 DEF DisconnectedInv, AwayInv
  <2>18. QED BY <2>9, <2>12, <2>13, <2>14, <2>15, <2>16, <2>17
<1>3. QED BY <1>1, <1>2

\* The rows a step of the engine hands to mutateActiveRoom: nobody sits down or comes
\* back, and only who is forfeited loses the seat or changes the status.
EngineRows(r, rows) ==
    /\ rows \in [Users -> RowRecords]
    /\ \A v \in Users :
          /\ rows[v].status = row[r][v].status \/ (v \in Seated(r) /\ rows[v].status = "FORFEITED")
          /\ rows[v].key <=> row[r][v].key /\ rows[v].engine # "FORFEITED"
          /\ row[r][v].engine = "FORFEITED" => rows[v].engine = "FORFEITED"
          /\ rows[v].engine = "FORFEITED" /\ row[r][v].key => rows[v].status = "FORFEITED"

\* Such a step, with the settlement of a game it decides.
LEMMA MutateStep ==
    ASSUME PInv, NEW r \in Rooms, room[r].status = "ACTIVE", RoomFree(r),
           NEW rows, EngineRows(r, rows), NEW turns \in SUBSET (Users \cup {Nobody}),
           Mutate(r, rows, turns),
           UNCHANGED <<hubVars, presenceVars, picked, accepting, crashes>>,
           sweeping' \in {sweeping, Waiting}
    PROVE  PInv'
<1> USE DEF PInv, IInv, SeatedOnce
<1> DEFINE over == Decided(rows)
           next == IF over THEN SettledRows(rows) ELSE rows
<1>1. /\ row \in [Rooms -> [Users -> RowRecords]]
      /\ room \in [Rooms -> RoomRecords]
      BY DEF TypeOK, RowRecords, RoomRecords
<1>2. /\ next \in [Users -> RowRecords]
      /\ \A v \in Users : /\ next[v].status = "NONE" <=> row[r][v].status = "NONE"
                          /\ next[v].key <=> ~over /\ rows[v].key
                          /\ over => next[v].status \in {"NONE", "FORFEITED", "FINISHED"}
                          /\ ~over => next[v] = rows[v]
  <2>1. CASE over
    <3>1. next = [u \in Users |-> IF rows[u].status = "NONE" THEN Unseated
                     ELSE Past(IF rows[u].engine = "FORFEITED" THEN "FORFEITED" ELSE "FINISHED")]
          BY <2>1 DEF SettledRows
    <3>2. \A st \in {"FORFEITED", "FINISHED"} :
             Past(st) \in RowRecords /\ Past(st).status = st /\ ~Past(st).key
          BY PastRecord DEF RowStatuses
    <3>3. Unseated \in RowRecords /\ Unseated.status = "NONE" /\ ~Unseated.key
          BY Fresh
    <3>4. \A v \in Users : rows[v].status = "NONE" <=> row[r][v].status = "NONE"
          BY DEF EngineRows, Seated
    <3> HIDE DEF next
    <3>5. next \in [Users -> RowRecords]
          BY <3>1, <3>2, <3>3
    <3>6. \A v \in Users : /\ rows[v].status = "NONE" => next[v] = Unseated
                           /\ rows[v].status # "NONE" =>
                                 \E st \in {"FORFEITED", "FINISHED"} : next[v] = Past(st)
          BY <3>1
    <3>7. QED BY <2>1, <3>2, <3>3, <3>4, <3>5, <3>6
  <2>2. CASE ~over
        BY <2>2 DEF EngineRows, Seated
  <2>3. QED BY <2>1, <2>2
<1>3. row' = [row EXCEPT ![r] = next]
      BY DEF Mutate
<1> HIDE DEF next
<1>4. /\ row' \in [Rooms -> [Users -> RowRecords]]
      /\ row'[r] = next
      /\ \A s \in Rooms \ {r} : row'[s] = row[s]
      BY <1>1, <1>2, <1>3
<1>5. /\ room' \in [Rooms -> RoomRecords]
      /\ room'[r].status = IF over THEN "COMPLETED" ELSE "ACTIVE"
      /\ \A s \in Rooms \ {r} : room'[s] = room[s]
  <2>1. CASE over
    <3>1. room' = [room EXCEPT ![r] = Over("COMPLETED")]
          BY <2>1 DEF Mutate
    <3>2. QED BY <1>1, <2>1, <3>1, OverRecord DEF RoomStatuses
  <2>2. CASE ~over
    <3>1. PICK turn \in turns : room' = [room EXCEPT ![r].version = @ + 1, ![r].turn = turn,
                                                     ![r].turnLate = FALSE]
          BY <2>2 DEF Mutate
    <3>2. room' = [room EXCEPT ![r] = [room[r] EXCEPT !.version = @ + 1, !.turn = turn,
                                                      !.turnLate = FALSE]]
          BY <1>1, <3>1 DEF RoomRecords
    <3>3. turn \in Users \cup {Nobody} /\ room[r].version + 1 \in Nat
          BY <1>1 DEF RoomRecords
    <3>4. ASSUME NEW n \in Nat
          PROVE  LET new == [room[r] EXCEPT !.version = n, !.turn = turn, !.turnLate = FALSE]
                 IN new \in RoomRecords /\ new.status = room[r].status
          BY <1>1, <3>3 DEF RoomRecords
    <3>5. QED BY <1>1, <2>2, <3>2, <3>3, <3>4
  <2>3. QED BY <2>1, <2>2
<1>6. /\ UNCHANGED <<entry, session, connects, resuming, leaving, marking, picked, accepting,
                     crashes>>
      /\ settled' \in [Users -> Nat]
  <2>1. UNCHANGED <<entry, session, connects, resuming, leaving, marking, picked, accepting,
                    crashes>>
        BY DEF Mutate, hubVars, presenceVars
  <2>2. settled' = [u \in Users |-> IF over /\ u \in Seated(r) THEN settled[u] + 1 ELSE settled[u]]
        BY DEF Mutate
  <2>3. settled \in [Users -> Nat]
        BY DEF TypeOK
  <2> HIDE DEF over
  <2>4. settled' \in [Users -> Nat]
        BY <2>2, <2>3
  <2>5. QED BY <2>1, <2>4
<1>7. \A v \in Users, s \in Rooms :
         /\ HoldsSeat(v, s)' <=> HoldsSeat(v, s) /\ (s = r => ~over /\ rows[v].key)
         /\ v \in Seated(s)' <=> v \in Seated(s)
      BY <1>2, <1>4 DEF HoldsSeat, Seated, EngineRows
<1>8. TypeOK'
  <2>1. Waiting \in [kind : {"idle", "pregame", "cancel", "absent"}, room : Rooms \cup {NoRoom},
                     user : Users \cup {Nobody}, version : Nat, users : SUBSET Users]
        BY DEF Waiting
  <2>2. QED BY <1>4, <1>5, <1>6, <2>1 DEF TypeOK, RowRecords, RoomRecords
<1>9. OneSeat'
      BY <1>6, <1>7 DEF OneSeat, ActiveSeat
<1>10. SeatsFollowRooms'
  <2>1. ASSUME NEW v \in Users
        PROVE  HoldsSeat(v, r)' <=> /\ v \in Seated(r)'
                                    /\ room'[r].status \in Live
                                    /\ row'[r][v].engine # "FORFEITED"
    <3>1. HoldsSeat(v, r) <=> v \in Seated(r) /\ row[r][v].engine # "FORFEITED"
          BY DEF SeatsFollowRooms, Live
    <3>2. rows[v].key <=> row[r][v].key /\ rows[v].engine # "FORFEITED"
          BY DEF EngineRows
    <3>3. row[r][v].engine = "FORFEITED" => rows[v].engine = "FORFEITED"
          BY DEF EngineRows
    <3>4. CASE over
          BY <1>5, <1>7, <3>4 DEF Live, PreGame
    <3>5. CASE ~over
      <4>1. row'[r][v] = rows[v]
            BY <1>2, <1>4, <3>5
      <4>2. QED BY <1>5, <1>7, <3>1, <3>2, <3>3, <3>5, <4>1 DEF Live, HoldsSeat
    <3>6. QED BY <3>4, <3>5
  <2>2. ASSUME NEW v \in Users, NEW s \in Rooms \ {r}
        PROVE  HoldsSeat(v, s)' <=> /\ v \in Seated(s)'
                                    /\ room'[s].status \in Live
                                    /\ row'[s][v].engine # "FORFEITED"
        BY <1>4, <1>5, <1>7 DEF SeatsFollowRooms
  <2>3. QED BY <2>1, <2>2 DEF SeatsFollowRooms
<1>11. RoomsInv'
  <2>1. ASSUME NEW s \in Rooms
        PROVE  PlayersInv(s)'
    <3>1. CASE s = r
          BY <1>5, <3>1 DEF PlayersInv, PreGame
    <3>2. CASE s # r
          BY <1>4, <1>5, <1>7, <3>2 DEF RoomsInv, PlayersInv
    <3>3. QED BY <3>1, <3>2
  <2>2. ASSUME NEW s \in Rooms, accepting'[s] # Nobody
        PROVE  AcceptingInv(s)'
    <3>1. s # r
          BY <1>6, <2>2 DEF RoomFree
    <3>2. accepting[s] \in Users
          BY <1>6, <2>2 DEF TypeOK
    <3>3. QED BY <1>5, <1>6, <1>7, <2>2, <3>1, <3>2 DEF RoomsInv, AcceptingInv, Waiting
  <2>3. QED BY <2>1, <2>2 DEF RoomsInv, AcceptingInv
<1>12. SweeperInv'
  <2>1. CASE sweeping' = sweeping
    <3>1. sweeping.kind = "cancel" => sweeping.room # r
          BY DEF SweeperInv, PreGame
    <3>2. QED BY <1>5, <2>1, <3>1 DEF SweeperInv
  <2>2. CASE sweeping' = Waiting
        BY <2>2 DEF SweeperInv, Waiting
  <2>3. QED BY <2>1, <2>2
<1>13. PresenceInv'
  <2>1. ASSUME NEW v \in Users
        PROVE  ResumingInv(v)'
        BY <1>6, <1>7 DEF PresenceInv, ResumingInv
  <2>2. ASSUME NEW v \in Users, marking[v] # NoRoom
        PROVE  MarkingInv(v)'
    <3>1. marking[v] \in Rooms /\ MarkingInv(v)
          BY <2>2 DEF TypeOK, PresenceInv
    <3>2. CASE marking[v] = r
      <4>1. CASE over
        <5>1. row'[r][v].status \notin {"ACTIVE", "DISCONNECTED"}
              BY <1>2, <1>4, <4>1
        <5>2. QED BY <1>6, <1>7, <2>2, <3>1, <3>2, <5>1 DEF MarkingInv
      <4>2. CASE ~over
        <5>1. row'[r][v] = rows[v]
              BY <1>2, <1>4, <4>2
        <5>2. rows[v].status # row[r][v].status => rows[v].status = "FORFEITED"
              BY DEF EngineRows
        <5>3. HoldsSeat(v, r) => HoldsSeat(v, r)' \/ rows[v].status = "FORFEITED"
              BY <5>1 DEF EngineRows, HoldsSeat
        <5>4. QED BY <1>6, <1>7, <2>2, <3>1, <3>2, <5>1, <5>2, <5>3 DEF MarkingInv
      <4>3. QED BY <4>1, <4>2
    <3>3. CASE marking[v] # r
          BY <1>4, <1>6, <1>7, <2>2, <3>1, <3>3 DEF MarkingInv
    <3>4. QED BY <3>2, <3>3
  <2>3. QED BY <1>6, <2>1, <2>2 DEF PresenceInv, MarkingInv
<1>14. DisconnectedInv'
  <2>1. ASSUME NEW v \in Users, NEW s \in Rooms, room'[s].status = "ACTIVE",
               row'[s][v].status = "DISCONNECTED"
        PROVE  AwayInv(v, s)'
    <3>1. AwayInv(v, s)
          BY DEF DisconnectedInv
    <3>2. CASE s = r
      <4>1. ~over /\ row'[r][v] = rows[v]
            BY <1>2, <1>4, <1>5, <2>1, <3>2
      <4>2. row[r][v].status = "DISCONNECTED"
            BY <2>1, <3>2, <4>1 DEF EngineRows
      <4>3. HoldsSeat(v, r)
            BY <3>1, <3>2, <4>2 DEF AwayInv
      <4>4. HoldsSeat(v, r)'
            BY <2>1, <3>2, <4>1, <4>3 DEF EngineRows, HoldsSeat
      <4>5. QED BY <1>6, <3>1, <3>2, <4>2, <4>4 DEF AwayInv
    <3>3. CASE s # r
          BY <1>4, <1>5, <1>6, <2>1, <3>1, <3>3 DEF AwayInv, HoldsSeat
    <3>4. QED BY <3>2, <3>3
  <2>2. QED BY <2>1 DEF DisconnectedInv, AwayInv
<1>15. QED BY <1>8, <1>9, <1>10, <1>11, <1>12, <1>13, <1>14

\* Such are the rows in which a player in the game goes on playing, has won or is out.
LEMMA OnePlayer ==
    ASSUME PInv, NEW r \in Rooms, NEW u \in Users, HoldsSeat(u, r), NEW x \in RowRecords,
           \/ x.status = row[r][u].status /\ x.key /\ x.engine # "FORFEITED"
           \/ x.status = "FORFEITED" /\ ~x.key /\ x.engine = "FORFEITED"
    PROVE  EngineRows(r, [row[r] EXCEPT ![u] = x])
<1> USE DEF PInv, IInv, SeatedOnce
<1> DEFINE rows == [row[r] EXCEPT ![u] = x]
<1>1. row[r] \in [Users -> RowRecords]
      BY DEF TypeOK, RowRecords
<1>2. rows \in [Users -> RowRecords] /\ rows[u] = x /\ \A v \in Users \ {u} : rows[v] = row[r][v]
      BY <1>1
<1>3. /\ u \in Seated(r) /\ row[r][u].engine # "FORFEITED" /\ row[r][u].key
      /\ \A v \in Users : row[r][v].key => row[r][v].engine # "FORFEITED"
      BY DEF SeatsFollowRooms, HoldsSeat
<1> HIDE DEF rows
<1>4. ASSUME NEW v \in Users
      PROVE  /\ \/ rows[v].status = row[r][v].status
                \/ v \in Seated(r) /\ rows[v].status = "FORFEITED"
             /\ rows[v].key <=> row[r][v].key /\ rows[v].engine # "FORFEITED"
             /\ row[r][v].engine = "FORFEITED" => rows[v].engine = "FORFEITED"
             /\ rows[v].engine = "FORFEITED" /\ row[r][v].key => rows[v].status = "FORFEITED"
  <2>1. CASE v = u
        BY <1>2, <1>3, <2>1
  <2>2. CASE v # u
        BY <1>2, <1>3, <2>2
  <2>3. QED BY <2>1, <2>2
<1>5. EngineRows(r, rows)
      BY <1>2, <1>4 DEF EngineRows
<1>6. QED BY <1>5 DEF rows

\* The row of a player after a move, after a strike, and when forfeited.
LEMMA RowMoved ==
    ASSUME NEW x \in RowRecords, NEW e \in {"ACTIVE", "FINISHED"}
    PROVE  LET y == [x EXCEPT !.strikes = 0, !.engine = e]
           IN y \in RowRecords /\ y.status = x.status /\ y.key = x.key /\ y.engine = e
<1>1. e \in EngineStatuses
      BY DEF EngineStatuses
<1>2. QED BY <1>1 DEF RowRecords

LEMMA RowStruck ==
    ASSUME NEW x \in RowRecords
    PROVE  LET y == [x EXCEPT !.strikes = @ + 1]
           IN y \in RowRecords /\ y.status = x.status /\ y.key = x.key /\ y.engine = x.engine
<1>1. x.strikes + 1 \in Nat
      BY DEF RowRecords
<1>2. ASSUME NEW n \in Nat
      PROVE  LET y == [x EXCEPT !.strikes = n]
             IN y \in RowRecords /\ y.status = x.status /\ y.key = x.key /\ y.engine = x.engine
      BY DEF RowRecords
<1>3. QED BY <1>1, <1>2

LEMMA RowForfeited ==
    ASSUME NEW x \in RowRecords
    PROVE  LET y == [x EXCEPT !.engine = "FORFEITED", !.status = "FORFEITED", !.key = FALSE]
           IN y \in RowRecords /\ y.status = "FORFEITED" /\ ~y.key /\ y.engine = "FORFEITED"
<1>1. "FORFEITED" \in RowStatuses /\ "FORFEITED" \in EngineStatuses
      BY DEF RowStatuses, EngineStatuses
<1>2. QED BY <1>1 DEF RowRecords

\* A player still in the game of a running room may be forfeited.
LEMMA ForfeitedOne ==
    ASSUME PInv, NEW r \in Rooms, room[r].status = "ACTIVE", NEW u \in Users, CanAct(u, r),
           row[r][u].engine = "ACTIVE"
    PROVE  /\ HoldsSeat(u, r)
           /\ row[r][u] \in RowRecords
           /\ ForfeitedRows(u, r) = [row[r] EXCEPT ![u] = ForfeitedRows(u, r)[u]]
           /\ ForfeitedRows(u, r)[u] \in RowRecords
           /\ ForfeitedRows(u, r)[u].status = "FORFEITED"
           /\ ~ForfeitedRows(u, r)[u].key
           /\ ForfeitedRows(u, r)[u].engine = "FORFEITED"
           /\ EngineRows(r, ForfeitedRows(u, r))
           /\ TurnsAfter(u, r, ForfeitedRows(u, r)) \in SUBSET (Users \cup {Nobody})
<1> USE DEF PInv, IInv, SeatedOnce
<1> DEFINE x == [row[r][u] EXCEPT !.engine = "FORFEITED", !.status = "FORFEITED", !.key = FALSE]
<1>1. row[r] \in [Users -> RowRecords]
      BY DEF TypeOK, RowRecords
<1>2. HoldsSeat(u, r)
  <2>1. u \in Seated(r)
        BY DEF CanAct, Seated
  <2>2. QED BY <2>1 DEF SeatsFollowRooms, Live
<1>3. x \in RowRecords /\ x.status = "FORFEITED" /\ ~x.key /\ x.engine = "FORFEITED"
      BY <1>1, RowForfeited
<1>4. ForfeitedRows(u, r) = [row[r] EXCEPT ![u] = x]
      BY DEF ForfeitedRows
<1> HIDE DEF x
<1>5. ForfeitedRows(u, r)[u] = x
      BY <1>1, <1>4
<1>6. EngineRows(r, ForfeitedRows(u, r))
      BY <1>2, <1>3, <1>4, OnePlayer
<1>7. room[r].turn \in Users \cup {Nobody}
      BY DEF TypeOK
<1>8. TurnsAfter(u, r, ForfeitedRows(u, r)) \in SUBSET (Users \cup {Nobody})
      BY <1>7 DEF TurnsAfter, StillPlaying
<1>9. QED BY <1>1, <1>2, <1>3, <1>4, <1>5, <1>6, <1>8

\* A step of the engine in a running room, and nothing else but the end of a sweep.
EngineStep(r, rows, turns) ==
    /\ room[r].status = "ACTIVE" /\ RoomFree(r)
    /\ EngineRows(r, rows) /\ Mutate(r, rows, turns)
    /\ UNCHANGED <<hubVars, presenceVars, picked, accepting, crashes>>
    /\ sweeping' \in {sweeping, Waiting}
MutatesRoom ==
    \E r \in Rooms : \E rows \in [Users -> RowRecords], turns \in SUBSET (Users \cup {Nobody}) : EngineStep(r, rows, turns)

\* Moves, forfeits, and what the sweeper does about turns and absent players, are such steps.
LEMMA GameMoves ==
    ASSUME PInv,
           \/ \E u \in Users, r \in Rooms : Play(u, r) \/ Forfeit(u, r)
           \/ \E r \in Rooms : SweepTurn(r)
           \/ SweepAbsent
    PROVE  MutatesRoom \/ (SweepAbsent /\ UNCHANGED dbVars /\ sweeping' = Waiting)
<1> USE DEF PInv, IInv, SeatedOnce
<1>1. ASSUME NEW u \in Users, NEW r \in Rooms, Play(u, r)
      PROVE  MutatesRoom
  <2>1. /\ room[r].status = "ACTIVE" /\ RoomFree(r) /\ row[r][u].engine = "ACTIVE"
        /\ UNCHANGED <<hubVars, presenceVars, picked, accepting, crashes>>
        /\ sweeping' = sweeping
        /\ CanAct(u, r)
        BY <1>1 DEF Play, CanAct, opVars
  <2>2. PICK outcome \in {"ACTIVE", "FINISHED"} :
           LET rows == [row[r] EXCEPT ![u].strikes = 0, ![u].engine = outcome]
           IN Mutate(r, rows, StillPlaying(rows))
        BY <1>1 DEF Play
  <2> DEFINE rows == [row[r] EXCEPT ![u].strikes = 0, ![u].engine = outcome]
             x == [row[r][u] EXCEPT !.strikes = 0, !.engine = outcome]
  <2>3. HoldsSeat(u, r) /\ row[r][u] \in RowRecords
        BY <2>1, ForfeitedOne
  <2>4. x \in RowRecords /\ x.status = row[r][u].status /\ x.key = row[r][u].key
        /\ x.engine = outcome
        BY <2>3, RowMoved
  <2>5. row[r] \in [Users -> RowRecords]
        BY DEF TypeOK, RowRecords
  <2>6. rows = [row[r] EXCEPT ![u] = x]
        BY <2>3, <2>5 DEF RowRecords
  <2> HIDE DEF x
  <2>7. EngineRows(r, rows)
        BY <2>3, <2>4, <2>6, OnePlayer DEF HoldsSeat
  <2>8. StillPlaying(rows) \in SUBSET (Users \cup {Nobody})
        BY DEF StillPlaying
  <2> HIDE DEF rows
  <2>9. Mutate(r, rows, StillPlaying(rows))
        BY <2>2 DEF rows
  <2>10. EngineStep(r, rows, StillPlaying(rows)) /\ rows \in [Users -> RowRecords]
        BY <2>1, <2>7, <2>9 DEF EngineStep, EngineRows
  <2>11. QED BY <2>8, <2>10 DEF MutatesRoom
<1>2. ASSUME NEW u \in Users, NEW r \in Rooms, CanAct(u, r), ForfeitStep(u, r),
             UNCHANGED <<hubVars, presenceVars, picked, accepting, crashes>>,
             sweeping' \in {sweeping, Waiting}
      PROVE  MutatesRoom
  <2>1. /\ room[r].status = "ACTIVE" /\ RoomFree(r) /\ row[r][u].engine = "ACTIVE"
        /\ Mutate(r, ForfeitedRows(u, r), TurnsAfter(u, r, ForfeitedRows(u, r)))
        BY <1>2 DEF CanAct, ForfeitStep
  <2>2. /\ EngineRows(r, ForfeitedRows(u, r))
        /\ TurnsAfter(u, r, ForfeitedRows(u, r)) \in SUBSET (Users \cup {Nobody})
        BY <1>2, <2>1, ForfeitedOne
  <2>3. /\ EngineStep(r, ForfeitedRows(u, r), TurnsAfter(u, r, ForfeitedRows(u, r)))
        /\ ForfeitedRows(u, r) \in [Users -> RowRecords]
        BY <1>2, <2>1, <2>2 DEF EngineStep, EngineRows
  <2>4. QED BY <2>2, <2>3 DEF MutatesRoom
<1>3. ASSUME NEW u \in Users, NEW r \in Rooms, Forfeit(u, r)
      PROVE  MutatesRoom
  <2>1. /\ CanAct(u, r) /\ ForfeitStep(u, r)
        /\ UNCHANGED <<hubVars, presenceVars, picked, accepting, crashes>>
        /\ sweeping' = sweeping
        BY <1>3 DEF Forfeit, opVars
  <2>2. QED BY <1>2, <2>1
<1>4. CASE SweepAbsent
  <2> DEFINE u == sweeping.user
             r == sweeping.room
  <2>1. /\ u \in Users /\ r \in Rooms
        /\ sweeping' = Waiting
        /\ UNCHANGED <<hubVars, presenceVars, picked, accepting, crashes>>
        /\ (CanAct(u, r) /\ ForfeitStep(u, r)) \/ UNCHANGED dbVars
        BY <1>4 DEF SweepAbsent, SweeperInv
  <2>2. CASE CanAct(u, r) /\ ForfeitStep(u, r)
        BY <1>2, <2>1, <2>2
  <2>3. CASE UNCHANGED dbVars
        BY <1>4, <2>1, <2>3
  <2>4. QED BY <2>1, <2>2, <2>3
<1>5. ASSUME NEW r \in Rooms, SweepTurn(r)
      PROVE  MutatesRoom
  <2> DEFINE u == room[r].turn
             struck == [row[r] EXCEPT ![u].strikes = @ + 1]
             out == [ForfeitedRows(u, r) EXCEPT ![u].strikes = @ + 1]
             turns == StillPlaying(struck) \ {u}
  <2>1. /\ room[r].status = "ACTIVE" /\ RoomFree(r) /\ row[r][u].engine = "ACTIVE"
        /\ CanAct(u, r)
        /\ UNCHANGED <<hubVars, presenceVars, picked, accepting, crashes>>
        /\ sweeping' = sweeping
        /\ Mutate(r, out, turns) \/ Mutate(r, struck, turns)
        BY <1>5 DEF SweepTurn, CanAct, opVars
  <2>2. row[r] \in [Users -> RowRecords]
        BY DEF TypeOK, RowRecords
  <2>3. turns \in SUBSET (Users \cup {Nobody})
        BY DEF StillPlaying
  <2>4. EngineRows(r, out) /\ EngineRows(r, struck)
    <3>1. CASE u \in Users
      <4> DEFINE z == ForfeitedRows(u, r)[u]
                 x == [row[r][u] EXCEPT !.strikes = @ + 1]
                 y == [z EXCEPT !.strikes = @ + 1]
      <4>1. /\ HoldsSeat(u, r)
            /\ row[r][u] \in RowRecords
            /\ z \in RowRecords /\ z.status = "FORFEITED" /\ ~z.key /\ z.engine = "FORFEITED"
            /\ ForfeitedRows(u, r) = [row[r] EXCEPT ![u] = z]
            BY <2>1, <3>1, ForfeitedOne
      <4>2. /\ x \in RowRecords /\ x.status = row[r][u].status /\ x.key = row[r][u].key
            /\ x.engine = row[r][u].engine
            BY <4>1, RowStruck
      <4>3. y \in RowRecords /\ y.status = "FORFEITED" /\ ~y.key /\ y.engine = "FORFEITED"
            BY <4>1, RowStruck
      <4>4. struck = [row[r] EXCEPT ![u] = x]
            OBVIOUS
      <4>5. out = [row[r] EXCEPT ![u] = y]
            BY <2>2, <3>1, <4>1
      <4> HIDE DEF x, y
      <4>6. EngineRows(r, struck)
            BY <2>1, <3>1, <4>1, <4>2, <4>4, OnePlayer DEF HoldsSeat
      <4>7. EngineRows(r, out)
            BY <3>1, <4>1, <4>3, <4>5, OnePlayer
      <4>8. QED BY <4>6, <4>7
    <3>2. CASE u \notin Users
      <4>1. struck = row[r]
            BY <2>2, <3>2
      <4>2. out = row[r]
            BY <2>2, <3>2 DEF ForfeitedRows
      <4>3. EngineRows(r, row[r])
            BY <2>2 DEF EngineRows, SeatsFollowRooms, HoldsSeat
      <4>4. QED BY <4>1, <4>2, <4>3
    <3>3. QED BY <3>1, <3>2
  <2> HIDE DEF out, struck, turns
  <2>5. /\ EngineStep(r, out, turns) \/ EngineStep(r, struck, turns)
        /\ out \in [Users -> RowRecords] /\ struck \in [Users -> RowRecords]
        BY <2>1, <2>4 DEF EngineStep, EngineRows
  <2>6. QED BY <2>3, <2>5 DEF MutatesRoom
<1>6. QED BY <1>1, <1>3, <1>4, <1>5

LEMMA GameSteps ==
    ASSUME PInv,
           \/ \E u \in Users, r \in Rooms : Play(u, r) \/ Forfeit(u, r)
           \/ \E r \in Rooms : SweepTurn(r)
           \/ SweepAbsent
    PROVE  PInv'
<1>1. CASE MutatesRoom
      BY <1>1, MutateStep DEF MutatesRoom, EngineStep
<1>2. CASE SweepAbsent /\ UNCHANGED dbVars /\ sweeping' = Waiting
  <2> USE DEF PInv, IInv, SeatedOnce
  <2>1. UNCHANGED <<entry, room, row, settled, session, connects, resuming, leaving, marking,
                    picked, accepting, crashes>>
        BY <1>2 DEF SweepAbsent, dbVars, hubVars, presenceVars
  <2>2. sweeping' = [kind |-> "idle", room |-> NoRoom, user |-> Nobody, version |-> 0,
                     users |-> {}]
        BY <1>2 DEF Waiting
  <2>3. TypeOK'
        BY <2>1, <2>2 DEF TypeOK
  <2>4. OneSeat' /\ SeatsFollowRooms' /\ RoomsInv' /\ SweeperInv'
        BY <2>1, <2>2 DEF OneSeat, ActiveSeat, SeatsFollowRooms, RoomsInv, PlayersInv,
           AcceptingInv, SweeperInv, HoldsSeat, Seated
  <2>5. PresenceInv' /\ DisconnectedInv'
        BY <2>1 DEF PresenceInv, ResumingInv, MarkingInv, DisconnectedInv, AwayInv, HoldsSeat,
           Seated
  <2>6. QED BY <2>3, <2>4, <2>5
<1>3. QED BY <1>1, <1>2, GameMoves

\* The sweeper finds work; deadlines pass.
LEMMA SweeperSteps ==
    ASSUME PInv,
           \/ \E r \in Rooms : FindPreGame(r) \/ AcceptanceExpires(r) \/ TurnExpires(r)
           \/ \E u \in Users, r \in Rooms : FindDisconnected(u, r)
           \/ CancelBegin
    PROVE  PInv'
<1> USE DEF PInv, IInv, SeatedOnce
<1> DEFINE F == \/ \E r \in Rooms : FindPreGame(r)
                \/ \E u \in Users, r \in Rooms : FindDisconnected(u, r)
                \/ CancelBegin
<1> DEFINE E == \E r \in Rooms : AcceptanceExpires(r) \/ TurnExpires(r)
<1>1. CASE F
  <2>1. UNCHANGED <<entry, room, row, settled, session, connects, resuming, leaving, marking,
                    picked, accepting, crashes>>
        BY <1>1 DEF FindPreGame, FindDisconnected, CancelBegin, SweepFinds, dbVars, hubVars,
           presenceVars
  <2>2. /\ sweeping' \in [kind : {"idle", "pregame", "cancel", "absent"},
                          room : Rooms \cup {NoRoom}, user : Users \cup {Nobody},
                          version : Nat, users : SUBSET Users]
        /\ sweeping'.kind # "idle" => sweeping'.room \in Rooms
        /\ sweeping'.kind = "absent" => sweeping'.user \in Users
        /\ sweeping'.kind = "cancel" => /\ room[sweeping'.room].status \in PreGame
                                        /\ accepting[sweeping'.room] = Nobody
    <3>1. ASSUME NEW r \in Rooms, FindPreGame(r)
          PROVE  sweeping' = [kind |-> "pregame", room |-> r, user |-> Nobody, version |-> 0,
                              users |-> {}]
          BY <3>1 DEF FindPreGame, SweepFinds, Waiting
    <3>2. ASSUME NEW r \in Rooms, NEW u \in Users, FindDisconnected(u, r)
          PROVE  sweeping' = [kind |-> "absent", room |-> r, user |-> u,
                              version |-> room[r].version, users |-> {}]
          BY <3>2 DEF FindDisconnected, SweepFinds, Waiting
    <3>3. CASE CancelBegin
      <4>1. sweeping.room \in Rooms
            BY <3>3 DEF CancelBegin, SweeperInv
      <4>2. CASE room[sweeping.room].status \in PreGame
        <5>1. sweeping' = [sweeping EXCEPT !.kind = "cancel",
                              !.users = {u \in Seated(sweeping.room) : session[u] # "none"}]
              BY <3>3, <4>2 DEF CancelBegin
        <5>2. {u \in Seated(sweeping.room) : session[u] # "none"} \in SUBSET Users
              BY DEF Seated
        <5>3. accepting[sweeping.room] = Nobody
              BY <3>3 DEF CancelBegin, RoomFree
        <5>4. ASSUME NEW us \in SUBSET Users, NEW new,
                     new = [sweeping EXCEPT !.kind = "cancel", !.users = us]
              PROVE  /\ new \in [kind : {"idle", "pregame", "cancel", "absent"},
                                 room : Rooms \cup {NoRoom}, user : Users \cup {Nobody},
                                 version : Nat, users : SUBSET Users]
                     /\ new.kind = "cancel" /\ new.room = sweeping.room
              BY <5>4 DEF TypeOK
        <5>5. QED BY <4>1, <4>2, <5>1, <5>2, <5>3, <5>4
      <4>3. CASE room[sweeping.room].status \notin PreGame
        <5>1. sweeping' = [kind |-> "idle", room |-> NoRoom, user |-> Nobody, version |-> 0,
                           users |-> {}]
              BY <3>3, <4>3 DEF CancelBegin, Waiting
        <5>2. QED BY <5>1
      <4>4. QED BY <4>2, <4>3
    <3>4. \A r \in Rooms : room[r].version \in Nat
          BY DEF TypeOK
    <3>5. QED BY <1>1, <3>1, <3>2, <3>3, <3>4
  <2>3. TypeOK'
        BY <2>1, <2>2 DEF TypeOK
  <2>4. OneSeat' /\ SeatsFollowRooms' /\ SweeperInv'
        BY <2>1, <2>2 DEF OneSeat, ActiveSeat, SeatsFollowRooms, SweeperInv, HoldsSeat, Seated
  <2>5. RoomsInv'
        BY <2>1, <2>2 DEF RoomsInv, PlayersInv, AcceptingInv, Seated
  <2>6. PresenceInv' /\ DisconnectedInv'
        BY <2>1 DEF PresenceInv, ResumingInv, MarkingInv, DisconnectedInv, AwayInv, HoldsSeat,
           Seated
  <2>7. QED BY <2>3, <2>4, <2>5, <2>6
<1>2. CASE E
  <2>1. UNCHANGED <<entry, row, settled, session, connects, resuming, leaving, marking, picked,
                    accepting, sweeping, crashes>>
        BY <1>2 DEF AcceptanceExpires, TurnExpires, hubVars, presenceVars, opVars
  <2>2. /\ room' \in [Rooms -> RoomRecords]
        /\ \A s \in Rooms : room'[s].status = room[s].status
    <3>1. room \in [Rooms -> RoomRecords]
          BY DEF TypeOK, RoomRecords
    <3>2. ASSUME NEW r \in Rooms
          PROVE  /\ LET new == [room[r] EXCEPT !.late = TRUE]
                    IN new \in RoomRecords /\ new.status = room[r].status
                 /\ LET new == [room[r] EXCEPT !.turnLate = TRUE]
                    IN new \in RoomRecords /\ new.status = room[r].status
          BY <3>1 DEF RoomRecords
    <3>3. PICK r \in Rooms : \/ room' = [room EXCEPT ![r] = [room[r] EXCEPT !.late = TRUE]]
                             \/ room' = [room EXCEPT ![r] = [room[r] EXCEPT !.turnLate = TRUE]]
          BY <1>2 DEF AcceptanceExpires, TurnExpires
    <3>4. QED BY <3>1, <3>2, <3>3
  <2>3. TypeOK'
        BY <2>1, <2>2 DEF TypeOK, RoomRecords
  <2>4. OneSeat' /\ SeatsFollowRooms' /\ RoomsInv' /\ SweeperInv'
        BY <2>1, <2>2 DEF OneSeat, ActiveSeat, SeatsFollowRooms, RoomsInv, PlayersInv,
           AcceptingInv, SweeperInv, HoldsSeat, Seated
  <2>5. PresenceInv' /\ DisconnectedInv'
        BY <2>1, <2>2 DEF PresenceInv, ResumingInv, MarkingInv, DisconnectedInv, AwayInv,
           HoldsSeat, Seated
  <2>6. QED BY <2>3, <2>4, <2>5
<1>3. QED BY <1>1, <1>2

\* The sweeper cancels a handshake: who goes back to a queue has lost the seat.
LEMMA CancelStep ==
    ASSUME PInv, CancelCommit
    PROVE  PInv'
<1> USE DEF PInv, IInv, SeatedOnce
<1> DEFINE r == sweeping.room
<1>1. /\ r \in Rooms /\ room[r].status \in PreGame
      /\ accepting[r] = Nobody
      /\ sweeping' = Waiting
      /\ UNCHANGED <<settled, session, connects, resuming, leaving, marking, picked, accepting,
                     crashes>>
      BY DEF CancelCommit, SweeperInv, RoomsInv, AcceptingInv, hubVars, presenceVars
<1>2. /\ row' \in [Rooms -> [Users -> RowRecords]]
      /\ \A v \in Users : /\ v \in Seated(r) => row'[r][v].status = "FORFEITED"
                          /\ v \notin Seated(r) => row'[r][v].status = "NONE"
                          /\ ~row'[r][v].key
      /\ \A s \in Rooms \ {r} : row'[s] = row[s]
  <2>1. row' = [row EXCEPT ![r] = [u \in Users |->
                   IF u \in Seated(r) THEN Past("FORFEITED") ELSE Unseated]]
        BY DEF CancelCommit
  <2>2. /\ Past("FORFEITED") \in RowRecords /\ Past("FORFEITED").status = "FORFEITED"
        /\ ~Past("FORFEITED").key
        BY PastRecord DEF RowStatuses
  <2>3. row \in [Rooms -> [Users -> RowRecords]]
        BY DEF TypeOK, RowRecords
  <2>4. Unseated \in RowRecords /\ Unseated.status = "NONE" /\ ~Unseated.key
        BY Fresh
  <2> HIDE DEF r
  <2>5. /\ row'[r] = [u \in Users |-> IF u \in Seated(r) THEN Past("FORFEITED") ELSE Unseated]
        /\ \A s \in Rooms \ {r} : row'[s] = row[s]
        /\ row' \in [Rooms -> [Users -> RowRecords]]
        BY <1>1, <2>1, <2>2, <2>3, <2>4
  <2>6. QED BY <2>2, <2>4, <2>5
<1>3. /\ room' \in [Rooms -> RoomRecords]
      /\ room'[r].status = "CANCELLED"
      /\ \A s \in Rooms \ {r} : room'[s] = room[s]
  <2>1. room' = [room EXCEPT ![r] = Over("CANCELLED")]
        BY DEF CancelCommit
  <2>2. Over("CANCELLED") \in RoomRecords /\ Over("CANCELLED").status = "CANCELLED"
        BY OverRecord DEF RoomStatuses
  <2>3. QED BY <1>1, <2>1, <2>2 DEF TypeOK, RoomRecords
<1>4. /\ entry' \in [Users -> EntryRecords]
      /\ \A v \in Users : entry'[v].status = "QUEUED" => v \in Seated(r) \/ entry'[v] = entry[v]
  <2>1. entry \in [Users -> EntryRecords]
        BY DEF TypeOK, EntryRecords
  <2>2. ASSUME NEW v \in Users
        PROVE  [entry[v] EXCEPT !.status = "QUEUED", !.room = NoRoom] \in EntryRecords
        BY <2>1, EntryUpdate DEF EntryStatuses
  <2>3. Closed \in EntryRecords /\ Closed.status # "QUEUED"
        BY DEF Closed, EntryRecords, EntryStatuses
  <2>4. entry' = [u \in Users |-> IF u \in Seated(r) /\ entry[u].room = r
                     THEN IF u \in sweeping.users
                          THEN [entry[u] EXCEPT !.status = "QUEUED", !.room = NoRoom]
                          ELSE Closed
                     ELSE entry[u]]
        BY DEF CancelCommit
  <2> HIDE DEF r
  <2>5. QED BY <2>1, <2>2, <2>3, <2>4
<1> HIDE DEF r
<1>5. TypeOK'
  <2>1. sweeping' = [kind |-> "idle", room |-> NoRoom, user |-> Nobody, version |-> 0,
                     users |-> {}]
        BY <1>1 DEF Waiting
  <2>2. QED BY <1>1, <1>2, <1>3, <1>4, <2>1 DEF TypeOK, RowRecords, RoomRecords, EntryRecords
<1>6. \A v \in Users, s \in Rooms :
         /\ HoldsSeat(v, s)' <=> HoldsSeat(v, s) /\ s # r
         /\ v \in Seated(s)' <=> v \in Seated(s)
      BY <1>2 DEF HoldsSeat, Seated
<1>7. \A v \in Seated(r) : v \in Users /\ HoldsSeat(v, r)
      BY <1>1 DEF RoomsInv, PlayersInv, SeatsFollowRooms, Live, Seated
<1>8. OneSeat'
      BY <1>1, <1>4, <1>6, <1>7 DEF OneSeat, ActiveSeat
<1>9. SeatsFollowRooms'
  <2>1. ASSUME NEW v \in Users, NEW s \in Rooms
        PROVE  HoldsSeat(v, s)' <=> /\ v \in Seated(s)'
                                    /\ room'[s].status \in Live
                                    /\ row'[s][v].engine # "FORFEITED"
    <3>1. CASE s = r
          BY <1>3, <1>6, <3>1 DEF Live, PreGame
    <3>2. CASE s # r
          BY <1>2, <1>3, <1>6, <3>2 DEF SeatsFollowRooms
    <3>3. QED BY <3>1, <3>2
  <2>2. QED BY <2>1 DEF SeatsFollowRooms
<1>10. RoomsInv'
  <2>1. ASSUME NEW s \in Rooms
        PROVE  PlayersInv(s)'
    <3>1. CASE s = r
          BY <1>3, <3>1 DEF PlayersInv, PreGame
    <3>2. CASE s # r
          BY <1>2, <1>3, <1>6, <3>2 DEF RoomsInv, PlayersInv
    <3>3. QED BY <3>1, <3>2
  <2>2. ASSUME NEW s \in Rooms, accepting'[s] # Nobody
        PROVE  AcceptingInv(s)'
    <3>1. s # r
          BY <1>1, <2>2
    <3>2. accepting[s] \in Users
          BY <1>1, <2>2 DEF TypeOK
    <3>3. QED BY <1>1, <1>3, <1>6, <2>2, <3>1, <3>2 DEF RoomsInv, AcceptingInv, Waiting
  <2>3. QED BY <2>1, <2>2 DEF RoomsInv, AcceptingInv
<1>11. SweeperInv'
      BY <1>1 DEF SweeperInv, Waiting
<1>12. PresenceInv'
  <2>1. ASSUME NEW v \in Users
        PROVE  ResumingInv(v)'
        BY <1>1, <1>6 DEF PresenceInv, ResumingInv
  <2>2. ASSUME NEW v \in Users, marking[v] # NoRoom
        PROVE  MarkingInv(v)'
    <3>1. marking[v] \in Rooms /\ MarkingInv(v)
          BY <2>2 DEF TypeOK, PresenceInv
    <3>2. CASE marking[v] = r
          BY <1>1, <1>2, <1>6, <2>2, <3>1, <3>2 DEF MarkingInv
    <3>3. CASE marking[v] # r
          BY <1>1, <1>2, <1>6, <2>2, <3>1, <3>3 DEF MarkingInv
    <3>4. QED BY <3>2, <3>3
  <2>3. QED BY <1>1, <2>1, <2>2 DEF PresenceInv, MarkingInv
<1>13. DisconnectedInv'
  <2>1. ASSUME NEW v \in Users, NEW s \in Rooms, room'[s].status = "ACTIVE"
        PROVE  AwayInv(v, s)'
    <3>1. s # r
          BY <1>3, <2>1
    <3>2. AwayInv(v, s) /\ row'[s][v] = row[s][v] /\ room'[s] = room[s]
          BY <1>2, <1>3, <3>1 DEF DisconnectedInv
    <3>3. QED BY <1>1, <3>2 DEF AwayInv, HoldsSeat
  <2>2. QED BY <2>1 DEF DisconnectedInv, AwayInv
<1>14. QED BY <1>5, <1>8, <1>9, <1>10, <1>11, <1>12, <1>13

\* A restart ends every operation; what is stored stays.
LEMMA CrashStep ==
    ASSUME PInv, Crash
    PROVE  PInv'
<1> USE DEF PInv, IInv, SeatedOnce
<1>1. /\ UNCHANGED <<entry, room, row, settled, connects>>
      /\ session' = [u \in Users |-> "none"]
      /\ picked' = [m \in Modes |-> {}]
      /\ accepting' = [r \in Rooms |-> Nobody]
      /\ resuming' = [u \in Users |-> [step |-> "idle", room |-> NoRoom]]
      /\ leaving' = [u \in Users |-> FALSE]
      /\ marking' = [u \in Users |-> NoRoom]
      /\ sweeping' = [kind |-> "idle", room |-> NoRoom, user |-> Nobody, version |-> 0,
                      users |-> {}]
      /\ crashes' \in Nat
      BY DEF Crash, dbVars, Resting, Waiting, TypeOK
<1>2. TypeOK'
      BY <1>1 DEF TypeOK
<1>3. OneSeat' /\ SeatsFollowRooms' /\ RoomsInv' /\ SweeperInv'
      BY <1>1 DEF OneSeat, ActiveSeat, SeatsFollowRooms, RoomsInv, PlayersInv, AcceptingInv,
         SweeperInv, HoldsSeat, Seated
<1>4. PresenceInv' /\ DisconnectedInv'
      BY <1>1 DEF PresenceInv, ResumingInv, MarkingInv, DisconnectedInv, AwayInv, HoldsSeat
<1>5. QED BY <1>2, <1>3, <1>4

\* The initial states satisfy the invariant.
LEMMA InitPInv == Init => PInv
<1> SUFFICES ASSUME Init PROVE PInv
    OBVIOUS
<1> USE DEF Init, PInv, IInv, SeatedOnce
<1>1. /\ Unseated \in RowRecords /\ Unseated.status = "NONE" /\ ~Unseated.key
      /\ Closed \in EntryRecords /\ Closed.status # "QUEUED"
      /\ NoneYet \in RoomRecords /\ NoneYet.status = "NONE"
      BY DEF Unseated, Closed, NoneYet, RowRecords, EntryRecords, RoomRecords, RowStatuses,
         EntryStatuses, RoomStatuses, EngineStatuses
<1>2. TypeOK
      BY <1>1 DEF TypeOK, RowRecords, EntryRecords, RoomRecords, Resting, Waiting
<1>3. OneSeat /\ SeatsFollowRooms
      BY <1>1 DEF OneSeat, ActiveSeat, SeatsFollowRooms, HoldsSeat, Seated
<1>4. RoomsInv /\ SweeperInv
      BY <1>1 DEF RoomsInv, PlayersInv, AcceptingInv, SweeperInv, Seated, PreGame, Waiting
<1>5. PresenceInv /\ DisconnectedInv
      BY <1>1 DEF PresenceInv, ResumingInv, MarkingInv, DisconnectedInv, AwayInv, Resting
<1>6. QED BY <1>2, <1>3, <1>4, <1>5

\* Every step preserves it.
LEMMA NextPInv == PInv /\ [Next]_vars => PInv'
<1> SUFFICES ASSUME PInv, [Next]_vars PROVE PInv'
    OBVIOUS
<1>1. ASSUME NEW u \in Users,
             \/ Connect(u) \/ ResumeDone(u) \/ ResumeNothing(u) \/ ResumeFails(u) \/ Close(u)
             \/ CleanUp(u) \/ LeaveQueue(u) \/ SweepEntry(u)
             \/ \E m \in Modes : Join(u, m)
             \/ \E r \in Rooms : ResumeRead(u, r) \/ AcceptBegin(u, r)
      PROVE  PInv'
      BY <1>1, SocketSteps
<1>2. ASSUME NEW u \in Users, ResumeWrite(u) \/ MarkDisconnected(u)
      PROVE  PInv'
      BY <1>2, PresenceSteps
<1>3. ASSUME NEW r \in Rooms, AcceptCommit(r) \/ \E u \in Users : Ready(u, r)
      PROVE  PInv'
      BY <1>3, HandshakeSteps
<1>4. ASSUME NEW m \in Modes,
             CreateMatch(m) \/ NoMatch(m) \/ \E us \in SUBSET Users : PickCandidates(m, us)
      PROVE  PInv'
      BY <1>4, MatchSteps
<1>5. ASSUME \/ \E u \in Users, r \in Rooms : Play(u, r) \/ Forfeit(u, r)
             \/ \E r \in Rooms : SweepTurn(r)
             \/ SweepAbsent
      PROVE  PInv'
      BY <1>5, GameSteps
<1>6. ASSUME \/ \E r \in Rooms : FindPreGame(r) \/ AcceptanceExpires(r) \/ TurnExpires(r)
             \/ \E u \in Users, r \in Rooms : FindDisconnected(u, r)
             \/ CancelBegin
      PROVE  PInv'
      BY <1>6, SweeperSteps
<1>7. CASE CancelCommit
      BY <1>7, CancelStep
<1>8. CASE Crash
      BY <1>8, CrashStep
<1>9. CASE UNCHANGED vars
      BY <1>9 DEF vars, dbVars, hubVars, presenceVars, opVars, PInv, IInv, SeatedOnce, TypeOK,
         OneSeat, ActiveSeat, SeatsFollowRooms, RoomsInv, PlayersInv, AcceptingInv, SweeperInv,
         PresenceInv, ResumingInv, MarkingInv, DisconnectedInv, AwayInv, HoldsSeat, Seated
<1>10. QED BY <1>1, <1>2, <1>3, <1>4, <1>5, <1>6, <1>7, <1>8, <1>9 DEF Next

\* The inductive invariant holds in every run.
THEOREM SpecPInv == Spec => []PInv
<1>1. Init /\ [][Next]_vars => []PInv
      BY InitPInv, NextPInv, PTL
<1>2. QED BY <1>1, PTL DEF Spec

\* Every field keeps its type in every run.
THEOREM TypeCorrect == Spec => []TypeOK
<1>1. PInv => TypeOK
      BY DEF PInv, IInv
<1>2. QED BY <1>1, SpecPInv, PTL

\* Whatever joins, matches, handshakes, games, sweeps and restarts interleave, a user has
\* at most one seat and waits in no queue while it has one, and a seat lasts exactly as
\* long as its room is live and its player not written off.
THEOREM SeatedOnceAlways == Spec => []SeatedOnce
<1>1. PInv => SeatedOnce
      BY DEF PInv, IInv
<1>2. QED BY <1>1, SpecPInv, PTL

\* A player whose session has resumed is never marked DISCONNECTED in its running game by
\* the clean-up of an older socket.
THEOREM ResumedStaysOnlineAlways == Spec => []ResumedStaysOnline
<1>1. PInv => ResumedStaysOnline
      BY DEF PInv, DisconnectedInv, AwayInv, ResumedStaysOnline
<1>2. QED BY <1>1, SpecPInv, PTL

-------------------------------------------------------------------------------
\* The statistics.

\* The games of a player that are over.
Played(u) == {r \in Rooms : room[r].status = "COMPLETED" /\ u \in Seated(r)}
CountInv == \A u \in Users : IsFiniteSet(Played(u)) /\ settled[u] = Cardinality(Played(u))

\* No game ends, and those that are over keep their players.
LEMMA NothingSettled ==
    ASSUME CountInv, \A u \in Users : settled'[u] = settled[u],
           \A r \in Rooms : room'[r].status = "COMPLETED" <=> room[r].status = "COMPLETED",
           \A r \in Rooms, u \in Users : room[r].status = "COMPLETED" => (u \in Seated(r)' <=> u \in Seated(r))
    PROVE  CountInv'
<1>1. \A u \in Users : Played(u)' = Played(u)
      BY DEF Played
<1>2. QED BY <1>1 DEF CountInv

\* All that changes is a room that is not over and that the step does not complete.
LEMMA OneRoomOn ==
    ASSUME CountInv, settled' = settled, NEW r \in Rooms, room[r].status # "COMPLETED", room'[r].status # "COMPLETED",
           \A s \in Rooms \ {r} : room'[s] = room[s] /\ row'[s] = row[s]
    PROVE  CountInv'
<1>1. \A s \in Rooms : room'[s].status = "COMPLETED" <=> room[s].status = "COMPLETED"
      OBVIOUS
<1>2. \A s \in Rooms, u \in Users : room[s].status = "COMPLETED" => (u \in Seated(s)' <=> u \in Seated(s))
      BY DEF Seated
<1>3. QED BY <1>1, <1>2, NothingSettled

\* The step of the engine that decides a game adds it to the statistics of its players.
LEMMA EngineSettles ==
    ASSUME PInv, CountInv, MutatesRoom
    PROVE  CountInv'
<1>1. PICK r \in Rooms, rows \in [Users -> RowRecords], turns \in SUBSET (Users \cup {Nobody}) :
         room[r].status = "ACTIVE" /\ EngineRows(r, rows) /\ Mutate(r, rows, turns)
      BY DEF MutatesRoom, EngineStep
<1>2. row \in [Rooms -> [Users -> RowRecords]] /\ room \in [Rooms -> RoomRecords] /\ settled \in [Users -> Nat]
      BY DEF PInv, IInv, TypeOK, RowRecords, RoomRecords
<1>3. CASE ~Decided(rows)
  <2>1. PICK next \in turns : room' = [room EXCEPT ![r].version = @ + 1, ![r].turn = next, ![r].turnLate = FALSE]
        BY <1>1, <1>3 DEF Mutate
  <2>2. /\ \A s \in Rooms \ {r} : room'[s] = room[s]
        /\ room'[r].status = room[r].status
        BY <1>2, <2>1 DEF RoomRecords
  <2>3. \A s \in Rooms \ {r} : row'[s] = row[s]
        BY <1>1, <1>2 DEF Mutate
  <2>4. settled' = settled
        BY <1>1, <1>2, <1>3 DEF Mutate
  <2>5. QED BY <1>1, <2>2, <2>3, <2>4, OneRoomOn
<1>4. CASE Decided(rows)
  <2>1. /\ room' = [room EXCEPT ![r] = Over("COMPLETED")] /\ row' = [row EXCEPT ![r] = SettledRows(rows)]
        /\ settled' = [u \in Users |-> IF u \in Seated(r) THEN settled[u] + 1 ELSE settled[u]]
        BY <1>1, <1>4 DEF Mutate
  <2>2. Over("COMPLETED").status = "COMPLETED"
        BY OverRecord DEF RoomStatuses
  <2>3. /\ \A s \in Rooms \ {r} : room'[s] = room[s] /\ row'[s] = row[s]
        /\ room'[r].status = "COMPLETED" /\ room[r].status # "COMPLETED"
        BY <1>1, <1>2, <2>1, <2>2
  <2>4. \A u \in Users : u \in Seated(r)' <=> u \in Seated(r)
    <3>1. ASSUME NEW u \in Users PROVE row'[r][u].status = "NONE" <=> row[r][u].status = "NONE"
      <4>1. row'[r][u] = SettledRows(rows)[u]
            BY <1>2, <2>1
      <4>2. SettledRows(rows)[u].status = "NONE" <=> rows[u].status = "NONE"
            BY Fresh, PastRecord DEF SettledRows, RowStatuses
      <4>3. rows[u].status = "NONE" <=> row[r][u].status = "NONE"
            BY <1>1 DEF EngineRows, Seated
      <4>4. QED BY <4>1, <4>2, <4>3
    <3>2. QED BY <3>1 DEF Seated
  <2>5. ASSUME NEW u \in Users
        PROVE  IsFiniteSet(Played(u)') /\ settled'[u] = Cardinality(Played(u)')
    <3>1. IsFiniteSet(Played(u)) /\ settled[u] = Cardinality(Played(u)) /\ r \notin Played(u)
          BY <2>3 DEF CountInv, Played
    <3>2. \A s \in Rooms \ {r} : u \in Seated(s)' <=> u \in Seated(s)
          BY <2>3 DEF Seated
    <3>3. CASE u \in Seated(r)
      <4>1. Played(u)' = Played(u) \cup {r} /\ settled'[u] = settled[u] + 1
            BY <2>1, <2>3, <2>4, <3>2, <3>3 DEF Played
      <4>2. QED BY <3>1, <4>1, FS_AddElement
    <3>4. CASE u \notin Seated(r)
      <4>1. Played(u)' = Played(u) /\ settled'[u] = settled[u]
            BY <2>1, <2>3, <2>4, <3>2, <3>4 DEF Played
      <4>2. QED BY <3>1, <4>1
    <3>5. QED BY <3>3, <3>4
  <2>6. QED BY <2>5 DEF CountInv
<1>5. QED BY <1>3, <1>4

\* Accepting, being ready, making a match and cancelling one leave the other rooms alone.
LEMMA HandshakeSettlesNothing ==
    ASSUME PInv, CountInv,
           \/ \E r \in Rooms : AcceptCommit(r) \/ AcceptanceExpires(r) \/ TurnExpires(r) \/ \E u \in Users : Ready(u, r)
           \/ \E m \in Modes : CreateMatch(m)
           \/ CancelCommit
    PROVE  CountInv'
<1>1. row \in [Rooms -> [Users -> RowRecords]] /\ room \in [Rooms -> RoomRecords]
      BY DEF PInv, IInv, TypeOK, RowRecords, RoomRecords
<1>2. ASSUME NEW r \in Rooms, AcceptCommit(r)
      PROVE  CountInv'
  <2>1. room[r].status \in PreGame /\ settled' = settled
        BY <1>2 DEF AcceptCommit, PInv, IInv, RoomsInv, AcceptingInv
  <2>2. \A s \in Rooms \ {r} : room'[s] = room[s] /\ row'[s] = row[s]
        BY <1>1, <1>2 DEF AcceptCommit
  <2>3. room'[r].status # "COMPLETED"
    <3>1. \/ room' = [room EXCEPT ![r] = [room[r] EXCEPT !.version = @ + 1, !.status = "WAITING_READY", !.late = FALSE]]
          \/ room' = [room EXCEPT ![r] = [room[r] EXCEPT !.version = @ + 1]]
          BY <1>1, <1>2 DEF AcceptCommit
    <3>2. "WAITING_READY" \in RoomStatuses /\ room[r] \in RoomRecords
          BY <1>1 DEF RoomStatuses
    <3>3. room'[r].status \in {room[r].status, "WAITING_READY"}
          BY <1>1, <3>1, <3>2, RoomUpdate
    <3>4. QED BY <2>1, <3>3 DEF PreGame
  <2>4. room[r].status # "COMPLETED"
        BY <2>1 DEF PreGame
  <2>5. QED BY <2>1, <2>2, <2>3, <2>4, OneRoomOn
<1>3. ASSUME NEW r \in Rooms, NEW u \in Users, Ready(u, r)
      PROVE  CountInv'
  <2>1. room[r].status = "WAITING_READY" /\ settled' = settled
        BY <1>3 DEF Ready
  <2>2. \A s \in Rooms \ {r} : room'[s] = room[s] /\ row'[s] = row[s]
        BY <1>1, <1>3 DEF Ready
  <2>3. room'[r].status # "COMPLETED"
    <3>1. \/ room' = [room EXCEPT ![r] = [room[r] EXCEPT !.version = @ + 1, !.status = "ACTIVE", !.late = FALSE]]
          \/ room' = [room EXCEPT ![r] = [room[r] EXCEPT !.version = @ + 1]]
          BY <1>1, <1>3 DEF Ready
    <3>2. "ACTIVE" \in RoomStatuses /\ room[r] \in RoomRecords
          BY <1>1 DEF RoomStatuses
    <3>3. room'[r].status \in {room[r].status, "ACTIVE"}
          BY <1>1, <3>1, <3>2, RoomUpdate
    <3>4. QED BY <2>1, <3>3
  <2>4. QED BY <2>1, <2>2, <2>3, OneRoomOn
<1>4. ASSUME NEW m \in Modes, CreateMatch(m)
      PROVE  CountInv'
  <2>1. NewRoom \in Unused /\ CreateMatchIn(m, NewRoom)
        BY <1>4 DEF CreateMatch, NewRoom
  <2>2. PICK r \in Rooms : room[r].status = "NONE" /\ CreateMatchIn(m, r)
        BY <2>1 DEF Unused
  <2>3. PICK first \in picked[m] : room' = [room EXCEPT ![r] = [NoneYet EXCEPT !.status = "MATCHED", !.turn = first]]
        BY <2>2 DEF CreateMatchIn
  <2>4. room'[r].status # "COMPLETED" /\ settled' = settled
        BY <1>1, <2>2, <2>3 DEF CreateMatchIn, NoneYet
  <2>5. \A s \in Rooms \ {r} : room'[s] = room[s] /\ row'[s] = row[s]
        BY <1>1, <2>2, <2>3 DEF CreateMatchIn
  <2>6. QED BY <2>2, <2>4, <2>5, OneRoomOn
<1>5. CASE CancelCommit
  <2> DEFINE r == sweeping.room
  <2>1. r \in Rooms /\ room[r].status \in PreGame
        BY <1>5 DEF CancelCommit, PInv, IInv, SweeperInv
  <2>2. room' = [room EXCEPT ![r] = Over("CANCELLED")] /\ settled' = settled
        BY <1>5 DEF CancelCommit
  <2>3. \A s \in Rooms \ {r} : row'[s] = row[s]
        BY <1>1, <1>5 DEF CancelCommit
  <2> HIDE DEF r
  <2>4. Over("CANCELLED").status # "COMPLETED"
        BY OverRecord DEF RoomStatuses
  <2>5. room[r].status # "COMPLETED" /\ room'[r].status # "COMPLETED"
        BY <1>1, <2>1, <2>2, <2>4 DEF PreGame
  <2>6. QED BY <1>1, <2>1, <2>2, <2>3, <2>5, OneRoomOn
<1>6. ASSUME NEW r \in Rooms, AcceptanceExpires(r) \/ TurnExpires(r)
      PROVE  CountInv'
  <2>1. row' = row /\ settled' = settled /\ room[r].status # "COMPLETED"
        BY <1>6 DEF AcceptanceExpires, TurnExpires, PreGame
  <2>2. /\ \A s \in Rooms \ {r} : room'[s] = room[s]
        /\ room'[r].status = room[r].status
        BY <1>1, <1>6 DEF AcceptanceExpires, TurnExpires, RoomRecords
  <2>3. QED BY <2>1, <2>2, OneRoomOn
<1>7. QED BY <1>2, <1>3, <1>4, <1>5, <1>6

\* Resuming and marking change the status of a player who is seated.
LEMMA PresenceSettlesNothing ==
    ASSUME PInv, CountInv, NEW u \in Users, ResumeWrite(u) \/ MarkDisconnected(u)
    PROVE  CountInv'
<1>1. room' = room /\ settled' = settled
      BY DEF ResumeWrite, MarkDisconnected
<1>2. CASE ResumeWrite(u)
  <2>1. resuming[u].room \in Rooms /\ u \in Seated(resuming[u].room)
        BY <1>2 DEF ResumeWrite, PInv, PresenceInv, ResumingInv
  <2>2. row' = [row EXCEPT ![resuming[u].room][u].status = "ACTIVE"] /\ "ACTIVE" \in RowStatuses \ {"NONE"} /\ TypeOK
        BY <1>2 DEF ResumeWrite, PInv, IInv, RowStatuses
  <2> DEFINE r == resuming[u].room
  <2>3. r \in Rooms /\ u \in Seated(r) /\ row' = [row EXCEPT ![r][u].status = "ACTIVE"]
        BY <2>1, <2>2
  <2> HIDE DEF r
  <2>4. SeatsKept
        BY <2>2, <2>3, OneStatus
  <2>5. QED BY <1>1, <2>4, NothingSettled DEF SeatsKept
<1>3. CASE MarkDisconnected(u)
  <2>1. marking[u] \in Rooms /\ u \in Seated(marking[u])
        BY <1>3 DEF MarkDisconnected, PInv, IInv, TypeOK, PresenceInv, MarkingInv
  <2>2. row' = row \/ row' = [row EXCEPT ![marking[u]][u].status = "DISCONNECTED"]
        BY <1>3 DEF MarkDisconnected
  <2>3. \A s \in Rooms, v \in Users : v \in Seated(s)' <=> v \in Seated(s)
    <3>1. CASE row' = row
          BY <3>1 DEF Seated
    <3>2. CASE row' = [row EXCEPT ![marking[u]][u].status = "DISCONNECTED"]
      <4>1. SeatsKept
            BY <2>1, <3>2, OneStatus DEF PInv, IInv, RowStatuses
      <4>2. QED BY <4>1 DEF SeatsKept
    <3>3. QED BY <2>2, <3>1, <3>2
  <2>4. QED BY <1>1, <2>3, NothingSettled
<1>4. QED BY <1>2, <1>3

\* Whatever wins, forfeits, sweeps, disconnects and restarts interleave, the statistics of
\* a player count each completed game exactly once (settleCompletedRoom).
THEOREM SettledOnceAlways == Spec => []SettledOnce
<1>1. Init => CountInv
  <2> SUFFICES ASSUME Init, NEW u \in Users PROVE IsFiniteSet(Played(u)) /\ settled[u] = Cardinality(Played(u))
      BY DEF CountInv
  <2>1. Played(u) = {} /\ settled[u] = 0
        BY DEF Init, NoneYet, Played
  <2>2. QED BY <2>1, FS_EmptySet
<1>2. PInv /\ CountInv /\ [Next]_vars => CountInv'
  <2> SUFFICES ASSUME PInv, CountInv, [Next]_vars PROVE CountInv'
      OBVIOUS
  <2>1. CASE room' = room /\ row' = row /\ settled' = settled
        BY <2>1, NothingSettled DEF Seated
  <2>2. CASE \/ \E u \in Users, r \in Rooms : Play(u, r) \/ Forfeit(u, r)
             \/ \E r \in Rooms : SweepTurn(r)
             \/ SweepAbsent
    <3>1. CASE MutatesRoom
          BY <3>1, EngineSettles
    <3>2. CASE UNCHANGED dbVars
          BY <2>1, <3>2 DEF dbVars
    <3>3. QED BY <2>2, <3>1, <3>2, GameMoves
  <2>3. CASE \/ \E r \in Rooms : AcceptCommit(r) \/ AcceptanceExpires(r) \/ TurnExpires(r) \/ \E u \in Users : Ready(u, r)
             \/ \E m \in Modes : CreateMatch(m)
             \/ CancelCommit
        BY <2>3, HandshakeSettlesNothing
  <2>4. CASE \E u \in Users : ResumeWrite(u) \/ MarkDisconnected(u)
        BY <2>4, PresenceSettlesNothing
  <2>5. ASSUME NEW u \in Users,
               \/ Connect(u) \/ ResumeDone(u) \/ ResumeNothing(u) \/ ResumeFails(u) \/ Close(u)
               \/ CleanUp(u) \/ LeaveQueue(u) \/ SweepEntry(u)
               \/ \E m \in Modes : Join(u, m)
               \/ \E r \in Rooms : ResumeRead(u, r) \/ AcceptBegin(u, r) \/ FindDisconnected(u, r)
        PROVE  room' = room /\ row' = row /\ settled' = settled
        BY <2>5 DEF Connect, ResumeDone, ResumeNothing, ResumeFails, Close, Authenticate, CleanUp, LeaveQueue,
           SweepEntry, Join, ResumeRead, AcceptBegin, FindDisconnected, SweepFinds, dbVars
  <2>6. ASSUME \/ \E m \in Modes : NoMatch(m) \/ \E us \in SUBSET Users : PickCandidates(m, us)
               \/ \E r \in Rooms : FindPreGame(r)
               \/ CancelBegin \/ Crash \/ UNCHANGED vars
        PROVE  room' = room /\ row' = row /\ settled' = settled
        BY <2>6 DEF NoMatch, PickCandidates, FindPreGame, SweepFinds, CancelBegin, Crash, vars, dbVars
  <2>7. QED BY <2>1, <2>2, <2>3, <2>4, <2>5, <2>6 DEF Next
<1>3. CountInv => SettledOnce
      BY DEF CountInv, SettledOnce, Played
<1>4. QED BY <1>1, <1>2, <1>3, SpecPInv, PTL DEF Spec
=============================================================================
