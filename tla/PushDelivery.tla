------------------------------- MODULE PushDelivery -------------------------------
(***************************************************************************)
(* Pushes an admin sends (notifications.service.ts, notification-dispatcher.ts) *)
(* and the scheduler that delivers those that are due and those that stopped *)
(* on the way (workers/index.ts).                                            *)
(*                                                                         *)
(* A dispatch writes inbox rows batch by batch, sends to the devices, and    *)
(* records the outcome on the push_logs row.  An immediate send is           *)
(* dispatched beside the scheduler; the scheduler dispatches one row at a    *)
(* time.  A row nobody touched for three minutes counts as interrupted, also *)
(* when its dispatch is only slow.                                           *)
(***************************************************************************)
EXTENDS Naturals, FiniteSets

CONSTANTS
    Pushes,
    Recipients,     \* active users; a batch of inbox rows is one of them
    Scheduler,
    MaxStamp,       \* bound: writes to a row before its running totals stop moving it
    MaxTrouble      \* bound: failed statements, sends and restarts

VARIABLES
    log,        \* push_logs: status and a number for updatedAt
    asInbox,    \* pushes that write inbox rows: neither silent nor for a topic
    due,        \* scheduled pushes whose time has come
    quiet,      \* rows untouched for STUCK_AFTER_MS
    old,        \* rows older than GIVE_UP_AFTER_MS
    inbox,      \* inbox rows of each push for each user
    sent,       \* pushes whose devices were sent to
    run,        \* what each dispatch is doing
    found,      \* rows the sweep has read and not yet looked at, with their updatedAt
    sweeping,   \* which of its two lists the scheduler is working on
    gone,       \* pushes cancelled before they were sent
    broken,     \* pushes a fault has touched
    trouble

logVars == <<log, quiet>>
vars == <<logVars, asInbox, due, old, inbox, sent, run, found, sweeping, gone, broken, trouble>>

Senders == Pushes \cup {Scheduler}
Resting == [push |-> Scheduler, mode |-> "none", at |-> "rest", todo |-> {}]
Settled == {"SENT", "PARTIAL", "FAILED"}
NoInbox == [u \in Recipients |-> 0]

Init ==
    /\ log = [p \in Pushes |-> [status |-> "NONE", stamp |-> 0]]
    /\ asInbox \in SUBSET Pushes
    /\ due = {} /\ quiet = {} /\ old = {}
    /\ inbox = [p \in Pushes |-> NoInbox]
    /\ sent = {}
    /\ run = [w \in Senders |-> Resting]
    /\ found = {} /\ sweeping = "no"
    /\ gone = {} /\ broken = {} /\ trouble = 0

\* Every write to a row moves updatedAt.
Write(p, status) ==
    /\ log' = [log EXCEPT ![p] = [status |-> status, stamp |-> log[p].stamp + 1]]
    /\ quiet' = quiet \ {p}

Trouble(P) == trouble < MaxTrouble /\ trouble' = trouble + 1 /\ broken' = broken \cup P

Start(w, p, mode) ==
    run' = [run EXCEPT ![w] = [push |-> p, mode |-> mode,
        at |-> IF mode = "recover" THEN "check" ELSE "inbox",
        todo |-> IF p \in asInbox THEN Recipients ELSE {}]]

-------------------------------------------------------------------------------
\* Requests of the admin

SendNow(p) ==
    /\ log[p].status = "NONE" /\ p \notin gone
    /\ Write(p, "QUEUED")
    /\ Start(p, p, "direct")
    /\ UNCHANGED <<asInbox, due, old, inbox, sent, found, sweeping, gone, broken, trouble>>

Schedule(p) ==
    /\ log[p].status = "NONE" /\ p \notin gone
    /\ Write(p, "SCHEDULED")
    /\ UNCHANGED <<asInbox, due, old, inbox, sent, run, found, sweeping, gone, broken, trouble>>

Cancellable(p) == log[p].status = "SCHEDULED"

CancelScheduled(p) ==
    /\ Cancellable(p)
    /\ log' = [log EXCEPT ![p] = [status |-> "NONE", stamp |-> 0]]
    /\ gone' = gone \cup {p}
    /\ UNCHANGED <<quiet, asInbox, due, old, inbox, sent, run, found, sweeping, broken, trouble>>

-------------------------------------------------------------------------------
\* A dispatch

Dispatching(w, stage) == run[w].at = stage
Go(w, stage) == run' = [run EXCEPT ![w].at = stage]
Stop(w) == run' = [run EXCEPT ![w] = Resting]

\* A mutant of AlreadyWritten: a recovered push starts from the beginning.
AlreadyWrittenNever(p) == FALSE

\* inboxAlreadyWritten: one row is enough.
AlreadyWritten(p) == \E u \in Recipients : inbox[p][u] > 0

Check(w) ==
    /\ Dispatching(w, "check")
    /\ run' = [run EXCEPT ![w].at = "inbox",
                          ![w].todo = IF AlreadyWritten(run[w].push) THEN {} ELSE run[w].todo]
    /\ UNCHANGED <<logVars, asInbox, due, old, inbox, sent, found, sweeping, gone, broken, trouble>>

WriteInbox(w, u) ==
    /\ Dispatching(w, "inbox") /\ u \in run[w].todo
    /\ inbox' = [inbox EXCEPT ![run[w].push] = [inbox[run[w].push] EXCEPT ![u] = @ + 1]]
    /\ run' = [run EXCEPT ![w].todo = run[w].todo \ {u}]
    /\ UNCHANGED <<logVars, asInbox, due, old, sent, found, sweeping, gone, broken, trouble>>

\* The last batch is written: the devices are read, and sent to in chunks.
BeginSend(w) ==
    /\ Dispatching(w, "inbox") /\ run[w].todo = {}
    /\ Go(w, "send")
    /\ UNCHANGED <<logVars, asInbox, due, old, inbox, sent, found, sweeping, gone, broken, trouble>>

\* The running totals of a long broadcast.
Progress(w) ==
    /\ Dispatching(w, "send")
    /\ run[w].push \in quiet
    /\ log[run[w].push].status # "NONE" /\ log[run[w].push].stamp < MaxStamp
    /\ Write(run[w].push, log[run[w].push].status)
    /\ UNCHANGED <<asInbox, due, old, inbox, sent, run, found, sweeping, gone, broken, trouble>>

EndSend(w) ==
    /\ Dispatching(w, "send")
    /\ sent' = sent \cup {run[w].push}
    /\ Go(w, "record")
    /\ UNCHANGED <<logVars, asInbox, due, old, inbox, found, sweeping, gone, broken, trouble>>

\* recordOutcome: whatever the status is by now.
Record(w) ==
    /\ Dispatching(w, "record")
    /\ IF log[run[w].push].status = "NONE" THEN UNCHANGED logVars
       ELSE \E s \in Settled : Write(run[w].push, s)
    /\ Stop(w)
    /\ UNCHANGED <<asInbox, due, old, inbox, sent, found, sweeping, gone, broken, trouble>>

\* The outcome is not stored; the push went out all the same.
RecordFails(w) ==
    /\ Dispatching(w, "record")
    /\ Trouble({run[w].push})
    /\ Stop(w)
    /\ UNCHANGED <<logVars, asInbox, due, old, inbox, sent, found, sweeping, gone>>

\* A statement or the whole send throws: the row is marked, except by a recovery,
\* which leaves it to the next sweep.
DispatchFails(w) ==
    /\ run[w].at \in {"check", "inbox", "send"}
    /\ Trouble({run[w].push})
    /\ IF run[w].mode = "recover" \/ log[run[w].push].status = "NONE"
       THEN UNCHANGED logVars ELSE Write(run[w].push, "FAILED")
    /\ Stop(w)
    /\ UNCHANGED <<asInbox, due, old, inbox, sent, found, sweeping, gone>>

-------------------------------------------------------------------------------
\* The scheduler

FreeToSweep(phase) == run[Scheduler] = Resting /\ found = {} /\ sweeping = phase

FindDue ==
    /\ FreeToSweep("no")
    /\ found' = {<<p, log[p].stamp>> : p \in {q \in due : log[q].status = "SCHEDULED"}}
    /\ sweeping' = "due"
    /\ UNCHANGED <<logVars, asInbox, due, old, inbox, sent, run, gone, broken, trouble>>

\* The claim is guarded by the status.
ClaimDue(f) ==
    /\ sweeping = "due" /\ run[Scheduler] = Resting
    /\ f \in found
    /\ found' = found \ {f}
    /\ IF log[f[1]].status = "SCHEDULED"
       THEN Write(f[1], "QUEUED") /\ Start(Scheduler, f[1], "due")
       ELSE UNCHANGED <<logVars, run>>
    /\ UNCHANGED <<asInbox, due, old, inbox, sent, sweeping, gone, broken, trouble>>

\* A mutant of Interrupted: rows of the scheduler only.
InterruptedDue(p) == log[p].status = "QUEUED" /\ p \in quiet \cap due

Interrupted(p) == log[p].status = "QUEUED" /\ p \in quiet

FindStuck ==
    /\ FreeToSweep("due")
    /\ found' = {<<p, log[p].stamp>> : p \in {q \in Pushes : Interrupted(q)}}
    /\ sweeping' = "stuck"
    /\ UNCHANGED <<logVars, asInbox, due, old, inbox, sent, run, gone, broken, trouble>>

\* The claim is guarded by status and updatedAt, and moves updatedAt.
ClaimStuck(f) ==
    LET p == f[1]
    IN  /\ sweeping = "stuck" /\ run[Scheduler] = Resting
        /\ f \in found
        /\ found' = found \ {f}
        /\ IF log[p].status = "QUEUED" /\ log[p].stamp = f[2]
           THEN IF p \in old THEN Write(p, "FAILED") /\ UNCHANGED run
                ELSE Write(p, "QUEUED") /\ Start(Scheduler, p, "recover")
           ELSE UNCHANGED <<logVars, run>>
        /\ UNCHANGED <<asInbox, due, old, inbox, sent, sweeping, gone, broken, trouble>>

EndSweep ==
    /\ FreeToSweep("stuck")
    /\ sweeping' = "no"
    /\ UNCHANGED <<logVars, asInbox, due, old, inbox, sent, run, found, gone, broken, trouble>>

-------------------------------------------------------------------------------
\* Time, and restarts

Due(p) ==
    /\ log[p].status = "SCHEDULED" /\ p \notin due
    /\ due' = due \cup {p}
    /\ UNCHANGED <<logVars, asInbox, old, inbox, sent, run, found, sweeping, gone, broken, trouble>>

\* Three minutes pass: the dispatch is dead, or it is in the middle of its sends.
\* A database statement does not take that long.
Quiet(p) ==
    /\ log[p].status = "QUEUED" /\ p \notin quiet
    /\ \A w \in Senders : run[w].push = p => run[w].at = "send"
    /\ quiet' = quiet \cup {p}
    /\ UNCHANGED <<log, asInbox, due, old, inbox, sent, run, found, sweeping, gone, broken, trouble>>

Old(p) ==
    /\ log[p].status = "QUEUED" /\ p \notin old
    /\ old' = old \cup {p}
    /\ UNCHANGED <<logVars, asInbox, due, inbox, sent, run, found, sweeping, gone, broken, trouble>>

Restart ==
    /\ Trouble({run[w].push : w \in Senders} \cap Pushes)
    /\ run' = [w \in Senders |-> Resting]
    /\ found' = {} /\ sweeping' = "no"
    /\ UNCHANGED <<logVars, asInbox, due, old, inbox, sent, gone>>

Dispatch(w) ==
    \/ Check(w) \/ \E u \in Recipients : WriteInbox(w, u)
    \/ BeginSend(w) \/ EndSend(w) \/ Record(w)

Sweep ==
    \/ FindDue \/ FindStuck \/ EndSweep
    \/ \E f \in found : ClaimDue(f) \/ ClaimStuck(f)

Next ==
    \/ \E p \in Pushes : SendNow(p) \/ Schedule(p) \/ CancelScheduled(p) \/ Due(p) \/ Quiet(p) \/ Old(p)
    \/ \E w \in Senders : Dispatch(w) \/ Progress(w) \/ RecordFails(w) \/ DispatchFails(w)
    \/ Sweep
    \/ Restart

\* The process goes on and the clock moves: dispatches, the timer of the scheduler,
\* and for a row without a dispatch the three minutes.
Clock(p) == Quiet(p) \/ Due(p)
Fairness ==
    /\ \A w \in Senders : WF_vars(Dispatch(w))
    /\ WF_vars(Sweep)
    /\ \A p \in Pushes : WF_vars(Clock(p))

Spec == Init /\ [][Next]_vars /\ Fairness

-------------------------------------------------------------------------------
TypeOK ==
    /\ log \in [Pushes -> [status : {"NONE", "SCHEDULED", "QUEUED"} \cup Settled, stamp : Nat]]
    /\ asInbox \subseteq Pushes /\ due \subseteq Pushes /\ quiet \subseteq Pushes /\ old \subseteq Pushes
    /\ inbox \in [Pushes -> [Recipients -> Nat]] /\ sent \subseteq Pushes
    /\ \A w \in Senders : /\ run[w].push \in Pushes \cup {Scheduler} /\ run[w].todo \subseteq Recipients
                          /\ run[w].mode \in {"none", "direct", "due", "recover"}
                          /\ run[w].at \in {"rest", "check", "inbox", "send", "record"}
    /\ found \subseteq Pushes \X Nat /\ sweeping \in {"no", "due", "stuck"}
    /\ gone \subseteq Pushes /\ broken \subseteq Pushes /\ trouble \in 0..MaxTrouble

\* "Inbox rows already written by the interrupted attempt are not written twice"
\* (recoverStuck), a push cancelled in time is never begun, and a push no fault has
\* touched reaches every inbox before it is sent to a device.
InboxWrittenOnce ==
    \A p \in Pushes : \A u \in Recipients :
        /\ inbox[p][u] <= 1
        /\ p \in gone => inbox[p][u] = 0 /\ p \notin sent
        /\ p \in (sent \cap asInbox) \ broken => inbox[p][u] = 1

\* Every push that was taken up is settled, one way or the other: delivered, failed,
\* recovered after a restart, or given up (deliverDue and recoverStuck together).
EveryPushSettles ==
    \A p \in Pushes : log[p].status = "QUEUED" ~> log[p].status \in Settled
===============================================================================
