--------------------------- MODULE LudoSubscriptions ---------------------------
(***************************************************************************)
(* Ludo memberships (ludo-subscription.service.ts) of one user: orders paid  *)
(* once for a month, beside a subscription of the earlier kind (Legacy)      *)
(* whose life the provider reports in webhook events.                        *)
(*                                                                         *)
(* Calls of the app and deliveries of events interleave between any two      *)
(* awaits.  The provider repeats an event until it is answered with success, *)
(* and may repeat it while an earlier delivery is still at work.             *)
(***************************************************************************)
EXTENDS Naturals, FiniteSets

CONSTANTS
    Orders,        \* rows createOrder may make
    Plans,
    Calls,         \* calls of the app that run at a time
    Workers,       \* deliveries of webhook events that run at a time
    Legacy, None,
    MaxChanges,    \* bound: changes of the provider's subscription
    MaxBegun,      \* bound: calls of the app and deliveries of events
    MaxFaults      \* bound: failed requests or statements, and restarts

Rows == Orders \cup {Legacy}
Payments == Orders \X {1, 2}
Events == 1..MaxChanges + 1

VARIABLES
    sub,         \* ludo_subscriptions: plan, status, latestPaymentId, whether a period is set
    over,        \* rows whose period has ended
    stale,       \* pending orders made more than a day ago
    cancelled,   \* rows with cancelledAt
    entitlement, \* ludo_entitlements: plan, and the row it comes from
    event,       \* ludo_payment_events of webhooks: their status
    receipt,     \* ludo_payment_events of orders: payment and order
    call,        \* what each call of the app is doing
    worker,      \* what each delivery is doing
    payment,     \* at the provider: what became of each payment
    provider,    \* at the provider: the subscription
    emitted,     \* events made so far
    acked,       \* events answered with success, not sent again
    begun, faultCount

rowVars == <<sub, stale, cancelled, entitlement, receipt>>
providerVars == <<payment, provider, emitted, over>>
counters == <<begun, faultCount>>
vars == <<rowVars, providerVars, event, call, worker, acked, counters>>

Snapshots == [status : {"created", "authenticated", "active", "halted", "cancelled"}, end : BOOLEAN]
Nothing == [status |-> "created", end |-> FALSE]
NoPayment == <<None, 1>>
Free == [plan |-> "FREE", source |-> None]
Idle == [kind |-> "idle", row |-> None, pay |-> NoPayment, snap |-> Nothing, seen |-> "NONE"]
Resting == [at |-> "rest", event |-> 0, snap |-> Nothing]

mapProviderStatus ==
    [created |-> "PENDING", authenticated |-> "AUTHENTICATED", active |-> "ACTIVE",
     halted |-> "PAYMENT_FAILED", cancelled |-> "CANCELLED"]

\* A subscription that was never paid, or one that is running.
Init ==
    /\ provider \in {Nothing, [status |-> "active", end |-> TRUE]}
    /\ sub = [r \in Rows |-> [plan |-> "PLUS", pay |-> NoPayment, end |-> r = Legacy /\ provider.end,
                  status |-> IF r = Legacy THEN mapProviderStatus[provider.status] ELSE "NONE"]]
    /\ over = {} /\ stale = {} /\ cancelled = {}
    /\ entitlement = IF provider.end THEN [plan |-> "PLUS", source |-> Legacy] ELSE Free
    /\ event = [e \in Events |-> "NONE"]
    /\ receipt = {}
    /\ call = [c \in Calls |-> Idle]
    /\ worker = [w \in Workers |-> Resting]
    /\ payment = [p \in Payments |-> "none"]
    /\ emitted = 1     \* the first event is about a subscription nobody knows
    /\ acked = {}
    /\ begun = 0 /\ faultCount = 0

Fault == faultCount < MaxFaults /\ faultCount' = faultCount + 1
Begin == begun < MaxBegun /\ begun' = begun + 1

-------------------------------------------------------------------------------
\* The provider and the clock

\* Checkout: a payment is authorized, or captured at once.
Pay(p) ==
    /\ sub[p[1]].status # "NONE"
    /\ payment[p] = "none"
    /\ \E s \in {"authorized", "captured"} : payment' = [payment EXCEPT ![p] = s]
    /\ UNCHANGED <<rowVars, provider, emitted, over, event, call, worker, acked, counters>>

Follows ==
    [created |-> {"authenticated", "cancelled"}, authenticated |-> {"active", "cancelled"},
     active |-> {"halted", "cancelled"}, halted |-> {"active"}, cancelled |-> {}]

Change(s) ==
    /\ emitted < MaxChanges + 1
    /\ s \in Follows[provider.status]
    /\ provider' = [status |-> s, end |-> provider.end \/ s = "active"]
    /\ emitted' = emitted + 1
    /\ UNCHANGED <<rowVars, payment, over, event, call, worker, acked, counters>>

EndPeriod(r) ==
    /\ r \notin over
    /\ IF r = Legacy THEN provider.end ELSE sub[r].status = "ACTIVE"
    /\ over' = over \cup {r}
    /\ UNCHANGED <<rowVars, payment, provider, emitted, event, call, worker, acked, counters>>

Age(o) ==
    /\ sub[o].status = "PENDING" /\ o \notin stale
    /\ stale' = stale \cup {o}
    /\ UNCHANGED <<sub, cancelled, entitlement, receipt, providerVars, event, call, worker, acked, counters>>

-------------------------------------------------------------------------------
\* createOrder

Running(c, kind) == call[c].kind = kind
Done(c) == call' = [call EXCEPT ![c] = Idle]
ToRow(c, kind, r) == call' = [call EXCEPT ![c] = [Idle EXCEPT !.kind = kind, !.row = r]]

HasMembership ==
    \E r \in Rows \ over :
        /\ sub[r].status \in {"AUTHENTICATED", "ACTIVE", "PAUSED"}
        /\ sub[r].end
Pending(plan) == {o \in Orders \ stale : sub[o].status = "PENDING" /\ sub[o].plan = plan}

\* A pending order of the plan would be returned as it is.  The order a call will
\* make is named from the start.
CreateOrder(c, o, plan) ==
    /\ Begin
    /\ Running(c, "idle")
    /\ sub[o].status = "NONE" /\ \A d \in Calls : call[d].row # o
    /\ ~HasMembership /\ Pending(plan) = {}
    /\ call' = [call EXCEPT ![c] = [Idle EXCEPT !.kind = "order", !.row = o, !.seen = plan]]
    /\ UNCHANGED <<rowVars, providerVars, event, worker, acked, faultCount>>

StoreOrder(c) ==
    /\ Running(c, "order")
    /\ sub' = [sub EXCEPT ![call[c].row] = [plan |-> call[c].seen, status |-> "PENDING", pay |-> NoPayment, end |-> FALSE]]
    /\ Done(c)
    /\ UNCHANGED <<stale, cancelled, entitlement, receipt, providerVars, event, worker, acked, counters>>

-------------------------------------------------------------------------------
\* verify, for an order

\* The row is read; a payment it already stands for is answered at once.
Verify(c, p) ==
    /\ Begin
    /\ Running(c, "idle")
    /\ sub[p[1]].status # "NONE" /\ payment[p] # "none"
    /\ ~(sub[p[1]].status = "ACTIVE" /\ sub[p[1]].pay = p)
    /\ call' = [call EXCEPT ![c] = [Idle EXCEPT !.kind = "payment", !.row = p[1], !.pay = p]]
    /\ UNCHANGED <<rowVars, providerVars, event, worker, acked, faultCount>>

\* The payment is fetched, and captured if it is only authorized.
GetPayment(c) ==
    /\ Running(c, "payment")
    /\ call' = [call EXCEPT ![c].kind = IF payment[call[c].pay] = "captured" THEN "claim" ELSE "capture"]
    /\ UNCHANGED <<rowVars, providerVars, event, worker, acked, counters>>

\* A payment captured meanwhile is refused a second time.
Capture(c) ==
    /\ Running(c, "capture")
    /\ IF payment[call[c].pay] = "authorized"
       THEN /\ payment' = [payment EXCEPT ![call[c].pay] = "captured"]
            /\ call' = [call EXCEPT ![c].kind = "claim"]
       ELSE Done(c) /\ UNCHANGED payment
    /\ UNCHANGED <<rowVars, provider, emitted, over, event, worker, acked, counters>>

\* A mutant of Claimable: any payment that is captured activates its order.
ClaimableAlways(o) == TRUE

Claimable(o) == sub[o].status \in {"PENDING", "AUTHENTICATED"}

\* One transaction: the row while it waits for money, the entitlement, the receipt.
\* Who comes second gets the row of the first, or an error.
Activate(c) ==
    LET o == call[c].row
    IN  /\ Running(c, "claim")
        /\ IF Claimable(o)
           THEN /\ sub' = [sub EXCEPT ![o].status = "ACTIVE", ![o].pay = call[c].pay, ![o].end = TRUE]
                /\ entitlement' = [plan |-> sub[o].plan, source |-> o]
                /\ receipt' = receipt \cup {call[c].pay}
           ELSE UNCHANGED <<sub, entitlement, receipt>>
        /\ Done(c)
        /\ UNCHANGED <<stale, cancelled, providerVars, event, worker, acked, counters>>

-------------------------------------------------------------------------------
\* verify, restore and cancel, for the subscription

\* applyLifecycle: row and entitlement by what the provider has said.
Entitles(snap) ==
    snap.end /\ (snap.status = "active" \/ (snap.status = "cancelled" /\ Legacy \notin over))

ApplyLifecycle(snap) ==
    /\ sub' = [sub EXCEPT ![Legacy].status = mapProviderStatus[snap.status], ![Legacy].end = snap.end]
    /\ entitlement' = IF Entitles(snap) THEN [plan |-> sub[Legacy].plan, source |-> Legacy] ELSE Free

BeginLegacyVerify(c) ==
    /\ Begin
    /\ Running(c, "idle")
    /\ call' = [call EXCEPT ![c] = [Idle EXCEPT !.kind = "legacy", !.row = Legacy, !.seen = sub[Legacy].status]]
    /\ UNCHANGED <<rowVars, providerVars, event, worker, acked, faultCount>>

\* The status read before the provider was asked is written after it.
EndLegacyVerify(c) ==
    /\ Running(c, "legacy")
    /\ sub' = [sub EXCEPT ![Legacy].status = IF call[c].seen = "PENDING" THEN "AUTHENTICATED" ELSE call[c].seen]
    /\ Done(c)
    /\ UNCHANGED <<stale, cancelled, entitlement, receipt, providerVars, event, worker, acked, counters>>

NoOrders == \A o \in Orders : sub[o].status = "NONE"

\* Only while the subscription is the user's newest row.
BeginRestore(c) ==
    /\ Begin
    /\ Running(c, "idle")
    /\ NoOrders
    /\ ToRow(c, "fetch", Legacy)
    /\ UNCHANGED <<rowVars, providerVars, event, worker, acked, faultCount>>

Fetch(c) ==
    /\ Running(c, "fetch")
    /\ call' = [call EXCEPT ![c].kind = "apply", ![c].snap = provider]
    /\ UNCHANGED <<rowVars, providerVars, event, worker, acked, counters>>

Apply(c) ==
    /\ Running(c, "apply")
    /\ ApplyLifecycle(call[c].snap)
    /\ Done(c)
    /\ UNCHANGED <<stale, cancelled, receipt, providerVars, event, worker, acked, counters>>

Cancellable(r) == sub[r].status \in {"AUTHENTICATED", "ACTIVE", "PAUSED"}

\* An order only remembers that its owner cancelled it; it is never renewed.
CancelOrder(o) ==
    /\ Begin
    /\ Cancellable(o)
    /\ cancelled' = cancelled \cup {o}
    /\ UNCHANGED <<sub, stale, entitlement, receipt, providerVars, event, call, worker, acked, faultCount>>

\* At the provider the subscription runs to the end of its cycle: the answer is
\* the state it is in.
BeginCancel(c) ==
    /\ Begin
    /\ Running(c, "idle")
    /\ Cancellable(Legacy) /\ \A o \in Orders : ~Cancellable(o)
    /\ ToRow(c, "cancel", Legacy)
    /\ UNCHANGED <<rowVars, providerVars, event, worker, acked, faultCount>>

AskCancel(c) ==
    /\ Running(c, "cancel")
    /\ call' = [call EXCEPT ![c].kind = "cancelApply", ![c].snap = provider]
    /\ UNCHANGED <<rowVars, providerVars, event, worker, acked, counters>>

ApplyCancel(c) ==
    /\ Running(c, "cancelApply")
    /\ ApplyLifecycle(call[c].snap)
    /\ call' = [call EXCEPT ![c].kind = "mark"]
    /\ UNCHANGED <<stale, cancelled, receipt, providerVars, event, worker, acked, counters>>

\* The period of the provider's answer is written a second time.
MarkCancelled(c) ==
    /\ Running(c, "mark")
    /\ cancelled' = cancelled \cup {Legacy}
    /\ sub' = [sub EXCEPT ![Legacy].end = call[c].snap.end]
    /\ Done(c)
    /\ UNCHANGED <<stale, entitlement, receipt, providerVars, event, worker, acked, counters>>

\* A request or a statement fails, or succeeds unheard: the call ends with an error.
CallFails(c) ==
    /\ ~Running(c, "idle")
    /\ Fault
    /\ \/ UNCHANGED payment
       \/ /\ Running(c, "capture") /\ payment[call[c].pay] = "authorized"
          /\ payment' = [payment EXCEPT ![call[c].pay] = "captured"]
    /\ Done(c)
    /\ UNCHANGED <<rowVars, provider, emitted, over, event, worker, acked, begun>>

-------------------------------------------------------------------------------
\* webhook

At(w, stage) == worker[w].at = stage
Go(w, stage) == worker' = [worker EXCEPT ![w].at = stage]
Rest(w) == worker' = [worker EXCEPT ![w] = Resting]
Answer(w) == acked' = acked \cup {worker[w].event} /\ Rest(w)

\* A delivery begins with the insert of the event; its key makes it unique.
Deliver(w, e) ==
    /\ Begin
    /\ At(w, "rest")
    /\ e <= emitted /\ e \notin acked
    /\ IF event[e] = "NONE"
       THEN event' = [event EXCEPT ![e] = "PROCESSING"] /\ worker' = [worker EXCEPT ![w] = [Resting EXCEPT !.at = "find", !.event = e]]
       ELSE worker' = [worker EXCEPT ![w] = [Resting EXCEPT !.at = "known", !.event = e]] /\ UNCHANGED event
    /\ UNCHANGED <<rowVars, providerVars, call, acked, faultCount>>

\* Known already: a failed one may be taken up again, anything else is a duplicate.
Known(w) ==
    /\ At(w, "known")
    /\ IF event[worker[w].event] = "FAILED" THEN Go(w, "reclaim") /\ UNCHANGED acked ELSE Answer(w)
    /\ UNCHANGED <<rowVars, providerVars, event, call, counters>>

Reclaimable(e) == event[e] = "FAILED"

Reclaim(w) ==
    /\ At(w, "reclaim")
    /\ IF Reclaimable(worker[w].event)
       THEN event' = [event EXCEPT ![worker[w].event] = "PROCESSING"] /\ Go(w, "find") /\ UNCHANGED acked
       ELSE Answer(w) /\ UNCHANGED event
    /\ UNCHANGED <<rowVars, providerVars, call, counters>>

\* An event about a subscription that is not in the table.
Ignore(w) ==
    /\ At(w, "find") /\ worker[w].event = 1
    /\ event' = [event EXCEPT ![1] = "IGNORED"]
    /\ Answer(w)
    /\ UNCHANGED <<rowVars, providerVars, call, counters>>

FetchForEvent(w) ==
    /\ At(w, "find") /\ worker[w].event # 1
    /\ worker' = [worker EXCEPT ![w].at = "apply", ![w].snap = provider]
    /\ UNCHANGED <<rowVars, providerVars, event, call, acked, counters>>

ApplyEvent(w) ==
    /\ At(w, "apply")
    /\ ApplyLifecycle(worker[w].snap)
    /\ Go(w, "finish")
    /\ UNCHANGED <<stale, cancelled, receipt, providerVars, event, call, acked, counters>>

FinishEvent(w) ==
    /\ At(w, "finish")
    /\ event' = [event EXCEPT ![worker[w].event] = "PROCESSED"]
    /\ Go(w, "tell")
    /\ UNCHANGED <<rowVars, providerVars, call, acked, counters>>

\* The entitlement is read once more and told to the user.
Tell(w) ==
    /\ At(w, "tell")
    /\ Answer(w)
    /\ UNCHANGED <<rowVars, providerVars, event, call, counters>>

\* Whatever fails inside the try marks the event, even when it was processed.
StepFails(w) ==
    /\ worker[w].at \in {"find", "apply", "finish", "tell"} /\ worker[w].event # 1
    /\ Fault
    /\ Go(w, "fail")
    /\ UNCHANGED <<rowVars, providerVars, event, call, acked, begun>>

MarkFailed(w) ==
    /\ At(w, "fail")
    /\ event' = [event EXCEPT ![worker[w].event] = "FAILED"]
    /\ Rest(w)
    /\ UNCHANGED <<rowVars, providerVars, call, acked, counters>>

\* The process dies, or every statement fails: events stay as they are.
Restart ==
    /\ Fault
    /\ call' = [c \in Calls |-> Idle]
    /\ worker' = [w \in Workers |-> Resting]
    /\ UNCHANGED <<rowVars, providerVars, event, acked, begun>>

Next ==
    \/ \E p \in Payments : Pay(p) \/ \E c \in Calls : Verify(c, p)
    \/ \E s \in {"authenticated", "active", "halted", "cancelled"} : Change(s)
    \/ \E r \in Rows : EndPeriod(r)
    \/ \E o \in Orders : \/ Age(o) \/ CancelOrder(o)
                         \/ \E c \in Calls, plan \in Plans : CreateOrder(c, o, plan)
    \/ \E c \in Calls :
        \/ StoreOrder(c) \/ GetPayment(c) \/ Capture(c) \/ Activate(c)
        \/ BeginLegacyVerify(c) \/ EndLegacyVerify(c)
        \/ BeginRestore(c) \/ Fetch(c) \/ Apply(c)
        \/ BeginCancel(c) \/ AskCancel(c) \/ ApplyCancel(c) \/ MarkCancelled(c)
        \/ CallFails(c)
    \/ \E w \in Workers :
        \/ \E e \in Events : Deliver(w, e)
        \/ Known(w) \/ Reclaim(w) \/ Ignore(w) \/ FetchForEvent(w)
        \/ ApplyEvent(w) \/ FinishEvent(w) \/ Tell(w) \/ StepFails(w) \/ MarkFailed(w)
    \/ Restart

Spec == Init /\ [][Next]_vars

-------------------------------------------------------------------------------
TypeOK ==
    /\ sub \in [Rows -> [plan : Plans \cup {"PLUS"}, pay : Payments \cup {NoPayment}, end : BOOLEAN,
                         status : {"NONE", "PENDING", "AUTHENTICATED", "ACTIVE", "PAYMENT_FAILED", "CANCELLED"}]]
    /\ over \subseteq Rows /\ stale \subseteq Orders /\ cancelled \subseteq Rows
    /\ entitlement \in [plan : Plans \cup {"PLUS", "FREE"}, source : Rows \cup {None}]
    /\ event \in [Events -> {"NONE", "PROCESSING", "PROCESSED", "IGNORED", "FAILED"}]
    /\ receipt \subseteq Payments
    /\ \A c \in Calls : call[c].snap \in Snapshots /\ call[c].row \in Rows \cup {None}
    /\ \A w \in Workers : worker[w].snap \in Snapshots /\ worker[w].event \in Events \cup {0}
    /\ payment \in [Payments -> {"none", "authorized", "captured"}]
    /\ provider \in Snapshots /\ emitted \in Events /\ acked \subseteq Events
    /\ begun \in 0..MaxBegun /\ faultCount \in 0..MaxFaults

\* An order is a membership for exactly one payment, whichever of the app's calls
\* comes first and whatever they had read before (verifyMembershipOrder): the row
\* names it, its receipt is the only one, its money was taken; and an entitlement
\* from an order has the plan that was paid for.
OnePaymentPerMembership ==
    /\ \A o \in Orders :
        {p \in receipt : p[1] = o} = IF sub[o].status = "ACTIVE" THEN {sub[o].pay} ELSE {}
    /\ \A p \in receipt : payment[p] = "captured"
    /\ entitlement.source \in Orders =>
        sub[entitlement.source].status = "ACTIVE" /\ sub[entitlement.source].plan = entitlement.plan

Working(w) == worker[w].at \in {"find", "apply", "finish", "tell", "fail"}

\* At most one delivery works on an event, also when the provider repeats it while
\* an earlier delivery is at work or two repeats meet on a failed one (webhook).
OneDeliveryPerEvent ==
    \A v, w \in Workers : v # w /\ Working(v) /\ Working(w) => worker[v].event # worker[w].event
===============================================================================
