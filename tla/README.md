# Verification of the Money Marathon backend

TLA+ models, TLC runs and TLAPS proofs for the rewards backend in `src/` (Fastify, Prisma on
PostgreSQL, Razorpay, Xoxoday, CPX Research, Cloudinary, Firebase). What is at stake is money: coins
are earned, bought, reversed, escrowed and paid out as vouchers or UPI transfers by handlers that
run concurrently, call services that lose replies, and may be cut off anywhere. Beside it there are
games whose players leave, come back and act at the same time.

Paths below are relative to `src/src/modules/`.

## 1. Inventory

| component | state | operations | who it meets | what is hard |
|---|---|---|---|---|
| Wallet (`wallet/`) | `Wallet.balance`, append-only `WalletTransaction` | credit, and copies of it inlined in every component | everything that pays | balance and row must commit together; an event must never be posted twice |
| Redemptions (`redemptions/`) | `Redemption` rows, escrowed coins | request, review, claim, release, markPaid, fulfill, catalogue | wallet, voucher provider, admins paying by UPI | concurrent requests, racing admins, provider timeouts, crash between issue and save |
| Voucher provider (`redemptions/providers/`) | a state file with rotating tokens, one object per attempt | load, refresh, persist | settings, redemptions | overlapping attempts use one rotating token, lost answers |
| Offers and submissions (`hot-offers/`) | `Offer`, `OfferSubmission`, `SubmissionImage`, public feed cache | submitProof, cancel, review, reopen, offer editing | wallet, uploads, settings | a long chain of reads before one unguarded write, caps counted outside the transaction, a cache with shared loads |
| CPX postbacks (`cpx/`) | `CpxTransaction` | postback status 1 and 2 | wallet, the provider's retries | duplicates, reversal before credit, unique-key waits |
| Coin purchases (`payments/`) | `CoinPurchase` | createOrder, verify, reconcile | wallet, Razorpay | lost capture replies, two sessions for one payment, recovery |
| Roulette (`roulette/`) | `RouletteRound`, policy schedules and profiles | play, verify, schedule create and cancel | wallet, settings, advisory locks | idempotency keys, daily limits under concurrency, half-open schedules, weights against odds |
| Tic-tac-toe (`game/`) | `GameMatch`, match cache, online queue | startMatch, move, join, leave, disconnect | wallet, socket hub, Ludo's seats | moves answered from a cache and saved later, pairing across awaits, an optimized search |
| Ludo (`ludo/`) | rooms, queue, hub, chat, voice, subscriptions, payment events | join, accept, ready, roll, move, forfeit, settle, sweep; chat, mute, block, voice; order, verify, webhook | socket hub, Razorpay | candidates read before they are locked, a late clean-up against a reconnect, the last move against the sweeper, repeated webhooks |
| Sessions (`auth/`, `admin/`) | refresh tokens, web codes in memory | sign-in, rotate, exchange, revoke, deactivate | users, Firebase | rotation races, revocation against token creation |
| Users and referrals (`users/`) | users, referral codes and links | sign-in upsert, applyReferral, delete account | wallet, Firebase | lock order, both sides rewarded once, two identities of one email |
| Claims, missions | `Claim`, `MissionSubmission` | submit, review | wallet | two reviewers, a reward that changes meanwhile |
| Notifications (`notifications/`, `workers/`) | in-app rows, `push_logs` | send, schedule, cancel; in process: dispatch, deliverDue, recoverStuck | FCM | no queue outside the process: a dispatch dies with it and is found by the next sweep |
| Uploads (`uploads/`) | objects in a store, `media_assets` rows | upload, attach, retire, sweep of old proofs | Cloudinary or disk, submissions | two stores without a transaction |
| Settings | rows and a process-local cache | get, update | all | shared loads against updates |
| Assets, campaigns, analytics | rows | create, read, update, delete | | |

What makes them correct, in short: the ledger explains every balance and no event is posted twice;
escrowed coins match the state of the redemption; a voucher or a transfer that left the house is
never refunded; a reward is paid once, as quoted; received money becomes coins or a membership exactly
once; a player has one seat, for as long as the game is live, and a game is counted once; what the
player was shown is what the game goes on from; a session has one live token and a deactivated account
none; what was acknowledged is seen by whoever asks later; what was begun (a push, a handshake, a
retention sweep, a recovery) ends.

The component list in `PROJECT.json` says of each part whether it is modelled; `hazards` lists what
tests hardly reach, at its line, with the property that covers it.

## 2. Modules

| module | models | state kept as |
|---|---|---|
| `WalletLedger` | the abstract wallet | `balance`, `ledger` |
| `Redemptions` | `redemptions.service.ts`, `redemptions.repository.ts` | columns of a row as functions of its id, row locks, progress of `request()` and `review()`, the world outside (`issued`, `paid`) |
| `VoucherTokens` | token state of `xoxoday-base.provider.ts`, `voucher-provider-registry.ts` | refresh tokens numbered by rotations: granted, in the settings, in the file, in each attempt |
| `OfferSubmissions` | submissions part of `hot-offers.service.ts` and its repository | one slot per (offer, user), progress of each `submitProof` call, reviews past the cap count |
| `OfferCatalogue` | offers, categories, feedback pages and `cachedPublic` of the same | rows with a slug, an edit count per value, the cache in its order, readers and editors under way |
| `SettingsCache` | `settings.service.ts` | the update count a snapshot contains, the load in flight, those waiting for it |
| `CpxPostbacks` | `cpx.service.ts` | committed status per transaction, the call holding the uncommitted row, progress and answer per call |
| `CoinPurchases` | `coin-purchase.service.ts` | purchase rows, payments at Razorpay, progress of each verify and reconcile session |
| `LudoSubscriptions` | `ludo-subscription.service.ts` | rows, entitlement, receipts, events and who works on them, Razorpay's payments and subscription |
| `Rewards` | `claims.service.ts`, `missions.service.ts`, `applyReferral` and `deleteAccount` of `users.service.ts` | submissions, reviews past their read, row locks with who waits, the wallet's entries |
| `Accounts` | `auth.service.ts`, `refresh-token.repository.ts`, `updateUserStatus` | one account, its tokens, codes, and what each call has read |
| `Identities` | `upsertFirebaseUser`, `ensureReferralCode` of `users.repository.ts` | rows of `users` with email, uid and code, a request per query |
| `PushDelivery` | `notifications.service.ts`, `notification-dispatcher.ts`, `workers/index.ts` | the log row with its stamp, inbox rows, the dispatches and the sweep |
| `Uploads` | `uploads.service.ts` | objects, rows, uploads and retirements half-way |
| `RouletteRounds` | `play` and the schedule operations of `roulette.service.ts` | the database clock, rounds as the set of calls that made one, windows of schedules, progress of each call and schedule change |
| `RouletteWheel` | `engine/roulette.ts`, `createProfile`, `verifyRound` | payouts, profiles, the policy in force, the spin, the stored round |
| `TicTacToeRules` | `engine/tictactoe.ts` | board and the order of marks; the search as operators |
| `TicTacToeMatches` | `startMatch`, `move`, `persist` of `game.service.ts` | rows and cache entries as (plies, status), the saves under way, what was shown |
| `TicTacToeOnline` | matchmaking and play between users of `game.service.ts`, sessions of `ludo-hub.ts` | sessions, queue, the one pairing operation that runs, matches, seats at Ludo |
| `LudoRooms` | queue, rooms, players and sweeper of `ludo.service.ts`, who still plays of `ludo.ts`, sessions of `ludo-hub.ts` and `ludo-gateway.ts` | a queue entry per user, a room and a row per room and user, the session table of the process, what operations under way have read |
| `LudoSockets` | sockets and sessions of `ludo-gateway.ts` and `ludo-hub.ts`, with the queue of `ludo.service.ts` | the state of each socket and of its authentication, the session table, clean-ups under way, the users' locks and queue entries |
| `LudoBoard` | `engine/ludo.ts` | the engine's game state |
| `LudoTalk` | what chat and voice see of a room: `assertRoomMember`, sockets that close, `markDisconnected`, `resumeActive`, `updateRestrictions` | whether it is over, its players, who has a socket, who is silenced |
| `LudoChat` | chat, mutes, blocks and snapshots of `ludo.service.ts`; extends `LudoTalk` | the two lists of who hides whom, messages by age, calls and snapshots under way and the lists each has read |
| `LudoVoice` | voice of `ludo.service.ts`; extends `LudoTalk` | the voice session, who talks, calls under way and the participants each has read, joins that were told, the offers made |
| `Storefront`, `Platform`, `Games` | the components checked together, one per behaviour | `part` |

`Storefront` extends `OfferSubmissions` and instantiates `OfferCatalogue`, `SettingsCache` and
`LudoSubscriptions`; `Platform` extends `CpxPostbacks` and instantiates `Rewards`, `PushDelivery`,
`Accounts`, `VoucherTokens`, `Uploads`, `Identities` and `LudoSockets`; `Games` extends `RouletteRounds` and
instantiates `RouletteWheel`, `TicTacToeMatches`, `TicTacToeOnline`, `LudoBoard`, `LudoChat` and
`LudoVoice`. An `MC...` module gives a module its instance for TLC (`MCGames` adds `TicTacToeRules`); a
`...Proofs` module extends one with its theorems. `Redemptions`, `CpxPostbacks` and `CoinPurchases` instantiate
`WalletLedger` and are shown to implement it, so what is proved of the ledger (rows explain the
balance, no event twice) holds of them.

### How code becomes actions

* A statement, or a short transaction whose first statement is a guarded update of the row it is
  about, is one action: PostgreSQL's row lock makes its later statements atomic with the first.
* An interactive transaction that reads before it locks, or a handler with several transactions or
  calls outside, is a process with a step per database round trip or call. Between its steps every
  other action may happen. `request()` holds the wallet row from its upsert (`walletLock`), so wallet
  movements of others wait for it.
* Memory of the process (caches, queues, sessions, web codes) changes atomically between two awaits.
* A SELECT reads committed rows only; an INSERT waits for an uncommitted one with the same key
  (`CpxPostbacks.inserting`).
* A crash or a failed statement is an action wherever the code can be cut off; committed effects stay.
* Operators that a comment calls a mutant (`CanRejectAny`, `ReviewableRead`, ...) are not part of the
  specification. Each stands before the definition it varies and shows that the property that guards
  it can fail.

### Redemptions

`BeginRequest`, `CheckRequest`, `CommitRequest` (or `RefuseRequest`, `AbortRequest`) are
`createRequest`; `seen` is the balance read under the lock. `Approve` is the first commit of
`review(APPROVE)`, and `review[i]` then follows the function: the provider call (`CallProvider`, with
the case of a voucher issued and its reply lost), the save (`SaveVoucher`, `SaveConflict`, `SaveFails`,
`SaveUnconfirmed`) and the two catches (`ParkRefusal`, `ParkVoucher`, `ParkFails`). `PayByUpi` is the
admin sending money outside the program.

### VoucherTokens

`Build` and `LoadTokenState` make the provider object of an attempt, `Post` and `PostAgain` its order,
`Refresh` (or `RefreshUnanswered`, `RefreshRefused`) the rotation at the provider, `Persist` the file.
`EnterTokens` is the admin.

### OfferSubmissions

`Gate`, `CheckCaps`, `CheckImages`, `Resubmit` or `CreateSubmission`, `StoreImages` are the statements
of `submitProof` in order; `found` and `quote` are what it carries from the first reads to the last
write. Screenshots are sets of hashes: two equal ones in a call are refused before anything is
written. `BeginApprove` and `CommitApprove` split a review at the count of approved rows.

### OfferCatalogue and SettingsCache

In the catalogue `Read` is the synchronous part of `cachedPublic` (hit, shared load, or a new one),
`Fetch` its query, `Answer` with `Settle` the continuation that stores unless the generation has moved.
`BeginCreate`, `BeginUpdate`, `TrySlug`, `Write`, `BeginDelete`, `Erase`, `BeginPage` and `WritePage`
are the edits, `Acknowledge` the invalidation and the reply. In the settings `Ask`, `Load`, `Keep` are
`overrides()`, `Update` and `Acknowledge` are `update()`. A value is the number of edits it contains;
`misled` and `outdated` record an answer without an edit acknowledged before it was asked for.

### CpxPostbacks

A call is a postback with its retries. `Insert` takes the unique key, `CommitCredit` and
`CommitReversal` commit; a call that finds the key taken ends with P2002 and the answer "duplicate".
`Fail` is a rolled back transaction, after which the provider calls again.

### CoinPurchases and LudoSubscriptions

A session of `CoinPurchases` is a call of `verify()` or `reconcile()`; `target` is the payment it works
on and `todo` the purchases a recovery has still to see, newest first. `Pay`, `AutoCapture` and `Expire`
are Razorpay, which captures one payment per order. In `LudoSubscriptions` a call of the app is
`CreateOrder` and `StoreOrder`; `Verify`, `GetPayment`, `Capture`, `Activate`; the earlier kind of
subscription in `BeginLegacyVerify`, `BeginRestore`, `Fetch`, `Apply`; or a cancellation. A worker is a
delivery of a webhook: `Deliver`, `Known` and `Reclaim` decide whether it may work on the event,
`FetchForEvent` to `Tell` do the work, `MarkFailed` its catch. `Pay`, `Change` and `EndPeriod` are
Razorpay.

### Rewards, Accounts, Identities

`Rewards` cuts a review between its read and its guarded transaction, and a referral or a deletion at
each row lock (`Ask`, `Take`): `Cycles` are the circles of waiting transactions, `Abort` is what
PostgreSQL does with them. `Accounts` cuts each call after it has read the account: `SignIn`,
`CreateWebSession` then `Issue`; `ExchangeWebCode`, `ReadForCode`, `Issue`; `Refresh`, `Rotate`;
`Logout`, `Revoke`; and `Deactivate`, `RevokeSessions`. `epoch` counts deactivations, and each call and
token carries the epoch of its read. In `Identities` every query of `upsertFirebaseUser` and
`getReferralStats` is a step: `Find`, `Create` or `Link`, then `WriteCode` and `Reread`.

### PushDelivery and Uploads

`Check`, `WriteInbox` per batch, `BeginSend`, `Progress`, `EndSend` and `Record` are a dispatch, begun
by `SendNow` or by the scheduler, whose sweep is `FindDue`, `ClaimDue`, `FindStuck`, `ClaimStuck`,
`EndSweep`. A row that was not touched for three minutes is `quiet`, also when its dispatch is only slow.
In `Uploads`, `Store` and `CreateAsset` (or `CreateAssetFails`, which undoes the first) are an upload,
`CheckProof` and `AttachProof` its use, `Retire`, `RetireErase` and `RetireAsset` an admin's retirement,
`Sweep` and the steps after it the retention.

### RouletteRounds and RouletteWheel

`Start` is `play()` up to its transaction, `LockUser` the user's advisory lock and the duplicate check,
`Admit` the shared policy lock, the clock read under it and everything decided from the user's rounds,
`Settle` the rest of the transaction. `BeginWrite` is a schedule change up to the clock it reads under
the exclusive lock, `CommitCreate` and `CommitCancel` its end. The locks are no variables: who holds one
follows from `step` and `writing`. A round is identified with the call that made it, so its stake, key
and full win are the constants of that call. A day is `DayLength` instants; `Tick` moves the clock
between any two steps. In this module win or loss is a free choice. Rounds and schedule changes may
carry the same millisecond, and such a round may have been played on either side of the change;
`RoundUsesPolicyInForce` leaves that instant to both. `RouletteWheel` makes the choice: `AcceptBet` is
the stake with the payouts quoted, `Settle` draws a pocket for a roll by the weights and stores the
round, `SetPayouts`, `CreateProfile` and `ChangePolicy` change everything afterwards, and `Verified` is
`verifyRound`.

### Tic-tac-toe

`TicTacToeRules` has the moves as actions and the search of `bestMove`, with its cut-offs and its table,
as recursive operators beside the plain `Minimax`. In `TicTacToeMatches` a move is `MoveCached`, or
`MoveUncached` and `Load`; a move that goes on is answered and its `Save` runs behind; the last one is
`ReadReward`, `Finish` and the rest of `persist`. `Age` and `Sweep` evict, `Crash` empties the cache.
In `TicTacToeOnline` the pairing operations run one at a time, and `at` is the await the running one
stands at: `JoinLook`, `JoinScan`, `CandLook`, `Create`, `Publish` and their exits are
`joinOnlineMatchmaking`, `LeaveLook` and `Drop` the others. `Connect`, `Close` and `ResumeLudo` change
sessions between any two steps. `LudoSeat` and `LudoPublish` are what Ludo does to the same users.

### LudoRooms, LudoSockets, LudoBoard, LudoChat, LudoVoice

`Connect`, then `ResumeRead`, `ResumeWrite` and `ResumeDone` (or `ResumeNothing`, `ResumeFails`) are
`socket.authenticate` with `resumeActive`; `Close`, `CleanUp` and `MarkDisconnected` are the socket's
end and `markDisconnected`. `Join` and `LeaveQueue` are the queue; `PickCandidates`, then `CreateMatch`
or `NoMatch`, are `tryCreateMatch` from its first read to its commit. `AcceptBegin` and `AcceptCommit`
are `acceptMatch`, cut after its deadline is read, since the deadline may pass before the commit;
`Ready` is `readyRoom`. Every step of a running game goes through `mutateActiveRoom`, which is `CanAct`
and `Mutate` with `SettledRows`; `Play`, `Forfeit`, `SweepAbsent` and `SweepTurn` are its callers.
`FindPreGame` and `FindDisconnected` are the sweeper's reads, `CancelBegin`, `CancelCommit` and
`SweepAbsent` what it does about them. `SweepEntry` and `SweepTurn` ask again for all that matters, so
one action is enough for each.

The code runs these as transactions under advisory locks. A transaction is one action unless sessions,
which no lock guards, can change between two things it reads; then it has a step for each. Who holds a
lock follows from the steps (`UserFree`, `PresenceFree`, `RoomFree`). Of the board and the dice remains
in `LudoRooms` what the room sees of them: the turn stays or passes, and a move may bring a player's
last pawn home. A room that is over keeps its outcome and drops what nothing reads again. `LudoBoard`
has the game itself: rolls, moves with captures, turns that run out, forfeits, and `Finalize` with the
places. In `LudoChat` a message goes through `Ask` (a repeat, or the checks), `Allow`, `Write`,
`Exclude` and `Broadcast`, a snapshot through `AskSnapshot`, `ReadWishes` and `ReadRoom`. Mutes and
blocks are two lists, read by queries of their own in either order: `Exclude` and `ReadWishes` read one,
and lists, memberships and sockets may change before the other. `hiding` are, for each list, those who
have had the sayer on it ever since the message was written. In `LudoVoice` a call of `joinVoice` goes
through `AskVoice`, `CheckVoice`, `OpenVoice`, `EnterVoice`, `ReadTalking` and `AnswerJoin`, which tells
what the call has read; `LeaveVoice` and `TellLeave` are the write and the broadcast of `leaveVoice`.
A socket is lost (`LoseSocket`, `Disconnect`) before `MarkDisconnected` writes it into the row, if nobody
has come back by then, and calls of a lost socket are still worked off.

`LudoRooms` has one socket of a user at a time and everything a clean-up does to a seat. `LudoSockets`
has any number of sockets of a user, and only the queue beside them. `Authenticate`, `CheckFails` or
`Register`, `Resume` or `ResumeFails` are `socket.authenticate`, cut at its awaits; `HangUp`, `Reject`
(the timer, or a wrong first message) and `CloseStale` close a socket, and `Close` is its close event,
a step of its own: in between, and after, messages of the socket are still worked off. `BeginJoin`
and `EndJoin` are `joinMatchmaking` before and after it has looked the session up; `BeginCleanUp`,
`EndCleanUp` and `CleanUpFails` are `markDisconnected`; `SeeConnected` and `PutBack` are the two ends of
`cancelPreGameRoom`, which returns a user to the queue without that user's lock. A restart of the
process is in `LudoRooms` only.

## 3. Runs

| run | instance | shows |
|---|---|---|
| `redemptions` | one user, two requests, voucher or UPI, amounts 1 and 2, two earnings, one admin, one database failure; about 250,000 states | escrow, no refund after an issued voucher, two requests never wait as vouchers, issued vouchers recorded, approvals resolved, refinement of the ledger |
| `one_pending` | the same with UPI only, no failures | **violated**: two requests of one user wait at once |
| `paid_refunded` | two admins | **violated**: a payout already sent is refunded |
| `offers` | submissions: one offer, two users, three calls sharing a screenshot, reward cap 1, daily limit 1; catalogue: two offers that want one slug, a category with its page, two readers, two editors, room for one entry; settings: three askers, two updates; memberships: two orders, a subscription of the earlier kind, two calls and two deliveries; about 2,730,000 states | one reward and the quoted amount, caps, what was acknowledged is seen, one payment per membership, one delivery per event |
| `rewarded_twice` | one user whose calls overlap | **violated**: an approved row is resubmitted and rewarded again |
| `platform` | postbacks: two transactions (one without coins), six calls, two failures; rewards: three users, two reviewers; one push for two recipients; one account with two callers, three tokens, a code and a deactivation; three attempts at the voucher provider with two outages; three images, two of them proofs; three identities, two with one email; three sockets of one user; about 535,000 states | coins match rows, every postback answered, rewards paid once, invitations do not deadlock, no inbox row twice, every push settles, sessions and accounts are single, a deactivated account keeps no session, the provider's token is kept, rows match objects, sessions follow sockets (a session is alive, its open socket is reached, who is queued is cleaned up behind), expired proofs are retired |
| `reversal_lost` | one credit and one reversal that overlap | **violated**: the reversal is answered and lost |
| `coins` | two orders, three payments, a verification and a recovery, one failure; about 76,000 states | coins only for captured money, once, and in the end |
| `games` | roulette: one user, two attempts under one key (a paid and a free one) and another spin, two schedules, five instants in two days; the wheel: two tables and two that are refused, two payouts, bets near both limits; tic-tac-toe from three middle positions, searched to depth 4 and to the end; two matches with a cache for one; three users online with two matches who also queue for Ludo; a board of three players with a pawn each on six cells; a chat of two with a repeated message, one of whom keeps lists and asks for snapshots; two who talk, with three calls to join; about 2,670,000 states | every daily limit, the policy in force, the best move, played as shown and paid with the win, searched and matched once, a fair board, the wheel draws and pays as estimated and verifies, chat reaches whom it may, one of two talkers offers the connection |
| `two_games` | three users | **violated**: a user plays tic-tac-toe and has a Ludo seat |
| `entered_tokens` | two attempts, three rotations, an outage | **violated**: tokens entered by an admin are not used |
| `ludo_rooms` | two users, one of whom connects twice, two rooms for two, two strikes, one restart; about 395,000 states | one seat per user and as long as the room is live, one settlement, no resumed player marked offline, handshakes end |

`offers`, `platform` and `games` are composed of components that share no state: a behaviour of the run
is one of the component `part`, chosen in the initial state, and the others rest. So nothing is lost by
checking them together, and nothing is claimed about their interaction. Where components do share state
they are modelled together: seats and sessions in `TicTacToeOnline`, submissions and uploads' images in
`Uploads`, deletion and invitations in `Rewards`, wallet and rows by refinement.

The bounds are enough for the cases that matter: two is the number of actors every race here needs
(two requests of one wallet, a review and a resubmission, a credit and a reversal, verification and
recovery, two refreshes of one token, two deliveries of one event), a third call, payment or user lets a
retry meet a finished predecessor or takes the place of one of two, and amounts 1 and 2 tell a quoted
reward from a changed one. Wallets of different users share nothing in these modules, so one user is
enough for redemptions and purchases. Constants named `Max...` bound events that would otherwise repeat
without end (failures, calls, edits, rotations). Deadlock checking is off because every component may be
done, which is a legal end.

* Roulette: a cooldown of two instants reaches over midnight. With two keys, one of them free, the limits
  of paid games and of the payout bind in the run, those of free games and of all games do not;
  `LimitsOfADay` has all four, for every number of calls. A maximal daily payout of three lets a second
  win through only after a loss, and the window `[1,4)` lies ahead when asked for at 0 and starts late
  afterwards, with gaps where a cancellation cuts it; the two schedules are interchangeable, hence the
  symmetry.
* Ludo rooms: the second room is where a player seated in, or written off by, the first would be seated
  twice; the second socket of `u1` is the replacement that a late clean-up could hit; two strikes tell a
  lost turn from a lost game; and version 5 leaves a move after the four steps of a handshake. The bound
  is on moves only: strikes and forfeits go beyond it, so a game at the bound can still end.
* Ludo board: three players are needed for a forfeit that leaves a game, six cells and a dice of three
  for captures on and off safe cells, overshooting home and three largest faces in a row.
* Ludo chat and voice: two users are a sayer and a listener, or the two ends of a connection. Two
  changes let a listener enter a list before a message and change the other list, fall silent or lose
  the socket between the two reads of its broadcast; or ask for a snapshot and change one list between
  its reads. To move from one list to the other
  takes three, and `TalkIsHeardRightly` has any number. Only the listener keeps lists: those of the sayer,
  whom nobody else speaks to, would change nothing. Three departures and three calls, two of them of one
  user, let a call outlive its socket while the other joins and the first joins again; the two calls of
  one user are interchangeable, hence the symmetry.
* Tic-tac-toe: a cache for one match makes the other be evicted under a move; depth 4 is the search
  cut short, depth 8 the full one, where the cut-offs and the table matter most.
* The wheel keeps its 37 pockets; a roll is one of 37 equal steps for the even tables, and the doubled
  and the emptied pocket of the weighted one move every boundary after them.
* Symmetry in `offers` permutes readers, editors and offers (with the calls, deliveries and orders that
  take the same values); no liveness is checked there.

A mutant for each property of a passing run is in `PROJECT.json`.

### What the violations say of the code

1. `release()` does not repeat the pending count that `createRequest` makes, so the one-pending rule
   of `redemptions.repository.ts:37` fails after claim, request, release. For two voucher requests it
   holds (`OnePendingVoucher`, proved).
2. `release()` does not ask who claimed. The race the comment on `claim()` says it closes stays open
   when the second admin releases first.
3. `resubmit()` is an update by id. With two calls of one user in flight the second overwrites an
   approval. With one call at a time the reward is paid once (`RewardedOnceInTurn`, proved).
4. A reversal that overlaps its credit is taken for a duplicate. With calls that do not overlap it is
   kept (`ReversalIsKeptInTurn`, proved).
5. Tic-tac-toe asks the sessions whether a candidate plays Ludo, and a session learns of its room only
   after the transaction that seats it: in between both games start. With tic-tac-toe alone a user plays
   one match (`SearchedAndMatchedOnce`).
6. The provider's tokens in the settings are replaced by those of the state file whenever it exists,
   so tokens an admin enters after a lost rotation are not used until the file is gone.

### Fairness

Fairness is assumed of the server's own steps only. `Redemptions`: a review that is not cut off keeps
running; no fairness of admins or users. `CpxPostbacks`: the server runs what it received, and the
provider repeats an unanswered postback (its failures are bounded). `CoinPurchases`: a session runs on,
and the app asks for recovery while purchases are open, which is what the app's start does; without it
nobody would look at a captured payment again. `PushDelivery`: a dispatch under way runs on, the
scheduler sweeps again and again (its timer), and time passes, so a scheduled push becomes due and an
untouched row quiet. `Uploads`: the retention sweep, on a timer, runs and comes to its candidates; deletions
fail a bounded number of times. `LudoRooms`: deadlines pass, an `acceptMatch` or a sweep under way ends,
and every sweep, each three seconds, comes to every room whose handshake has run out. This last is
strong fairness: the sweeper works on one item at a time and looks at the room again after each. No
player need ever act. Every other is weak fairness, as the event loop or PostgreSQL runs an enabled
continuation unless the process dies, and dying is an action of its own.

## 4. Proofs

TLAPS checks these for every value of the constants that satisfies the modules' assumptions. The
assumptions say that bounds and amounts are natural numbers, that a "nobody" or "none" is not one of
those it stands beside, and where needed that a set is finite: the slots, screenshots and admins of
submissions, the editors of the catalogue, the users of Ludo rooms, messages, seats, the orders of
coins. `RewardBounds` adds that users are numbered, by which invitations order their row locks, with a
greatest one; `UploadBounds` that proofs are images, numbered in the order they are swept in;
`IdentityBounds` that a Firebase user has one email; `WheelBounds` that stakes are positive,
multipliers natural, the day so far within its limit, that a table gives each pocket an integer, and
that a roll is one of `Resolution` equal steps, a number that the size of the wheel and the total of
every table the code accepts divide (for finitely many tables there is one); `SocketBounds` that each
socket presents a token of one user; `BoardBounds` that seats are numbered from
0 and at least two. TLC evaluates all of them in the runs.

| module | extends | inductive invariant | shown of a run |
|---|---|---|---|
| `WalletLedgerProofs` | `WalletLedger` | the chain of rows | (the abstract specification) |
| `RedemptionsProofs` | `Redemptions` | `Inv`, `PendingInv`, `RefusedInv` | `redemptions` |
| `CpxPostbacksProofs` | `CpxPostbacks` | `HoldInv` | `platform` |
| `CoinPurchasesProofs` | `CoinPurchases` | `TargetInv` | `coins` |
| `StorefrontProofs` | `Storefront` | one for each component, below | `offers` |
| `PlatformProofs` | `Platform` | `PlatformInv` | `platform` |
| `GamesProofs` | `Games` | `GamesInv` | `games` |
| `LudoRoomsProofs` | `LudoRooms` | `PInv`, `CountInv` | `ludo_rooms` |

`Storefront`, `Platform` and `Games` compose components that share no state. Their proofs give each
component an invariant of its own, prove that its `Init` establishes and its `Next` keeps it, and
combine the steps: in a step of the composition one component takes a step of its own and the others
stutter (`PartSteps` in `StorefrontProofs` and `PlatformProofs`, `OneGameMoves` in `GamesProofs`).

**Wallet and money.**

* **WalletLedger.** `LedgerExplains` and `NoDoublePosting` by induction: a step appends one row that
  continues the last balance and has a fresh reference.
* **Redemptions.** The properties are not inductive. `Inv` adds: who is inside `createRequest` holds the
  wallet's lock (`LockInv`); what it read is still the balance and, once checked, enough (`SeenInv`);
  rows exist only for finished requests (`RowInv`); a review under way or an issued voucher belongs to
  an approved voucher row (`ReviewInv`). From `Inv`: `NeverOverdrawn`, `EscrowHolds`,
  `NoRefundAfterIssue`, and `Implementation`, because a fresh status means a fresh reference.
  `OnePendingVouchers` adds `PendingInv`: a checked request has no waiting voucher beside it.
  `IssuedAlwaysRecorded`, an action property, adds `RefusedInv`: the catch of a provider's error never
  holds a voucher; and by `ReviewInv` the row can still take the note of the other catch.
* **CpxPostbacks.** `HoldInv` says who may commit a row; `CoinsMatchRow` and the refinement follow, and
  `ReversalKept` adds that serial calls never look up behind an uncommitted insert.
* **CoinPurchases.** `TargetInv` carries "captured" from the reply to the transaction; then
  `CoinsForMoney` and the refinement.
* **Rewards** (`RewardInv`). `SubmissionsInv` and `InvitationsInv` say of each reference that its wallet
  has exactly one row for it, or none: one where a submission is approved or an invitation entered,
  none where not. `ReviewsInv`: what a reviewer has read of a claim is what it still says, since only
  missions change their reward. `GoneInv`: who is gone has no invitation, and the rows of every wallet
  explain its balance. `LockInv` is the reason for the order of locks: an invitation holds the lesser of
  its two rows and asks for the next, so along a circle of waiting invitations the numbers would grow
  for ever. A deletion updates the rows it referred in any order: a circle has one in it, and
  PostgreSQL aborts somebody (`Abort`).

**Caches and sessions.**

* **OfferSubmissions.** `PaidOncePerSubmission` needs only the guard of the approval and holds whatever
  overlaps. `RewardedOncePerOffer` adds `SerialInv`: at most one call per slot in flight, a call that
  found a row and has not written still sees it neither pending nor approved, and credits are at most
  one per reopening plus one while approved. `QuotedInv`: a pending row promises what a call of its user
  was quoted, hence `CreditedAlwaysAsQuoted`. `DailyInv` and `CapInv` keep the room a call or the
  reviewer has found under a limit until it writes; the counts are cardinalities of finite sets.
* **OfferCatalogue** (`CatalogueInv`). `EntriesInv`: a cached value belongs to the generation in force
  and holds every acknowledged edit, and a promise is of a load under way. `ReadersInv`: a load of this
  generation has seen what is acknowledged, and who shares it asked before anything it has not seen was
  acknowledged. For the types: `SlugsInv` and `KeysInv`, `PlacesInv` (the entries are in a strict
  order, whatever is inserted or dropped) and `GenerationInv` (a generation is an
  edit's, whence its bound). A read inserts its promise without asking for room, so the cache may exceed
  `CacheMax` while loads are under way; `StoredWithinSize`, part of `StorefrontTypes`, says that storing
  a value brings it back: of what pruning keeps take the oldest (`WFMin` again), and all others are newer.
* **SettingsCache** (`SettingsInv`). `CacheInv` is the same argument with a version in place of the
  generation.
* **LudoSubscriptions** (`MembershipInv`). `AppCallsInv`: a call holds a payment of its own order, captured
  when it claims, or an order nobody else has and the table has not. `DeliveriesInv`: an event
  somebody works on is processing, and `Reclaim` is the one way past another.
* **Accounts** (`AccountInv`). `OrderInv`: tokens and sessions are numbered in the order they were made,
  so a new one is nobody's. `OneLive`: with it, a rotation's new token takes the session of the one
  token that dies. `CodeInv`: a code is unmade, waiting, with one call, or used up. `EpochInv`: what a
  call or a live token has read is not newer than the last deactivation, and older while the account
  is inactive. `RevokedInv`: once no deactivation has to revoke, live tokens are younger than the last.
* **Identities** (`IdentityInv`). `RowsOfOne`: codes and emails are of one row each, and an identity is at
  the row of its email. `CallsOfOne`: a request is at the row of its email too, or at one that is gone.
* **VoucherTokens** (`TokenInv`). While no answer was lost: who may still refresh holds at most the stored
  token, and only one attempt carries the token in force to the file.
* **Uploads** (`ImagesInv`). A row stands for an upload that is over, and a retirement or the sweep is at
  an image with a row whose object it has, or has not yet, erased.
* **PushDelivery** (`PushOk` of each push). One dispatch at most writes its inbox rows, none while the row
  counts as interrupted; a dispatch writes what is missing; and an untouched push has a dispatch until
  it is settled.

**Games.**

* **RouletteRounds.** `PlayInv`: one spin of a user holds its lock, and what it was admitted on stays
  true until it settles. `ScheduleInv`: the policy lock has one writer and no reader beside it, and
  every stored instant is at most the one the writer has read. From them `KeyedOnce`,
  `CooldownRespected`, `PolicyUnique` (a new window begins after every cancellation) and
  `PolicyHonoured` (a change is later than every stored round). Without the single writer the windows
  of two schedules could cross, which is what `ScheduleInv` is needed for. `DayInv`: a spin admitted and
  not settled still has room under its day's limits, as a set of rounds, free ones and paid ones.
  `PaidInv` says the same of coins: what a user's rounds of a day have won, with the full win of a spin
  that is admitted and not settled, is within the daily payout. The sum is a fold over a set; what it does
  when a round is added follows by induction on its finite subsets. `LimitsOfADay` is both.
* **RouletteWheel** (`WheelInv`). A round carries all that its verification reads, so no later change of
  policy, profiles or payouts reaches it; its payout is one of two and both limits held when it was
  settled. `WheelStaysFair` adds what the wheel computes: the scan over a table stops at pocket `p`
  exactly when the roll lies between the partial sums before and after it; so each pocket is drawn by
  its weight's share of the rolls (a bijection with an interval of integers), and summed over the winning
  pockets this is the estimate. `ProfilesValid` is the inductive part: only validated tables are ever in
  force. Partial sums and sums over pockets are handled by induction, as above.
* **TicTacToeMatches** (`SoloOK` of each match). Positions in progress leave room for a move; a match that
  is not locked has nothing under way; until a fault touches it, what is on its way to the row is the
  position the client was shown, and cache and row have that position otherwise.
* **TicTacToeOnline** (`OnlineInv`). `PhaseInv`: past the search for the joining user's match the operation
  is a join that holds another candidate. `MatchedOnce`, `ActorAlone`, `CandAlone`: nobody plays two
  matches, and a user found without one stays without until the match is made, for only the one
  running operation makes matches. `SearchInv`: whoever was told the search is on has a session and is
  in the queue, but for the two users the operation holds, who can still be paired.
* **LudoSockets** (`SocketInv`). `OpenOwns`: from its registration on a socket that is open owns the session
  of its user, so whoever replaces it has closed it first; `OpenFirst`: nobody authenticates before the
  socket opens. `Attended`: who is queued, or about to be, has a session, or a clean-up is still to
  come, or it was forgotten; it needs the user's lock, under which a join and a clean-up exclude each other.
* **LudoBoard** (`BoardInv`). `ListsInv`: until the end the lists of finishers and of forfeits agree with the
  players' statuses and repeat nobody, so at the end everybody has a place; `TurnInv`: the dice of a move
  was thrown, and a room that waits is as it was made. For any number of seats, pawns and cells.
* **LudoChat** (`ChatInv`). `ChatHides`: who has had a sayer on one list since a message was written, or a
  snapshot asked for, is found there when that list is read. `ChatTells`: one call alone has written a
  message and may tell it. `ChatRates`: calls of a user
  that overlap know of one another, and one that runs alone was counted against what is there.
* **LudoVoice** (`VoiceInv`). `VoiceHolds`: answers are on sockets of players, and the session stays open to
  all who entered while the game goes on. `VoiceOffers`: of two who were answered one offers; of two
  calls that have read the participants and whose callers keep their sockets, one has read the other's
  caller; and of such a call and one who was answered, the call has read them or they offer already.
* **LudoRooms.** `PInv` is `TypeOK`, `SeatedOnce` and what the locks keep apart. `PlayersInv`: in a
  handshake nobody is written off yet. `AcceptingInv` and `SweeperInv`: the room of an `acceptMatch` or
  of a cancellation under way is still in its handshake, and not both at once. `ResumingInv` and
  `MarkingInv`: a resumption is not met by a clean-up between its two statements, and a user about to be
  marked has no open session. `AwayInv`: a disconnected player still has its seat and has not finished
  resuming. `SeatedOnce` rests on the first three, since seats are given under the locks of users and
  taken under the lock of the room; `ResumedStaysOnline` follows from `AwayInv`, which needs all.
  `SettledOnceAlways` adds `CountInv`: a user's statistic is the number of completed rooms it sits in.

Some theorems state more than a run repeats: `NoOverdraft`, `OneCreditPerSubmission`, `OneRoundPerKey`,
`CooldownKept`, `OnePolicyAtATime`, `ReversalIsKeptInTurn`, the refinements of `CpxPostbacks` and
`CoinPurchases`.

The library's induction theorems take an operator as a parameter, which the provers cannot instantiate.
For the sums of the wheel and of a day the induction is first order: the set of counterexamples (numbers,
or subsets of a finite set) is well-founded, so it has a least element (`WFMin`), and there the step applies.

Only model-checked, and why:

* `ApprovalIsResolved`, `PostbacksAnswered`, `CapturedIsCredited`, `HandshakeEnds`, `EveryPushSettles`,
  `ExpiredProofsRetire`: liveness under fairness, beyond TLAPS.
* `ComputerPlaysMinimax`: the search of `bestMove` against plain minimax. Both are RECURSIVE operators,
  which the provers do not read. Nor is it a theorem: an entry of the search's table may answer a call
  that asks for another depth, so it is checked of the positions in the run and claimed of no other.
* The properties of the six runs that find violations, which are false.

## 5. Known limits of the code, not runs

* Two admins approving at once exceed `maxRewards`; two new participants at once, or a cancelled one
  who returns, exceed `maxUsers`; two users who submit one screenshot together both pass the duplicate
  check. All three are counts outside the transaction. The properties are stated for one admin, or not.
* `fulfill()` clears a reconciliation note.
* Recovery takes the first captured or authorized payment of an order: with a second, authorized
  payment listed first a captured one is not credited (`Single` in `CoinPurchases`). It looks at ten
  purchases and seven days (`Take`, `old`).
* A call that read the account before it was deactivated may write its token after the revocation.
  `InactiveHasNoSession` says that nothing else lives: no token made before the deactivation, none of a
  call that read it afterwards. Reactivation makes such a token usable.
* Web codes are in memory: a restart loses them. Deleting an account removes the Firebase user first;
  when the transaction then fails, the next sign-in links the row again.
* `Identities` has one verified email per Firebase user. A user who changes the email to one of another
  row meets two rows and the unique index.
* A process that dies within a webhook leaves its event `PROCESSING`, and its repeat is answered as a
  duplicate. The change comes with the next event only. A membership order for which no row could be
  stored is abandoned at Razorpay.
* An edit whose commit succeeded and whose reply was lost is not invalidated: the public catalogue may
  show what was before for 30 seconds. Another process sees settings up to 60 seconds late. Offers that
  expire leave the cached lists only when those are loaded again.
* Five hundred expired proofs whose deletion always fails would fill every sweep.
* Who goes from muting a player to blocking them, or back, between the two queries of `chatExclusions` or
  of `getSnapshot` is found by neither, and is shown what they hid all the time. `HiddenIsNotHeard` is
  about who stays on one list.
* A message whose call fails after its row was written is never broadcast: a retry answers the sayer
  alone. `ToldOnceAtMost` says that it is not broadcast twice.
* A voice join that outlives its socket is told to the next one, with the participants it had read: if
  the other joined meanwhile, and offered to the lost socket, neither offers until one joins again.
  And the leave of an older socket, told after a new join, makes the others hang up. `PairsAreOffered`
  counts joins told on the socket they were asked on, and not left since.
* A rate check of the chat counts before its own row is written: overlapping calls of one user exceed it.
* `joinVoice` may open the voice session of a room again that was finished since it checked.
* A spin reads limits and switches before its transaction: one that waits for its lock is decided by
  what held before. Running Ludo rooms keep the configuration they began with.
* `resumeActive` restores a player's row to `ACTIVE` with a guard on the resume token only. If the
  player was forfeited since it read the row, the status is overwritten; the seat stays released.
* `cancelPreGameRoom` puts users back in the queue whose session it has read without their locks. One
  whose clean-up is over by then stays queued without a session until the queue's timeout
  (`forgotten` in `LudoSockets`); a match wants a session, so nobody is paired with them.
* When `resumeActive` fails for the socket that replaced another, the catch cleans up at Ludo but not at
  tic-tac-toe, where a search goes on without a session. Pairing looks sessions up and passes over it.
* The sweeper forfeits an absent player when the room's version is the one it read. Resuming does not
  change the version, so a player who has just come back can be forfeited for being away.
* Routes of sessions are set and cleared after the commits: a player who left a room of three and plays
  in another loses the route to the second when the first is over (`ludo.service.ts:1555`).

## 6. Not modelled

Routing, validation schemas, plugins and reads change no state. Campaigns, analytics, app assets and
wallet reads relate no two operations. FCM, Firebase, Razorpay, Cloudinary and the voucher provider are
the environment: what they may answer is in the actions that call them. Decimal rounding: coins are
integers of the smallest unit and every amount is snapshotted before it is moved; the wheel's payouts
and odds are exact fractions. The hash that makes a roll, signatures and the scaling of images are data.
Within modelled components: the voucher catalogue, fraud logs, event tracking, mission and campaign
editing, chat and voice of online tic-tac-toe, entitlement checks when a Ludo match is made, reports
under review, listings, statistics and formatting.

## 7. What could follow

1. The routes of Ludo rooms of three, composed with `LudoRooms`.
2. `RouletteRounds` against `WalletLedger`, which would have to learn to post a debit and a credit in
   one transaction.
3. Chat and voice of online tic-tac-toe, after `LudoChat` and `LudoVoice`.
