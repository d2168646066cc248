# A verification of 10101

10101 is a mobile app (Flutter over a Rust library) in which a *taker* keeps a
bitcoin wallet and an LDK Lightning node and trades contracts for difference
(CFDs) with one *maker*, a server that runs the same Rust library. A CFD lives
as a *custom output* of the Lightning channel between the two. This directory
holds TLA+ models of the program, the TLC runs that check them on small
instances, and TLAPS proofs of their most important properties.

Files are named as they are in the repository; `rust/src/...` is the library,
`maker/src/...` the server, `lib/...` the app.

## 1. Inventory

| Component | State | Operations | Talks to |
|---|---|---|---|
| Lightning payments (`lightning.rs`, `db.rs`, `wallet.rs`) | table `payments`; pending HTLCs and the event queue of LDK | `send_payment`, `create_invoice`, payment events of `handle_ldk_events`, `clean_expired_payments`, `get_lightning_history` | LDK's event thread, the app's calls, the 10 s wallet-info task: all write the table |
| CFD life cycle (`cfd/*.rs`, `lib/cfd_trading/*`) | table `cfd`; custom outputs of the channel; list and detail pages of the app | `open`, `settle`, `load_cfds`, the maker's two custom-output events, refresh timer | LDK fork, maker, notifiers |
| Order mathematics (`api.rs`, `calc.rs`, `cfd/models.rs`) | none | margins, profit, payout, liquidation price | `open`, `settle`, the pages |
| Connection and channel state (`connection.rs`, `api.rs` `run`, `channel_change_notifier.dart`) | keep-alive task, socket, last channel state shown | dial, watch, report every 5 s, `open` of the notifier | LDK's peer manager, event stream |
| Channel funding (`wallet.rs` `open_channel`, `maker/src/routes.rs`, `FundingGenerationReady`) | table `ignore_txid`, a channel being opened | request to the maker, wait for its coins (10 min), sync, create, fund, close | maker over HTTP, chain |
| Bitcoin history (`wallet.rs` `get_bitcoin_tx_history`) | table `ignore_txid` | filter and correct wallet transactions | bdk, channel list |
| Quotes and offers (`maker/src/bitmex.rs`, `routes.rs`, `offer.rs`) | latest quote (watch channel) | merge partial updates, `get_offer`, 5 s poll | BitMEX, taker |
| Startup and seed (`api.rs` `run`, `seed.rs`) | `WALLET` singleton, seed file, tasks | init in order, `try_join!` of the five tasks | all of the above |
| On-chain wallet, faucet, storage, configuration, logging, screens | library state only | single calls | bdk, LDK, HTTP |

What is hard in this code:

- **Payments.** Several threads write one table by payment hash, without
  transactions that span statements. `send_payment` gives the payment to LDK
  *before* it writes the row (`lightning.rs:1116`), so events may come first;
  `PaymentPathSuccessful` unwraps a preimage that need not be there (`:918`);
  expiry filters and updates in separate statements (`db.rs:346`); events come
  again after a restart. It is correct when the table never claims money moved
  that did not, received money is booked, nothing stays Pending for ever.
- **CFDs.** The channel and the table are changed one after the other, in
  `open` and in `settle`; each step may fail alone; LDK's removal of an output
  is only *accepted* when the call returns. Pages hold their own copies of a
  row and a price, refreshes overtake each other. It is correct when locked
  margin is known, a closed cfd has freed its margin at the price shown, and
  the list ends up right.
- **Mathematics.** Margins, payouts and liquidation prices are rounded
  separately and must still agree.
- **Connection.** The task must never give up, and two sources write the
  channel state the app shows.
- **Funding.** The maker pays first and answers later; a retry pays again; the
  funding transaction is built later, by another thread, from whatever coins the
  wallet then has, and the handler `expect()`s a channel that may be gone, in
  particular when LDK raises the event again after a restart (`:688`). The
  history guesses which channel a payment belongs to. It is correct when the
  taker never pays the maker's share, coins are not spent twice, calls end, and
  the history hides what it should and nothing else.
- **Quotes.** Partial updates, a stream that ends, quotes that grow old. It is
  correct when the app shows the market while everybody lives, and nothing when
  the maker is gone.
- **Startup.** Calls before `init_wallet` panic; a seed file half written;
  manager and monitors persisted at different times; one task that ends. It is
  correct when the node on disk is that of the seed, channels are watched, and
  the API is called only with everything in place.

`PROJECT.json` lists each hazard at its line with the properties that cover it.

## 2. The modules

### Payments

`Payments.tla` has one action per step that other threads can get in between:
a call into LDK (`PayInvoice`, `CreateInvoice`) and the insert that follows it
(`RecordSent`, `RecordInvoice`) are two; a handler of one event with a single
statement is one; `PaymentClaimed`, which loads and then updates or inserts, is
two; `clean_expired_payments` is a load (`LoadExpired`) and one `ExpirePayment`
per row, in any order the rows were returned in, and `LoadHistory` follows.
Each statement may fail (`DbFails`), in which case the code's early return or
log line decides what goes on. `update_payment` reads the row back after its
UPDATE (`db.rs:252`), so an update that fails may have changed the row or not;
the failing branches of the handlers and of `ExpirePayment` allow both. `InsertPayment`, `UpdateStatus` and
`UpdateInfo` are the SQL: the insert respects the UNIQUE hash, the update
writes the secret and the preimage it is given even when that is NULL.

The row keeps what decides control: flow, status, whether preimage and secret
are set, the expiry. The data of LDK is external: HTLCs in flight, the events
they raise (`FulfilHtlc`, `FinalizeHtlc`, `FailHtlc`, `HoldPayment`), events
not yet covered by the last save of the channel manager (`handled`), which a
`Crash` puts back into the queue. A panic of the event thread (`Panics`) stops
it until the next start. `missed` is a history variable: the payments whose
PaymentSent was handled in vain, and whether for want of a row or by a failing
statement.

`PaymentLedger.tla` is what the table promises, with no threads, no queue and
no LDK: entries are recorded once, never vanish, never change direction, and
are resolved as Succeeded only if settled. `KeepsLedger` says that `Payments`
implements it, with the identity as mapping.

### CFDs

`Cfds.tla` models the taker's table, its calls, the pages and notifiers of
the app that hold copies of rows, and the maker's event thread. `AddOutput` and
`InsertCfd` are the two halves of `open`; `RemoveOutput` and `UpdateCfd` those
of `settle`. A page (`screen`) shows the row it was opened with and takes the
price of the last offer when Confirm is pressed. `ReadList`/`ShowList` split a
refresh at its `await`. The channel updates are external: an added output is
`requested`, `continued` by the maker, `signed`, `locked`; an accepted removal
is `removing`, then `removed`; a connection that drops makes the channel forget
updates that are not committed (`Forgotten`), as Lightning's
`channel_reestablish` does.

`CfdBook.tla` is the abstract table: a row is written once, Open, for an output
that was added, and closed once, with a price. `KeepsBook` says `Cfds`
implements it (mapping: the added outputs are those that were ever used).

### Order mathematics

`CfdMath.tla` translates `calculate_margin`, `margin_total`,
`calculate_payout_at_price` and the liquidation prices into integers: an amount
is a number of satoshis, one bitcoin is `Unit` of them, `FarPrice` is the
liquidation price the code gives a short position at leverage 1, 21,000,000,
whatever it was opened at (`Unleveraged`, `calc.rs:11-13`), `Round` is the
half-away-from-zero rounding to eight digits of the code. `lost` is the
truncation of the conversion to `u64` in `open`. The quotients are exact in the
model where the code rounds to the 28 digits of `Decimal`.

### Connection

`Connection.tla` models the keep-alive task as the loop it is (`task` is where
it stands), the channel-state task, the event stream, and the notifier, which
both the stream (`Receive`) and a returning `open_channel` (`OpenReturns`)
write. The network, the socket and the channel itself are external.

### Channel funding and the Bitcoin history

`ChannelFunding.tla` has `open_channel` as its steps between awaits: the POST
(`PostOpen`), the ways it ends (`PostFails`, `ReceiveAnswer` with the insert
into `ignore_txid`), the loop that looks for the maker's transaction
(`WaitForFunds`, `WaitLimit` rounds standing for 120 rounds of 5 s), and
`SyncFunds`, which syncs the wallet, and `OpenChannel`, which creates the
channel. The last two run without an await, but LDK's threads run beside them
and may publish another funding in between. The maker
(`PostOpenChannel`) may have paid although the call has given up. LDK accepts,
loses, closes and broadcasts as it likes. `HandleFundingReady` is the event
handler: it selects coins of the *synced* wallet (`Selections`), gives the
transaction to LDK (`FundChannel`), or closes the channel (`GiveUpChannel`),
which ends the thread when the channel has vanished. Events that have been
raised (`ready`) and those in the channel manager as last saved (`saved`) are
two sets: `SaveManager` makes them equal, `Crash` starts again from the saved
one, so an event that was handled and not saved comes again, and meets its
channel as the crash left it. The route handler of the
maker for `OpenChannelRequest` never runs, since `default_user_config` leaves
`manually_accept_inbound_channels` false: the maker's LDK accepts by itself.

The history is the actions of a `reader`: list the wallet's transactions, load
`ignore_txid` and leave the maker's payments out (`HiddenByRows`), and one
`ChargeRow` per row, with the guess of the funding transaction from the first
channel of a list without an order. `ShownSent` is the saturating subtraction,
`FailedOpen` what it hides. The listing of rows and each update are atomic
statements; `before`, what was public when a call synced, is a history
variable.

`FundingBook.tla` is what all of this promises about the taker's coins, with no
wallet, no channel and no event: for a call there is at most one payment of the
maker and, after it, at most one channel, which takes its capacity out of coins
that are there; nothing else moves an amount. `KeepsAccounts` says
`ChannelFunding` implements it. The mapping reads the balance off the unspent
coins and the two sets of calls off the mempool, so a coin spent twice, a
funding built for another amount or a channel without its payment would show.

Left out: fees (so `Extra` of the maker is kept, what the fee takes of it is
not), the branch that drains the wallet when the amount plus the fee exceeds it,
payments the user makes in between, and the coins a closed channel returns.

### Startup, quotes, and the app

`Startup.tla` is `run()` of `api.rs`: one action per step, each of which may
fail (`Fails`) as its `?` does, on the files an earlier process left. The seed
file is created and written in two steps, as `std::fs::write` does. `setup`
reads the monitors whether or not there is a manager (`LoadedMonitors`). After
`BecomeReady` five tasks run; one of them may return (`ConnectionReturns`),
which `try_join!` accepts, or panic (`TaskPanics`), which drops them all and the
background processor while the pages stay. `Kill` may come at any point.

`MakerQuote.tla` is the way of a price: `UpdateQuote` merges the fields a message
mentions into the latest quote and publishes it, `StreamEnds` leaves the last
one in the watch channel, `GetOffer` adds the spread, in thousandths, and
`ReceiveOffer` ends one poll of the app with an answer or, when the maker does
not answer, with none.

`TakerApp.tla` composes the two: one poll is a step of `run()` before the app is
ready, and the offer task repeats it from then on (`Polling`); a panic aborts
it, a kill clears what the page showed. Steps of the two modules that share no
variable interleave.

## 3. What the runs check

Passing runs:

| Run | Instance | Properties |
|---|---|---|
| `payments_ledger` | two calls pay one invoice with up to two parts and two attempts, one history call, one restart | `SucceededIsSettled`, `DeadOnlyAfterMissedPaymentSent`, `HistoryHidesExpired`, `KeepsLedger` |
| `payments_booking` | one outgoing, one incoming payment, one failing statement, one restart, fair | `DeadOnlyAfterMissedPaymentSent`, `OnlySpontaneousHasNoExpiry`, `PendingEnds`, `ReceivedIsBooked` |
| `cfds_book` | one cfd, two pages, one lost connection, failing statement, restart | `NoOrphanedMargin`, `ClosedAtSettlementPrice`, `MakerDiesOnlyOfDroppedOutput`, `KeepsBook` |
| `cfds_shown` | one page, fair | `ClosedIsShown`, `SettleEnds` |
| `cfd_math` | 6 leverages, 5 quantities, 14 prices, both positions | `PayoutWithinMargins`, `OverpaidByRoundingOnly`, `LiquidationLeavesLittle`, `PayoutFollowsPrice` |
| `connection` | two events in the stream, fair | `WatchesItsSocket`, `Reconnects`, `ChannelIsShown` |
| `channel_funding` | two calls, one history, one failing statement or restart, fair; 930,000 states | `KeepsAccounts`, `TakerKeepsItsMoney`, `SyncPreventsDoubleSpend`, `HistoryHidesOnlyAfterSecondPayment`, `ThreadDiesOnlyOfGoneChannel`, `CallEnds`, `NotedPaymentIsHidden` |
| `taker_app` | two seeds, one channel, three faults, one price that moves twice, two spreads, fair | `NodeBelongsToSeed`, `ChannelsAreWatched`, `ApiFindsSingletons`, `NeverBackToZero`, `OfferFollowsMarket`, `OfferWithdrawn`, `StartsWithoutMaker` |

Five of these runs also check the type invariant of their module.

What the properties allow is as telling as what they forbid.
`SyncPreventsDoubleSpend` speaks of a call and the fundings that were public when
it synced. Of one that gets public after the sync, be it before `create_channel`,
it may select the same coin, and LDK then has a channel whose funding never
confirms. `HistoryHidesOnlyAfterSecondPayment`
says when the subtraction goes wrong: only with two payments of the maker, as
after a retry. `ThreadDiesOnlyOfGoneChannel`, `DeadOnlyAfterMissedPaymentSent` and
`MakerDiesOnlyOfDroppedOutput` give the only causes that kill an event thread.
The first has two: a channel that was lost before it was funded, and a channel
that is closed when its event comes again after a restart. So has the second:
no row yet, or a failing statement. It is checked twice because
`payments_ledger` has no failing statements (two callers, parts and attempts with
one are 8.5 million states) and `payments_booking` has one. `NoOrphanedMargin` and
`ReceivedIsBooked` excuse a failing statement, from which the code does not
recover; a SELECT that fails in PaymentClaimed is what
`OnlySpontaneousHasNoExpiry` is about. A liquidated position has a unit of
rounding left at most, except a short one at leverage 1: at its liquidation
price it still owns quantity / 21,000,000 bitcoin, and
`LiquidationLeavesLittle` allows it exactly that and the unit. And
`OfferFollowsMarket` assumes a quote stream that lives, because nothing restarts
one that broke, and then the app shows the last price for ever.

Runs in which the code contradicts what the repository says of it:

- `payments_expiry_race` refutes `OnlyPendingExpires`. "only act on pending
  payments" (`db.rs:327`) holds of the filter, not of the update: a payment
  received after the load is overwritten with Expired. The money is there and
  its row keeps its preimage, so `SucceededIsSettled` and `ReceivedIsBooked`
  hold all the same.
- `cfds_closed` refutes `ClosedFreesMargin`, which is the TODO at
  `settle.rs:43`: the row is Closed, the connection drops, the channel forgets
  the removal, the margin stays locked and no page offers to settle it again.
- `cfd_math_split` refutes `PayoutIsASplit`. `open` locks `margin_taker *
  leverage` for the maker; the payout is capped by two margins rounded
  separately. For one contract at 17000 with leverage 10, 588 * 11 = 6468 sats
  are locked and the cap is 5882 + 588 = 6470.
  `OverpaidByRoundingOnly` bounds the excess.
- `connection_kept_alive` refutes `KeptAlive`. "Retrying in 5 seconds" is
  logged, then the task returns. Nothing starts it again before the app does.

### Bounds and why they suffice

- One payment hash per direction, since rows of different hashes are never
  read together; two callers, since the hazards are races of two writers; two
  parts and two attempts, so that one part can fail, another succeed, and a
  retry overtake late events of the first attempt; `MaxTime = 1`, since an
  expiry is only compared with now.
- One custom output and two pages: outputs of different cfds do not touch each
  other, and two pages of the same cfd are what races. One lost connection,
  one failing statement and one restart are enough to hit every gap between
  two steps once; the counters are guards of the fault actions only.
- `cfd_math` uses `Unit = 1000` so that amounts of one to a few units occur and
  every rounding case is met, and a far price of 90, which is among the closing
  prices and where ten contracts are still worth 111 units; the theorems hold
  for any unit and far price.
- `channel_funding`: two calls are what a retry and an overlap need, with one
  row, one payment and one channel each. `TakerSats = 8` pays for a channel of
  capacity 6 without the maker's coins, so that a funding from the taker's own
  money is possible and has to be excluded by the code; `WaitLimit = 2` has a
  round that goes on and one that gives up. One fault hits every
  gap once, the one between the handling of an event and the saving of the
  manager included; with two, TLC finds the same (1.7 million states), and the
  theorems hold for any number.
- `taker_app`: three faults allow a failed start, a kill and a panic in one
  behaviour; two seeds allow a second, different seed to be generated; one
  channel suffices since channels are treated alike. One field of the quote is
  enough for a partial update, which may mention it or not; the proofs hold for
  all three.
- `MaxBacklog` bounds the events between the library and the app; one event
  already makes what is shown older than what `open` reports.

### Fairness

Liveness is checked under weak fairness only. Rust's runtime polls every
spawned task and each loop sleeps a bounded time (`api.rs:212-245`); LDK's
background processor hands out events in order and saves the channel manager;
the app's timer fires. So the steps of threads and of the wallet-info task are
fair. In `Payments`, nothing is assumed of LDK answering an HTLC, of faults or
of the user; `PendingEnds` therefore rests on expiry. In `Cfds`, calls and
refreshes under way and the timer are fair, the channel's updates are not. In `ChannelFunding`
a call that has begun goes on (its HTTP client has a timeout, its loop a limit)
and the history is built again and again; the maker, the chain and LDK owe
nothing. In `TakerApp` the steps of `run()` go on and a killed app is opened
again, a request is answered or ends with `TCP_TIMEOUT`, and, for
`OfferFollowsMarket` only, a stream that lives brings the current price; the
app's faults are bounded, since three in a row are as good as one. In
`Connection` the network may change for ever; `Reconnects` and `KeptAlive` speak of
a maker that stays reachable, and an `open_channel` call is taken to end, as its
600 s limit makes it.

## 4. What is proved

For every value of the constants, with TLAPS:

- `PaymentsProofs.tla`: `TypeCorrect`, `LedgerIsTrue` (`SucceededIsSettled`)
  and `TableImplementsLedger` (`KeepsLedger`).

  `SucceededIsSettled` is not inductive: the status of a row comes from an
  event that may wait in the queue, be in the hands of the event thread, or
  come again after a restart. `IInv` follows a success from the HTLC to the
  row: `FinalizingSettled` (an HTLC being finalised was fulfilled),
  `EventsTrue` (every event, queued, in hand or handled and not saved, is true
  of what is settled), `CallsModest` (a row about to be inserted claims
  nothing), `RowsTrue` (rows tell the truth and have the direction of their
  hash), and `TypeOK`. Each part has a lemma of its own, `LedgerStep` shows
  that each action is a step of the ledger or leaves it alone, and
  `RowsStep` derives the rows from that: the refinement is what keeps the
  invariant. It needs only that the three kinds of hashes are disjoint and that
  `Null` is not a number, a row, an event or a call.

- `CfdMathProofs.tla`: `PayoutSafe` (`PayoutWithinMargins`),
  `OverpaymentBounded` (`OverpaidByRoundingOnly`), `LiquidationIsFinal`
  (`LiquidationLeavesLittle`) and `PayoutMoves` (`PayoutFollowsPrice`, an
  action property). Everything rests on what rounding does: `DivBounds` (what
  `\div` returns), `RoundNearest` (off by at most a half) and `RoundMonotone`
  (fractions keep their order; that ties are rounded one way, `RoundTies`, is
  what makes this exact and not true up to a unit). Inequalities of quotients
  are proved by multiplying out and cancelling (`CancelFactor`). `MarginsAgree`
  compares the two margins; `LiquidatedWorth` brings margin and loss to the
  common denominator, where at the liquidation price they cancel up to two
  halves (`UnleveragedWorth` for the far price: they leave the value of the
  contracts); `ProfitMonotone` and the caps give `PayoutMonotone`. `Typed` is the
  type invariant.

- `ConnectionProofs.tla`: `TypeCorrect` and `SocketWatched`
  (`WatchesItsSocket`). The property alone would let a task that has returned
  leave an open socket behind, on which a handshake could still succeed;
  `IInv` adds that an open socket always has the task behind it.

- `PaymentsRowsProofs.tla`: `InvoicesExpire` (`OnlySpontaneousHasNoExpiry`),
  `HistoryIsClean` (`HistoryHidesExpired`) and `ThreadDiesOfARow`
  (`DeadOnlyAfterMissedPaymentSent`). They build on the refinement: that a row
  stays, keeps its expiry and never becomes Pending again (`RowsStay`) is read
  off the ledger, not off every action. `RowsInv` adds where rows come from:
  an invoice is issued, and so paid, claimed and reported by an event, only when
  its row is there (`InvoicesRecorded`), which is why a failing SELECT does no
  harm; rows about to be inserted have an expiry (`CallsExpire`); what a history
  call has gone through is settled (`ListsOld`); and the row a dead thread died
  of keeps lacking its preimage, since only that thread would write it
  (`DeadOfItsRow`). That this row's PaymentSent was handled in vain is an
  argument about order, `SentFirst`: in the log of events, those handled since
  the last save and those queued, a PaymentPathSuccessful either comes after the
  PaymentSent of its payment or that PaymentSent was handled for good
  (`Ordered`); what was handled for good is `Heard`, that is, the row has its
  preimage or the payment is in `missed`; and what is about to be finalised has
  raised its PaymentSent. A restart makes the log the queue again and changes
  nothing in it (`OrderedSuffix`, `HeadMoves`, `AppendAfter`).

- `CfdsProofs.tla`: `TypeCorrect`, `MarginAccounted` (`NoOrphanedMargin`),
  `MakerSurvives` (`MakerDiesOnlyOfDroppedOutput`), `ClosedAsSettled`
  (`ClosedAtSettlementPrice`) and `TableImplementsBook` (`KeepsBook`). All rest on
  `Known`, the inductive invariant of `Knowledge`: a call, a page, a list or a
  reply under way knows an output only if it was added, and a row only as it is
  or was in the table. Each property needs something more. `Accounted`: an output
  without a row has its call between `add_custom_output` and the insert, or a
  fault has happened. `Announced`: an event in the maker's queue is about an
  output in the state that raised it, or a dropped one, and about each output
  only once. `Settled`: without lost
  removals there is one agreed price per output, and whoever is about to write
  a Closed row has it.

- `ChannelFundingProofs.tla`: `TypeCorrect`, `NoDoubleSpendAfterSync`
  (`SyncPreventsDoubleSpend`), `ThreadOutlivesFundings`
  (`ThreadDiesOnlyOfGoneChannel`), `HistoryIsHonest`
  (`HistoryHidesOnlyAfterSecondPayment`), `TakerPaysItsShareOnly`
  (`TakerKeepsItsMoney`) and `FundingKeepsAccounts` (`KeepsAccounts`). `Safe` is
  the life cycle of a channel (what is in the mempool was funded, what waits for
  its funding has spent nothing, a funding public when a call synced is
  known to the wallet, an event that was saved is one of a channel that was
  offered) with the first two properties; that knowledge makes the
  coin selection of a later call avoid spent coins. `Honest` follows the rows: a
  row has a payment behind it, a history charges a transaction at most once per
  row it has read, so that only a second payment explains a second charge.

  `TakerKeepsItsMoney` is an inequality and not inductive. `Books` is: the exact
  account (`Balanced`: coins plus channels are what the taker had plus what the
  maker paid), and why it stays exact: a channel exists only after its payment
  is public (`ChannelsPaid`), a funding's inputs are worth its capacity and its
  change (`FundedExactly`) and came from public coins (`InputsPublic`). A
  funding that conflicts with a public one never enters the mempool, so a
  coin that two overlapping calls selected is counted once. The amount a step
  moves, which `FundingBook` asks for, is then the difference of two accounts.

- `SetSums.tla`: the laws of a sum over a finite set (`Total`, which is the
  `MapThenSumSet` of the community modules): it is well defined, an element can
  be added or taken out in any order (`TotalRemove`, `TotalAdd`), it depends on
  its own values only (`TotalSame`), and splits over a part and the rest
  (`TotalSplit`). An induction rule takes a predicate as a parameter, which
  the provers cannot instantiate; each law is instead proved by contradiction
  from a smallest set without it (`SmallestSet`), which exists because proper
  inclusion of finite sets is well founded.

- `TakerAppProofs.tla`: `TypeCorrect`, `NodeKeepsSeed` (`NodeBelongsToSeed`),
  `AllChannelsWatched`, `SingletonsFound` and `PriceStays`. Every step of the
  composition is a step of `Startup` or leaves it alone (`StartSteps`), and
  likewise for `MakerQuote`, so that each part is proved once and by itself. The
  invariant says which singletons are set in which phase of `run()`, and that
  while a process has a seed the file holds that seed, or is being written and
  no LDK data exists yet.

What stays with TLC is liveness: `PendingEnds`, `ReceivedIsBooked`,
`ClosedIsShown`, `SettleEnds`, `Reconnects`, `ChannelIsShown`, `CallEnds`,
`NotedPaymentIsHidden`, `OfferFollowsMarket`, `OfferWithdrawn` and
`StartsWithoutMaker`. The provers do not reason about fairness and ENABLED.
Every invariant, every action property and every refinement of a passing run is
stated by a theorem. No module uses RECURSIVE operators.

## 5. What is taken from outside

The repository uses a fork of rust-lightning with custom outputs, which is not
part of it. The following is assumed of it, and marked external:

- events are handed out one at a time and in order, and again after a restart
  if the channel manager was not saved after they were handled;
- an outgoing HTLC raises PaymentSent when it is fulfilled, once per payment,
  and PaymentPathSuccessful when it is finalised;
- updates of a channel that are not committed are forgotten on reconnection;
- a socket to a maker that cannot be reached closes in the end.
- LDK persists the monitor of a new channel before the channel is used, and the
  channel manager some time later; channels that were not funded are forgotten
  with the connection or by a restart; an event that was raised is saved with
  the manager, and a restart raises again those the saved manager holds,
  whether they were handled or not; a channel that was funded after the last
  save is closed by the restart;
- the wallet (bdk) knows the transactions of its last sync, selects coins that
  no known transaction spends, and no coin more than needed;
- a transaction in the mempool stays there, and one that spends the coins of
  another in the mempool does not enter it;
- BitMEX sends updates that mention some of the prices, never a price of zero.

## 6. Not modelled

- **Balance and single transfers.** `get_balance`, `send_to_address`, the fee
  recommendation: single calls into bdk and LDK. `get_ldk_balance` asks LDK twice
  and may miss a channel that closes in between, but the result is only shown.
- **Coins of closed channels.** The handler of SpendableOutputs unwraps the
  wallet and the sweeping transaction; fees decide whether it panics, and fees
  are abstracted away.
- **A composition of `Connection` and `Cfds`.** `Cfds` lets the link to the maker
  go up and down at any step, which contains every behaviour of the keep-alive
  task; a composition would have fewer behaviours and the same safety
  properties.
- **The maker's process.** Its start and its other routes are one-line wrappers.
  A maker whose node failed to start is to the taker one that does not answer.
- **Events that only log** (forwarded payments, probes, closed channels), and
  PendingHTLCsForwardable, which delays the event thread by up to five times
  the time LDK asks for.
- **Storage, configuration, logging, faucet, layout of screens, generated code
  and platform runners.** They keep no state that the properties above depend
  on.
