--------------------------- MODULE ChannelFunding ---------------------------
(***************************************************************************)
(* How a channel with the maker is funded, and how the history hides that  *)
(* the maker funds most of it.                                             *)
(*                                                                         *)
(* open_channel asks the maker, over HTTP, for twice the taker's amount    *)
(* on chain, notes the maker's transaction in the table ignore_txid, waits *)
(* until it is in the mempool and has LDK create a channel over both       *)
(* amounts, all of the maker's being pushed back to it.  The event thread  *)
(* later builds the funding transaction from the coins of the wallet.  The *)
(* same thread saves LDK's channel manager, whose events are raised again  *)
(* after a restart when they were handled but not saved.                   *)
(* get_bitcoin_tx_history leaves the noted transactions out and subtracts  *)
(* the maker's amount from the funding transaction.                        *)
(*                                                                         *)
(* LDK, the chain and the Electrum server are not part of the repository.  *)
(* Fees are left out, so are the coins a closed channel returns.           *)
(***************************************************************************)
EXTENDS Integers, FiniteSets, FiniteSetsExt

CONSTANTS
    Calls,          \* calls of open_channel, each with at most one channel
    Readers,        \* threads that build the history: the task, a refresh
    Deposit,        \* the coin the taker starts with
    None, Unset,    \* no row of ignore_txid; a row without open_channel_txid
    TakerSats,      \* what that coin is worth
    TakerAmount,    \* taker_amount of every call
    Extra,          \* what the maker adds for the fee (500 sats)
    WaitLimit,      \* rounds after which open_channel stops waiting
    MaxFaults       \* bound: failing SQL statements and restarts of the app

MakerAmount == 2 * TakerAmount
Capacity == TakerAmount + MakerAmount

ASSUME ConstantsAssumption ==
    /\ {TakerSats, Extra, MaxFaults} \subseteq Nat
    /\ TakerAmount \in Nat \ {0} /\ WaitLimit \in Nat \ {0}
    /\ {None, Unset} \cap Calls = {} /\ None # Unset

\* Transactions: the maker's payment for a call, the funding of its channel.
\* Each of them leaves the taker a coin (the payment, the change).
Pay(c) == <<"pay", c>>
Open(c) == <<"open", c>>
Txs == {"pay", "open"} \X Calls
Coins == Txs \cup {Deposit}

ASSUME DepositAssumption == Deposit \notin Txs

VARIABLES
    call,           \* per open_channel call: where it stands
    waited,         \* per call: processing_sec_counter, in rounds
    request,        \* per call: its POST to /api/channel/open
    ignored,        \* the table ignore_txid: per call None, or the row's
                    \* open_channel_txid (the call whose funding it is)
    mempool,        \* transactions the Electrum server shows
    wallet,         \* transactions the wallet knows since its last sync
    value,          \* what the coins are worth
    inputs,         \* per call: the coins its funding transaction spends
    channel,        \* LDK: per call, its channel
    ready,          \* LDK: FundingGenerationReady events not yet handled
    saved,          \* the part of ready in the channel manager on disk
    threadAlive,    \* whether the event thread still runs
    reader,         \* per history: where it stands, what it has read
    before,         \* history variable: the fundings in the mempool when a
                    \* call synced the wallet
    faults

http == <<call, waited, request>>
chain == <<mempool, wallet, value, inputs>>
ldk == <<channel, ready, saved, threadAlive, before>>
vars == <<http, ignored, chain, ldk, reader, faults>>

Idle == [pc |-> "idle", txs |-> {}, rows |-> [c \in Calls |-> None],
         charges |-> [c \in Calls |-> 0]]

Init ==
    /\ call = [c \in Calls |-> "idle"] /\ waited = [c \in Calls |-> 0]
    /\ request = [c \in Calls |-> "none"]
    /\ ignored = [c \in Calls |-> None]
    /\ mempool = {} /\ wallet = {}
    /\ value = [k \in Coins |-> IF k = Deposit THEN TakerSats
                                ELSE IF k[1] = "pay" THEN MakerAmount + Extra
                                ELSE 0]
    /\ inputs = [c \in Calls |-> {}]
    /\ channel = [c \in Calls |-> "none"] /\ ready = {} /\ saved = {}
    /\ threadAlive = TRUE
    /\ before = [c \in Calls |-> {}]
    /\ reader = [r \in Readers |-> Idle]
    /\ faults = 0

Fault == faults < MaxFaults /\ faults' = faults + 1
DbWorks == UNCHANGED faults
DbFails == Fault

InsertIgnoreTxid(c) ==
    \/ DbWorks /\ ignored' = [ignored EXCEPT ![c] = Unset]
    \/ DbFails /\ UNCHANGED ignored

UpdateIgnoreTxid(c, d) ==
    \/ DbWorks /\ ignored' = [ignored EXCEPT ![c] = d]
    \/ DbFails /\ UNCHANGED ignored

(***************************************************************************)
(* open_channel of the wallet                                              *)
(***************************************************************************)
PostOpen(c) ==
    /\ call[c] = "idle"
    /\ call' = [call EXCEPT ![c] = "posted"]
    /\ request' = [request EXCEPT ![c] = "sent"]
    /\ UNCHANGED <<waited, ignored, chain, ldk, reader, faults>>

\* Refused, or no answer within TCP_TIMEOUT: the call gives up. The maker may
\* have paid, or pay later.
PostFails(c) ==
    /\ call[c] = "posted"
    /\ call' = [call EXCEPT ![c] = "failed"]
    /\ UNCHANGED <<waited, request, ignored, chain, ldk, reader, faults>>

\* Mutant: the capacity is noted, not the maker's share.
RowAmountCapacity == Capacity

\* The amount insert_ignore_txid is given.
RowAmount == MakerAmount

\* The answer carries the txid, which insert_ignore_txid notes. A failure of
\* that is only logged.
ReceiveAnswer(c) ==
    /\ call[c] = "posted" /\ request[c] = "paid"
    /\ call' = [call EXCEPT ![c] = "wait"]
    /\ InsertIgnoreTxid(c)
    /\ UNCHANGED <<waited, request, chain, ldk, reader>>

\* Mutant: the seconds waited are not counted.
WaitForFundsForEver(c) ==
    /\ call[c] = "wait" /\ Pay(c) \notin mempool
    /\ UNCHANGED vars

\* Mutant: one round too many.
WaitForFundsLate(c) ==
    /\ call[c] = "wait" /\ Pay(c) \notin mempool
    /\ \/ /\ waited[c] < WaitLimit
          /\ waited' = [waited EXCEPT ![c] = @ + 1]
          /\ UNCHANGED call
       \/ /\ waited' = [waited EXCEPT ![c] = 0]
          /\ call' = [call EXCEPT ![c] = "failed"]
    /\ UNCHANGED <<request, ignored, chain, ldk, reader, faults>>

\* One round of the loop that looks for the maker's transaction; the look-up
\* may also fail.
WaitForFunds(c) ==
    /\ call[c] = "wait" /\ Pay(c) \notin mempool
    /\ \/ /\ waited[c] + 1 < WaitLimit
          /\ waited' = [waited EXCEPT ![c] = @ + 1]
          /\ UNCHANGED call
       \/ /\ waited' = [waited EXCEPT ![c] = 0]
          /\ call' = [call EXCEPT ![c] = "failed"]
    /\ UNCHANGED <<request, ignored, chain, ldk, reader, faults>>

Synced(c) ==
    /\ call' = [call EXCEPT ![c] = "synced"]
    /\ before' = [before EXCEPT ![c] = {d \in Calls : Open(d) \in mempool}]

\* Mutant: the call goes on whether the funds have come or not.
SyncFundsEarly(c) ==
    /\ call[c] = "wait"
    /\ wallet' = mempool
    /\ Synced(c)
    /\ UNCHANGED <<waited, request, ignored, mempool, value, inputs, channel,
                   ready, saved, threadAlive, reader, faults>>

\* Mutant: the wallet is not synced.
SyncFundsNot(c) ==
    /\ call[c] = "wait" /\ Pay(c) \in mempool
    /\ Synced(c)
    /\ UNCHANGED <<waited, request, ignored, chain, channel, ready, saved,
                   threadAlive, reader, faults>>

\* The funds are seen, so the wallet is synced; a failure of that is a panic,
\* which ends the call.
SyncFunds(c) ==
    /\ call[c] = "wait" /\ Pay(c) \in mempool
    /\ \/ wallet' = mempool /\ Synced(c)
       \/ /\ wallet' \in {wallet, mempool}
          /\ call' = [call EXCEPT ![c] = "failed"]
          /\ UNCHANGED before
    /\ waited' = [waited EXCEPT ![c] = 0]
    /\ UNCHANGED <<request, ignored, mempool, value, inputs, channel, ready,
                   saved, threadAlive, reader, faults>>

\* create_channel, which LDK may refuse. The threads of LDK have run since the
\* sync, and may have broadcast another funding.
OpenChannel(c) ==
    /\ call[c] = "synced"
    /\ \/ /\ call' = [call EXCEPT ![c] = "opened"]
          /\ channel' = [channel EXCEPT ![c] = "requested"]
       \/ /\ call' = [call EXCEPT ![c] = "failed"]
          /\ UNCHANGED channel
    /\ UNCHANGED <<waited, request, ignored, chain, ready, saved, threadAlive,
                   before, reader, faults>>

(***************************************************************************)
(* The maker and the chain                                                 *)
(***************************************************************************)
\* post_open_channel sends the coins and answers, or refuses.
PostOpenChannel(c) ==
    /\ request[c] = "sent"
    /\ request' = [request EXCEPT ![c] = "paid"]
    /\ UNCHANGED <<call, waited, ignored, chain, ldk, reader, faults>>

FundsArrive(c) ==
    /\ request[c] = "paid" /\ Pay(c) \notin mempool
    /\ mempool' = mempool \cup {Pay(c)}
    /\ UNCHANGED <<http, ignored, wallet, value, inputs, ldk, reader, faults>>

\* The task of run(), or a refresh.
Sync ==
    /\ wallet' = mempool
    /\ UNCHANGED <<http, ignored, mempool, value, inputs, ldk, reader, faults>>

(***************************************************************************)
(* The channel                                                             *)
(***************************************************************************)
Unfunded == {"requested", "offered"}
Listed(c) == channel[c] \in Unfunded \cup {"funded", "open", "closing"}
FundingTxo(c) == channel[c] \in {"funded", "open", "closing"}

\* The maker's LDK accepts (manually_accept_inbound_channels is false, so its
\* handler of OpenChannelRequest never runs).
AcceptChannel(c) ==
    /\ channel[c] = "requested"
    /\ channel' = [channel EXCEPT ![c] = "offered"]
    /\ ready' = ready \cup {c}
    /\ UNCHANGED <<http, ignored, chain, saved, threadAlive, before, reader,
                   faults>>

\* The maker refuses or the connection drops: LDK forgets the channel.
Forgotten(state) == IF state \in Unfunded THEN "lost" ELSE "closed"

Vanish(c) ==
    /\ channel[c] \in Unfunded \cup {"funded"}
    /\ channel' = [channel EXCEPT ![c] = Forgotten(@)]
    /\ UNCHANGED <<http, ignored, chain, ready, saved, threadAlive, before,
                   reader, faults>>

Spent(k, txs) == \E d \in Calls : Open(d) \in txs /\ k \in inputs[d]
Unspent(txs) == {k \in txs \cup {Deposit} : ~Spent(k, txs)}
Worth(coins) == MapThenSumSet(LAMBDA k : value[k], coins)

\* Mutant: the funding output holds the taker's amount only.
ChangeOfTakerAmount(coins) == Worth(coins) - TakerAmount

\* The coin selection of the wallet: enough, and no coin too many.
Change(coins) == Worth(coins) - Capacity
Selections ==
    {s \in SUBSET Unspent(wallet) :
        Change(s) \in Nat /\ \A k \in s : Change(s) < value[k]}

\* construct_funding_transaction, then funding_transaction_generated; when
\* the channel went away in between, the transaction is dropped.
FundChannel(c) ==
    \E s \in Selections :
        IF channel[c] = "offered"
        THEN /\ channel' = [channel EXCEPT ![c] = "funded"]
             /\ inputs' = [inputs EXCEPT ![c] = s]
             /\ value' = [value EXCEPT ![Open(c)] = Change(s)]
        ELSE UNCHANGED <<channel, inputs, value>>

\* Without a transaction the channel is closed; when it went away, or was
\* closed or funded before the event came again, the expect() ends the thread.
GiveUpChannel(c) ==
    /\ IF channel[c] = "offered"
       THEN channel' = [channel EXCEPT ![c] = "closed"] /\ UNCHANGED threadAlive
       ELSE threadAlive' = FALSE /\ UNCHANGED channel
    /\ UNCHANGED <<inputs, value>>

\* Mutant: the event is handled again and again.
HandleFundingReadyAgain(c) ==
    /\ threadAlive /\ c \in ready
    /\ \/ FundChannel(c) /\ UNCHANGED threadAlive
       \/ GiveUpChannel(c)
    /\ UNCHANGED <<http, ignored, mempool, wallet, ready, saved, before, reader,
                   faults>>

HandleFundingReady(c) ==
    /\ threadAlive /\ c \in ready
    /\ ready' = ready \ {c}
    /\ \/ FundChannel(c) /\ UNCHANGED threadAlive
       \/ GiveUpChannel(c)
    /\ UNCHANGED <<http, ignored, mempool, wallet, saved, before, reader,
                   faults>>

\* Between two rounds of events the thread saves the channel manager.
SaveManager ==
    /\ threadAlive /\ saved # ready
    /\ saved' = ready
    /\ UNCHANGED <<http, ignored, chain, channel, ready, threadAlive, before,
                   reader, faults>>

\* The maker signs and LDK broadcasts the funding, unless another
\* transaction has already spent one of its coins.
BroadcastFunding(c) ==
    /\ channel[c] = "funded"
    /\ channel' = [channel EXCEPT ![c] = "open"]
    /\ mempool' = IF \E k \in inputs[c] : Spent(k, mempool)
                  THEN mempool ELSE mempool \cup {Open(c)}
    /\ UNCHANGED <<http, ignored, wallet, value, inputs, ready, saved,
                   threadAlive, before, reader, faults>>

\* close_channel, called by the app or, with or without force, by the maker.
CloseChannel(c) ==
    /\ Listed(c) /\ channel[c] # "closing"
    /\ \E state \in {"closing", Forgotten(channel[c])} :
         /\ state = "closing" => channel[c] = "open"
         /\ channel' = [channel EXCEPT ![c] = state]
    /\ UNCHANGED <<http, ignored, chain, ready, saved, threadAlive, before,
                   reader, faults>>

ChannelCloses(c) ==
    /\ channel[c] = "closing"
    /\ channel' = [channel EXCEPT ![c] = "closed"]
    /\ UNCHANGED <<http, ignored, chain, ready, saved, threadAlive, before,
                   reader, faults>>

(***************************************************************************)
(* get_bitcoin_tx_history                                                  *)
(***************************************************************************)
ListTransactions(r) ==
    /\ reader[r].pc = "idle"
    /\ reader' = [reader EXCEPT ![r] = [Idle EXCEPT !.pc = "load", !.txs = wallet]]
    /\ UNCHANGED <<http, ignored, chain, ldk, faults>>

\* Mutant: only rows that name their channel are left out.
HiddenByRowsResolved(rows) == {Pay(c) : c \in {d \in Calls : rows[d] \in Calls}}

HiddenByRows(rows) == {Pay(c) : c \in {d \in Calls : rows[d] # None}}

\* load_ignore_txids; the maker's transactions are left out.
LoadIgnoreTxids(r) ==
    /\ reader[r].pc = "load"
    /\ \/ /\ DbWorks
          /\ reader' = [reader EXCEPT ![r].pc = "rows", ![r].rows = ignored,
                            ![r].txs = @ \ HiddenByRows(ignored)]
       \/ /\ DbFails
          /\ reader' = [reader EXCEPT ![r] = Idle]
    /\ UNCHANGED <<http, ignored, chain, ldk>>

Charge(r, c, d) ==
    reader' = [reader EXCEPT ![r].rows[c] = None, ![r].charges[d] = @ + 1]

\* One row. A row without open_channel_txid takes the funding output of the
\* first channel in the list, whose order means nothing, and is updated; a
\* failing update is only logged. Without such an output it is skipped.
ChargeRow(r, c) ==
    /\ reader[r].pc = "rows"
    /\ \/ /\ reader[r].rows[c] \in Calls
          /\ Charge(r, c, reader[r].rows[c])
          /\ UNCHANGED <<ignored, faults>>
       \/ \E d \in Calls :
            /\ reader[r].rows[c] = Unset
            /\ FundingTxo(d)
            /\ Charge(r, c, d)
            /\ UpdateIgnoreTxid(c, d)
       \/ /\ reader[r].rows[c] = Unset
          /\ (\E d \in Calls : Listed(d)) => \E d \in Calls : Listed(d) /\ ~FundingTxo(d)
          /\ reader' = [reader EXCEPT ![r].rows[c] = None]
          /\ UNCHANGED <<ignored, faults>>
    /\ UNCHANGED <<http, chain, ldk>>

\* What a transaction sent: the sum of its coins that are the wallet's, less
\* the maker's share for every row charged to it, but not below zero.
Sent(tx) == IF tx[1] = "open" THEN value[tx] + Capacity ELSE 0
Charges(r, tx) == IF tx[1] = "open" THEN reader[r].charges[tx[2]] ELSE 0
ShownSent(r, tx) ==
    LET sent == Sent(tx) - Charges(r, tx) * RowAmount
    IN  IF sent < 0 THEN 0 ELSE sent

\* A charged transaction that then sent nothing counts as a failed opening
\* and is hidden.
FailedOpen(r, tx) == Charges(r, tx) > 0 /\ ShownSent(r, tx) = 0

\* The list that is returned once every row has been looked at.
Complete(r) ==
    reader[r].pc = "rows" /\ \A c \in Calls : reader[r].rows[c] = None
History(r) == [tx \in {t \in reader[r].txs : ~FailedOpen(r, t)} |-> ShownSent(r, tx)]

ReturnHistory(r) ==
    /\ Complete(r)
    /\ reader' = [reader EXCEPT ![r] = Idle]
    /\ UNCHANGED <<http, ignored, chain, ldk, faults>>

(***************************************************************************)
(* The app is killed and started again                                     *)
(***************************************************************************)
\* Calls and histories end. LDK starts from the manager it saved last: it
\* forgets channels whose funding was not broadcast, raises the saved events
\* again, and closes a channel the saved manager does not know to be funded.
ForgottenByCrash(c) == \/ channel[c] \in Unfunded \cup {"funded"}
                       \/ c \in saved /\ channel[c] \in {"open", "closing"}

Crash ==
    /\ Fault
    /\ call' = [c \in Calls |-> IF call[c] \in {"posted", "wait", "synced"}
                                THEN "failed" ELSE call[c]]
    /\ waited' = [c \in Calls |-> 0]
    /\ channel' = [c \in Calls |-> IF ForgottenByCrash(c)
                                   THEN Forgotten(channel[c]) ELSE channel[c]]
    /\ ready' = saved
    /\ threadAlive' = TRUE
    /\ reader' = [r \in Readers |-> Idle]
    /\ UNCHANGED <<request, ignored, chain, saved, before>>

Next ==
    \/ \E c \in Calls :
         \/ PostOpen(c) \/ PostFails(c) \/ ReceiveAnswer(c) \/ WaitForFunds(c)
         \/ SyncFunds(c) \/ OpenChannel(c) \/ PostOpenChannel(c) \/ FundsArrive(c)
         \/ AcceptChannel(c) \/ Vanish(c) \/ HandleFundingReady(c)
         \/ BroadcastFunding(c) \/ CloseChannel(c) \/ ChannelCloses(c)
    \/ \E r \in Readers :
         \/ ListTransactions(r) \/ LoadIgnoreTxids(r) \/ ReturnHistory(r)
         \/ \E c \in Calls : ChargeRow(r, c)
    \/ Sync \/ SaveManager \/ Crash

Spec == Init /\ [][Next]_vars

\* Calls that have begun go on and the history is built every ten seconds.
\* The maker, the server and LDK need do nothing.
Fairness ==
    /\ \A c \in Calls : WF_vars(PostFails(c) \/ ReceiveAnswer(c)
                                \/ WaitForFunds(c) \/ SyncFunds(c)
                                \/ OpenChannel(c))
    /\ \A r \in Readers :
         WF_vars(ListTransactions(r) \/ LoadIgnoreTxids(r) \/ ReturnHistory(r)
                 \/ \E c \in Calls : ChargeRow(r, c))

FairSpec == Spec /\ Fairness

-----------------------------------------------------------------------------
(* Properties *)

\* Every variable has its type.
TypeOK ==
    /\ call \in [Calls -> {"idle", "posted", "wait", "synced", "opened",
                          "failed"}]
    /\ waited \in [Calls -> 0 .. WaitLimit - 1]
    /\ request \in [Calls -> {"none", "sent", "paid"}]
    /\ ignored \in [Calls -> Calls \cup {None, Unset}]
    /\ mempool \subseteq Txs /\ wallet \subseteq mempool
    /\ value \in [Coins -> Nat]
    /\ inputs \in [Calls -> SUBSET Coins]
    /\ channel \in [Calls -> {"none", "requested", "offered", "funded", "open",
                              "closing", "closed", "lost"}]
    /\ ready \subseteq Calls /\ saved \subseteq Calls /\ threadAlive \in BOOLEAN
    /\ before \in [Calls -> SUBSET Calls]
    /\ reader \in [Readers -> [pc : {"idle", "load", "rows"}, txs : SUBSET Txs,
                               rows : [Calls -> Calls \cup {None, Unset}],
                               charges : [Calls -> Nat]]]
    /\ faults \in 0 .. MaxFaults

\* What the taker has on chain, the calls the maker paid for, the calls with a
\* funded channel.
Balance == Worth(Unspent(mempool))
PaidCalls == {c \in Calls : Pay(c) \in mempool}
OpenFundings == {c \in Calls : Open(c) \in mempool}

\* Whatever fails on the way, the taker never pays for the maker's share: its
\* coins and its side of the channels are worth what it started with.
TakerKeepsItsMoney ==
    Balance + TakerAmount * Cardinality(OpenFundings) >= TakerSats

\* The coins and the two kinds of transactions in the mempool, with every
\* handler that moves them, keep the accounts of FundingBook.
Accounts == INSTANCE FundingBook WITH
    Call <- Calls, Start <- TakerSats, Payment <- MakerAmount + Extra,
    Price <- Capacity, balance <- Balance, paid <- PaidCalls,
    funded <- OpenFundings
KeepsAccounts == Accounts!FundingSpec

\* A call that synced the wallet when the funding of another was public never
\* spends the same coin, whatever LDK's threads do between the sync and the
\* channel. (Of a funding that gets public after the sync it may.)
SyncPreventsDoubleSpend ==
    \A c, d \in Calls : d \in before[c] => inputs[c] \cap inputs[d] = {}

\* "Saturating sub so we avoid overflow errors if we have ignore entries for
\* failed channel open": a funding is hidden, or shown with less than the taker
\* put in, only after the maker has paid twice.
HistoryHidesOnlyAfterSecondPayment ==
    \A r \in Readers :
        Complete(r) /\ (\E tx \in reader[r].txs :
                            \/ tx \notin DOMAIN History(r)
                            \/ History(r)[tx] < Sent(tx) - MakerAmount)
            => \E c, d \in Calls : c # d /\ {request[c], request[d]} = {"paid"}

\* The event thread dies only of a channel that went away before it could be
\* funded, or of an event handled before a restart and never saved as handled,
\* whose channel is closed: "To be able to close a channel we cannot open" is
\* never expected of a channel that is alive.
ThreadDiesOnlyOfGoneChannel ==
    threadAlive \/ \E c \in Calls : \/ channel[c] = "lost"
                                    \/ channel[c] = "closed" /\ c \in saved

\* "We cannot wait indefinitely": every call of open_channel ends. (A call is
\* made once, so that none going on again and again means that each one ends.)
CallEnds == []<>(\A c \in Calls : call[c] \notin {"posted", "wait", "synced"})

\* In the end every history hides the maker's payments that are noted, and a
\* note is there for good.
NotedPaymentIsHidden ==
    <>[](\A r \in Readers, c \in Calls :
            Complete(r) /\ ignored[c] # None => Pay(c) \notin DOMAIN History(r))
=============================================================================
