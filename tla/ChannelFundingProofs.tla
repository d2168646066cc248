------------------------ MODULE ChannelFundingProofs ------------------------
(***************************************************************************)
(* Funding a channel: proofs of the safety properties of ChannelFunding,   *)
(* and that it keeps the accounts of FundingBook, for any number of calls  *)
(* and histories, any amounts and any faults.                              *)
(***************************************************************************)
EXTENDS ChannelFunding, SetSums

RowValue == Calls \cup {None, Unset}
ReaderRec == [pc : {"idle", "load", "rows"}, txs : SUBSET Txs,
              rows : [Calls -> RowValue], charges : [Calls -> Nat]]
CallStates == {"idle", "posted", "wait", "synced", "opened", "failed"}
ChannelStates == {"none", "requested", "offered", "funded", "open", "closing",
                  "closed", "lost"}

\* Each call has two transactions of its own.
LEMMA TxFacts ==
  ASSUME NEW c \in Calls, NEW d \in Calls
  PROVE  /\ Open(c) \in Txs /\ Pay(c) \in Txs
         /\ Open(c) = Open(d) => c = d
         /\ Pay(c) = Pay(d) => c = d
         /\ Open(c) # Pay(d)
         /\ Open(c) \in Coins
  BY DEF Open, Pay, Txs, Coins

\* No transaction is called otherwise.
LEMMA TxCases ==
  ASSUME NEW tx \in Txs
  PROVE  /\ tx[1] = "open" => tx[2] \in Calls /\ tx = Open(tx[2])
         /\ tx[1] = "open" \/ (tx[2] \in Calls /\ tx = Pay(tx[2]))
  BY DEF Open, Pay, Txs

\* A history that does nothing is well typed.
LEMMA IdleType == Idle \in ReaderRec
<1>1. 0 \in Nat
  OBVIOUS
<1> QED
  BY <1>1 DEF Idle, ReaderRec, RowValue

-----------------------------------------------------------------------------
(* Types                                                                   *)

\* Nothing has happened yet.
LEMMA TypeInit == Init => TypeOK
<1> SUFFICES ASSUME Init PROVE TypeOK
  OBVIOUS
<1>1. 0 \in 0 .. WaitLimit - 1 /\ 0 \in 0 .. MaxFaults
  BY ConstantsAssumption DEF ConstantsAssumption
<1>2. value \in [Coins -> Nat]
  <2>1. TakerSats \in Nat /\ MakerAmount + Extra \in Nat /\ 0 \in Nat
    BY ConstantsAssumption DEF ConstantsAssumption, MakerAmount
  <2> DEFINE share == MakerAmount + Extra
  <2>2. share \in Nat
    BY <2>1
  <2>3. value = [k \in Coins |-> IF k = Deposit THEN TakerSats
                                 ELSE IF k[1] = "pay" THEN share ELSE 0]
    BY DEF Init
  <2> HIDE DEF share
  <2> QED
    BY <2>1, <2>2, <2>3
<1>3. reader \in [Readers -> ReaderRec]
  BY IdleType DEF Init
<1> QED
  BY <1>1, <1>2, <1>3 DEF Init, TypeOK, ReaderRec, RowValue

\* Faults are counted up to their bound.
LEMMA FaultStep ==
  ASSUME TypeOK, [Next]_vars PROVE faults' \in 0 .. MaxFaults
<1> DEFINE Goal == UNCHANGED faults \/ (faults < MaxFaults /\ faults' = faults + 1)
<1>1. ASSUME NEW c \in Calls,
             \/ PostOpen(c) \/ PostFails(c) \/ ReceiveAnswer(c) \/ WaitForFunds(c)
             \/ SyncFunds(c) \/ OpenChannel(c) \/ PostOpenChannel(c) \/ FundsArrive(c)
             \/ AcceptChannel(c) \/ Vanish(c) \/ HandleFundingReady(c)
             \/ BroadcastFunding(c) \/ CloseChannel(c) \/ ChannelCloses(c)
      PROVE  Goal
  BY <1>1 DEF PostOpen, PostFails, ReceiveAnswer, InsertIgnoreTxid, DbWorks,
     DbFails, Fault, WaitForFunds, SyncFunds, OpenChannel, PostOpenChannel, FundsArrive,
     AcceptChannel, Vanish, HandleFundingReady, BroadcastFunding, CloseChannel,
     ChannelCloses
<1>2. ASSUME NEW r \in Readers,
             \/ ListTransactions(r) \/ LoadIgnoreTxids(r) \/ ReturnHistory(r)
             \/ \E c \in Calls : ChargeRow(r, c)
      PROVE  Goal
  BY <1>2 DEF ListTransactions, LoadIgnoreTxids, ReturnHistory, ChargeRow,
     UpdateIgnoreTxid, DbWorks, DbFails, Fault
<1>3. ASSUME Sync \/ SaveManager \/ Crash \/ UNCHANGED vars PROVE Goal
  BY <1>3 DEF Sync, SaveManager, Crash, Fault, vars
<1>4. Goal
  <2> HIDE DEF Goal
  <2> QED
    BY <1>1, <1>2, <1>3 DEF Next
<1> QED
  BY <1>4, ConstantsAssumption DEF TypeOK, ConstantsAssumption

\* The call, its request and the table.
LEMMA CallTypeStep ==
  ASSUME TypeOK, [Next]_vars
  PROVE  /\ call' \in [Calls -> CallStates]
         /\ waited' \in [Calls -> 0 .. WaitLimit - 1]
         /\ request' \in [Calls -> {"none", "sent", "paid"}]
         /\ ignored' \in [Calls -> RowValue]
<1>0. /\ call \in [Calls -> CallStates]
      /\ waited \in [Calls -> 0 .. WaitLimit - 1]
      /\ request \in [Calls -> {"none", "sent", "paid"}]
      /\ ignored \in [Calls -> RowValue]
      /\ 0 \in 0 .. WaitLimit - 1 /\ WaitLimit \in Nat
  BY ConstantsAssumption DEF TypeOK, CallStates, RowValue, ConstantsAssumption
<1>1. ASSUME NEW c \in Calls, PostOpen(c) \/ PostFails(c) \/ PostOpenChannel(c)
      PROVE  /\ call' \in [Calls -> CallStates]
             /\ request' \in [Calls -> {"none", "sent", "paid"}]
             /\ UNCHANGED <<waited, ignored>>
  BY <1>0, <1>1 DEF PostOpen, PostFails, PostOpenChannel, CallStates
<1>2. ASSUME NEW c \in Calls, ReceiveAnswer(c)
      PROVE  /\ call' \in [Calls -> CallStates]
             /\ ignored' \in [Calls -> RowValue]
             /\ UNCHANGED <<waited, request>>
  BY <1>0, <1>2 DEF ReceiveAnswer, InsertIgnoreTxid, RowValue, CallStates
<1>3. ASSUME NEW c \in Calls, WaitForFunds(c)
      PROVE  /\ call' \in [Calls -> CallStates]
             /\ waited' \in [Calls -> 0 .. WaitLimit - 1]
             /\ UNCHANGED <<request, ignored>>
  <2>1. CASE waited[c] + 1 < WaitLimit /\ waited' = [waited EXCEPT ![c] = @ + 1]
             /\ UNCHANGED call
    <3>1. waited[c] + 1 \in 0 .. WaitLimit - 1
      BY <1>0, <2>1
    <3> QED
      BY <1>0, <1>3, <2>1, <3>1 DEF WaitForFunds
  <2>2. CASE waited' = [waited EXCEPT ![c] = 0] /\ call' = [call EXCEPT ![c] = "failed"]
    BY <1>0, <1>3, <2>2 DEF WaitForFunds, CallStates
  <2> QED
    BY <1>3, <2>1, <2>2 DEF WaitForFunds
<1>4. ASSUME NEW c \in Calls, SyncFunds(c) \/ OpenChannel(c)
      PROVE  /\ call' \in [Calls -> CallStates]
             /\ waited' \in [Calls -> 0 .. WaitLimit - 1]
             /\ UNCHANGED <<request, ignored>>
  BY <1>0, <1>4 DEF SyncFunds, Synced, OpenChannel, CallStates
<1>5. ASSUME NEW r \in Readers, NEW c \in Calls, ChargeRow(r, c)
      PROVE  ignored' \in [Calls -> RowValue] /\ UNCHANGED http
  BY <1>0, <1>5 DEF ChargeRow, UpdateIgnoreTxid, RowValue
<1>6. ASSUME Crash
      PROVE  /\ call' \in [Calls -> CallStates]
             /\ waited' \in [Calls -> 0 .. WaitLimit - 1]
             /\ UNCHANGED <<request, ignored>>
  BY <1>0, <1>6 DEF Crash, CallStates
<1>7. \/ \E c \in Calls : \/ PostOpen(c) \/ PostFails(c) \/ PostOpenChannel(c)
                          \/ ReceiveAnswer(c) \/ WaitForFunds(c) \/ SyncFunds(c)
                          \/ OpenChannel(c)
      \/ \E r \in Readers, c \in Calls : ChargeRow(r, c)
      \/ Crash
      \/ UNCHANGED <<http, ignored>>
  BY DEF Next, vars, FundsArrive, AcceptChannel, Vanish, HandleFundingReady,
     BroadcastFunding, CloseChannel, ChannelCloses, ListTransactions,
     LoadIgnoreTxids, ReturnHistory, Sync, SaveManager
<1> QED
  BY <1>0, <1>1, <1>2, <1>3, <1>4, <1>5, <1>6, <1>7 DEF http

\* The event builds a funding transaction from coins of the wallet, closes the
\* channel, or ends the thread.
LEMMA FundingReadyDoes ==
  ASSUME TypeOK, NEW c \in Calls, HandleFundingReady(c)
  PROVE  \/ /\ channel[c] = "offered"
            /\ channel' = [channel EXCEPT ![c] = "funded"]
            /\ \E s \in SUBSET Unspent(wallet), n \in Nat :
                 /\ inputs' = [inputs EXCEPT ![c] = s]
                 /\ value' = [value EXCEPT ![Open(c)] = n]
            /\ UNCHANGED threadAlive
         \/ /\ channel[c] = "offered"
            /\ channel' = [channel EXCEPT ![c] = "closed"]
            /\ UNCHANGED <<inputs, value, threadAlive>>
         \/ /\ channel[c] # "offered"
            /\ threadAlive' \in {threadAlive, FALSE}
            /\ UNCHANGED <<channel, inputs, value>>
<1>1. CASE GiveUpChannel(c)
  BY <1>1 DEF GiveUpChannel
<1>2. CASE FundChannel(c) /\ UNCHANGED threadAlive
  <2>1. PICK s \in Selections :
          IF channel[c] = "offered"
          THEN /\ channel' = [channel EXCEPT ![c] = "funded"]
               /\ inputs' = [inputs EXCEPT ![c] = s]
               /\ value' = [value EXCEPT ![Open(c)] = Change(s)]
          ELSE UNCHANGED <<channel, inputs, value>>
    BY <1>2 DEF FundChannel
  <2>2. s \in SUBSET Unspent(wallet) /\ Change(s) \in Nat
    BY DEF Selections
  <2> QED
    BY <1>2, <2>1, <2>2
<1> QED
  BY <1>1, <1>2 DEF HandleFundingReady

\* Coins that may be spent are coins.
LEMMA UnspentCoins ==
  ASSUME NEW txs \in SUBSET Txs PROVE Unspent(txs) \subseteq Coins
  BY DEF Unspent, Coins

\* The chain and the wallet.
LEMMA ChainTypeStep ==
  ASSUME TypeOK, [Next]_vars
  PROVE  /\ mempool' \subseteq Txs /\ wallet' \subseteq mempool'
         /\ mempool \subseteq mempool' /\ wallet \subseteq wallet'
         /\ value' \in [Coins -> Nat] /\ inputs' \in [Calls -> SUBSET Coins]
<1>0. /\ mempool \subseteq Txs /\ wallet \subseteq mempool
      /\ value \in [Coins -> Nat] /\ inputs \in [Calls -> SUBSET Coins]
  BY DEF TypeOK
<1>1. ASSUME NEW c \in Calls, FundsArrive(c)
      PROVE  mempool' = mempool \cup {Pay(c)} /\ UNCHANGED <<wallet, value, inputs>>
  BY <1>1 DEF FundsArrive
<1>2. ASSUME NEW c \in Calls, BroadcastFunding(c)
      PROVE  /\ mempool' \in {mempool, mempool \cup {Open(c)}}
             /\ UNCHANGED <<wallet, value, inputs>>
  BY <1>2 DEF BroadcastFunding
<1>3. ASSUME (\E c \in Calls : SyncFunds(c)) \/ Sync
      PROVE  wallet' \in {wallet, mempool} /\ UNCHANGED <<mempool, value, inputs>>
  BY <1>3 DEF SyncFunds, Sync
<1>4. ASSUME NEW c \in Calls, HandleFundingReady(c)
      PROVE  /\ value' \in [Coins -> Nat] /\ inputs' \in [Calls -> SUBSET Coins]
             /\ UNCHANGED <<mempool, wallet>>
  <2>1. UNCHANGED <<mempool, wallet>>
    BY <1>4 DEF HandleFundingReady
  <2>2. CASE UNCHANGED <<inputs, value>>
    BY <1>0, <2>1, <2>2
  <2>3. CASE \E s \in SUBSET Unspent(wallet), n \in Nat :
               /\ inputs' = [inputs EXCEPT ![c] = s]
               /\ value' = [value EXCEPT ![Open(c)] = n]
    <3>1. Unspent(wallet) \subseteq Coins
      BY <1>0, UnspentCoins
    <3> QED
      BY <1>0, <2>1, <2>3, <3>1
  <2> QED
    BY <1>4, <2>2, <2>3, FundingReadyDoes
<1>5. \/ \E c \in Calls : \/ FundsArrive(c) \/ BroadcastFunding(c) \/ SyncFunds(c)
                          \/ HandleFundingReady(c)
      \/ Sync
      \/ UNCHANGED chain
  BY DEF Next, vars, PostOpen, PostFails, PostOpenChannel, ReceiveAnswer,
     WaitForFunds, OpenChannel, AcceptChannel, Vanish, SaveManager, CloseChannel,
     ChannelCloses, ListTransactions, LoadIgnoreTxids, ReturnHistory, ChargeRow,
     Crash, chain
<1>6. \A c \in Calls : {Pay(c), Open(c)} \subseteq Txs
  BY TxFacts
<1> QED
  BY <1>0, <1>1, <1>2, <1>3, <1>4, <1>5, <1>6 DEF chain

\* How a channel goes on.
LEMMA ForgottenStates ==
  \A state : Forgotten(state) = IF state \in {"requested", "offered"} THEN "lost"
                                                                       ELSE "closed"
  BY DEF Forgotten, Unfunded

\* The channels, their events and the event thread.
LEMMA ChannelTypeStep ==
  ASSUME TypeOK, [Next]_vars
  PROVE  /\ channel' \in [Calls -> ChannelStates]
         /\ ready' \subseteq Calls /\ saved' \subseteq Calls
         /\ threadAlive' \in BOOLEAN
         /\ before' \in [Calls -> SUBSET Calls]
<1>0. /\ channel \in [Calls -> ChannelStates] /\ ready \subseteq Calls
      /\ saved \subseteq Calls /\ threadAlive \in BOOLEAN /\ before \in [Calls -> SUBSET Calls]
  BY DEF TypeOK, ChannelStates
<1>1. ASSUME NEW c \in Calls, SyncFunds(c)
      PROVE  /\ before' \in [Calls -> SUBSET Calls]
             /\ UNCHANGED <<channel, ready, saved, threadAlive>>
  <2> DEFINE seen == {d \in Calls : Open(d) \in mempool}
  <2>1. \/ before' = [before EXCEPT ![c] = seen]
        \/ before' = before
    BY <1>1 DEF SyncFunds, Synced
  <2>2. seen \subseteq Calls
    OBVIOUS
  <2> HIDE DEF seen
  <2> QED
    BY <1>0, <1>1, <2>1, <2>2 DEF SyncFunds
<1>o. ASSUME NEW c \in Calls, OpenChannel(c)
      PROVE  /\ channel' \in [Calls -> ChannelStates]
             /\ UNCHANGED <<ready, saved, threadAlive, before>>
  BY <1>0, <1>o DEF OpenChannel, ChannelStates
<1>s. ASSUME SaveManager
      PROVE  /\ saved' \subseteq Calls
             /\ UNCHANGED <<channel, ready, threadAlive, before>>
  BY <1>0, <1>s DEF SaveManager
<1>2. ASSUME NEW c \in Calls, AcceptChannel(c) \/ ChannelCloses(c) \/ BroadcastFunding(c)
      PROVE  /\ channel' \in [Calls -> ChannelStates] /\ ready' \subseteq Calls
             /\ UNCHANGED <<saved, threadAlive, before>>
  BY <1>0, <1>2 DEF AcceptChannel, ChannelCloses, BroadcastFunding, ChannelStates
<1>3. ASSUME NEW c \in Calls, Vanish(c) \/ CloseChannel(c)
      PROVE  /\ channel' \in [Calls -> ChannelStates]
             /\ UNCHANGED <<ready, saved, threadAlive, before>>
  BY <1>0, <1>3, ForgottenStates DEF Vanish, CloseChannel, ChannelStates
<1>4. ASSUME NEW c \in Calls, HandleFundingReady(c)
      PROVE  /\ channel' \in [Calls -> ChannelStates] /\ ready' \subseteq Calls
             /\ threadAlive' \in BOOLEAN /\ UNCHANGED <<saved, before>>
  <2>1. ready' \subseteq Calls /\ UNCHANGED <<saved, before>>
    BY <1>0, <1>4 DEF HandleFundingReady
  <2>2. \/ channel' \in {[channel EXCEPT ![c] = "funded"], [channel EXCEPT ![c] = "closed"]}
        \/ UNCHANGED channel
    BY <1>4, FundingReadyDoes
  <2>3. threadAlive' \in {threadAlive, FALSE}
    BY <1>4, FundingReadyDoes
  <2> QED
    BY <1>0, <2>1, <2>2, <2>3 DEF ChannelStates
<1>5. ASSUME Crash
      PROVE  /\ channel' \in [Calls -> ChannelStates] /\ ready' \subseteq Calls
             /\ threadAlive' \in BOOLEAN /\ UNCHANGED <<saved, before>>
  BY <1>0, <1>5, ForgottenStates DEF Crash, ChannelStates
<1>6. \/ \E c \in Calls : \/ SyncFunds(c) \/ OpenChannel(c) \/ AcceptChannel(c) \/ ChannelCloses(c)
                          \/ BroadcastFunding(c) \/ Vanish(c) \/ CloseChannel(c)
                          \/ HandleFundingReady(c)
      \/ SaveManager \/ Crash
      \/ UNCHANGED ldk
  BY DEF Next, vars, PostOpen, PostFails, PostOpenChannel, ReceiveAnswer,
     WaitForFunds, FundsArrive, ListTransactions, LoadIgnoreTxids,
     ReturnHistory, ChargeRow, Sync
<1> QED
  BY <1>0, <1>1, <1>2, <1>3, <1>4, <1>5, <1>6, <1>o, <1>s DEF ldk

\* The histories being built.
LEMMA ReaderTypeStep ==
  ASSUME TypeOK, [Next]_vars PROVE reader' \in [Readers -> ReaderRec]
<1>0. /\ reader \in [Readers -> ReaderRec] /\ wallet \subseteq Txs
      /\ ignored \in [Calls -> RowValue] /\ Idle \in ReaderRec
  BY IdleType DEF TypeOK, ReaderRec, RowValue
<1>1. ASSUME NEW r \in Readers, ListTransactions(r)
      PROVE  reader' \in [Readers -> ReaderRec]
  BY <1>0, <1>1 DEF ListTransactions, ReaderRec
<1>2. ASSUME NEW r \in Readers, LoadIgnoreTxids(r)
      PROVE  reader' \in [Readers -> ReaderRec]
  <2>1. CASE reader' = [reader EXCEPT ![r] = Idle]
    BY <1>0, <2>1
  <2>2. CASE reader' = [reader EXCEPT ![r].pc = "rows", ![r].rows = ignored,
                            ![r].txs = @ \ HiddenByRows(ignored)]
    <3> DEFINE rest == reader[r].txs \ HiddenByRows(ignored)
    <3>1. rest \subseteq Txs
      BY <1>0 DEF ReaderRec
    <3>2. /\ reader' = [reader EXCEPT ![r] = reader'[r]]
          /\ reader'[r] = [[[reader[r] EXCEPT !.pc = "rows"] EXCEPT !.rows = ignored]
                             EXCEPT !.txs = rest]
      BY <1>0, <2>2
    <3> HIDE DEF rest
    <3>3. reader'[r] \in ReaderRec
      BY <1>0, <3>1, <3>2 DEF ReaderRec
    <3> QED
      BY <1>0, <3>2, <3>3
  <2> QED
    BY <1>2, <2>1, <2>2 DEF LoadIgnoreTxids
<1>3. ASSUME NEW r \in Readers, ReturnHistory(r)
      PROVE  reader' \in [Readers -> ReaderRec]
  BY <1>0, <1>3 DEF ReturnHistory
<1>4. ASSUME NEW r \in Readers, NEW c \in Calls, ChargeRow(r, c)
      PROVE  reader' \in [Readers -> ReaderRec]
  <2>1. ASSUME NEW d \in Calls, Charge(r, c, d) PROVE reader' \in [Readers -> ReaderRec]
    <3> DEFINE n == reader[r].charges[d] + 1
    <3>1. /\ reader' = [[reader EXCEPT ![r].rows[c] = None] EXCEPT ![r].charges[d] = n]
          /\ n \in Nat
      BY <1>0, <2>1 DEF Charge, ReaderRec
    <3> HIDE DEF n
    <3>2. [reader EXCEPT ![r].rows[c] = None] \in [Readers -> ReaderRec]
      BY <1>0 DEF ReaderRec, RowValue
    <3> DEFINE skipped == [reader EXCEPT ![r].rows[c] = None]
    <3>3. /\ skipped \in [Readers -> ReaderRec] /\ n \in Nat
          /\ reader' = [skipped EXCEPT ![r].charges[d] = n]
      BY <3>1, <3>2
    <3> HIDE DEF skipped
    <3> QED
      BY <3>3 DEF ReaderRec
  <2>2. CASE reader' = [reader EXCEPT ![r].rows[c] = None]
    BY <1>0, <2>2 DEF ReaderRec, RowValue
  <2> QED
    BY <1>4, <2>1, <2>2 DEF ChargeRow
<1>5. ASSUME Crash PROVE reader' \in [Readers -> ReaderRec]
  BY <1>0, <1>5 DEF Crash
<1>6. \/ \E r \in Readers : \/ ListTransactions(r) \/ LoadIgnoreTxids(r)
                            \/ ReturnHistory(r) \/ \E c \in Calls : ChargeRow(r, c)
      \/ Crash
      \/ UNCHANGED reader
  BY DEF Next, vars, PostOpen, PostFails, PostOpenChannel, ReceiveAnswer,
     WaitForFunds, SyncFunds, OpenChannel, FundsArrive, AcceptChannel, Vanish,
     HandleFundingReady, SaveManager, BroadcastFunding, CloseChannel,
     ChannelCloses, Sync
<1> QED
  BY <1>0, <1>1, <1>2, <1>3, <1>4, <1>5, <1>6

\* Every step keeps the types.
LEMMA TypeStep == TypeOK /\ [Next]_vars => TypeOK'
<1> SUFFICES ASSUME TypeOK, [Next]_vars PROVE TypeOK'
  OBVIOUS
<1> QED
  BY FaultStep, CallTypeStep, ChainTypeStep, ChannelTypeStep, ReaderTypeStep
     DEF TypeOK, ReaderRec, RowValue, CallStates, ChannelStates

\* Every variable has its type, for any number of calls and any amounts; in
\* particular no transaction ever leaves negative change.
THEOREM TypeCorrect == Spec => []TypeOK
  BY TypeInit, TypeStep, PTL DEF Spec

-----------------------------------------------------------------------------
(* Double spends and the event thread                                      *)

(***************************************************************************)
(* What a channel's state tells of its call, its funding and its event.    *)
(* SyncPreventsDoubleSpend alone is not inductive: that the funding built  *)
(* later avoids the coins of an earlier one rests on the wallet knowing    *)
(* the earlier one since the call synced it (SeenFundings), and on no      *)
(* funding changing once it is public (PublicIsFinal).  An event that      *)
(* waits has a channel that waits for it, was lost, or was closed by a     *)
(* restart because the event comes from the manager on disk (EventsAwait). *)
(***************************************************************************)
Ongoing == {"idle", "posted", "wait", "synced"}
CallsCreate == \A c \in Calls : call[c] \in Ongoing => channel[c] = "none"
UnfundedSpendNothing ==
    \A c \in Calls : channel[c] \in {"none", "requested", "offered"} => inputs[c] = {}
PublicIsFinal ==
    \A c \in Calls : Open(c) \in mempool => channel[c] \in {"open", "closing", "closed"}
SeenFundings == \A c \in Calls : \A d \in before[c] : Open(d) \in wallet
EventsAwait ==
    \A c \in ready : \/ channel[c] \in {"offered", "lost"}
                     \/ channel[c] = "closed" /\ c \in saved
SavedWereOffered == \A c \in saved : channel[c] \notin {"none", "requested"}

Lifecycle == CallsCreate /\ UnfundedSpendNothing /\ PublicIsFinal
             /\ SeenFundings /\ EventsAwait /\ SavedWereOffered

Safe == Lifecycle /\ SyncPreventsDoubleSpend /\ ThreadDiesOnlyOfGoneChannel

\* A coin an earlier funding in the wallet spends is not offered again.
LEMMA KnownCoinsAreSpent ==
  ASSUME NEW d \in Calls, Open(d) \in wallet, NEW s \in SUBSET Unspent(wallet)
  PROVE  s \cap inputs[d] = {}
  BY DEF Unspent, Spent

\* Steps that leave the channels alone: the wallet and the mempool only grow,
\* and no call goes back.
LEMMA QuietStep ==
  ASSUME TypeOK, Safe, UNCHANGED <<channel, inputs, before, saved, threadAlive>>,
         ready' \subseteq ready, wallet \subseteq wallet',
         \A c \in Calls : Open(c) \in mempool' => Open(c) \in mempool,
         \A c \in Calls : call'[c] \in Ongoing => call[c] \in Ongoing
  PROVE  Safe'
<1>1. CallsCreate' /\ UnfundedSpendNothing'
  BY DEF Safe, Lifecycle, CallsCreate, UnfundedSpendNothing
<1>2. PublicIsFinal' /\ EventsAwait' /\ SavedWereOffered'
  BY DEF Safe, Lifecycle, PublicIsFinal, EventsAwait, SavedWereOffered, TypeOK
<1>3. SeenFundings'
  BY DEF Safe, Lifecycle, SeenFundings, TypeOK
<1>4. SyncPreventsDoubleSpend' /\ ThreadDiesOnlyOfGoneChannel'
  BY DEF Safe, SyncPreventsDoubleSpend, ThreadDiesOnlyOfGoneChannel
<1> QED
  BY <1>1, <1>2, <1>3, <1>4 DEF Safe, Lifecycle

\* A call syncs the wallet: it has no channel yet, and the wallet knows what is
\* public.
LEMMA SyncStep ==
  ASSUME TypeOK, Safe, NEW c \in Calls, call[c] = "wait", Synced(c),
         wallet' = mempool,
         UNCHANGED <<channel, inputs, mempool, ready, saved, threadAlive>>
  PROVE  Safe'
<1>0. /\ call \in [Calls -> CallStates] /\ before \in [Calls -> SUBSET Calls]
      /\ inputs \in [Calls -> SUBSET Coins] /\ wallet \subseteq mempool
      /\ ready \subseteq Calls /\ saved \subseteq Calls
  BY DEF TypeOK, CallStates
<1>1. channel[c] = "none" /\ inputs[c] = {}
  BY DEF Safe, Lifecycle, CallsCreate, UnfundedSpendNothing, Ongoing
<1>2. /\ before' = [before EXCEPT ![c] = before'[c]]
      /\ before'[c] = {d \in Calls : Open(d) \in mempool}
      /\ call' = [call EXCEPT ![c] = "synced"]
  BY <1>0 DEF Synced
<1>3. CallsCreate' /\ UnfundedSpendNothing' /\ PublicIsFinal'
  BY <1>0, <1>1, <1>2 DEF Safe, Lifecycle, CallsCreate, UnfundedSpendNothing, PublicIsFinal
<1>4. SeenFundings'
  BY <1>0, <1>2 DEF Safe, Lifecycle, SeenFundings
<1>5. EventsAwait' /\ SavedWereOffered' /\ ThreadDiesOnlyOfGoneChannel'
  BY DEF Safe, Lifecycle, EventsAwait, SavedWereOffered, ThreadDiesOnlyOfGoneChannel
<1>6. SyncPreventsDoubleSpend'
  BY <1>0, <1>1, <1>2 DEF Safe, SyncPreventsDoubleSpend
<1> QED
  BY <1>3, <1>4, <1>5, <1>6 DEF Safe, Lifecycle

\* A channel is created: its call ends. What was public at its sync still is,
\* and still known.
LEMMA CreateStep ==
  ASSUME TypeOK, Safe, NEW c \in Calls, call[c] = "synced",
         call' = [call EXCEPT ![c] = "opened"],
         channel' = [channel EXCEPT ![c] = "requested"],
         UNCHANGED <<inputs, mempool, wallet, ready, saved, before, threadAlive>>
  PROVE  Safe'
<1>0. /\ call \in [Calls -> CallStates] /\ channel \in [Calls -> ChannelStates]
      /\ ready \subseteq Calls /\ saved \subseteq Calls
  BY DEF TypeOK, ChannelStates, CallStates
<1>1. /\ channel[c] = "none" /\ inputs[c] = {} /\ Open(c) \notin mempool
      /\ c \notin ready /\ c \notin saved
  BY DEF Safe, Lifecycle, CallsCreate, UnfundedSpendNothing, PublicIsFinal,
     EventsAwait, SavedWereOffered, Ongoing
<1>2. CallsCreate' /\ UnfundedSpendNothing' /\ PublicIsFinal'
  BY <1>0, <1>1 DEF Safe, Lifecycle, CallsCreate, UnfundedSpendNothing, PublicIsFinal, Ongoing
<1>3. SeenFundings' /\ SyncPreventsDoubleSpend'
  BY DEF Safe, Lifecycle, SeenFundings, SyncPreventsDoubleSpend
<1>4. EventsAwait' /\ SavedWereOffered' /\ ThreadDiesOnlyOfGoneChannel'
  BY <1>0, <1>1 DEF Safe, Lifecycle, EventsAwait, SavedWereOffered, ThreadDiesOnlyOfGoneChannel
<1> QED
  BY <1>2, <1>3, <1>4 DEF Safe, Lifecycle

\* A channel is funded, from coins no funding the wallet knows has spent.
LEMMA FundStep ==
  ASSUME TypeOK, Safe, NEW c \in Calls, channel[c] = "offered",
         NEW s \in SUBSET Unspent(wallet),
         channel' = [channel EXCEPT ![c] = "funded"],
         inputs' = [inputs EXCEPT ![c] = s], ready' = ready \ {c},
         UNCHANGED <<call, before, mempool, wallet, saved, threadAlive>>
  PROVE  Safe'
<1>0. /\ channel \in [Calls -> ChannelStates] /\ before \in [Calls -> SUBSET Calls]
      /\ inputs \in [Calls -> SUBSET Coins] /\ wallet \subseteq mempool
      /\ ready \subseteq Calls
  BY DEF TypeOK, ChannelStates
<1>1. Open(c) \notin mempool
  BY DEF Safe, Lifecycle, PublicIsFinal
<1>2. CallsCreate' /\ SavedWereOffered'
  BY <1>0 DEF Safe, Lifecycle, CallsCreate, SavedWereOffered, TypeOK
<1>3. UnfundedSpendNothing' /\ PublicIsFinal'
  BY <1>0, <1>1 DEF Safe, Lifecycle, UnfundedSpendNothing, PublicIsFinal
<1>4. SeenFundings' /\ EventsAwait'
  BY <1>0 DEF Safe, Lifecycle, SeenFundings, EventsAwait
<1>5. ThreadDiesOnlyOfGoneChannel'
  BY <1>0 DEF Safe, ThreadDiesOnlyOfGoneChannel
<1>6. SyncPreventsDoubleSpend'
  <2> SUFFICES ASSUME NEW a \in Calls, NEW d \in before[a]
               PROVE  inputs'[a] \cap inputs'[d] = {}
    BY DEF SyncPreventsDoubleSpend
  <2>1. d \in Calls /\ Open(d) \in wallet
    BY <1>0 DEF Safe, Lifecycle, SeenFundings
  <2>2. d # c /\ inputs'[d] = inputs[d]
    BY <1>0, <1>1, <2>1
  <2>3. CASE a = c
    BY <1>0, <2>1, <2>2, <2>3, KnownCoinsAreSpent
  <2>4. CASE a # c
    BY <1>0, <2>1, <2>2, <2>4 DEF Safe, SyncPreventsDoubleSpend
  <2> QED
    BY <2>3, <2>4
<1> QED
  BY <1>2, <1>3, <1>4, <1>5, <1>6 DEF Safe, Lifecycle

\* A channel goes on or away: no unfunded channel becomes public, and one with
\* an event that was never handled is lost, not closed.
LEMMA MoveStep ==
  ASSUME TypeOK, Safe, NEW c \in Calls, NEW state \in ChannelStates,
         channel[c] \notin {"none", "closed", "lost"},
         state \notin {"none", "requested"},
         channel' = [channel EXCEPT ![c] = state],
         state = "offered" => channel[c] = "requested",
         ready' \subseteq ready \cup {c},
         c \in ready' => state \in {"offered", "lost"} \/ (state = "closed" /\ c \in saved),
         channel[c] \in {"open", "closing"} => state \in {"closing", "closed"},
         \A d \in Calls : Open(d) \in mempool' =>
             Open(d) \in mempool \/ (d = c /\ state = "open"),
         UNCHANGED <<call, before, inputs, wallet, saved, threadAlive>>
  PROVE  Safe'
<1>0. /\ channel \in [Calls -> ChannelStates] /\ before \in [Calls -> SUBSET Calls]
      /\ inputs \in [Calls -> SUBSET Coins]
      /\ ready \subseteq Calls /\ saved \subseteq Calls
  BY DEF TypeOK, ChannelStates
<1>1. CallsCreate' /\ SavedWereOffered'
  BY <1>0 DEF Safe, Lifecycle, CallsCreate, SavedWereOffered
<1>2. UnfundedSpendNothing'
  BY <1>0 DEF Safe, Lifecycle, UnfundedSpendNothing
<1>3. PublicIsFinal'
  BY <1>0 DEF Safe, Lifecycle, PublicIsFinal
<1>4. SeenFundings'
  BY <1>0 DEF Safe, Lifecycle, SeenFundings
<1>5. EventsAwait'
  BY <1>0 DEF Safe, Lifecycle, EventsAwait
<1>6. ThreadDiesOnlyOfGoneChannel'
  BY <1>0 DEF Safe, ThreadDiesOnlyOfGoneChannel
<1>7. SyncPreventsDoubleSpend'
  BY DEF Safe, SyncPreventsDoubleSpend
<1> QED
  BY <1>1, <1>2, <1>3, <1>4, <1>5, <1>6, <1>7 DEF Safe, Lifecycle

\* A restart loses what was not public, brings the saved events back and
\* revives the thread.
LEMMA CrashStep == ASSUME TypeOK, Safe, Crash PROVE Safe'
<1>0. /\ channel \in [Calls -> ChannelStates] /\ before \in [Calls -> SUBSET Calls]
      /\ inputs \in [Calls -> SUBSET Coins] /\ saved \subseteq Calls
      /\ call \in [Calls -> CallStates]
  BY DEF TypeOK, ChannelStates, CallStates
<1>1. /\ UNCHANGED <<before, inputs, mempool, wallet, saved>> /\ threadAlive'
      /\ ready' = saved
      /\ \A c \in Calls :
           /\ channel[c] \in {"requested", "offered"} => channel'[c] = "lost"
           /\ channel[c] = "funded" => channel'[c] = "closed"
           /\ channel[c] \in {"open", "closing"} =>
                \/ c \in saved /\ channel'[c] = "closed"
                \/ c \notin saved /\ channel'[c] = channel[c]
           /\ channel[c] \in {"none", "closed", "lost"} => channel'[c] = channel[c]
           /\ call'[c] \in Ongoing => call[c] = "idle"
  BY <1>0 DEF Crash, ForgottenByCrash, Forgotten, Unfunded, chain, Ongoing, CallStates
<1>2. CallsCreate' /\ SavedWereOffered'
  BY <1>0, <1>1 DEF Safe, Lifecycle, CallsCreate, SavedWereOffered, ChannelStates, Ongoing
<1>3. UnfundedSpendNothing'
  BY <1>0, <1>1 DEF Safe, Lifecycle, UnfundedSpendNothing, ChannelStates
<1>4. PublicIsFinal'
  BY <1>0, <1>1 DEF Safe, Lifecycle, PublicIsFinal, ChannelStates
<1>5. SeenFundings'
  BY <1>1 DEF Safe, Lifecycle, SeenFundings
<1>6. EventsAwait'
  BY <1>0, <1>1 DEF Safe, Lifecycle, SavedWereOffered, EventsAwait, ChannelStates
<1>7. ThreadDiesOnlyOfGoneChannel' /\ SyncPreventsDoubleSpend'
  BY <1>1 DEF Safe, ThreadDiesOnlyOfGoneChannel, SyncPreventsDoubleSpend
<1> QED
  BY <1>2, <1>3, <1>4, <1>5, <1>6, <1>7 DEF Safe, Lifecycle

\* The manager is saved while the thread lives, with events that wait.
LEMMA SaveStep == ASSUME TypeOK, Safe, SaveManager PROVE Safe'
<1>1. /\ threadAlive' /\ saved' = ready
      /\ UNCHANGED <<call, channel, inputs, before, mempool, wallet, ready>>
  BY DEF SaveManager, http, chain
<1>2. CallsCreate' /\ UnfundedSpendNothing' /\ PublicIsFinal' /\ SeenFundings'
  BY <1>1 DEF Safe, Lifecycle, CallsCreate, UnfundedSpendNothing, PublicIsFinal, SeenFundings
<1>3. EventsAwait' /\ SavedWereOffered'
  BY <1>1 DEF Safe, Lifecycle, EventsAwait, SavedWereOffered
<1>4. ThreadDiesOnlyOfGoneChannel' /\ SyncPreventsDoubleSpend'
  BY <1>1 DEF Safe, ThreadDiesOnlyOfGoneChannel, SyncPreventsDoubleSpend
<1> QED
  BY <1>2, <1>3, <1>4 DEF Safe, Lifecycle

\* Every step keeps all of it.
LEMMA SafeStep == ASSUME TypeOK, Safe, [Next]_vars PROVE Safe'
<1>0. /\ channel \in [Calls -> ChannelStates] /\ ready \subseteq Calls
      /\ call \in [Calls -> CallStates]
      /\ wallet \subseteq mempool /\ threadAlive \in BOOLEAN
  BY DEF TypeOK, ChannelStates, CallStates
<1>w. wallet \subseteq wallet'
  BY ChainTypeStep
<1>1. ASSUME NEW c \in Calls, PostOpen(c) \/ PostFails(c) \/ ReceiveAnswer(c)
                              \/ WaitForFunds(c) \/ PostOpenChannel(c)
      PROVE  Safe'
  <2>1. UNCHANGED <<channel, inputs, before, threadAlive, ready, saved, mempool>>
    BY <1>1 DEF PostOpen, PostFails, ReceiveAnswer, WaitForFunds,
       PostOpenChannel, chain, ldk
  <2>2. \A d \in Calls : call'[d] \in Ongoing => call[d] \in Ongoing
    BY <1>0, <1>1 DEF PostOpen, PostFails, ReceiveAnswer, WaitForFunds,
       PostOpenChannel, Ongoing
  <2> QED
    BY <1>w, <2>1, <2>2, QuietStep
<1>2. ASSUME NEW c \in Calls, SyncFunds(c) \/ OpenChannel(c) PROVE Safe'
  <2>1. CASE SyncFunds(c) /\ wallet' = mempool /\ Synced(c)
    BY <2>1, SyncStep DEF SyncFunds
  <2>2. CASE OpenChannel(c) /\ call' = [call EXCEPT ![c] = "opened"]
               /\ channel' = [channel EXCEPT ![c] = "requested"]
    BY <2>2, CreateStep DEF OpenChannel, chain
  <2>3. CASE call' = [call EXCEPT ![c] = "failed"] /\ UNCHANGED <<channel, before>>
    <3>1. UNCHANGED <<inputs, threadAlive, ready, saved, mempool>>
      BY <1>2 DEF SyncFunds, OpenChannel, chain
    <3>2. \A d \in Calls : call'[d] \in Ongoing => call[d] \in Ongoing
      BY <1>0, <2>3 DEF Ongoing
    <3> QED
      BY <1>w, <2>3, <3>1, <3>2, QuietStep
  <2> QED
    BY <1>2, <2>1, <2>2, <2>3 DEF SyncFunds, OpenChannel
<1>3. ASSUME NEW c \in Calls, FundsArrive(c) PROVE Safe'
  <2>1. /\ UNCHANGED <<channel, inputs, before, threadAlive, ready, saved, call>>
        /\ mempool' = mempool \cup {Pay(c)}
    BY <1>3 DEF FundsArrive, ldk, http
  <2>2. \A d \in Calls : Open(d) # Pay(c)
    BY TxFacts
  <2> QED
    BY <1>w, <2>1, <2>2, QuietStep
<1>4. ASSUME Sync \/ UNCHANGED <<http, chain, ldk>> PROVE Safe'
  <2>1. UNCHANGED <<channel, inputs, before, threadAlive, ready, saved, call, mempool>>
    BY <1>4 DEF Sync, http, chain, ldk
  <2> QED
    BY <1>w, <2>1, QuietStep
<1>5. ASSUME NEW c \in Calls, AcceptChannel(c) PROVE Safe'
  <2>1. /\ channel[c] = "requested" /\ channel' = [channel EXCEPT ![c] = "offered"]
        /\ ready' = ready \cup {c}
        /\ UNCHANGED <<call, before, inputs, mempool, wallet, saved, threadAlive>>
    BY <1>5 DEF AcceptChannel, http, chain
  <2> QED
    BY <2>1, MoveStep DEF ChannelStates
<1>6. ASSUME NEW c \in Calls, Vanish(c) \/ CloseChannel(c) PROVE Safe'
  <2>1. PICK state \in {"closing", "lost", "closed"} :
          /\ channel' = [channel EXCEPT ![c] = state]
          /\ channel[c] \in {"requested", "offered"} => state = "lost"
          /\ channel[c] \notin {"requested", "offered"} => state # "lost"
    BY <1>0, <1>6, ForgottenStates DEF Vanish, CloseChannel, ChannelStates, Unfunded
  <2>2. /\ channel[c] \in {"requested", "offered", "funded", "open"}
        /\ UNCHANGED <<call, before, inputs, mempool, wallet, threadAlive, ready, saved>>
    BY <1>6 DEF Vanish, CloseChannel, Unfunded, Listed, http, chain
  <2>3. c \in ready => channel[c] = "offered"
    BY <2>2 DEF Safe, Lifecycle, EventsAwait
  <2> QED
    BY <2>1, <2>2, <2>3, MoveStep DEF ChannelStates
<1>7. ASSUME NEW c \in Calls, ChannelCloses(c) PROVE Safe'
  <2>1. /\ channel[c] = "closing" /\ channel' = [channel EXCEPT ![c] = "closed"]
        /\ UNCHANGED <<call, before, inputs, mempool, wallet, threadAlive, ready, saved>>
    BY <1>7 DEF ChannelCloses, http, chain
  <2>2. c \notin ready
    BY <2>1 DEF Safe, Lifecycle, EventsAwait
  <2> QED
    BY <2>1, <2>2, MoveStep DEF ChannelStates
<1>8. ASSUME NEW c \in Calls, BroadcastFunding(c) PROVE Safe'
  <2>1. /\ channel[c] = "funded" /\ channel' = [channel EXCEPT ![c] = "open"]
        /\ mempool' \in {mempool, mempool \cup {Open(c)}}
        /\ UNCHANGED <<call, before, inputs, wallet, threadAlive, ready, saved>>
    BY <1>8 DEF BroadcastFunding, http
  <2>2. c \notin ready
    BY <2>1 DEF Safe, Lifecycle, EventsAwait
  <2>3. \A d \in Calls : Open(d) \in mempool' => Open(d) \in mempool \/ d = c
    BY <2>1, TxFacts
  <2> QED
    BY <2>1, <2>2, <2>3, MoveStep DEF ChannelStates
<1>9. ASSUME NEW c \in Calls, HandleFundingReady(c) PROVE Safe'
  <2>1. /\ c \in ready /\ ready' = ready \ {c}
        /\ UNCHANGED <<call, before, mempool, wallet, saved>>
    BY <1>9 DEF HandleFundingReady, http
  <2>2. CASE /\ channel[c] = "offered"
             /\ channel' = [channel EXCEPT ![c] = "funded"]
             /\ \E s \in SUBSET Unspent(wallet), n \in Nat :
                  /\ inputs' = [inputs EXCEPT ![c] = s]
                  /\ value' = [value EXCEPT ![Open(c)] = n]
             /\ UNCHANGED threadAlive
    BY <2>1, <2>2, FundStep
  <2>3. CASE /\ channel[c] = "offered"
             /\ channel' = [channel EXCEPT ![c] = "closed"]
             /\ UNCHANGED <<inputs, value, threadAlive>>
    BY <2>1, <2>3, MoveStep DEF ChannelStates
  <2>4. CASE /\ channel[c] # "offered"
             /\ threadAlive' \in {threadAlive, FALSE}
             /\ UNCHANGED <<channel, inputs, value>>
    <3>1. channel[c] = "lost" \/ (channel[c] = "closed" /\ c \in saved)
      BY <2>1, <2>4 DEF Safe, Lifecycle, EventsAwait
    <3>2. ThreadDiesOnlyOfGoneChannel'
      BY <2>1, <2>4, <3>1 DEF ThreadDiesOnlyOfGoneChannel
    <3>3. Lifecycle' /\ SyncPreventsDoubleSpend'
      BY <2>1, <2>4 DEF Safe, Lifecycle, CallsCreate,
         UnfundedSpendNothing, PublicIsFinal, SeenFundings, EventsAwait,
         SavedWereOffered, SyncPreventsDoubleSpend
    <3> QED
      BY <3>2, <3>3 DEF Safe
  <2> QED
    BY <1>9, <2>2, <2>3, <2>4, FundingReadyDoes
<1>10. \/ \E c \in Calls : \/ PostOpen(c) \/ PostFails(c) \/ ReceiveAnswer(c)
                           \/ WaitForFunds(c) \/ PostOpenChannel(c)
                           \/ SyncFunds(c) \/ OpenChannel(c)
                           \/ FundsArrive(c) \/ AcceptChannel(c)
                           \/ Vanish(c) \/ CloseChannel(c) \/ ChannelCloses(c)
                           \/ BroadcastFunding(c) \/ HandleFundingReady(c)
       \/ Sync \/ SaveManager \/ Crash
       \/ UNCHANGED <<http, chain, ldk>>
  BY DEF Next, vars, ListTransactions, LoadIgnoreTxids, ReturnHistory, ChargeRow
<1> QED
  BY <1>1, <1>2, <1>3, <1>4, <1>5, <1>6, <1>7, <1>8, <1>9, <1>10, CrashStep, SaveStep

\* At first there is neither a channel nor a transaction.
LEMMA SafeInit == Init => Safe
  BY DEF Init, Safe, Lifecycle, CallsCreate, UnfundedSpendNothing,
     PublicIsFinal, SeenFundings, EventsAwait, SavedWereOffered, SyncPreventsDoubleSpend,
     ThreadDiesOnlyOfGoneChannel

\* The inductive invariant of the channels.
THEOREM ChannelsSafe == Spec => []Safe
<1>1. TypeOK /\ Safe /\ [Next]_vars => Safe'
  BY SafeStep
<1> QED
  BY SafeInit, <1>1, TypeCorrect, PTL DEF Spec

\* A call that synced the wallet when the funding of another was public never
\* spends the coins of that one, for any coin selection of the wallet and
\* whatever gets public between its sync and its channel.
THEOREM NoDoubleSpendAfterSync == Spec => []SyncPreventsDoubleSpend
<1>1. Safe => SyncPreventsDoubleSpend
  BY DEF Safe
<1> QED
  BY <1>1, ChannelsSafe, PTL

\* The expect() of the funding event ends the thread only of a channel that
\* went away while it waited for its funding, or of an event that came again
\* after a restart because the manager was not saved since it was handled.
THEOREM ThreadOutlivesFundings == Spec => []ThreadDiesOnlyOfGoneChannel
<1>1. Safe => ThreadDiesOnlyOfGoneChannel
  BY DEF Safe
<1> QED
  BY <1>1, ChannelsSafe, PTL

-----------------------------------------------------------------------------
(* The history                                                             *)

OnlyPaid(c) == \A d \in Calls \ {c} : request[d] # "paid"

\* Inductive: rows are noted for payments only, a history charges each of the
\* rows it has read once, so with one payment it charges no funding twice.
RowsArePaid == \A c \in Calls : ignored[c] # None => request[c] = "paid"
RowsWereNoted ==
    \A r \in Readers, c \in Calls : reader[r].rows[c] # None => ignored[c] # None
FreshReader(r) == /\ \A c \in Calls : reader[r].rows[c] = None
                  /\ \A d \in Calls : reader[r].charges[d] = 0
ChargedAfterLoad == \A r \in Readers : reader[r].pc # "rows" => FreshReader(r)
ChargedOnce ==
    \A c \in Calls : OnlyPaid(c) =>
        \A r \in Readers, d \in Calls :
            /\ reader[r].charges[d] <= 1
            /\ reader[r].rows[c] # None => reader[r].charges[d] = 0

IdleUnsent == \A c \in Calls : call[c] = "idle" => request[c] = "none"

Honest == IdleUnsent /\ RowsArePaid /\ RowsWereNoted /\ ChargedAfterLoad /\ ChargedOnce

\* The maker does not take a payment back, and no row goes away.
LEMMA PaidStays ==
  ASSUME TypeOK, Honest, [Next]_vars
  PROVE  /\ \A c \in Calls : request[c] = "paid" => request'[c] = "paid"
         /\ \A c \in Calls : ignored[c] # None => ignored'[c] # None
         /\ IdleUnsent' /\ RowsArePaid'
<1>0. /\ request \in [Calls -> {"none", "sent", "paid"}]
      /\ ignored \in [Calls -> RowValue] /\ Unset # None /\ None \notin Calls
      /\ call \in [Calls -> CallStates]
      /\ IdleUnsent /\ RowsArePaid /\ RowsWereNoted
  BY ConstantsAssumption DEF TypeOK, CallStates, RowValue, ConstantsAssumption, Honest
<1>1. ASSUME NEW c \in Calls, PostOpen(c)
      PROVE  /\ UNCHANGED ignored /\ IdleUnsent'
             /\ \A d \in Calls : request[d] = "paid" => request'[d] = "paid"
  BY <1>0, <1>1 DEF PostOpen, IdleUnsent
<1>2. ASSUME NEW c \in Calls, PostOpenChannel(c)
      PROVE  /\ UNCHANGED ignored /\ IdleUnsent'
             /\ \A d \in Calls : request[d] = "paid" => request'[d] = "paid"
  BY <1>0, <1>2 DEF PostOpenChannel, IdleUnsent
<1>3. ASSUME NEW c \in Calls,
             \/ PostFails(c) \/ ReceiveAnswer(c) \/ WaitForFunds(c)
             \/ SyncFunds(c) \/ OpenChannel(c)
      PROVE  UNCHANGED request /\ IdleUnsent'
  BY <1>0, <1>3 DEF PostFails, ReceiveAnswer, WaitForFunds, SyncFunds, Synced,
     OpenChannel, IdleUnsent
<1>4. ASSUME NEW c \in Calls, ReceiveAnswer(c)
      PROVE  /\ \A d \in Calls : ignored[d] # None => ignored'[d] # None
             /\ \A d \in Calls : ignored'[d] # None => ignored[d] # None \/ request[d] = "paid"
  BY <1>0, <1>4 DEF ReceiveAnswer, InsertIgnoreTxid
<1>5. ASSUME NEW r \in Readers, NEW c \in Calls, ChargeRow(r, c)
      PROVE  /\ UNCHANGED <<request, call>>
             /\ \A d \in Calls : ignored'[d] # None <=> ignored[d] # None
  <2>1. CASE UNCHANGED ignored
    BY <1>5, <2>1 DEF ChargeRow, http
  <2>2. CASE \E d \in Calls : reader[r].rows[c] = Unset /\ UpdateIgnoreTxid(c, d)
    <3>1. ignored[c] # None
      BY <1>0, <2>2 DEF RowsWereNoted
    <3> QED
      BY <1>0, <1>5, <2>2, <3>1 DEF ChargeRow, http, UpdateIgnoreTxid
  <2> QED
    BY <1>5, <2>1, <2>2 DEF ChargeRow
<1>6. ASSUME Crash PROVE UNCHANGED <<request, ignored>> /\ IdleUnsent'
  BY <1>0, <1>6 DEF Crash, IdleUnsent
<1>7. \/ \E c \in Calls : PostOpen(c) \/ PostOpenChannel(c)
      \/ /\ \E c \in Calls : \/ PostFails(c) \/ ReceiveAnswer(c) \/ WaitForFunds(c)
                           \/ SyncFunds(c) \/ OpenChannel(c)
         /\ (\E c \in Calls : ReceiveAnswer(c)) \/ UNCHANGED ignored
      \/ \E r \in Readers, c \in Calls : ChargeRow(r, c)
      \/ Crash
      \/ UNCHANGED <<request, ignored, call>>
  BY DEF Next, vars, http, PostFails, WaitForFunds, SyncFunds, OpenChannel,
     FundsArrive, AcceptChannel, Vanish, HandleFundingReady, SaveManager,
     BroadcastFunding, CloseChannel, ChannelCloses, ListTransactions,
     LoadIgnoreTxids, ReturnHistory, Sync
<1>8. UNCHANGED <<request, call>> => IdleUnsent'
  BY <1>0 DEF IdleUnsent
<1>9. /\ \A c \in Calls : request[c] = "paid" => request'[c] = "paid"
      /\ \A c \in Calls : ignored[c] # None => ignored'[c] # None
      /\ \A c \in Calls : ignored'[c] # None => ignored[c] # None \/ request[c] = "paid"
      /\ IdleUnsent'
  BY <1>1, <1>2, <1>3, <1>4, <1>5, <1>6, <1>7, <1>8
<1> QED
  BY <1>0, <1>9 DEF RowsArePaid

\* What one step does to a history: it starts over, lists, reads the table,
\* charges one row to one funding, or skips one.
LEMMA ReaderSteps ==
  ASSUME TypeOK, [Next]_vars, NEW r \in Readers
  PROVE  \/ reader'[r] \in {reader[r], Idle}
         \/ /\ reader'[r].rows = Idle.rows /\ reader'[r].charges = Idle.charges
         \/ /\ reader[r].pc = "load" /\ reader'[r].pc = "rows"
            /\ reader'[r].rows = ignored
            /\ reader'[r].charges = reader[r].charges
         \/ /\ reader[r].pc = "rows" /\ reader'[r].pc = "rows"
            /\ \E c \in Calls :
                 /\ reader[r].rows[c] # None
                 /\ reader'[r].rows = [reader[r].rows EXCEPT ![c] = None]
                 /\ \/ reader'[r].charges = reader[r].charges
                    \/ \E d \in Calls : reader'[r].charges =
                                          [reader[r].charges EXCEPT ![d] = @ + 1]
<1>0. reader \in [Readers -> ReaderRec] /\ None \notin Calls /\ Unset # None
  BY ConstantsAssumption DEF TypeOK, ReaderRec, RowValue, ConstantsAssumption
<1>1. ASSUME NEW q \in Readers, ListTransactions(q)
      PROVE  \/ reader'[r] = reader[r]
             \/ reader'[r].rows = Idle.rows /\ reader'[r].charges = Idle.charges
  BY <1>0, <1>1 DEF ListTransactions, Idle
<1>2. ASSUME NEW q \in Readers, LoadIgnoreTxids(q)
      PROVE  \/ reader'[r] \in {reader[r], Idle}
             \/ /\ reader[r].pc = "load" /\ reader'[r].pc = "rows"
                /\ reader'[r].rows = ignored
                /\ reader'[r].charges = reader[r].charges
  <2>1. CASE reader' = [reader EXCEPT ![q] = Idle]
    BY <1>0, <2>1
  <2>2. CASE reader' = [reader EXCEPT ![q].pc = "rows", ![q].rows = ignored,
                            ![q].txs = @ \ HiddenByRows(ignored)]
    <3> DEFINE rest == reader[q].txs \ HiddenByRows(ignored)
    <3>1. reader' = [reader EXCEPT ![q].pc = "rows", ![q].rows = ignored, ![q].txs = rest]
          /\ reader[q].pc = "load"
      BY <1>2, <2>2 DEF LoadIgnoreTxids
    <3> HIDE DEF rest
    <3> QED
      BY <1>0, <3>1 DEF ReaderRec
  <2> QED
    BY <1>2, <2>1, <2>2 DEF LoadIgnoreTxids
<1>3. ASSUME (\E q \in Readers : ReturnHistory(q)) \/ Crash
      PROVE  reader'[r] \in {reader[r], Idle}
  BY <1>0, <1>3 DEF ReturnHistory, Crash
<1>4. ASSUME NEW q \in Readers, NEW c \in Calls, ChargeRow(q, c), reader'[r] # reader[r]
      PROVE  /\ reader[r].pc = "rows" /\ reader'[r].pc = "rows"
             /\ reader[r].rows[c] # None
             /\ reader'[r].rows = [reader[r].rows EXCEPT ![c] = None]
             /\ \/ reader'[r].charges = reader[r].charges
                \/ \E d \in Calls : reader'[r].charges =
                                      [reader[r].charges EXCEPT ![d] = @ + 1]
  <2>1. reader[q].pc = "rows" /\ reader[q].rows[c] # None
    BY <1>0, <1>4 DEF ChargeRow
  <2>2. ASSUME NEW d \in Calls, Charge(q, c, d)
        PROVE  /\ q = r /\ reader'[r].pc = reader[r].pc
               /\ reader'[r].rows = [reader[r].rows EXCEPT ![c] = None]
               /\ reader'[r].charges = [reader[r].charges EXCEPT ![d] = @ + 1]
    <3> DEFINE n == reader[q].charges[d] + 1
    <3>1. reader' = [[reader EXCEPT ![q].rows[c] = None] EXCEPT ![q].charges[d] = n]
      BY <1>0, <2>2 DEF Charge
    <3> HIDE DEF n
    <3>2. q = r
      BY <1>0, <1>4, <3>1
    <3>3. /\ reader'[r].pc = reader[r].pc
          /\ reader'[r].rows = [reader[r].rows EXCEPT ![c] = None]
          /\ reader'[r].charges = [reader[r].charges EXCEPT ![d] = n]
      BY <1>0, <3>1, <3>2 DEF ReaderRec
    <3> QED
      BY <3>2, <3>3 DEF n
  <2>3. CASE reader' = [reader EXCEPT ![q].rows[c] = None]
    BY <1>0, <1>4, <2>1, <2>3 DEF ReaderRec
  <2> QED
    BY <1>4, <2>1, <2>2, <2>3 DEF ChargeRow
<1>5. \/ \E q \in Readers : \/ ListTransactions(q) \/ LoadIgnoreTxids(q)
                            \/ ReturnHistory(q) \/ \E c \in Calls : ChargeRow(q, c)
      \/ Crash
      \/ UNCHANGED reader
  BY DEF Next, vars, PostOpen, PostFails, PostOpenChannel, ReceiveAnswer,
     WaitForFunds, SyncFunds, OpenChannel, FundsArrive, AcceptChannel, Vanish,
     HandleFundingReady, SaveManager, BroadcastFunding, CloseChannel,
     ChannelCloses, Sync
<1> QED
  BY <1>1, <1>2, <1>3, <1>4, <1>5

\* With one payment no funding is charged twice.
LEMMA HonestStep == ASSUME TypeOK, Honest, [Next]_vars PROVE Honest'
<1>0. /\ reader \in [Readers -> ReaderRec]
      /\ RowsWereNoted /\ ChargedAfterLoad /\ ChargedOnce /\ RowsArePaid
      /\ \A c \in Calls : Idle.rows[c] = None /\ Idle.charges[c] = 0
  BY DEF TypeOK, ReaderRec, RowValue, Honest, Idle
<1>p. /\ \A c \in Calls : request[c] = "paid" => request'[c] = "paid"
      /\ \A c \in Calls : ignored[c] # None => ignored'[c] # None
  BY PaidStays
<1>1. RowsWereNoted'
  <2> SUFFICES ASSUME NEW r \in Readers, NEW c \in Calls, reader'[r].rows[c] # None
               PROVE  ignored[c] # None
    BY <1>p DEF RowsWereNoted
  <2>1. CASE reader'[r] \in {reader[r], Idle} \/ reader'[r].rows = Idle.rows
    BY <1>0, <2>1 DEF RowsWereNoted
  <2>2. CASE reader'[r].rows = ignored
    BY <2>2
  <2>3. CASE \E d \in Calls : reader'[r].rows = [reader[r].rows EXCEPT ![d] = None]
    BY <1>0, <2>3 DEF RowsWereNoted, ReaderRec
  <2> QED
    BY <2>1, <2>2, <2>3, ReaderSteps
<1>2. ChargedAfterLoad'
  <2> SUFFICES ASSUME NEW r \in Readers, reader'[r].pc # "rows" PROVE FreshReader(r)'
    BY DEF ChargedAfterLoad
  <2>1. CASE reader'[r] = reader[r]
    BY <1>0, <2>1 DEF ChargedAfterLoad, FreshReader
  <2>2. CASE \/ reader'[r] = Idle
             \/ reader'[r].rows = Idle.rows /\ reader'[r].charges = Idle.charges
    BY <1>0, <2>2 DEF FreshReader
  <2> QED
    BY <2>1, <2>2, ReaderSteps
<1>3. ChargedOnce'
  <2> SUFFICES ASSUME NEW c \in Calls, OnlyPaid(c)', NEW r \in Readers, NEW d \in Calls
               PROVE  /\ reader'[r].charges[d] <= 1
                      /\ reader'[r].rows[c] # None => reader'[r].charges[d] = 0
    BY DEF ChargedOnce
  <2>1. OnlyPaid(c)
    BY <1>p DEF OnlyPaid
  <2>2. /\ reader[r].charges \in [Calls -> Nat]
        /\ reader[r].rows \in [Calls -> RowValue]
        /\ \A e \in Calls :
             /\ reader[r].charges[e] <= 1
             /\ reader[r].rows[c] # None => reader[r].charges[e] = 0
    BY <1>0, <2>1 DEF ChargedOnce, ReaderRec
  <2>3. CASE \/ reader'[r] \in {reader[r], Idle}
             \/ reader'[r].rows = Idle.rows /\ reader'[r].charges = Idle.charges
    BY <1>0, <2>2, <2>3
  <2>4. CASE reader[r].pc = "load" /\ reader'[r].charges = reader[r].charges
    BY <1>0, <2>4 DEF ChargedAfterLoad, FreshReader
  <2>5. ASSUME NEW e \in Calls, reader[r].rows[e] # None,
               reader'[r].rows = [reader[r].rows EXCEPT ![e] = None],
               \/ reader'[r].charges = reader[r].charges
               \/ \E f \in Calls : reader'[r].charges =
                                     [reader[r].charges EXCEPT ![f] = @ + 1]
        PROVE  /\ reader'[r].charges[d] <= 1
               /\ reader'[r].rows[c] # None => reader'[r].charges[d] = 0
    <3>1. request[e] = "paid"
      BY <1>0, <2>5 DEF RowsWereNoted, RowsArePaid
    <3>2. e = c
      BY <2>1, <3>1 DEF OnlyPaid
    <3>3. reader'[r].rows[c] = None /\ reader[r].charges[d] = 0
      BY <2>2, <2>5, <3>2
    <3>4. reader'[r].charges[d] \in {reader[r].charges[d], reader[r].charges[d] + 1}
      <4>1. CASE reader'[r].charges = reader[r].charges
        BY <4>1
      <4>2. ASSUME NEW f \in Calls,
                   reader'[r].charges = [reader[r].charges EXCEPT ![f] = @ + 1]
            PROVE  reader'[r].charges[d] \in {reader[r].charges[d], reader[r].charges[d] + 1}
        BY <2>2, <4>2
      <4> QED
        BY <2>5, <4>1, <4>2
    <3> QED
      BY <3>3, <3>4
  <2> QED
    BY <2>3, <2>4, <2>5, ReaderSteps
<1> QED
  BY <1>1, <1>2, <1>3, PaidStays DEF Honest

\* A funding charged at most once is shown, with what the taker put in.
LEMMA ChargedOnceIsShown ==
  ASSUME TypeOK, NEW r \in Readers, NEW tx \in Txs,
         tx[1] = "open" => reader[r].charges[tx[2]] <= 1
  PROVE  /\ ~FailedOpen(r, tx)
         /\ ~(ShownSent(r, tx) < Sent(tx) - MakerAmount)
<1>0. MakerAmount \in Nat /\ Capacity \in Nat /\ Capacity > MakerAmount
      /\ RowAmount = MakerAmount
  BY ConstantsAssumption DEF ConstantsAssumption, MakerAmount, Capacity, RowAmount
<1>1. CASE tx[1] = "open"
  <2>1. /\ tx[2] \in Calls /\ value[tx] \in Nat
        /\ reader[r].charges[tx[2]] \in Nat
    BY <1>1, TxCases DEF TypeOK, Coins
  <2>2. reader[r].charges[tx[2]] \in {0, 1}
    BY <1>1, <2>1
  <2>3. /\ Sent(tx) \in Nat /\ Sent(tx) > MakerAmount
        /\ Charges(r, tx) = reader[r].charges[tx[2]]
    BY <1>0, <1>1, <2>1 DEF Sent, Charges
  <2>4. CASE Charges(r, tx) = 0
    <3>1. ShownSent(r, tx) = Sent(tx)
      BY <1>0, <2>3, <2>4 DEF ShownSent
    <3> QED
      BY <1>0, <2>3, <2>4, <3>1 DEF FailedOpen
  <2>5. CASE Charges(r, tx) = 1
    <3>1. ShownSent(r, tx) = Sent(tx) - MakerAmount
      BY <1>0, <2>3, <2>5 DEF ShownSent
    <3> QED
      BY <1>0, <2>3, <2>5, <3>1 DEF FailedOpen
  <2> QED
    BY <2>2, <2>3, <2>4, <2>5
<1>2. CASE tx[1] # "open"
  <2>1. Sent(tx) = 0 /\ Charges(r, tx) = 0
    BY <1>2 DEF Sent, Charges
  <2>2. ShownSent(r, tx) = 0
    BY <1>0, <2>1 DEF ShownSent
  <2> QED
    BY <1>0, <2>1, <2>2 DEF FailedOpen
<1> QED
  BY <1>1, <1>2

\* Whatever the order of the channels in LDK's list: a funding is hidden, or
\* shown with less than the taker put in, only after the maker has paid twice.
THEOREM HistoryIsHonest == Spec => []HistoryHidesOnlyAfterSecondPayment
<1>1. Init => Honest
  BY DEF Init, Honest, IdleUnsent, RowsArePaid, RowsWereNoted, ChargedAfterLoad,
     FreshReader, ChargedOnce, Idle
<1>2. TypeOK /\ Honest /\ [Next]_vars => Honest'
  BY HonestStep
<1>3. TypeOK /\ Honest => HistoryHidesOnlyAfterSecondPayment
  <2> SUFFICES ASSUME TypeOK, Honest, NEW r \in Readers, NEW tx \in reader[r].txs,
                      \/ tx \notin DOMAIN History(r)
                      \/ History(r)[tx] < Sent(tx) - MakerAmount,
                      ~\E c, d \in Calls : c # d /\ {request[c], request[d]} = {"paid"}
               PROVE  FALSE
    BY DEF HistoryHidesOnlyAfterSecondPayment
  <2>1. tx \in Txs
    BY DEF TypeOK
  <2>2. \E c \in Calls : OnlyPaid(c)
    <3>1. tx[2] \in Calls
      BY <2>1, TxCases
    <3>2. CASE \E c \in Calls : request[c] = "paid"
      BY <3>2 DEF OnlyPaid
    <3>3. CASE \A c \in Calls : request[c] # "paid"
      BY <3>1, <3>3 DEF OnlyPaid
    <3> QED
      BY <3>2, <3>3
  <2>3. tx[1] = "open" => reader[r].charges[tx[2]] <= 1
    BY <2>1, <2>2, TxCases DEF Honest, ChargedOnce
  <2>4. ~FailedOpen(r, tx) /\ ~(ShownSent(r, tx) < Sent(tx) - MakerAmount)
    BY <2>1, <2>3, ChargedOnceIsShown
  <2>5. tx \in DOMAIN History(r) /\ History(r)[tx] = ShownSent(r, tx)
    BY <2>4 DEF History
  <2> QED
    BY <2>4, <2>5
<1> QED
  BY <1>1, <1>2, <1>3, TypeCorrect, PTL DEF Spec

-----------------------------------------------------------------------------
(* Money                                                                   *)

(***************************************************************************)
(* TakerKeepsItsMoney is an inequality and not inductive; what is, is the  *)
(* exact account behind it (Balanced): the coins of the wallet and the     *)
(* channels hold what the taker had and what the maker paid.  A funding    *)
(* then costs nothing because its inputs are worth the capacity and the    *)
(* change (FundedExactly), and the taker is never worse off because a call *)
(* syncs, and creates its channel, only once the maker's payment is public *)
(* (SyncedPaid, ChannelsPaid).                                             *)
(***************************************************************************)
SyncedPaid == \A c \in Calls : call[c] = "synced" => c \in PaidCalls
ChannelsPaid == \A c \in Calls : channel[c] # "none" => c \in PaidCalls
InputsPublic == \A c \in Calls : inputs[c] \subseteq mempool \cup {Deposit}
PaidAlike == \A c \in Calls : value[Pay(c)] = MakerAmount + Extra
FundedExactly ==
    \A c \in Calls : channel[c] = "funded"
                        => Total(value, inputs[c]) = Capacity + value[Open(c)]
FinitelyMany == IsFiniteSet(mempool) /\ IsFiniteSet(PaidCalls)
Balanced == Total(value, Unspent(mempool)) + Capacity * Cardinality(OpenFundings)
              = TakerSats + (MakerAmount + Extra) * Cardinality(PaidCalls)

Books == SyncedPaid /\ ChannelsPaid /\ InputsPublic /\ PaidAlike /\ FundedExactly
         /\ FinitelyMany /\ Balanced

\* Worth is the sum that module SetSums is about.
LEMMA WorthIsTotal == \A coins : Worth(coins) = Total(value, coins)
  BY DEF Worth, Total

\* Amounts are natural numbers.
LEMMA Amounts ==
  /\ TakerSats \in Nat /\ TakerAmount \in Nat /\ MakerAmount \in Nat
  /\ Capacity \in Nat /\ Extra \in Nat /\ MakerAmount + Extra \in Nat
  /\ Capacity = TakerAmount + MakerAmount
<1>1. TakerSats \in Nat /\ TakerAmount \in Nat /\ Extra \in Nat
  BY ConstantsAssumption DEF ConstantsAssumption
<1> QED
  BY <1>1 DEF MakerAmount, Capacity

\* What is unspent is in the mempool or the deposit, and adds up.
LEMMA UnspentAddsUp ==
  ASSUME TypeOK, FinitelyMany
  PROVE  /\ Unspent(mempool) \subseteq mempool \cup {Deposit}
         /\ IsFiniteSet(Unspent(mempool))
         /\ \A k \in Unspent(mempool) : value[k] \in Nat
         /\ Total(value, Unspent(mempool)) \in Nat
<1>1. Unspent(mempool) \in SUBSET (mempool \cup {Deposit})
  BY DEF Unspent
<1>2. IsFiniteSet(mempool \cup {Deposit})
  BY FS_AddElement DEF FinitelyMany
<1>3. IsFiniteSet(Unspent(mempool))
  BY <1>1, <1>2, FS_Subset
<1>4. \A k \in Unspent(mempool) : value[k] \in Nat
  BY <1>1 DEF TypeOK, Coins
<1>5. Total(value, Unspent(mempool)) \in Nat
  BY <1>3, <1>4, TotalType
<1> QED
  BY <1>1, <1>3, <1>4, <1>5

\* The sets of calls with a payment and with a funding are finite and counted.
LEMMA CallsCounted ==
  ASSUME TypeOK, Books, PublicIsFinal
  PROVE  /\ OpenFundings \subseteq PaidCalls
         /\ IsFiniteSet(OpenFundings) /\ IsFiniteSet(PaidCalls)
         /\ Cardinality(OpenFundings) \in Nat /\ Cardinality(PaidCalls) \in Nat
         /\ Cardinality(OpenFundings) <= Cardinality(PaidCalls)
<1>1. OpenFundings \in SUBSET PaidCalls
  <2> SUFFICES ASSUME NEW c \in Calls, Open(c) \in mempool PROVE c \in PaidCalls
    BY DEF OpenFundings
  <2>1. channel[c] # "none"
    BY DEF PublicIsFinal
  <2> QED
    BY <2>1 DEF Books, ChannelsPaid
<1>2. IsFiniteSet(PaidCalls)
  BY DEF Books, FinitelyMany
<1> QED
  BY <1>1, <1>2, FS_Subset, FS_CardinalityType

\* Steps that touch neither the coins nor what they are worth.
LEMMA BooksKept ==
  ASSUME TypeOK, Books, UNCHANGED <<mempool, value, inputs>>,
         \A c \in Calls : channel'[c] = "funded" => channel[c] = "funded",
         \A c \in Calls : channel'[c] # "none" => channel[c] # "none" \/ c \in PaidCalls,
         \A c \in Calls : call'[c] = "synced" => call[c] = "synced" \/ c \in PaidCalls
  PROVE  Books'
<1>1. PaidCalls' = PaidCalls /\ OpenFundings' = OpenFundings
      /\ Unspent(mempool)' = Unspent(mempool)
  BY DEF PaidCalls, OpenFundings, Unspent, Spent
<1>2. SyncedPaid' /\ ChannelsPaid' /\ InputsPublic' /\ PaidAlike'
  BY <1>1 DEF Books, SyncedPaid, ChannelsPaid, InputsPublic, PaidAlike
<1>3. FundedExactly'
  BY DEF Books, FundedExactly
<1>4. FinitelyMany' /\ Balanced'
  BY <1>1 DEF Books, FinitelyMany, Balanced
<1> QED
  BY <1>2, <1>3, <1>4 DEF Books

\* The maker's payment is one coin more.
LEMMA PaymentStep ==
  ASSUME TypeOK, Books, PublicIsFinal, NEW c \in Calls, FundsArrive(c)
  PROVE  Books'
<1>0. /\ Pay(c) \notin mempool /\ mempool' = mempool \cup {Pay(c)}
      /\ UNCHANGED <<call, value, inputs, channel>>
  BY DEF FundsArrive, http, ldk
<1>1. /\ OpenFundings' = OpenFundings
      /\ PaidCalls' = PaidCalls \cup {c} /\ c \notin PaidCalls
  <2>1. \A d \in Calls : Open(d) # Pay(c) /\ (Pay(d) = Pay(c) => d = c)
    BY TxFacts
  <2> QED
    BY <1>0, <2>1 DEF OpenFundings, PaidCalls
<1>2. Unspent(mempool)' = Unspent(mempool) \cup {Pay(c)} /\ Pay(c) \notin Unspent(mempool)
  <2>1. Pay(c) # Deposit /\ \A d \in Calls : Open(d) # Pay(c)
    BY TxFacts, DepositAssumption
  <2>2. \A d \in Calls : Pay(c) \notin inputs[d]
    BY <1>0, <2>1 DEF Books, InputsPublic
  <2>3. \A k : Spent(k, mempool') <=> Spent(k, mempool)
    BY <1>0, <2>1 DEF Spent
  <2>4. ~Spent(Pay(c), mempool)
    BY <2>2 DEF Spent
  <2>5. \A k : Spent(k, mempool)' <=> Spent(k, mempool)
    BY <1>0, <2>1 DEF Spent
  <2> QED
    BY <1>0, <2>1, <2>4, <2>5 DEF Unspent
<1>3. SyncedPaid' /\ ChannelsPaid' /\ InputsPublic' /\ PaidAlike' /\ FundedExactly'
  BY <1>0, <1>1 DEF Books, SyncedPaid, ChannelsPaid, InputsPublic, PaidAlike, FundedExactly
<1>4. FinitelyMany'
  BY <1>0, <1>1, FS_AddElement DEF Books, FinitelyMany
<1>5. Balanced'
  <2> DEFINE worth == Total(value, Unspent(mempool))
             paid == Cardinality(PaidCalls)
             open == Cardinality(OpenFundings)
             share == MakerAmount + Extra
  <2>1. Total(value, Unspent(mempool) \cup {Pay(c)}) = value[Pay(c)] + worth
    <3>1. \A k \in Unspent(mempool) \cup {Pay(c)} : value[k] \in Nat
      BY UnspentAddsUp, TxFacts DEF Books, TypeOK, Coins
    <3> QED
      BY <1>2, <3>1, UnspentAddsUp, TotalAdd DEF Books
  <2>2. Cardinality(PaidCalls') = paid + 1
    BY <1>1, FS_AddElement DEF Books, FinitelyMany
  <2>3. worth \in Nat /\ paid \in Nat /\ open \in Nat /\ share \in Nat /\ value[Pay(c)] = share
    BY UnspentAddsUp, CallsCounted, Amounts DEF Books, PaidAlike
  <2>4. worth + Capacity * open = TakerSats + share * paid
    BY DEF Books, Balanced
  <2>5. /\ Total(value', Unspent(mempool)') = share + worth
        /\ Cardinality(OpenFundings') = open
    BY <1>0, <1>1, <1>2, <2>1, <2>3
  <2> HIDE DEF worth, paid, open, share
  <2>6. (share + worth) + Capacity * open = TakerSats + share * (paid + 1)
    BY <2>3, <2>4, Amounts
  <2>7. Total(value', Unspent(mempool)') + Capacity * Cardinality(OpenFundings')
          = TakerSats + share * Cardinality(PaidCalls')
    BY <2>2, <2>5, <2>6
  <2> QED
    BY <2>7 DEF Balanced, share
<1> QED
  BY <1>3, <1>4, <1>5 DEF Books

\* A funding takes its inputs out and gives the change back: what is missing
\* is the capacity of one channel more.
LEMMA BroadcastStep ==
  ASSUME TypeOK, Books, PublicIsFinal, NEW c \in Calls, channel[c] = "funded",
         \A k \in inputs[c] : ~Spent(k, mempool),
         mempool' = mempool \cup {Open(c)},
         channel' = [channel EXCEPT ![c] = "open"], UNCHANGED <<call, value, inputs>>
  PROVE  Books'
<1>1. Open(c) \notin mempool /\ Open(c) # Deposit /\ Open(c) \in Coins
  BY TxFacts, DepositAssumption DEF PublicIsFinal
<1>2. \A d \in Calls : Open(c) \notin inputs[d]
  BY <1>1 DEF Books, InputsPublic
<1>3. /\ PaidCalls' = PaidCalls
      /\ OpenFundings' = OpenFundings \cup {c} /\ c \notin OpenFundings
  <2>1. \A d \in Calls : Pay(d) # Open(c) /\ (Open(d) = Open(c) => d = c)
    BY TxFacts
  <2> QED
    BY <1>1, <2>1 DEF OpenFundings, PaidCalls
<1> DEFINE rest == Unspent(mempool) \ inputs[c]
<1>4. /\ inputs[c] \in SUBSET Unspent(mempool)
      /\ Unspent(mempool)' = rest \cup {Open(c)} /\ Open(c) \notin rest
  <2>1. inputs[c] \subseteq mempool \cup {Deposit}
    BY DEF Books, InputsPublic
  <2>2. inputs[c] \in SUBSET Unspent(mempool)
    BY <2>1 DEF Unspent
  <2>3. \A d \in Calls : Open(d) \in mempool' <=> Open(d) \in mempool \/ d = c
    BY TxFacts
  <2>4. \A k : Spent(k, mempool)' <=> Spent(k, mempool) \/ k \in inputs[c]
    BY <2>3 DEF Spent
  <2>5. Unspent(mempool)' = {k \in mempool \cup {Open(c)} \cup {Deposit} :
                               ~Spent(k, mempool) /\ k \notin inputs[c]}
    BY <2>4 DEF Unspent
  <2>6. ~Spent(Open(c), mempool) /\ Open(c) \notin inputs[c]
    BY <1>2 DEF Spent
  <2>7. Unspent(mempool)' = rest \cup {Open(c)}
    BY <2>5, <2>6 DEF Unspent
  <2>8. Open(c) \notin rest
    BY <1>1 DEF Unspent
  <2> QED
    BY <2>2, <2>7, <2>8
<1>5. SyncedPaid' /\ ChannelsPaid' /\ InputsPublic' /\ PaidAlike' /\ FundedExactly'
  <2>1. \A d \in Calls : channel'[d] # "none" => channel[d] # "none"
    OBVIOUS
  <2>2. \A d \in Calls : channel'[d] = "funded" => channel[d] = "funded"
    BY DEF TypeOK
  <2> QED
    BY <1>3, <2>1, <2>2 DEF Books, SyncedPaid, ChannelsPaid, InputsPublic,
       PaidAlike, FundedExactly
<1>6. FinitelyMany'
  BY <1>3, FS_AddElement DEF Books, FinitelyMany
<1>7. Balanced'
  <2> DEFINE worth == Total(value, Unspent(mempool))
             left == Total(value, rest)
             spent == Total(value, inputs[c])
             change == value[Open(c)]
             paid == Cardinality(PaidCalls)
             open == Cardinality(OpenFundings)
             share == MakerAmount + Extra
  <2>1. IsFiniteSet(rest) /\ \A k \in rest \cup {Open(c)} : value[k] \in Nat
    <3>1. rest \in SUBSET Unspent(mempool)
      OBVIOUS
    <3>2. value[Open(c)] \in Nat
      BY <1>1 DEF TypeOK
    <3>3. IsFiniteSet(rest)
      BY <3>1, UnspentAddsUp, FS_Subset DEF Books
    <3>4. \A k \in rest : value[k] \in Nat
      BY <3>1, UnspentAddsUp DEF Books
    <3> QED
      BY <3>2, <3>3, <3>4
  <2>2. worth = spent + left
    BY <1>4, UnspentAddsUp, TotalSplit DEF Books
  <2>3. Total(value, rest \cup {Open(c)}) = change + left
    BY <1>4, <2>1, TotalAdd
  <2>4. spent = Capacity + change
    BY DEF Books, FundedExactly
  <2>5. Cardinality(OpenFundings') = open + 1 /\ Cardinality(PaidCalls') = paid
    BY <1>3, CallsCounted, FS_AddElement
  <2>6. /\ worth \in Nat /\ paid \in Nat /\ open \in Nat /\ share \in Nat
        /\ change \in Nat /\ left \in Nat
    BY <2>1, UnspentAddsUp, CallsCounted, Amounts, TotalType DEF Books
  <2>7. worth + Capacity * open = TakerSats + share * paid
    BY DEF Books, Balanced
  <2>8. Total(value', Unspent(mempool)') = change + left
    BY <1>4, <2>3
  <2> HIDE DEF worth, left, spent, change, paid, open, share
  <2>9. (change + left) + Capacity * (open + 1) = TakerSats + share * paid
    BY <2>2, <2>4, <2>6, <2>7, Amounts
  <2>10. Total(value', Unspent(mempool)') + Capacity * Cardinality(OpenFundings')
           = TakerSats + share * Cardinality(PaidCalls')
    BY <2>5, <2>8, <2>9
  <2> QED
    BY <2>10 DEF Balanced, share
<1> QED
  BY <1>5, <1>6, <1>7 DEF Books

\* A funding is built: its change is what its inputs are worth beyond the
\* capacity, and no other coin changes its worth.
LEMMA BuildStep ==
  ASSUME TypeOK, Books, PublicIsFinal, NEW c \in Calls, channel[c] = "offered",
         NEW s \in Selections,
         channel' = [channel EXCEPT ![c] = "funded"],
         inputs' = [inputs EXCEPT ![c] = s],
         value' = [value EXCEPT ![Open(c)] = Change(s)],
         UNCHANGED <<call, mempool, wallet>>
  PROVE  Books'
<1>0. /\ channel \in [Calls -> ChannelStates] /\ inputs \in [Calls -> SUBSET Coins]
      /\ value \in [Coins -> Nat] /\ wallet \subseteq mempool
  BY DEF TypeOK, ChannelStates
<1>1. Open(c) \notin mempool /\ Open(c) # Deposit /\ Open(c) \in Coins
  BY TxFacts, DepositAssumption DEF PublicIsFinal
<1>2. s \subseteq mempool \cup {Deposit} /\ Change(s) \in Nat
  BY <1>0 DEF Selections, Unspent
<1>3. InputsPublic'
  BY <1>0, <1>2 DEF Books, InputsPublic
<1>4. \A k \in mempool \cup {Deposit} : value'[k] = value[k]
  BY <1>0, <1>1 DEF TypeOK, Coins
<1>5. ASSUME NEW t, t \subseteq mempool \cup {Deposit}
      PROVE  IsFiniteSet(t) /\ Total(value', t) = Total(value, t)
  <2>1. IsFiniteSet(mempool \cup {Deposit}) /\ t \in SUBSET (mempool \cup {Deposit})
    BY <1>5, FS_AddElement DEF Books, FinitelyMany
  <2>2. IsFiniteSet(t)
    BY <2>1, FS_Subset
  <2>3. \A k \in t : value'[k] = value[k]
    BY <1>4, <1>5
  <2>4. ASSUME NEW w, \A k \in t : w[k] = value[k]
        PROVE  Total(w, t) = Total(value, t)
    BY <2>2, <2>4, TotalSame
  <2> QED
    BY <2>2, <2>3, <2>4
<1>6. SyncedPaid' /\ ChannelsPaid' /\ PaidAlike'
  <2>1. \A d \in Calls : Pay(d) # Open(c) /\ Pay(d) \in Coins
    BY TxFacts DEF Coins
  <2>2. PaidCalls' = PaidCalls
    BY DEF PaidCalls
  <2> QED
    BY <1>0, <2>1, <2>2 DEF Books, SyncedPaid, ChannelsPaid, PaidAlike
<1>7. FundedExactly'
  <2> SUFFICES ASSUME NEW d \in Calls, channel'[d] = "funded"
               PROVE  Total(value', inputs'[d]) = Capacity + value'[Open(d)]
    BY DEF FundedExactly
  <2>1. CASE d = c
    <3>1. Total(value', s) = Total(value, s)
      BY <1>2, <1>5
    <3>2. \A k \in s : value[k] \in Nat
      BY <1>0, <1>2 DEF TypeOK, Coins
    <3>3. Total(value, s) \in Nat
      BY <1>2, <1>5, <3>2, TotalType
    <3>4. Change(s) = Total(value, s) - Capacity
      BY WorthIsTotal DEF Change
    <3>5. value'[Open(d)] = Change(s) /\ inputs'[d] = s
      BY <1>0, <1>1, <2>1
    <3> QED
      BY <3>1, <3>3, <3>4, <3>5, Amounts
  <2>2. CASE d # c
    <3>1. inputs'[d] = inputs[d] /\ channel[d] = "funded"
      BY <1>0, <2>2
    <3>2. value'[Open(d)] = value[Open(d)]
      BY <1>0, <2>2, TxFacts
    <3>3. Total(value', inputs[d]) = Total(value, inputs[d])
      BY <1>5 DEF Books, InputsPublic
    <3> QED
      BY <3>1, <3>2, <3>3 DEF Books, FundedExactly
  <2> QED
    BY <2>1, <2>2
<1>8. FinitelyMany'
  BY DEF Books, FinitelyMany, PaidCalls
<1>9. Balanced'
  <2>1. Unspent(mempool)' = Unspent(mempool)
    <3>1. \A d \in Calls : Open(d) \in mempool => inputs'[d] = inputs[d]
      BY <1>0, <1>1
    <3>2. \A k : Spent(k, mempool)' <=> Spent(k, mempool)
      BY <3>1 DEF Spent
    <3> QED
      BY <3>2 DEF Unspent
  <2>2. Total(value', Unspent(mempool)') = Total(value, Unspent(mempool))
    BY <1>5, <2>1, UnspentAddsUp DEF Books
  <2>3. OpenFundings' = OpenFundings /\ PaidCalls' = PaidCalls
    BY DEF OpenFundings, PaidCalls
  <2> QED
    BY <2>2, <2>3 DEF Books, Balanced
<1> QED
  BY <1>3, <1>6, <1>7, <1>8, <1>9 DEF Books

\* A call that syncs has seen the maker's payment, and so has the call whose
\* channel is created.
LEMMA OpenChannelBooks ==
  ASSUME TypeOK, Books, NEW c \in Calls, SyncFunds(c) \/ OpenChannel(c)
  PROVE  Books'
<1>1. UNCHANGED <<mempool, value, inputs>> /\ c \in PaidCalls
  BY DEF SyncFunds, OpenChannel, chain, PaidCalls, Books, SyncedPaid
<1>2. UNCHANGED channel \/ channel' = [channel EXCEPT ![c] = "requested"]
  BY DEF SyncFunds, OpenChannel
<1>3. \A d \in Calls : channel'[d] # channel[d] => d = c /\ channel'[d] = "requested"
  BY <1>2 DEF TypeOK
<1>4. \A d \in Calls : call'[d] # call[d] => d = c
  BY DEF SyncFunds, Synced, OpenChannel, TypeOK
<1> QED
  BY <1>1, <1>3, <1>4, BooksKept

\* Every step keeps the books.
LEMMA BooksStep ==
  ASSUME TypeOK, Safe, Books, [Next]_vars
  PROVE  Books'
<1>0. channel \in [Calls -> ChannelStates] /\ PublicIsFinal
  BY DEF TypeOK, ChannelStates, Safe, Lifecycle
<1>1. ASSUME NEW c \in Calls, AcceptChannel(c) \/ Vanish(c) \/ CloseChannel(c) \/ ChannelCloses(c)
      PROVE  Books'
  <2>1. UNCHANGED <<call, mempool, value, inputs>>
    BY <1>1 DEF AcceptChannel, Vanish, CloseChannel, ChannelCloses, http, chain
  <2>2. channel[c] # "none"
    BY <1>1 DEF AcceptChannel, Vanish, CloseChannel, ChannelCloses, Listed, Unfunded
  <2>3. \E state \in {"offered", "closing", "closed", "lost"} :
          channel' = [channel EXCEPT ![c] = state]
    BY <1>0, <1>1, ForgottenStates DEF AcceptChannel, Vanish, CloseChannel, ChannelCloses
  <2> QED
    BY <1>0, <2>1, <2>2, <2>3, BooksKept
<1>2. ASSUME NEW c \in Calls, BroadcastFunding(c) PROVE Books'
  <2>1. /\ channel[c] = "funded" /\ channel' = [channel EXCEPT ![c] = "open"]
        /\ UNCHANGED <<call, value, inputs>>
        /\ mempool' = IF \E k \in inputs[c] : Spent(k, mempool)
                      THEN mempool ELSE mempool \cup {Open(c)}
    BY <1>2 DEF BroadcastFunding, http
  <2>2. CASE \E k \in inputs[c] : Spent(k, mempool)
    <3>1. \A d \in Calls : /\ channel'[d] = "funded" => channel[d] = "funded"
                           /\ channel'[d] # "none" => channel[d] # "none"
      BY <1>0, <2>1
    <3> QED
      BY <2>1, <2>2, <3>1, BooksKept
  <2>3. CASE ~\E k \in inputs[c] : Spent(k, mempool)
    BY <1>0, <2>1, <2>3, BroadcastStep
  <2> QED
    BY <2>2, <2>3
<1>3. ASSUME NEW c \in Calls, HandleFundingReady(c) PROVE Books'
  <2>1. UNCHANGED <<call, mempool, wallet>>
    BY <1>3 DEF HandleFundingReady, http
  <2>2. CASE GiveUpChannel(c)
    <3>1. /\ UNCHANGED <<inputs, value>>
          /\ \/ channel[c] = "offered" /\ channel' = [channel EXCEPT ![c] = "closed"]
             \/ UNCHANGED channel
      BY <2>2 DEF GiveUpChannel
    <3>2. \A d \in Calls : /\ channel'[d] = "funded" => channel[d] = "funded"
                           /\ channel'[d] # "none" => channel[d] # "none"
      BY <1>0, <3>1
    <3> QED
      BY <2>1, <3>1, <3>2, BooksKept
  <2>3. CASE FundChannel(c)
    <3>1. PICK s \in Selections :
            IF channel[c] = "offered"
            THEN /\ channel' = [channel EXCEPT ![c] = "funded"]
                 /\ inputs' = [inputs EXCEPT ![c] = s]
                 /\ value' = [value EXCEPT ![Open(c)] = Change(s)]
            ELSE UNCHANGED <<channel, inputs, value>>
      BY <2>3 DEF FundChannel
    <3>2. CASE channel[c] = "offered"
      BY <1>0, <2>1, <3>1, <3>2, BuildStep
    <3>3. CASE channel[c] # "offered"
      BY <2>1, <3>1, <3>3, BooksKept
    <3> QED
      BY <3>2, <3>3
  <2> QED
    BY <1>3, <2>2, <2>3 DEF HandleFundingReady
<1>4. ASSUME Crash PROVE Books'
  <2>1. UNCHANGED <<mempool, value, inputs>>
    BY <1>4 DEF Crash, chain
  <2>2. \A d \in Calls : /\ channel'[d] = "funded" => channel[d] = "funded"
                         /\ channel'[d] # "none" => channel[d] # "none"
    BY <1>0, <1>4, ForgottenStates DEF Crash, ForgottenByCrash, Unfunded, ChannelStates
  <2>3. \A d \in Calls : call'[d] # "synced"
    BY <1>4 DEF Crash
  <2> QED
    BY <2>1, <2>2, <2>3, BooksKept
<1>5. ASSUME UNCHANGED <<mempool, value, inputs, channel>>,
             \A d \in Calls : call'[d] = "synced" => call[d] = "synced"
      PROVE  Books'
  BY <1>5, BooksKept
<1>6. ASSUME NEW c \in Calls, PostOpen(c) \/ PostFails(c) \/ ReceiveAnswer(c)
                              \/ WaitForFunds(c)
      PROVE  /\ UNCHANGED <<mempool, value, inputs, channel>>
             /\ \A d \in Calls : call'[d] = "synced" => call[d] = "synced"
  <2>1. UNCHANGED <<mempool, value, inputs, channel>>
    BY <1>6 DEF PostOpen, PostFails, ReceiveAnswer, WaitForFunds, chain, ldk
  <2>2. UNCHANGED call \/ \E state \in {"posted", "wait", "failed"} :
                             call' = [call EXCEPT ![c] = state]
    BY <1>6 DEF PostOpen, PostFails, ReceiveAnswer, WaitForFunds
  <2> QED
    BY <2>1, <2>2 DEF TypeOK
<1>7. \/ \E c \in Calls : \/ SyncFunds(c) \/ OpenChannel(c)
                          \/ FundsArrive(c) \/ AcceptChannel(c)
                          \/ Vanish(c) \/ CloseChannel(c) \/ ChannelCloses(c)
                          \/ BroadcastFunding(c) \/ HandleFundingReady(c)
                          \/ PostOpen(c) \/ PostFails(c) \/ ReceiveAnswer(c)
                          \/ WaitForFunds(c)
      \/ Crash
      \/ UNCHANGED <<call, mempool, value, inputs, channel>>
  BY DEF Next, vars, http, chain, ldk, PostOpenChannel, Sync, SaveManager,
     ListTransactions, LoadIgnoreTxids, ReturnHistory, ChargeRow
<1> QED
  BY <1>0, <1>1, <1>2, <1>3, <1>4, <1>5, <1>6, <1>7, PaymentStep, OpenChannelBooks

\* At first there is the deposit.
LEMMA BooksInit == Init => Books
<1> SUFFICES ASSUME Init PROVE Books
  OBVIOUS
<1>1. TypeOK
  BY TypeInit
<1>2. mempool = {} /\ PaidCalls = {} /\ OpenFundings = {}
  BY DEF Init, PaidCalls, OpenFundings
<1>3. SyncedPaid /\ ChannelsPaid /\ InputsPublic /\ FundedExactly
  BY DEF Init, SyncedPaid, ChannelsPaid, InputsPublic, FundedExactly
<1>4. PaidAlike
  <2>1. \A c \in Calls : /\ Pay(c) \in Coins /\ Pay(c) # Deposit
                         /\ Pay(c)[1] = "pay"
    BY TxFacts, DepositAssumption DEF Pay, Coins
  <2> QED
    BY <2>1 DEF Init, PaidAlike
<1>5. FinitelyMany
  BY <1>2, FS_EmptySet DEF FinitelyMany
<1>6. Balanced
  <2>1. Unspent(mempool) = {} \cup {Deposit}
    BY <1>2 DEF Unspent, Spent
  <2>2. value[Deposit] = TakerSats
    BY DEF Init, Coins
  <2>3. Total(value, {} \cup {Deposit}) = value[Deposit] + Total(value, {})
    <3>1. IsFiniteSet({}) /\ Deposit \notin {}
      BY FS_EmptySet
    <3>2. \A k \in {} \cup {Deposit} : value[k] \in Nat
      BY <2>2, Amounts
    <3> QED
      BY <3>1, <3>2, TotalAdd
  <2>4. Total(value, Unspent(mempool)) = TakerSats
    BY <2>1, <2>2, <2>3, TotalEmpty, Amounts
  <2>5. Cardinality(PaidCalls) = 0 /\ Cardinality(OpenFundings) = 0
    BY <1>2, FS_EmptySet
  <2> QED
    BY <2>4, <2>5, Amounts DEF Balanced
<1> QED
  BY <1>3, <1>4, <1>5, <1>6 DEF Books

\* The exact account of the coins, in every state.
THEOREM BooksBalance == Spec => []Books
<1>1. TypeOK /\ Safe /\ Books /\ [Next]_vars => Books'
  BY BooksStep
<1> QED
  BY BooksInit, <1>1, TypeCorrect, ChannelsSafe, PTL DEF Spec

\* Whatever answer, row or channel is lost on the way and whatever is signed
\* twice, the taker's coins and its side of the channels stay worth what it
\* started with: the maker's share is never paid with the taker's money.
THEOREM TakerPaysItsShareOnly == Spec => []TakerKeepsItsMoney
<1>1. TypeOK /\ Safe /\ Books => TakerKeepsItsMoney
  <2> SUFFICES ASSUME TypeOK, Safe, Books PROVE TakerKeepsItsMoney
    OBVIOUS
  <2> DEFINE worth == Total(value, Unspent(mempool))
             paid == Cardinality(PaidCalls)
             open == Cardinality(OpenFundings)
             share == MakerAmount + Extra
  <2>1. PublicIsFinal
    BY DEF Safe, Lifecycle
  <2>2. paid \in Nat /\ open \in Nat /\ open <= paid
    BY <2>1, CallsCounted
  <2>3. worth + Capacity * open = TakerSats + share * paid
    BY DEF Books, Balanced
  <2>4. worth \in Nat
    BY UnspentAddsUp DEF Books
  <2>5. Balance = worth
    BY WorthIsTotal DEF Balance
  <2> HIDE DEF worth, paid, open
  <2>6. share * open <= share * paid /\ share * open \in Nat /\ share * paid \in Nat
    BY <2>2, Amounts
  <2>7. Capacity * open = TakerAmount * open + MakerAmount * open
        /\ share * open = MakerAmount * open + Extra * open
    BY <2>2, Amounts
  <2>8. Extra * open \in Nat /\ MakerAmount * open \in Nat /\ TakerAmount * open \in Nat
    BY <2>2, Amounts
  <2>9. worth + TakerAmount * open >= TakerSats
    BY <2>3, <2>4, <2>6, <2>7, <2>8, Amounts
  <2> QED
    BY <2>5, <2>9 DEF TakerKeepsItsMoney, open
<1> QED
  BY <1>1, TypeCorrect, ChannelsSafe, BooksBalance, PTL
-----------------------------------------------------------------------------
(* The accounts of FundingBook                                             *)

(***************************************************************************)
(* How much a step moves follows from the exact account before and after   *)
(* it (Balanced); what is left to show is which of the two sets of calls   *)
(* the step adds to, and that it may.                                      *)
(***************************************************************************)
Audited == TypeOK /\ Safe /\ Books

Paid == Cardinality(PaidCalls)
Funded == Cardinality(OpenFundings)
Reckoned ==
    /\ IsFiniteSet(PaidCalls) /\ IsFiniteSet(OpenFundings)
    /\ Balance \in Nat /\ Paid \in Nat /\ Funded \in Nat
    /\ Balance + Capacity * Funded = TakerSats + (MakerAmount + Extra) * Paid

\* The balance is the sum that Books is about.
LEMMA BalanceIsTotal == Balance = Total(value, Unspent(mempool))
  BY WorthIsTotal DEF Balance

\* The balance in terms of the calls paid for and the channels funded.
LEMMA AuditedIsReckoned == Audited => Reckoned
<1> SUFFICES ASSUME Audited PROVE Reckoned
  OBVIOUS
<1>1. TypeOK /\ Books /\ FinitelyMany /\ PublicIsFinal
  BY DEF Audited, Books, Safe, Lifecycle
<1>2. Balance \in Nat
  BY <1>1, UnspentAddsUp, BalanceIsTotal
<1>3. /\ Cardinality(OpenFundings) \in Nat /\ Cardinality(PaidCalls) \in Nat
      /\ IsFiniteSet(OpenFundings) /\ IsFiniteSet(PaidCalls)
  BY <1>1, CallsCounted
<1>4. Balance + Capacity * Cardinality(OpenFundings)
        = TakerSats + (MakerAmount + Extra) * Cardinality(PaidCalls)
  BY <1>1, BalanceIsTotal DEF Books, Balanced
<1> QED
  BY <1>2, <1>3, <1>4 DEF Reckoned, Paid, Funded

\* A payment is booked as a payment.
LEMMA PaymentIsBooked ==
  ASSUME Reckoned, Reckoned', NEW c \in Calls, FundsArrive(c)
  PROVE  Accounts!ReceivePayment(c)
<1>1. Pay(c) \notin mempool /\ mempool' = mempool \cup {Pay(c)}
  BY DEF FundsArrive
<1>2. /\ c \notin PaidCalls /\ PaidCalls' = PaidCalls \cup {c}
      /\ OpenFundings' = OpenFundings
  <2>1. \A d \in Calls : Open(d) # Pay(c) /\ (Pay(d) = Pay(c) => d = c)
    BY TxFacts
  <2> QED
    BY <1>1, <2>1 DEF PaidCalls, OpenFundings
<1>3. Paid' = Paid + 1 /\ Funded' = Funded
  BY <1>2, FS_AddElement DEF Reckoned, Paid, Funded
<1>4. Balance' = Balance + (MakerAmount + Extra)
  <2> DEFINE share == MakerAmount + Extra
             spent == Capacity * Funded
             had == share * Paid
  <2>1. share \in Nat /\ spent \in Nat /\ had \in Nat /\ TakerSats \in Nat
    BY Amounts DEF Reckoned
  <2>2. share * (Paid + 1) = had + share
    BY <2>1 DEF Reckoned
  <2>3. /\ Balance \in Nat /\ Balance' \in Nat
        /\ Balance + spent = TakerSats + had
        /\ Balance' + spent = TakerSats + share * (Paid + 1)
    BY <1>3 DEF Reckoned
  <2> HIDE DEF share, spent, had
  <2>4. Balance' = Balance + share
    BY <2>1, <2>2, <2>3
  <2> QED
    BY <2>4 DEF share
<1> QED
  BY <1>2, <1>4 DEF Accounts!ReceivePayment

\* A funding that reaches the mempool takes the capacity out of the coins, and
\* the maker has paid for its call.
LEMMA FundingIsBooked ==
  ASSUME Audited, Reckoned, Reckoned', NEW c \in Calls,
         channel[c] = "funded", mempool' = mempool \cup {Open(c)}
  PROVE  Accounts!Fund(c)
<1>1. /\ c \in PaidCalls
      /\ c \notin OpenFundings /\ OpenFundings' = OpenFundings \cup {c}
      /\ PaidCalls' = PaidCalls
  <2>1. c \in PaidCalls /\ Open(c) \notin mempool
    BY DEF Audited, Books, ChannelsPaid, Safe, Lifecycle, PublicIsFinal
  <2>2. \A d \in Calls : Pay(d) # Open(c) /\ (Open(d) = Open(c) => d = c)
    BY TxFacts
  <2> QED
    BY <2>1, <2>2 DEF PaidCalls, OpenFundings
<1>2. Paid' = Paid /\ Funded' = Funded + 1
  BY <1>1, FS_AddElement DEF Reckoned, Paid, Funded
<1>3. Balance >= Capacity /\ Balance' = Balance - Capacity
  <2> DEFINE had == TakerSats + (MakerAmount + Extra) * Paid
             spent == Capacity * Funded
  <2>1. Capacity \in Nat /\ spent \in Nat /\ had \in Nat
    BY Amounts DEF Reckoned
  <2>2. Capacity * (Funded + 1) = spent + Capacity
    BY <2>1 DEF Reckoned
  <2>3. /\ Balance \in Nat /\ Balance' \in Nat
        /\ Balance + spent = had
        /\ Balance' + Capacity * (Funded + 1) = had
    BY <1>2 DEF Reckoned
  <2> HIDE DEF had, spent
  <2> QED
    BY <2>1, <2>2, <2>3
<1> QED
  BY <1>1, <1>3 DEF Accounts!Fund

\* A step that leaves the mempool alone moves no coin.
LEMMA NothingToBook ==
  ASSUME Reckoned, Reckoned', UNCHANGED mempool
  PROVE  UNCHANGED Accounts!fundingVars
<1>1. PaidCalls' = PaidCalls /\ OpenFundings' = OpenFundings
  BY DEF PaidCalls, OpenFundings
<1>2. Paid' = Paid /\ Funded' = Funded
  BY <1>1 DEF Paid, Funded
<1>3. Balance' = Balance
  <2> DEFINE had == TakerSats + (MakerAmount + Extra) * Paid
             spent == Capacity * Funded
  <2>1. spent \in Nat /\ had \in Nat
    BY Amounts DEF Reckoned
  <2>2. /\ Balance \in Nat /\ Balance' \in Nat
        /\ Balance + spent = had /\ Balance' + spent = had
    BY <1>2 DEF Reckoned
  <2> HIDE DEF had, spent
  <2>3. \A a, b \in Nat : a + spent = had /\ b + spent = had => a = b
    BY <2>1
  <2> QED
    BY <2>2, <2>3
<1> QED
  BY <1>1, <1>3 DEF Accounts!fundingVars

\* Every step is a step of FundingBook or moves no coin.
LEMMA AccountsStep ==
  ASSUME Audited, Reckoned, Reckoned', [Next]_vars
  PROVE  [Accounts!FundingNext]_(Accounts!fundingVars)
<1>1. ASSUME NEW c \in Calls, FundsArrive(c)
      PROVE  Accounts!FundingNext
  BY <1>1, PaymentIsBooked DEF Accounts!FundingNext
<1>2. ASSUME NEW c \in Calls, BroadcastFunding(c)
      PROVE  Accounts!FundingNext \/ UNCHANGED Accounts!fundingVars
  <2>1. /\ channel[c] = "funded"
        /\ UNCHANGED mempool \/ mempool' = mempool \cup {Open(c)}
    BY <1>2 DEF BroadcastFunding
  <2>2. CASE UNCHANGED mempool
    BY <2>2, NothingToBook
  <2>3. CASE mempool' = mempool \cup {Open(c)}
    BY <2>1, <2>3, FundingIsBooked DEF Accounts!FundingNext
  <2> QED
    BY <2>1, <2>2, <2>3
<1>3. \/ \E c \in Calls : FundsArrive(c) \/ BroadcastFunding(c)
      \/ UNCHANGED mempool
  BY DEF Next, vars, chain, PostOpen, PostFails, ReceiveAnswer, WaitForFunds,
     SyncFunds, OpenChannel, PostOpenChannel, AcceptChannel, Vanish,
     HandleFundingReady, SaveManager, CloseChannel, ChannelCloses,
     ListTransactions, LoadIgnoreTxids, ReturnHistory, ChargeRow, Sync, Crash
<1> QED
  BY <1>1, <1>2, <1>3, NothingToBook

\* At first there is the deposit, and nothing is paid or funded.
LEMMA AccountsInit == Init => Accounts!FundingInit
<1> SUFFICES ASSUME Init PROVE Accounts!FundingInit
  OBVIOUS
<1>1. PaidCalls = {} /\ OpenFundings = {}
  BY DEF Init, PaidCalls, OpenFundings
<1>2. Reckoned
  BY TypeInit, SafeInit, BooksInit, AuditedIsReckoned DEF Audited
<1>3. Paid = 0 /\ Funded = 0
  BY <1>1, FS_EmptySet DEF Paid, Funded
<1>4. Balance = TakerSats
  <2>1. /\ Capacity * 0 = 0 /\ (MakerAmount + Extra) * 0 = 0 /\ TakerSats \in Nat
    BY Amounts
  <2> QED
    BY <1>2, <1>3, <2>1 DEF Reckoned
<1> QED
  BY <1>1, <1>4 DEF Accounts!FundingInit

\* A channel is only ever funded once, for a call the maker has paid for and
\* with coins that are there; no failure and no interleaving moves any other
\* amount, or the same one twice.
THEOREM FundingKeepsAccounts == Spec => KeepsAccounts
<1>1. Audited => Reckoned
  BY AuditedIsReckoned
<1>2. Audited /\ Reckoned /\ Reckoned' /\ [Next]_vars
        => [Accounts!FundingNext]_(Accounts!fundingVars)
  BY AccountsStep
<1>3. Spec => []Audited
  BY TypeCorrect, ChannelsSafe, BooksBalance, PTL DEF Audited
<1> QED
  BY <1>1, <1>2, <1>3, AccountsInit, PTL DEF Spec, KeepsAccounts, Accounts!FundingSpec
=============================================================================
