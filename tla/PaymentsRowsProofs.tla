------------------------- MODULE PaymentsRowsProofs -------------------------
(***************************************************************************)
(* What becomes of single rows of the payments table, proved from the      *)
(* invariant of PaymentsProofs and from the refinement: which rows have no *)
(* expiry, which rows the history shows as Pending, and of what the event  *)
(* thread dies.                                                            *)
(***************************************************************************)
EXTENDS PaymentsProofs

USE ConstantsAssumption, NullAssumption

Recorded == {h \in Hash : HasRow(h)}

\* Events of which the table R knows the invoice; only outgoing payments have
\* paths.
Told(R) ==
    {e \in Event :
       /\ e.type \in {"PaymentReceived", "PaymentClaimed"} =>
            (e.hash \in Incoming => e.hash \in R)
       /\ e.type = "PaymentPathSuccessful" => e.hash \in Outgoing}

\* An invoice is given away, and so paid and claimed, only when it has a row.
InvoicesRecorded ==
    /\ issued \subseteq Recorded
    /\ queue \in Seq(Told(Recorded)) /\ handled \in Seq(Told(Recorded))
    /\ handler.pc # "idle" => handler.event \in Told(Recorded)

\* The rows callers are about to insert have an expiry.
CallsExpire == \A c \in Callers : call[c] # Null => call[c].row.expiry # Null

\* What a history call found expired has a row, and what it has gone through
\* is not Pending.
ListsOld ==
    \A r \in Refreshers : \A h \in history[r].due :
        HasRow(h) /\ (h \in history[r].expired \/ ~Is(h, "Pending"))

\* The thread died of the row of the event it was handling.
DeadOfItsRow ==
    handler.pc = "dead" =>
        /\ handler.event.type = "PaymentPathSuccessful"
        /\ HasRow(handler.event.hash)
        /\ ~payments[handler.event.hash].preimage

\* What a restart would raise: the events handed over since the last save,
\* and those still to come.
Log == handled \o queue

Sent(h) == [type |-> "PaymentSent", hash |-> h]
Contains(s, h) == \E j \in 1..Len(s) : s[j] = Sent(h)

\* Payments whose PaymentSent was handled, for the row's benefit or in vain.
Heard ==
    {h \in Hash : \/ HasRow(h) /\ payments[h].preimage
                  \/ \E cause \in {"no row", "failed"} : <<h, cause>> \in missed}

\* In s a successful path comes after the PaymentSent of its payment, and so it
\* will for the calls in F, if that of K was handled before.
Ordered(s, K, F) ==
    /\ \A i \in 1..Len(s) : s[i].type = "PaymentPathSuccessful" =>
         \/ s[i].hash \in K
         \/ \E j \in 1..(i - 1) : s[j] = Sent(s[i].hash)
    /\ \A p \in F : p[1] \in K \/ Contains(s, p[1])

\* The event in hand is the last one handed over, and every PaymentSent before
\* it was handled.
HandedOver ==
    /\ handler.pc # "idle" =>
         handled # <<>> /\ handled[Len(handled)] = handler.event
    /\ \A j \in 1..Len(handled), h \in Hash : handled[j] = Sent(h) =>
         h \in Heard \/ (j = Len(handled) /\ handler.pc = "handle")

FinalizingFulfilled ==
    \A h \in Outgoing, k \in 1..MaxAttempts :
        finalizing[<<h, k>>] > 0 => <<h, k>> \in fulfilled

SentFirst ==
    Ordered(Log, Heard, fulfilled) /\ HandedOver /\ FinalizingFulfilled

RowsInv == /\ InvoicesRecorded /\ CallsExpire /\ OnlySpontaneousHasNoExpiry
           /\ ListsOld /\ DeadOfItsRow /\ SentFirst

\* It holds while there is no row, no event and no call.
LEMMA RowsInit == Init => RowsInv
<1> SUFFICES ASSUME Init PROVE RowsInv
  OBVIOUS
<1>1. InvoicesRecorded
  BY EmptySeq DEF Init, InvoicesRecorded, IdleHandler
<1>2. CallsExpire /\ OnlySpontaneousHasNoExpiry
  BY DEF Init, CallsExpire, OnlySpontaneousHasNoExpiry, HasRow
<1>3. ListsOld /\ DeadOfItsRow
  BY DEF Init, ListsOld, DeadOfItsRow, IdleHistory, IdleHandler
<1>4. SentFirst
  <2>1. Len(Log) = 0 /\ Len(handled) = 0 /\ fulfilled = {}
    <3>1. Log = <<>>
      BY EmptySeq, ConcatEmptySeq DEF Init, Log
    <3> QED
      BY <3>1, EmptySeq DEF Init
  <2>2. Ordered(Log, Heard, fulfilled)
    BY <2>1 DEF Ordered
  <2>3. HandedOver /\ FinalizingFulfilled
    BY <2>1 DEF Init, HandedOver, IdleHandler, FinalizingFulfilled, PaymentId
  <2> QED
    BY <2>2, <2>3 DEF SentFirst
<1> QED
  BY <1>1, <1>2, <1>3, <1>4 DEF RowsInv

\* A row stays, keeps its expiry and its preimage and never becomes Pending
\* again: this is what the ledger promises of every step.
LEMMA RowsStay ==
  ASSUME IInv, [Next]_vars, NEW h \in Hash, HasRow(h)
  PROVE  /\ HasRow(h)' /\ payments'[h].expiry = payments[h].expiry
         /\ payments[h].preimage => payments'[h].preimage
         /\ Is(h, "Pending")' => Is(h, "Pending")
<1>0. TypeOK /\ [Ledger!LedgerNext]_<<payments, settled>>
  BY LedgerStep DEF IInv
<1>1. ASSUME NEW g \in Hash, Ledger!Settle(g) \/ Ledger!Record(g)
      PROVE  payments'[h] = payments[h]
  <2>1. CASE Ledger!Settle(g)
    BY <2>1 DEF Ledger!Settle
  <2>2. CASE Ledger!Record(g)
    <3> DEFINE row == payments'[g]
    <3>1. payments' = [payments EXCEPT ![g] = row] /\ g # h
      BY <2>2 DEF Ledger!Record, HasRow
    <3> HIDE DEF row
    <3> QED
      BY <1>0, <3>1 DEF TypeOK
  <2> QED
    BY <1>1, <2>1, <2>2
<1>2. ASSUME NEW g \in Hash, g # h, Ledger!Resolve(g)
      PROVE  payments'[h] = payments[h]
  <2> DEFINE row == payments'[g]
  <2>1. payments' = [payments EXCEPT ![g] = row]
    BY <1>2 DEF Ledger!Resolve
  <2> HIDE DEF row
  <2> QED
    BY <1>0, <1>2, <2>1 DEF TypeOK
<1>3. CASE Ledger!Resolve(h)
  <2>1. /\ payments'[h] \in Row /\ payments'[h].status # "Pending"
        /\ payments'[h].expiry = payments[h].expiry
        /\ payments[h].preimage => payments'[h].preimage
    BY <1>3 DEF Ledger!Resolve, Ledger!Entry, Ledger!FlowOf, Ledger!Statuses,
                Row
  <2> QED
    BY <2>1 DEF HasRow, Is
<1>4. payments'[h] = payments[h] \/ Ledger!Resolve(h)
  BY <1>0, <1>1, <1>2 DEF Ledger!LedgerNext, Ledger!LedgerHash, Hash
<1> QED
  BY <1>3, <1>4 DEF HasRow, Is

\* Rows only ever come.
LEMMA RecordedGrows ==
  ASSUME IInv, [Next]_vars
  PROVE  /\ Recorded \subseteq Recorded'
         /\ Told(Recorded) \subseteq Told(Recorded')
         /\ Seq(Told(Recorded)) \subseteq Seq(Told(Recorded'))
<1>1. Recorded \subseteq Recorded'
  BY RowsStay DEF Recorded
<1>2. Told(Recorded) \subseteq Told(Recorded')
  BY <1>1 DEF Told
<1> QED
  BY <1>1, <1>2, SeqMonotonic

\* A new row has an expiry, or is a spontaneous payment's.
LEMMA NewRowsExpire ==
  ASSUME IInv, InvoicesRecorded, CallsExpire, [Next]_vars,
         NEW h \in Hash, ~HasRow(h), HasRow(h)'
  PROVE  payments'[h].expiry # Null \/ h \in Spontaneous
<1>0. TypeOK /\ EventsTrue
  BY DEF IInv
<1>1. ASSUME NEW c \in Callers, RecordSent(c) \/ RecordInvoice(c)
      PROVE  payments'[h].expiry # Null
  <2>1. /\ call[c] # Null
        /\ UNCHANGED payments \/ InsertPayment(call[c].hash, call[c].row)
    BY <1>1 DEF RecordSent, RecordInvoice
  <2>2. payments'[h] = call[c].row
    BY <1>0, <2>1 DEF InsertPayment, HasRow, TypeOK
  <2> QED
    BY <2>1, <2>2 DEF CallsExpire
<1>2. ASSUME InsertClaimed PROVE h \in Spontaneous
  <2> DEFINE g == handler.event.hash
             row == NewRow("Inbound", "Succeeded", TRUE, g \in Incoming, Null)
  <2>1. /\ handler.pc = "insert"
        /\ UNCHANGED payments \/ InsertPayment(g, row)
    BY <1>2 DEF InsertClaimed
  <2>2. g \in Inbound /\ (g \in Incoming => HasRow(g))
    BY <1>0, <2>1 DEF EventsTrue, True, InvoicesRecorded, Told, Recorded
  <2> HIDE DEF g, row
  <2>3. h = g
    BY <1>0, <2>1 DEF InsertPayment, HasRow, TypeOK
  <2> QED
    BY <2>2, <2>3 DEF Inbound
<1>3. ASSUME NEW g, NEW s, UpdateStatus(g, s) PROVE FALSE
  BY <1>0, <1>3 DEF UpdateStatus, HasRow, TypeOK
<1>4. ASSUME NEW g, NEW p, NEW q, UpdateInfo(g, p, q) PROVE FALSE
  BY <1>0, <1>4 DEF UpdateInfo, HasRow, TypeOK
<1>5. ASSUME HandlePaymentSent \/ HandlePaymentFailed \/ HandlePathSuccessful
      PROVE  FALSE
  <2>1. \/ UNCHANGED payments
        \/ UpdateInfo(handler.event.hash, TRUE, FALSE)
        \/ \E s \in {"Succeeded", "Failed"} :
             UpdateStatus(handler.event.hash, s)
    BY <1>5 DEF HandlePaymentSent, HandlePaymentFailed, HandlePathSuccessful
  <2> QED
    BY <1>3, <1>4, <2>1 DEF HasRow
<1>6. ASSUME UpdateClaimed PROVE FALSE
  <2> DEFINE q == handler.event.hash \in Incoming
  <2>1. UNCHANGED payments \/ UpdateInfo(handler.event.hash, TRUE, q)
    BY <1>6, Zenon DEF UpdateClaimed
  <2> HIDE DEF q
  <2> QED
    BY <1>4, <2>1 DEF HasRow
<1>7. ASSUME NEW r \in Refreshers, ExpirePayment(r) PROVE FALSE
  <2>1. \/ UNCHANGED payments
        \/ \E g \in history[r].expired : UpdateStatus(g, "Expired")
    BY <1>7 DEF ExpirePayment
  <2> QED
    BY <1>3, <2>1 DEF HasRow
<1>8. CASE UNCHANGED payments
  BY <1>8 DEF HasRow
<1>9. \/ UNCHANGED payments
      \/ \E c \in Callers : RecordSent(c) \/ RecordInvoice(c)
      \/ HandlePaymentSent \/ HandlePaymentFailed \/ HandlePathSuccessful
      \/ UpdateClaimed \/ InsertClaimed
      \/ \E r \in Refreshers : ExpirePayment(r)
  BY DEF Next, Handle, vars, PayInvoice, SendingError, CreateInvoice,
         FulfilHtlc, FinalizeHtlc, FailHtlc, HoldPayment, TakeEvent,
         HandlePaymentReceived, HandlePaymentClaimed, Persist, LoadExpired,
         LoadHistory, Tick, Crash
<1> QED
  BY <1>1, <1>2, <1>5, <1>6, <1>7, <1>8, <1>9

\* So only spontaneous payments stay without an expiry.
LEMMA ExpiryStep ==
  IInv /\ RowsInv /\ [Next]_vars => OnlySpontaneousHasNoExpiry'
<1> SUFFICES ASSUME IInv, RowsInv, [Next]_vars, NEW h \in Hash,
                    HasRow(h)', payments'[h].expiry = Null
             PROVE  h \in Spontaneous
  BY DEF OnlySpontaneousHasNoExpiry, HasRow
<1>1. CASE HasRow(h)
  BY <1>1, RowsStay DEF RowsInv, OnlySpontaneousHasNoExpiry
<1>2. CASE ~HasRow(h)
  BY <1>2, NewRowsExpire DEF RowsInv
<1> QED
  BY <1>1, <1>2

\* Callers prepare rows with the expiry of their invoice.
LEMMA CallsExpireStep == TypeOK /\ CallsExpire /\ [Next]_vars => CallsExpire'
<1> SUFFICES ASSUME TypeOK, CallsExpire, [Next]_vars PROVE CallsExpire'
  OBVIOUS
<1>1. ASSUME NEW c \in Callers, NEW h \in Outgoing,
             PayInvoice(c, h) \/ SendingError(c, h)
      PROVE  CallsExpire'
  <2>1. PICK s \in {"Pending", "Failed"} :
          call' = [call EXCEPT ![c] = [hash |-> h, row |-> OutboundRow(s)]]
    BY <1>1 DEF PayInvoice, SendingError
  <2>2. OutboundRow(s).expiry # Null
    BY DEF OutboundRow, NewRow
  <2> QED
    BY <2>1, <2>2 DEF CallsExpire, TypeOK
<1>2. ASSUME NEW c \in Callers, NEW h \in Incoming, CreateInvoice(c, h)
      PROVE  CallsExpire'
  <2>1. call' = [call EXCEPT ![c] = [hash |-> h, row |-> InboundRow]]
    BY <1>2 DEF CreateInvoice
  <2>2. InboundRow.expiry # Null
    BY DEF InboundRow, NewRow, TypeOK
  <2> QED
    BY <2>1, <2>2 DEF CallsExpire, TypeOK
<1>3. ASSUME NEW c \in Callers, RecordSent(c) \/ RecordInvoice(c)
      PROVE  CallsExpire'
  BY <1>3 DEF RecordSent, RecordInvoice, CallsExpire, TypeOK
<1>4. CASE Crash
  BY <1>4 DEF Crash, CallsExpire
<1>5. CASE UNCHANGED call
  BY <1>5 DEF CallsExpire
<1>6. \/ UNCHANGED call \/ Crash
      \/ \E c \in Callers :
           \/ \E h \in Outgoing : PayInvoice(c, h) \/ SendingError(c, h)
           \/ \E h \in Incoming : CreateInvoice(c, h)
           \/ RecordSent(c) \/ RecordInvoice(c)
  BY DEF Next, Handle, vars, FulfilHtlc, FinalizeHtlc, FailHtlc,
         HoldPayment, TakeEvent, HandlePaymentReceived, HandlePaymentSent,
         HandlePaymentFailed, HandlePathSuccessful, HandlePaymentClaimed,
         UpdateClaimed, InsertClaimed, Persist, LoadExpired, ExpirePayment,
         LoadHistory, Tick
<1> QED
  BY <1>1, <1>2, <1>3, <1>4, <1>5, <1>6

\* Putting an event the table knows into the queue, or none, keeps
\* InvoicesRecorded, as long as more rows and no more invoices are known.
LEMMA RaiseTold ==
  ASSUME IInv, InvoicesRecorded, [Next]_vars, issued' \subseteq Recorded',
         UNCHANGED handled, UNCHANGED handler \/ handler' = IdleHandler,
         UNCHANGED queue \/ (\E e \in Told(Recorded) : queue' = Append(queue, e))
  PROVE  InvoicesRecorded'
<1>1. /\ Told(Recorded) \subseteq Told(Recorded')
      /\ Seq(Told(Recorded)) \subseteq Seq(Told(Recorded'))
  BY RecordedGrows
<1>2. queue' \in Seq(Told(Recorded))
  <2> DEFINE T == Told(Recorded)
  <2>1. queue \in Seq(T)
    BY DEF InvoicesRecorded
  <2> HIDE DEF T
  <2>2. \A e \in T : Append(queue, e) \in Seq(T)
    BY <2>1
  <2> QED
    BY <2>1, <2>2 DEF T
<1>3. handler'.pc # "idle" => handler'.event \in Told(Recorded')
  BY <1>1 DEF InvoicesRecorded, IdleHandler
<1> QED
  BY <1>1, <1>2, <1>3 DEF InvoicesRecorded

\* Every step keeps it: the row is written before the invoice is returned.
LEMMA InvoicesStep ==
  IInv /\ InvoicesRecorded /\ [Next]_vars => InvoicesRecorded'
<1> SUFFICES ASSUME IInv, InvoicesRecorded, [Next]_vars PROVE InvoicesRecorded'
  OBVIOUS
<1>0. /\ TypeOK
      /\ Recorded \subseteq Recorded'
      /\ Told(Recorded) \subseteq Told(Recorded')
      /\ Seq(Told(Recorded)) \subseteq Seq(Told(Recorded'))
  BY RecordedGrows DEF IInv
<1>1. ASSUME NEW c \in Callers, RecordInvoice(c) PROVE InvoicesRecorded'
  <2>1. \/ UNCHANGED issued
        \/ /\ issued' = issued \cup {call[c].hash}
           /\ InsertPayment(call[c].hash, call[c].row)
    BY <1>1 DEF RecordInvoice
  <2>2. /\ call[c].hash \in Hash /\ call[c].row # Null
        /\ UNCHANGED <<queue, handled, handler>>
    BY <1>0, <1>1 DEF RecordInvoice, TypeOK
  <2>3. InsertPayment(call[c].hash, call[c].row) =>
          call[c].hash \in Recorded'
    BY <1>0, <2>2 DEF InsertPayment, Recorded, HasRow, TypeOK
  <2>4. issued' \subseteq Recorded'
    BY <1>0, <2>1, <2>3 DEF InvoicesRecorded
  <2> QED
    BY <2>2, <2>4, RaiseTold
<1>2. ASSUME UNCHANGED <<issued, handled>>,
             UNCHANGED handler \/ handler' = IdleHandler,
             \/ UNCHANGED queue
             \/ \E e \in Told(Recorded) : queue' = Append(queue, e)
      PROVE  InvoicesRecorded'
  <2>1. issued' \subseteq Recorded'
    BY <1>0, <1>2 DEF InvoicesRecorded
  <2> QED
    BY <1>2, <2>1, RaiseTold
<1>3. ASSUME NEW h \in Outgoing, NEW k \in 1..MaxAttempts,
             FulfilHtlc(h, k) \/ FinalizeHtlc(h, k)
      PROVE  InvoicesRecorded'
  <2>1. \A t \in {"PaymentSent", "PaymentPathSuccessful"} :
          [type |-> t, hash |-> h] \in Told(Recorded)
    BY DEF Told, Event, SuccessTypes, Hash, Inbound
  <2>2. /\ UNCHANGED <<issued, handled, handler>>
        /\ \/ UNCHANGED queue
           \/ \E t \in {"PaymentSent", "PaymentPathSuccessful"} :
                queue' = Append(queue, [type |-> t, hash |-> h])
    BY <1>3 DEF FulfilHtlc, FinalizeHtlc, Raise
  <2> QED
    BY <1>2, <2>1, <2>2
<1>4. ASSUME NEW h \in Outgoing, NEW k \in 1..MaxAttempts, FailHtlc(h, k)
      PROVE  InvoicesRecorded'
  <2> DEFINE e == [type |-> "PaymentPathFailed", hash |-> h]
             f == [type |-> "PaymentFailed", hash |-> h]
  <2>1. e \in Told(Recorded) /\ f \in Told(Recorded)
    BY DEF Told, Event, FailureTypes, Hash
  <2>2. /\ \/ queue' = queue
           \/ queue' = Append(queue, e)
           \/ queue' = Append(Append(queue, e), f)
        /\ UNCHANGED <<issued, handled, handler, payments>>
    BY <1>4 DEF FailHtlc
  <2> HIDE DEF e, f
  <2>3. Append(queue, e) \in Seq(Told(Recorded))
    BY <2>1 DEF InvoicesRecorded
  <2>4. Append(Append(queue, e), f) \in Seq(Told(Recorded))
    BY <2>1, <2>3
  <2>5. queue' \in Seq(Told(Recorded'))
    BY <1>0, <2>2, <2>3, <2>4 DEF InvoicesRecorded
  <2> QED
    BY <1>0, <2>2, <2>5 DEF InvoicesRecorded
<1>5. ASSUME NEW h \in Inbound, HoldPayment(h) PROVE InvoicesRecorded'
  <2> DEFINE e == [type |-> "PaymentReceived", hash |-> h]
  <2>1. h \in Incoming => h \in Recorded
    BY <1>5 DEF HoldPayment, InvoicesRecorded
  <2>2. e \in Told(Recorded)
    BY <2>1 DEF Told, Event, SuccessTypes, FailureTypes, Hash
  <2>3. queue' = Append(queue, e) /\ UNCHANGED <<issued, handled, handler>>
    BY <1>5 DEF HoldPayment, Raise
  <2> HIDE DEF e
  <2> QED
    BY <1>2, <2>2, <2>3
<1>6. ASSUME TakeEvent PROVE InvoicesRecorded'
  <2>1. /\ Head(queue) \in Told(Recorded)
        /\ Tail(queue) \in Seq(Told(Recorded))
    BY <1>6, HeadTailProperties DEF TakeEvent, InvoicesRecorded
  <2>2. /\ handler' = [pc |-> "handle", event |-> Head(queue)]
        /\ queue' = Tail(queue) /\ handled' = Append(handled, Head(queue))
        /\ UNCHANGED issued
    BY <1>6 DEF TakeEvent
  <2>3. handled' \in Seq(Told(Recorded))
    BY <2>1, <2>2 DEF InvoicesRecorded
  <2>4. handler'.event \in Told(Recorded')
    BY <1>0, <2>1, <2>2
  <2> QED
    BY <1>0, <2>1, <2>2, <2>3, <2>4 DEF InvoicesRecorded
<1>7. ASSUME HandlePaymentReceived PROVE InvoicesRecorded'
  <2> DEFINE e == [type |-> "PaymentClaimed", hash |-> handler.event.hash]
  <2>1. /\ handler.event \in Told(Recorded)
        /\ handler.event.type = "PaymentReceived"
    BY <1>7 DEF HandlePaymentReceived, Handling, InvoicesRecorded
  <2>2. e \in Told(Recorded)
    BY <2>1 DEF Told, Event, SuccessTypes
  <2>3. /\ UNCHANGED queue \/ queue' = Append(queue, e)
        /\ UNCHANGED <<issued, handled>> /\ handler' = IdleHandler
    BY <1>7 DEF HandlePaymentReceived, Raise, Done
  <2> HIDE DEF e
  <2> QED
    BY <1>2, <2>2, <2>3
<1>8. ASSUME HandlePaymentClaimed \/ HandlePathSuccessful
      PROVE  InvoicesRecorded'
  <2>1. \/ handler' = IdleHandler
        \/ \E pc \in {"update", "insert", "dead"} :
             handler' = [handler EXCEPT !.pc = pc]
    BY <1>8 DEF HandlePaymentClaimed, HandlePathSuccessful, Done
  <2>2. handler.event \in Told(Recorded)
    BY <1>8 DEF HandlePaymentClaimed, HandlePathSuccessful, Handling,
                InvoicesRecorded
  <2>3. UNCHANGED <<queue, handled, issued>>
    BY <1>8 DEF HandlePaymentClaimed, HandlePathSuccessful
  <2>4. handler'.pc # "idle" => handler'.event = handler.event
    BY <1>0, <2>1 DEF IdleHandler, TypeOK
  <2> QED
    BY <1>0, <2>2, <2>3, <2>4 DEF InvoicesRecorded
<1>9. CASE Persist
  <2>1. handled' = <<>> /\ UNCHANGED <<queue, handler, issued>>
    BY <1>9 DEF Persist
  <2> QED
    BY <1>0, <2>1, EmptySeq DEF InvoicesRecorded
<1>10. CASE Crash
  <2>1. handled \o queue \in Seq(Told(Recorded))
    BY ConcatProperties DEF InvoicesRecorded
  <2>2. /\ queue' = handled \o queue /\ handled' = <<>>
        /\ handler' = IdleHandler /\ UNCHANGED issued
    BY <1>10 DEF Crash
  <2> QED
    BY <1>0, <2>1, <2>2, EmptySeq DEF InvoicesRecorded, IdleHandler
<1>11. CASE /\ UNCHANGED <<queue, handled, issued>>
            /\ UNCHANGED handler \/ handler' = IdleHandler
  BY <1>2, <1>11
<1>12. \/ /\ UNCHANGED <<queue, handled, issued>>
          /\ UNCHANGED handler \/ handler' = IdleHandler
       \/ \E c \in Callers : RecordInvoice(c)
       \/ \E h \in Outgoing, k \in 1..MaxAttempts :
            FulfilHtlc(h, k) \/ FinalizeHtlc(h, k) \/ FailHtlc(h, k)
       \/ \E h \in Inbound : HoldPayment(h)
       \/ TakeEvent \/ HandlePaymentReceived \/ HandlePaymentClaimed
       \/ HandlePathSuccessful \/ Persist \/ Crash
  BY DEF Next, Handle, vars, PayInvoice, SendingError, RecordSent,
         CreateInvoice, HandlePaymentSent, HandlePaymentFailed,
         UpdateClaimed, InsertClaimed, LoadExpired, ExpirePayment, LoadHistory,
         Tick, Done
<1> QED
  BY <1>1, <1>3, <1>4, <1>5, <1>6, <1>7, <1>8, <1>9, <1>10, <1>11, <1>12

\* What a history call has gone through stays gone through.
LEMMA ListsStep == IInv /\ ListsOld /\ [Next]_vars => ListsOld'
<1> SUFFICES ASSUME IInv, ListsOld, [Next]_vars PROVE ListsOld'
  OBVIOUS
<1>0. TypeOK
  BY DEF IInv
<1>1. ASSUME NEW q \in Refreshers, NEW h \in history[q].due
      PROVE  /\ h \in Hash /\ HasRow(h)'
             /\ h \in history[q].expired \/ ~(Is(h, "Pending")')
  <2>1. h \in Hash
    BY <1>0 DEF TypeOK
  <2> QED
    BY <2>1, RowsStay DEF ListsOld
<1>2. CASE UNCHANGED history
  BY <1>1, <1>2 DEF ListsOld
<1>3. ASSUME NEW r \in Refreshers, LoadExpired(r) PROVE ListsOld'
  <2> DEFINE expired == {h \in Hash : Expired(h)}
             loaded == [pc |-> "clean", expired |-> expired, due |-> expired]
  <2>1. history' = [history EXCEPT ![r] = loaded] \/ UNCHANGED history
    BY <1>3, Zenon DEF LoadExpired
  <2>2. \A h \in loaded.due : HasRow(h)' /\ h \in loaded.expired
    BY <1>3 DEF LoadExpired, Expired, Is, HasRow
  <2> HIDE DEF loaded
  <2>3. CASE history' = [history EXCEPT ![r] = loaded]
    <3>1. history'[r] = loaded
          /\ \A q \in Refreshers \ {r} : history'[q] = history[q]
      BY <1>0, <2>3 DEF TypeOK
    <3> QED
      BY <1>1, <2>2, <3>1 DEF ListsOld
  <2> QED
    BY <1>2, <2>1, <2>3
<1>4. ASSUME NEW r \in Refreshers, history' = [history EXCEPT ![r] = IdleHistory]
      PROVE  ListsOld'
  <2>1. history'[r].due = {} /\ \A q \in Refreshers \ {r} : history'[q] = history[q]
    BY <1>0, <1>4 DEF TypeOK, IdleHistory
  <2> QED
    BY <1>1, <2>1 DEF ListsOld
<1>5. ASSUME NEW r \in Refreshers, NEW g \in history[r].expired,
             UpdateStatus(g, "Expired"),
             history' = [history EXCEPT ![r].expired = @ \ {g}]
      PROVE  ListsOld'
  <2>1. g \in Hash /\ ~(Is(g, "Pending")')
    <3>1. g \in Hash
      BY <1>0 DEF TypeOK
    <3>2. HasRow(g) => payments'[g].status = "Expired"
      BY <1>0, <1>5, <3>1 DEF UpdateStatus, TypeOK, HasRow, Row
    <3>3. ~HasRow(g) => ~(HasRow(g)')
      BY <1>5 DEF UpdateStatus, HasRow
    <3> QED
      BY <3>1, <3>2, <3>3 DEF Is
  <2>2. /\ history'[r].expired = history[r].expired \ {g}
        /\ history'[r].due = history[r].due
        /\ \A q \in Refreshers \ {r} : history'[q] = history[q]
    BY <1>0, <1>5 DEF TypeOK
  <2> QED
    BY <1>1, <2>1, <2>2 DEF ListsOld
<1>6. CASE Crash
  BY <1>6 DEF Crash, ListsOld, IdleHistory
<1>7. ASSUME NEW r \in Refreshers, ExpirePayment(r) PROVE ListsOld'
  BY <1>4, <1>5, <1>7 DEF ExpirePayment
<1>8. \/ UNCHANGED history \/ Crash
      \/ \E r \in Refreshers :
           \/ LoadExpired(r) \/ ExpirePayment(r)
           \/ history' = [history EXCEPT ![r] = IdleHistory]
  BY DEF Next, Handle, vars, PayInvoice, SendingError, CreateInvoice,
         RecordSent, RecordInvoice, FulfilHtlc, FinalizeHtlc, FailHtlc,
         HoldPayment, TakeEvent, HandlePaymentReceived, HandlePaymentSent,
         HandlePaymentFailed, HandlePathSuccessful, HandlePaymentClaimed,
         UpdateClaimed, InsertClaimed, Persist, LoadHistory, Tick
<1> QED
  BY <1>2, <1>3, <1>4, <1>6, <1>7, <1>8

(***************************************************************************)
(* PaymentSent comes first                                                 *)
(***************************************************************************)
\* More knowledge, fewer calls: the order holds all the same.
LEMMA OrderedMonotonic ==
  ASSUME NEW s, NEW K, NEW F, NEW K2, NEW F2, K \subseteq K2, F2 \subseteq F,
         Ordered(s, K, F)
  PROVE  Ordered(s, K2, F2)
  BY DEF Ordered

\* An event at the end keeps the order, when it is a path's after its
\* PaymentSent, or the PaymentSent of the calls that are new.
LEMMA OrderedAppend ==
  ASSUME NEW s \in Seq(Event), NEW e \in Event, NEW K, NEW F, NEW F2,
         Ordered(s, K, F),
         e.type = "PaymentPathSuccessful" => e.hash \in K \/ Contains(s, e.hash),
         \A p \in F2 : p \in F \/ e = Sent(p[1])
  PROVE  Append(s, e) \in Seq(Event) /\ Ordered(Append(s, e), K, F2)
<1> DEFINE t == Append(s, e)
<1>1. /\ t \in Seq(Event) /\ Len(t) = Len(s) + 1 /\ Len(s) \in Nat
      /\ \A i \in 1..Len(s) : t[i] = s[i]
      /\ t[Len(s) + 1] = e
  BY AppendProperties
<1> HIDE DEF t
<1>2. ASSUME NEW i \in 1..Len(t), t[i].type = "PaymentPathSuccessful"
      PROVE  t[i].hash \in K \/ \E j \in 1..(i - 1) : t[j] = Sent(t[i].hash)
  <2>1. CASE i \in 1..Len(s)
    <3>1. \A j \in 1..(i - 1) : j \in 1..Len(s)
      BY <2>1
    <3>2. t[i] = s[i] /\ \A j \in 1..(i - 1) : t[j] = s[j]
      BY <1>1, <2>1, <3>1
    <3> QED
      BY <1>2, <2>1, <3>2 DEF Ordered
  <2>2. CASE i = Len(s) + 1
    <3>1. e.hash \in K \/ Contains(s, e.hash)
      BY <1>1, <1>2, <2>2
    <3> QED
      BY <1>1, <2>2, <3>1 DEF Contains
  <2> QED
    BY <1>1, <2>1, <2>2
<1>3. ASSUME NEW p \in F2 PROVE p[1] \in K \/ Contains(t, p[1])
  <2>1. CASE p \in F
    BY <1>1, <2>1 DEF Ordered, Contains
  <2>2. CASE e = Sent(p[1])
    BY <1>1, <2>2 DEF Contains
  <2> QED
    BY <2>1, <2>2
<1>4. Ordered(t, K, F2)
  BY <1>2, <1>3 DEF Ordered
<1> QED
  BY <1>1, <1>4 DEF t

\* Events whose PaymentSents were all handled may be forgotten.
LEMMA OrderedSuffix ==
  ASSUME NEW s \in Seq(Event), NEW t \in Seq(Event), NEW K, NEW F,
         F \subseteq PaymentId, Ordered(s \o t, K, F),
         \A h \in Hash : Contains(s, h) => h \in K
  PROVE  Ordered(t, K, F)
<1> DEFINE u == s \o t
           n == Len(s)
<1>1. /\ Len(u) = n + Len(t) /\ n \in Nat /\ Len(t) \in Nat
      /\ \A i \in 1..n : u[i] = s[i]
      /\ \A i \in 1..Len(t) : u[n + i] = t[i]
  BY ConcatProperties
<1>2. Ordered(u, K, F)
  OBVIOUS
<1> HIDE DEF u, n
<1>3. ASSUME NEW h \in Hash, NEW j \in 1..Len(u), u[j] = Sent(h)
      PROVE  h \in K \/ (j > n /\ t[j - n] = Sent(h))
  <2>1. CASE j <= n
    BY <1>1, <1>3, <2>1 DEF Contains, n
  <2>2. CASE j > n
    <3>1. j - n \in 1..Len(t) /\ j = n + (j - n)
      BY <1>1, <2>2
    <3> QED
      BY <1>1, <1>3, <2>2, <3>1
  <2> QED
    BY <1>1, <2>1, <2>2
<1>4. ASSUME NEW i \in 1..Len(t), t[i].type = "PaymentPathSuccessful"
      PROVE  t[i].hash \in K \/ \E j \in 1..(i - 1) : t[j] = Sent(t[i].hash)
  <2>0. t[i] \in Event
    BY ElementOfSeq
  <2>1. n + i \in 1..Len(u) /\ u[n + i] = t[i] /\ t[i].hash \in Hash
    BY <1>1, <2>0 DEF Event
  <2>3. ASSUME NEW j \in 1..(n + i - 1), u[j] = Sent(t[i].hash)
        PROVE  t[i].hash \in K \/ \E l \in 1..(i - 1) : t[l] = Sent(t[i].hash)
    <3>0. n \in Nat /\ Len(t) \in Nat /\ Len(u) = n + Len(t)
      BY <1>1
    <3>1. j \in 1..Len(u)
      BY <3>0
    <3>2. j > n => j - n \in 1..(i - 1)
      BY <3>0
    <3>3. t[i].hash \in K \/ (j > n /\ t[j - n] = Sent(t[i].hash))
      BY <1>3, <2>1, <2>3, <3>1
    <3> QED
      BY <3>2, <3>3
  <2>4. \/ t[i].hash \in K
        \/ \E j \in 1..(n + i - 1) : u[j] = Sent(t[i].hash)
    <3>0. PICK m : m = n + i
      OBVIOUS
    <3>1. m \in 1..Len(u) /\ u[m] = t[i]
      BY <2>1, <3>0
    <3>2. u[m].hash \in K \/ \E j \in 1..(m - 1) : u[j] = Sent(u[m].hash)
      BY <1>2, <1>4, <3>1 DEF Ordered
    <3> QED
      BY <1>1, <3>0, <3>1, <3>2
  <2> QED
    BY <2>3, <2>4
<1>5. ASSUME NEW p \in F PROVE p[1] \in K \/ Contains(t, p[1])
  <2>1. p[1] \in Hash
    BY DEF PaymentId, Hash
  <2>2. CASE p[1] \in K
    BY <2>2
  <2>3. ASSUME NEW j \in 1..Len(u), u[j] = Sent(p[1])
        PROVE  p[1] \in K \/ Contains(t, p[1])
    <3>1. j > n => j - n \in 1..Len(t)
      BY <1>1
    <3> QED
      BY <1>3, <2>1, <2>3, <3>1 DEF Contains
  <2> QED
    BY <1>2, <2>2, <2>3 DEF Ordered, Contains
<1> QED
  BY <1>4, <1>5 DEF Ordered

\* Moving the head of a sequence to the end of the one before it changes
\* nothing in the two together.
LEMMA HeadMoves ==
  ASSUME NEW S, NEW s \in Seq(S), NEW t \in Seq(S), t # <<>>
  PROVE  Append(s, Head(t)) \o Tail(t) = s \o t
<1>1. PICK n : n = Len(s) /\ n \in Nat
  BY LenProperties
<1>2. PICK a : a = Append(s, Head(t))
  OBVIOUS
<1>3. PICK b : b = Tail(t)
  OBVIOUS
<1>4. /\ a \in Seq(S) /\ Len(a) = n + 1 /\ a[n + 1] = t[1]
      /\ \A i \in 1..n : a[i] = s[i]
  BY <1>1, <1>2, HeadTailProperties, AppendProperties
<1>5. /\ b \in Seq(S) /\ Len(b) = Len(t) - 1 /\ Len(t) \in Nat \ {0}
      /\ \A i \in 1..Len(b) : b[i] = t[i + 1]
  BY <1>3, HeadTailProperties, EmptySeq
<1>6. PICK u : u = a \o b
  OBVIOUS
<1>7. PICK v : v = s \o t
  OBVIOUS
<1>8. /\ u \in Seq(S) /\ Len(u) = Len(a) + Len(b)
      /\ \A i \in 1..Len(a) + Len(b) :
           u[i] = IF i <= Len(a) THEN a[i] ELSE b[i - Len(a)]
  <2>1. a \in Seq(S) /\ b \in Seq(S)
    BY <1>4, <1>5
  <2> QED
    BY <1>6, <2>1, ConcatProperties
<1>9. /\ v \in Seq(S) /\ Len(v) = n + Len(t)
      /\ \A i \in 1..n + Len(t) :
           v[i] = IF i <= n THEN s[i] ELSE t[i - n]
  BY <1>1, <1>7, ConcatProperties
<1>10. Len(u) = n + Len(t)
  BY <1>1, <1>4, <1>5, <1>8
<1>11. ASSUME NEW i \in 1..n + Len(t) PROVE u[i] = v[i]
  <2>1. u[i] = IF i <= n + 1 THEN a[i] ELSE b[i - (n + 1)]
    BY <1>4, <1>8, <1>10
  <2>2. CASE i <= n
    BY <1>1, <1>4, <1>9, <2>1, <2>2
  <2>3. CASE i = n + 1
    BY <1>1, <1>4, <1>9, <2>1, <2>3
  <2>4. CASE i > n + 1
    <3>1. PICK k : k = i - (n + 1)
      OBVIOUS
    <3>2. /\ k \in 1..Len(b) /\ k + 1 = i - n
          /\ ~(i <= n) /\ ~(i <= n + 1)
      BY <1>1, <1>5, <2>4, <3>1
    <3>3. u[i] = b[k]
      BY <2>1, <3>1, <3>2
    <3>4. v[i] = t[i - n]
      BY <1>9, <3>2
    <3>5. b[k] = t[k + 1]
      BY <1>5, <3>2
    <3> QED
      BY <3>2, <3>3, <3>4, <3>5
  <2> QED
    BY <1>1, <2>2, <2>3, <2>4
<1> QED
  BY <1>2, <1>3, <1>6, <1>7, <1>8, <1>9, <1>10, <1>11, SeqEqual

\* Appending to the second of two sequences appends to the two together.
LEMMA AppendAfter ==
  ASSUME NEW s \in Seq(Event), NEW t \in Seq(Event), NEW e \in Event
  PROVE  s \o Append(t, e) = Append(s \o t, e)
<1>1. s \o t \in Seq(Event) /\ <<e>> \in Seq(Event)
  BY ConcatProperties
<1>2. Append(t, e) = t \o <<e>> /\ Append(s \o t, e) = (s \o t) \o <<e>>
  BY <1>1, AppendIsConcat
<1> QED
  BY <1>1, <1>2, ConcatAssociative, SMTT(20)

\* Raising an event and handing one over, seen in the log.
LEMMA LogProperties ==
  ASSUME TypeOK
  PROVE  /\ Log \in Seq(Event)
         /\ \A e \in Event : handled \o Append(queue, e) = Append(Log, e)
         /\ queue # <<>> => Append(handled, Head(queue)) \o Tail(queue) = Log
<1>1. handled \in Seq(Event) /\ queue \in Seq(Event)
  BY DEF TypeOK
<1>2. Log \in Seq(Event)
  BY <1>1, ConcatProperties DEF Log
<1>3. \A e \in Event : handled \o Append(queue, e) = Append(Log, e)
  <2> SUFFICES ASSUME NEW e \in Event
               PROVE  handled \o Append(queue, e) = Append(handled \o queue, e)
    BY DEF Log
  <2> QED
    BY <1>1, AppendAfter, Zenon
<1>4. ASSUME queue # <<>>
      PROVE  Append(handled, Head(queue)) \o Tail(queue) = Log
  BY <1>1, <1>4, HeadMoves DEF Log
<1> QED
  BY <1>2, <1>3, <1>4

\* So do two events at once.
LEMMA LogTwice ==
  ASSUME TypeOK, NEW e \in Event, NEW f \in Event, UNCHANGED handled,
         queue' = Append(Append(queue, e), f)
  PROVE  Log' = Append(Append(Log, e), f)
<1>1. /\ handled \in Seq(Event) /\ queue \in Seq(Event) /\ Log \in Seq(Event)
      /\ Append(queue, e) \in Seq(Event)
      /\ handled \o Append(queue, e) = Append(Log, e)
  BY LogProperties, AppendProperties DEF TypeOK
<1>2. PICK q \in Seq(Event) : q = Append(queue, e)
  BY <1>1
<1>3. handled \o Append(q, f) = Append(handled \o q, f)
  <2>1. handled \in Seq(Event) /\ q \in Seq(Event) /\ f \in Event
    BY <1>1
  <2> QED
    BY <2>1, AppendAfter, Zenon
<1>4. Log' = handled \o Append(q, f)
  BY <1>2 DEF Log
<1> QED
  BY <1>1, <1>2, <1>3, <1>4, Zenon

\* What was handled stays handled.
LEMMA HeardGrows == IInv /\ [Next]_vars => Heard \subseteq Heard'
<1> SUFFICES ASSUME IInv, [Next]_vars PROVE Heard \subseteq Heard'
  OBVIOUS
<1>1. missed \subseteq missed'
  BY DEF Next, Handle, vars, PayInvoice, SendingError, RecordSent,
         CreateInvoice, RecordInvoice, FulfilHtlc, FinalizeHtlc, FailHtlc,
         HoldPayment, TakeEvent, HandlePaymentReceived, HandlePaymentSent,
         HandlePaymentFailed, HandlePathSuccessful, HandlePaymentClaimed,
         UpdateClaimed, InsertClaimed, Persist, LoadExpired, ExpirePayment,
         LoadHistory, Tick, Crash
<1>2. \A h \in Hash : HasRow(h) /\ payments[h].preimage
        => HasRow(h)' /\ payments'[h].preimage
  BY RowsStay
<1> QED
  BY <1>1, <1>2 DEF Heard, HasRow

\* A PaymentSent that has been handled is heard of.
LEMMA SentIsHeard ==
  ASSUME TypeOK, HandlePaymentSent
  PROVE  handler.event.hash \in Heard'
<1> DEFINE h == handler.event.hash
<1>1. h \in Hash
  BY DEF HandlePaymentSent, Handling, TypeOK, Event
<1>2. CASE \E cause \in {"no row", "failed"} : <<h, cause>> \in missed'
  BY <1>1, <1>2 DEF Heard
<1>3. CASE HasRow(h) /\ UpdateInfo(h, TRUE, FALSE)
  <2>1. payments'[h] = [payments[h] EXCEPT !.status = "Succeeded",
                                           !.preimage = TRUE, !.secret = FALSE]
    BY <1>1, <1>3 DEF UpdateInfo, TypeOK
  <2>2. payments[h] \in Row
    BY <1>1, <1>3 DEF HasRow, TypeOK
  <2>3. payments'[h] # Null /\ payments'[h].preimage
    BY <2>1, <2>2 DEF Row
  <2> QED
    BY <1>1, <2>3 DEF Heard, HasRow
<1>4. \/ HasRow(h) /\ UpdateInfo(h, TRUE, FALSE)
      \/ \E cause \in {"no row", "failed"} : missed' = missed \cup {<<h, cause>>}
  BY DEF HandlePaymentSent
<1> QED
  BY <1>2, <1>3, <1>4

\* The event thread handles one event after the other.
LEMMA HandedOverStep ==
  IInv /\ HandedOver /\ [Next]_vars => HandedOver'
<1> SUFFICES ASSUME IInv, HandedOver, [Next]_vars PROVE HandedOver'
  OBVIOUS
<1>0. TypeOK /\ EventsTrue /\ Heard \subseteq Heard'
  BY HeardGrows DEF IInv
<1>1. CASE UNCHANGED <<handled, handler>>
  BY <1>0, <1>1 DEF HandedOver
<1>2. ASSUME UNCHANGED handled, handler.pc # "idle", handler'.pc # "handle",
             handler'.pc # "idle" => handler'.event = handler.event,
             \A h \in Hash : handler.pc = "handle" /\ handler.event = Sent(h)
                            => h \in Heard'
      PROVE  HandedOver'
  BY <1>0, <1>2 DEF HandedOver
<1>3. ASSUME TakeEvent PROVE HandedOver'
  <2>1. Head(queue) \in Event
    BY <1>0, <1>3, HeadTailProperties DEF TakeEvent, TypeOK
  <2>2. /\ handler.pc = "idle" /\ handled' = Append(handled, Head(queue))
        /\ handler' = [pc |-> "handle", event |-> Head(queue)]
    BY <1>3 DEF TakeEvent
  <2>3. /\ handled' # <<>> /\ Len(handled) \in Nat
        /\ Len(handled') = Len(handled) + 1
        /\ \A j \in 1..Len(handled) : handled'[j] = handled[j]
        /\ handled'[Len(handled')] = Head(queue)
    BY <1>0, <2>1, <2>2, AppendProperties, LenProperties DEF TypeOK
  <2>4. ASSUME NEW j \in 1..Len(handled'), NEW h \in Hash, handled'[j] = Sent(h),
               j # Len(handled')
        PROVE  h \in Heard'
    <3>1. j \in 1..Len(handled) /\ handled[j] = Sent(h)
      BY <2>3, <2>4
    <3> QED
      BY <1>0, <2>2, <3>1 DEF HandedOver
  <2> QED
    BY <2>2, <2>3, <2>4 DEF HandedOver
<1>4. CASE Persist \/ Crash
  <2>1. handled' = <<>> /\ Len(handled') = 0 /\ handler'.pc = "idle"
    BY <1>4, EmptySeq DEF Persist, Crash, IdleHandler
  <2> QED
    BY <2>1 DEF HandedOver
<1>5. ASSUME HandlePaymentSent PROVE HandedOver'
  <2>1. handler.event.hash \in Heard' /\ handler' = IdleHandler
        /\ UNCHANGED handled /\ handler.pc # "idle"
    BY <1>0, <1>5, SentIsHeard DEF HandlePaymentSent, Handling, Done
  <2> QED
    BY <1>2, <2>1 DEF Sent, IdleHandler
<1>6. ASSUME \/ HandlePaymentReceived \/ HandlePaymentFailed
             \/ HandlePathSuccessful \/ HandlePaymentClaimed
             \/ UpdateClaimed \/ InsertClaimed
      PROVE  HandedOver'
  <2>1. UNCHANGED handled /\ handler.pc # "idle"
    BY <1>6 DEF HandlePaymentReceived, HandlePaymentFailed,
         HandlePathSuccessful, HandlePaymentClaimed, UpdateClaimed,
         InsertClaimed, Handling
  <2>2. handler.event.type # "PaymentSent"
    BY <1>0, <1>6 DEF HandlePaymentReceived, HandlePaymentFailed, FailureTypes,
         HandlePathSuccessful, HandlePaymentClaimed, UpdateClaimed,
         InsertClaimed, Handling, EventsTrue
  <2>3. \/ handler' = IdleHandler
        \/ \E pc \in {"update", "insert", "dead"} :
             handler' = [handler EXCEPT !.pc = pc]
    BY <1>6 DEF HandlePaymentReceived, HandlePaymentFailed,
         HandlePathSuccessful, HandlePaymentClaimed, UpdateClaimed,
         InsertClaimed, Done
  <2>4. /\ handler'.pc # "handle"
        /\ handler'.pc # "idle" => handler'.event = handler.event
    BY <1>0, <2>3 DEF IdleHandler, TypeOK
  <2> QED
    BY <1>2, <2>1, <2>2, <2>4 DEF Sent
<1>7. \/ UNCHANGED <<handled, handler>>
      \/ TakeEvent \/ Persist \/ Crash \/ HandlePaymentSent
      \/ HandlePaymentReceived \/ HandlePaymentFailed
      \/ HandlePathSuccessful \/ HandlePaymentClaimed
      \/ UpdateClaimed \/ InsertClaimed
  BY DEF Next, Handle, vars, PayInvoice, SendingError, RecordSent,
         CreateInvoice, RecordInvoice, FulfilHtlc, FinalizeHtlc, FailHtlc,
         HoldPayment, LoadExpired, ExpirePayment, LoadHistory, Tick
<1> QED
  BY <1>1, <1>3, <1>4, <1>5, <1>6, <1>7

\* HTLCs are finalised after they were fulfilled.
LEMMA FulfilledStep ==
  TypeOK /\ FinalizingFulfilled /\ [Next]_vars => FinalizingFulfilled'
<1> SUFFICES ASSUME TypeOK, FinalizingFulfilled, [Next]_vars
             PROVE  FinalizingFulfilled'
  OBVIOUS
<1>1. ASSUME NEW h \in Outgoing, NEW k \in 1..MaxAttempts, FulfilHtlc(h, k)
      PROVE  FinalizingFulfilled'
  <2>1. /\ finalizing' = [finalizing EXCEPT ![<<h, k>>] = @ + 1]
        /\ fulfilled' = fulfilled \cup {<<h, k>>}
    BY <1>1 DEF FulfilHtlc
  <2> QED
    BY <2>1 DEF FinalizingFulfilled, TypeOK, PaymentId
<1>2. ASSUME NEW h \in Outgoing, NEW k \in 1..MaxAttempts, FinalizeHtlc(h, k)
      PROVE  FinalizingFulfilled'
  <2>1. /\ finalizing' = [finalizing EXCEPT ![<<h, k>>] = @ - 1]
        /\ finalizing[<<h, k>>] > 0 /\ UNCHANGED fulfilled
    BY <1>2 DEF FinalizeHtlc
  <2> QED
    BY <2>1 DEF FinalizingFulfilled, TypeOK, PaymentId
<1>3. CASE UNCHANGED <<finalizing, fulfilled>>
  BY <1>3 DEF FinalizingFulfilled
<1>4. \/ UNCHANGED <<finalizing, fulfilled>>
      \/ \E h \in Outgoing, k \in 1..MaxAttempts :
           FulfilHtlc(h, k) \/ FinalizeHtlc(h, k)
  BY DEF Next, Handle, vars, ldk, PayInvoice, SendingError, RecordSent,
         CreateInvoice, RecordInvoice, FailHtlc, HoldPayment, TakeEvent,
         HandlePaymentReceived, HandlePaymentSent, HandlePaymentFailed,
         HandlePathSuccessful, HandlePaymentClaimed, UpdateClaimed,
         InsertClaimed, Persist, LoadExpired, ExpirePayment, LoadHistory, Tick,
         Crash
<1> QED
  BY <1>1, <1>2, <1>3, <1>4

\* LDK raises PaymentSent before it finalises any HTLC of the payment, and
\* neither a save nor a restart separates the two.
LEMMA OrderedStep ==
  IInv /\ SentFirst /\ [Next]_vars => Ordered(Log, Heard, fulfilled)'
<1> SUFFICES ASSUME IInv, SentFirst, [Next]_vars
             PROVE  Ordered(Log', Heard', fulfilled')
  BY DEF Ordered, Contains
<1>0. /\ TypeOK /\ Heard \subseteq Heard' /\ Log \in Seq(Event)
      /\ Ordered(Log, Heard', fulfilled) /\ fulfilled \subseteq PaymentId
  <2>1. TypeOK /\ Heard \subseteq Heard' /\ Ordered(Log, Heard, fulfilled)
    BY HeardGrows DEF IInv, SentFirst
  <2>2. Ordered(Log, Heard', fulfilled)
    BY <2>1, OrderedMonotonic
  <2>3. Log \in Seq(Event) /\ fulfilled \subseteq PaymentId
    BY <2>1, LogProperties DEF TypeOK
  <2> QED
    BY <2>1, <2>2, <2>3
<1>1. ASSUME NEW e \in Event, queue' = Append(queue, e), UNCHANGED handled,
             e.type = "PaymentPathSuccessful"
               => e.hash \in Heard \/ Contains(Log, e.hash),
             \A p \in fulfilled' : p \in fulfilled \/ e = Sent(p[1])
      PROVE  Ordered(Log', Heard', fulfilled')
  <2>1. Log' = Append(Log, e)
    BY <1>0, <1>1, LogProperties DEF Log
  <2> QED
    BY <1>0, <1>1, <2>1, OrderedAppend
<1>2. CASE UNCHANGED <<queue, handled, fulfilled>>
  BY <1>0, <1>2 DEF Log
<1>3. ASSUME NEW h \in Outgoing, NEW k \in 1..MaxAttempts, FulfilHtlc(h, k)
      PROVE  Ordered(Log', Heard', fulfilled')
  <2>1. Sent(h) \in Event /\ Sent(h).type # "PaymentPathSuccessful"
    BY DEF Sent, Event, SuccessTypes, Hash
  <2>2. /\ fulfilled' = fulfilled \cup {<<h, k>>} /\ UNCHANGED handled
        /\ \/ <<h, k>> \in fulfilled /\ UNCHANGED queue
           \/ queue' = Append(queue, Sent(h))
    BY <1>3 DEF FulfilHtlc, Raise, Sent
  <2>3. CASE <<h, k>> \in fulfilled /\ UNCHANGED queue
    <3>1. UNCHANGED <<queue, handled, fulfilled>>
      BY <2>2, <2>3
    <3> QED
      BY <1>2, <3>1
  <2>4. CASE queue' = Append(queue, Sent(h))
    <3>1. \A p \in fulfilled' : p \in fulfilled \/ Sent(h) = Sent(p[1])
      BY <2>2
    <3> QED
      BY <1>1, <2>1, <2>2, <2>4, <3>1
  <2> QED
    BY <2>2, <2>3, <2>4
<1>4. ASSUME NEW h \in Outgoing, NEW k \in 1..MaxAttempts, FinalizeHtlc(h, k)
      PROVE  Ordered(Log', Heard', fulfilled')
  <2> DEFINE e == [type |-> "PaymentPathSuccessful", hash |-> h]
  <2>1. e \in Event /\ e.hash = h
    BY DEF Event, SuccessTypes, Hash
  <2>2. <<h, k>> \in fulfilled
    BY <1>4 DEF FinalizeHtlc, SentFirst, FinalizingFulfilled
  <2>3. h \in Heard \/ Contains(Log, h)
    BY <2>2 DEF SentFirst, Ordered
  <2>4. queue' = Append(queue, e) /\ UNCHANGED <<handled, fulfilled>>
    BY <1>4 DEF FinalizeHtlc, Raise
  <2> HIDE DEF e
  <2> QED
    BY <1>1, <2>1, <2>3, <2>4
<1>5. ASSUME NEW h \in Outgoing, NEW k \in 1..MaxAttempts, FailHtlc(h, k)
      PROVE  Ordered(Log', Heard', fulfilled')
  <2> DEFINE e == [type |-> "PaymentPathFailed", hash |-> h]
             f == [type |-> "PaymentFailed", hash |-> h]
  <2>1. /\ e \in Event /\ e.type # "PaymentPathSuccessful"
        /\ f \in Event /\ f.type # "PaymentPathSuccessful"
    BY DEF Event, FailureTypes, Hash
  <2>2. /\ \/ queue' = queue
           \/ queue' = Append(queue, e)
           \/ queue' = Append(Append(queue, e), f)
        /\ UNCHANGED <<handled, fulfilled>>
    BY <1>5 DEF FailHtlc
  <2> HIDE DEF e, f
  <2>3. CASE queue' = Append(Append(queue, e), f)
    <3>1. /\ Append(Log, e) \in Seq(Event)
          /\ Ordered(Append(Log, e), Heard', fulfilled)
          /\ Ordered(Append(Append(Log, e), f), Heard', fulfilled)
      BY <1>0, <2>1, OrderedAppend
    <3>2. Log' = Append(Append(Log, e), f)
      BY <1>0, <2>1, <2>2, <2>3, LogTwice
    <3> QED
      BY <2>2, <3>1, <3>2
  <2> QED
    BY <1>1, <1>2, <2>1, <2>2, <2>3
<1>6. ASSUME NEW h \in Inbound, HoldPayment(h)
      PROVE  Ordered(Log', Heard', fulfilled')
  <2> DEFINE e == [type |-> "PaymentReceived", hash |-> h]
  <2>1. e \in Event /\ e.type # "PaymentPathSuccessful"
    BY DEF Event, Hash
  <2>2. queue' = Append(queue, e) /\ UNCHANGED <<handled, fulfilled>>
    BY <1>6 DEF HoldPayment, Raise
  <2> HIDE DEF e
  <2> QED
    BY <1>1, <2>1, <2>2
<1>7. ASSUME HandlePaymentReceived PROVE Ordered(Log', Heard', fulfilled')
  <2> DEFINE e == [type |-> "PaymentClaimed", hash |-> handler.event.hash]
  <2>0. handler.event \in Event
    BY <1>0, <1>7 DEF HandlePaymentReceived, Handling, TypeOK
  <2>1. e \in Event /\ e.type # "PaymentPathSuccessful"
    BY <2>0 DEF Event, SuccessTypes
  <2>2. /\ UNCHANGED queue \/ queue' = Append(queue, e)
        /\ UNCHANGED <<handled, fulfilled>>
    BY <1>7 DEF HandlePaymentReceived, Raise
  <2> HIDE DEF e
  <2> QED
    BY <1>1, <1>2, <2>1, <2>2
<1>8. ASSUME TakeEvent PROVE Ordered(Log', Heard', fulfilled')
  <2>1. Log' = Log /\ UNCHANGED fulfilled
    BY <1>0, <1>8, LogProperties DEF TakeEvent, Log, ldk
  <2> QED
    BY <1>0, <2>1
<1>9. ASSUME Crash PROVE Ordered(Log', Heard', fulfilled')
  <2>1. Log' = Log /\ UNCHANGED fulfilled
    BY <1>0, <1>9, ConcatEmptySeq DEF Crash, Log, ldk
  <2> QED
    BY <1>0, <2>1
<1>10. ASSUME Persist PROVE Ordered(Log', Heard', fulfilled')
  <2>1. \A h \in Hash : Contains(handled, h) => h \in Heard'
    BY <1>0, <1>10 DEF Persist, Contains, SentFirst, HandedOver
  <2>2. handled \in Seq(Event) /\ queue \in Seq(Event)
    BY <1>0 DEF TypeOK
  <2>3. Ordered(queue, Heard', fulfilled)
    BY <1>0, <2>1, <2>2, OrderedSuffix DEF Log
  <2>4. Log' = queue /\ UNCHANGED fulfilled
    BY <1>10, <2>2, ConcatEmptySeq DEF Persist, Log, ldk
  <2> QED
    BY <2>3, <2>4
<1>11. \/ UNCHANGED <<queue, handled, fulfilled>>
       \/ \E h \in Outgoing, k \in 1..MaxAttempts :
            FulfilHtlc(h, k) \/ FinalizeHtlc(h, k) \/ FailHtlc(h, k)
       \/ \E h \in Inbound : HoldPayment(h)
       \/ HandlePaymentReceived \/ TakeEvent \/ Crash \/ Persist
  BY DEF Next, Handle, vars, ldk, PayInvoice, SendingError, RecordSent,
         CreateInvoice, RecordInvoice, HandlePaymentSent, HandlePaymentFailed,
         HandlePathSuccessful, HandlePaymentClaimed, UpdateClaimed,
         InsertClaimed, LoadExpired, ExpirePayment, LoadHistory, Tick
<1> QED
  BY <1>2, <1>3, <1>4, <1>5, <1>6, <1>7, <1>8, <1>9, <1>10, <1>11

\* So a path's success is never handled before its PaymentSent.
LEMMA SentFirstStep == IInv /\ SentFirst /\ [Next]_vars => SentFirst'
  BY OrderedStep, HandedOverStep, FulfilledStep DEF SentFirst, IInv

\* In particular that of the path the thread died of was handled.
LEMMA DeadHeard ==
  ASSUME TypeOK, SentFirst, handler.pc = "dead",
         handler.event.type = "PaymentPathSuccessful"
  PROVE  handler.event.hash \in Heard
<1> DEFINE h == handler.event.hash
           n == Len(handled)
<1>1. handled \in Seq(Event) /\ queue \in Seq(Event) /\ handler.event \in Event
  BY DEF TypeOK
<1>2. /\ n \in Nat \ {0} /\ handled[n] = handler.event /\ h \in Hash
  BY <1>1, EmptySeq DEF SentFirst, HandedOver, Event
<1>3. /\ n \in 1..Len(Log) /\ \A i \in 1..n : Log[i] = handled[i]
  BY <1>1, <1>2, ConcatProperties, LenProperties DEF Log
<1>4. CASE h \in Heard
  BY <1>4
<1>5. ASSUME NEW j \in 1..(n - 1), Log[j] = Sent(h) PROVE h \in Heard
  <2>1. j \in 1..n /\ handled[j] = Sent(h)
    BY <1>2, <1>3, <1>5
  <2> QED
    BY <1>2, <2>1 DEF SentFirst, HandedOver
<1>6. h \in Heard \/ \E j \in 1..(n - 1) : Log[j] = Sent(h)
  BY <1>2, <1>3 DEF SentFirst, Ordered
<1> QED
  BY <1>4, <1>5, <1>6

\* When the thread dies its row has no preimage, and nothing but the dead
\* thread would give it one.
LEMMA DeadStep ==
  IInv /\ InvoicesRecorded /\ DeadOfItsRow /\ [Next]_vars => DeadOfItsRow'
<1> SUFFICES ASSUME IInv, InvoicesRecorded, DeadOfItsRow, [Next]_vars
             PROVE  DeadOfItsRow'
  OBVIOUS
<1>0. TypeOK
  BY DEF IInv
<1>1. ASSUME NEW h \in Hash, HasRow(h),
             \/ UNCHANGED payments
             \/ \E g \in Hash : \E s : UpdateStatus(g, s)
             \/ \E g \in Hash : \E row : InsertPayment(g, row)
      PROVE  payments'[h].preimage = payments[h].preimage
  <2>1. CASE UNCHANGED payments
    BY <2>1
  <2>2. ASSUME NEW g \in Hash, NEW s, UpdateStatus(g, s)
        PROVE  payments'[h].preimage = payments[h].preimage
    <3>1. CASE g = h
      <4>1. payments'[h] = [payments[h] EXCEPT !.status = s]
        BY <1>0, <1>1, <2>2, <3>1 DEF UpdateStatus, TypeOK
      <4>2. payments[h] \in Row
        BY <1>0, <1>1 DEF HasRow, TypeOK
      <4> QED
        BY <4>1, <4>2 DEF Row
    <3>2. CASE g # h
      BY <1>0, <2>2, <3>2 DEF UpdateStatus, TypeOK
    <3> QED
      BY <3>1, <3>2
  <2>3. ASSUME NEW g \in Hash, NEW row, InsertPayment(g, row)
        PROVE  payments'[h] = payments[h]
    BY <1>0, <1>1, <2>3 DEF InsertPayment, HasRow, TypeOK
  <2> QED
    BY <1>1, <2>1, <2>2, <2>3
<1>2. CASE handler.pc = "dead" /\ UNCHANGED handler
  <2>1. handler.event.hash \in Hash
    BY <1>0, <1>2 DEF TypeOK, Event
  <2>2. \/ UNCHANGED payments
        \/ \E c \in Callers : RecordSent(c) \/ RecordInvoice(c)
        \/ \E r \in Refreshers : ExpirePayment(r)
    BY <1>2 DEF Next, Handle, Handling, vars, PayInvoice, SendingError,
         CreateInvoice, FulfilHtlc, FinalizeHtlc, FailHtlc, HoldPayment,
         TakeEvent, HandlePaymentReceived, HandlePaymentSent,
         HandlePaymentFailed, HandlePathSuccessful, HandlePaymentClaimed,
         UpdateClaimed, InsertClaimed, Persist, LoadExpired, LoadHistory,
         Tick, Crash
  <2>3. \/ UNCHANGED payments
        \/ \E g \in Hash : \E s : UpdateStatus(g, s)
        \/ \E g \in Hash : \E row : InsertPayment(g, row)
    <3>1. ASSUME NEW c \in Callers, RecordSent(c) \/ RecordInvoice(c)
          PROVE  <2>3
      BY <1>0, <3>1 DEF RecordSent, RecordInvoice, TypeOK
    <3>2. ASSUME NEW r \in Refreshers, ExpirePayment(r) PROVE <2>3
      BY <1>0, <3>2 DEF ExpirePayment, TypeOK
    <3> QED
      BY <2>2, <3>1, <3>2
  <2>4. /\ HasRow(handler.event.hash)
        /\ handler.event.type = "PaymentPathSuccessful"
        /\ ~payments[handler.event.hash].preimage
    BY <1>2 DEF DeadOfItsRow
  <2>5. /\ HasRow(handler.event.hash)'
        /\ payments'[handler.event.hash].preimage
             = payments[handler.event.hash].preimage
    BY <1>1, <1>2, <2>1, <2>3, <2>4, RowsStay DEF HasRow
  <2> QED
    BY <1>2, <2>4, <2>5 DEF DeadOfItsRow, HasRow
<1>3. CASE HandlePathSuccessful /\ handler' = [handler EXCEPT !.pc = "dead"]
  <2> DEFINE h == handler.event.hash
  <2>1. handler.event.type = "PaymentPathSuccessful" /\ h \in Hash
    BY <1>0, <1>3 DEF HandlePathSuccessful, Handling, TypeOK, Event
  <2>2. handler'.event = handler.event
    BY <1>0, <1>3 DEF TypeOK
  <2>3. Panics(h) /\ (UNCHANGED payments \/ UpdateStatus(h, "Succeeded"))
    <3>1. handler' # IdleHandler
      BY <1>0, <1>3 DEF IdleHandler, TypeOK
    <3> QED
      BY <1>3, <3>1 DEF HandlePathSuccessful, Done
  <2>4. payments'[h].preimage = payments[h].preimage /\ payments'[h] # Null
    <3> HIDE DEF h
    <3>1. HasRow(h)
      BY <2>3 DEF Panics
    <3>2. payments'[h].preimage = payments[h].preimage
      BY <1>1, <2>1, <2>3, <3>1
    <3> QED
      BY <2>1, <3>1, <3>2, RowsStay DEF HasRow
  <2> QED
    BY <2>1, <2>2, <2>3, <2>4 DEF DeadOfItsRow, Panics, HasRow
<1>4. CASE handler'.pc # "dead"
  BY <1>4 DEF DeadOfItsRow
<1>5. \/ handler'.pc # "dead"
      \/ handler.pc = "dead" /\ UNCHANGED handler
      \/ HandlePathSuccessful /\ handler' = [handler EXCEPT !.pc = "dead"]
  <2>1. CASE UNCHANGED handler
    BY <2>1
  <2>2. CASE handler' = IdleHandler
    BY <2>2 DEF IdleHandler
  <2>3. CASE TakeEvent
    BY <2>3 DEF TakeEvent
  <2>4. CASE HandlePaymentClaimed
    BY <1>0, <2>4 DEF HandlePaymentClaimed, TypeOK
  <2>5. CASE HandlePathSuccessful
    BY <2>2, <2>5 DEF HandlePathSuccessful, Done
  <2>6. \/ UNCHANGED handler \/ handler' = IdleHandler \/ TakeEvent
        \/ HandlePaymentClaimed \/ HandlePathSuccessful
    BY DEF Next, Handle, vars, PayInvoice, SendingError, RecordSent,
         CreateInvoice, RecordInvoice, FulfilHtlc, FinalizeHtlc, FailHtlc,
         HoldPayment, HandlePaymentReceived, HandlePaymentSent,
         HandlePaymentFailed, UpdateClaimed, InsertClaimed, Persist,
         LoadExpired, ExpirePayment, LoadHistory, Tick, Crash, Done
  <2> QED
    BY <2>1, <2>2, <2>3, <2>4, <2>5, <2>6
<1> QED
  BY <1>2, <1>3, <1>4, <1>5

\* What the rows owe to the order of calls, events and updates is inductive.
THEOREM RowsInvariant == Spec => []RowsInv
<1>1. IInv /\ RowsInv /\ [Next]_vars => RowsInv'
  BY InvoicesStep, CallsExpireStep, ExpiryStep, ListsStep, DeadStep,
     SentFirstStep
  DEF RowsInv, IInv
<1> QED
  BY <1>1, RowsInit, Invariant, PTL DEF Spec

\* A row without an expiry is a spontaneous payment's, even when the SELECT of
\* the PaymentClaimed handler fails: the row of an invoice is already there.
THEOREM InvoicesExpire == Spec => []OnlySpontaneousHasNoExpiry
<1>1. RowsInv => OnlySpontaneousHasNoExpiry
  BY DEF RowsInv
<1> QED
  BY <1>1, RowsInvariant, PTL

\* The history never shows as Pending what clean_expired_payments found expired
\* at the beginning of the same call.
THEOREM HistoryIsClean == Spec => []HistoryHidesExpired
<1>1. IInv /\ RowsInv => HistoryHidesExpired
  BY DEF RowsInv, ListsOld, HistoryHidesExpired
<1> QED
  BY <1>1, RowsInvariant, Invariant, PTL

\* The event thread dies only of a payment that went through and whose
\* PaymentSent was handled in vain: it had no row yet, or the statement failed.
THEOREM ThreadDiesOfARow == Spec => []DeadOnlyAfterMissedPaymentSent
<1>1. IInv /\ RowsInv => DeadOnlyAfterMissedPaymentSent
  <2> SUFFICES ASSUME IInv, RowsInv, handler.pc = "dead"
               PROVE  LET h == handler.event.hash IN
                      /\ h \in settled /\ HasRow(h) /\ ~payments[h].preimage
                      /\ \E cause \in {"no row", "failed"} :
                           <<h, cause>> \in missed
    BY DEF DeadOnlyAfterMissedPaymentSent
  <2> DEFINE h == handler.event.hash
  <2>1. /\ handler.event \in True(settled) /\ handler.event \in Event
        /\ handler.event.type = "PaymentPathSuccessful"
        /\ HasRow(h) /\ ~payments[h].preimage
    BY DEF IInv, EventsTrue, TypeOK, RowsInv, DeadOfItsRow
  <2>2. h \in Hash /\ h \in settled
    BY <2>1 DEF True, SuccessTypes, Event
  <2>3. h \in Heard
    BY <2>1, <2>2, DeadHeard DEF RowsInv, IInv
  <2> QED
    BY <2>1, <2>2, <2>3 DEF Heard
<1> QED
  BY <1>1, RowsInvariant, Invariant, PTL
=============================================================================
