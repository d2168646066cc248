------------------------------ MODULE Payments ------------------------------
(***************************************************************************)
(* The taker's table of lightning payments and everything that writes it:  *)
(* the API calls send_payment and create_invoice (one thread per call),    *)
(* the LDK event thread running handle_ldk_events one event at a time, and *)
(* get_lightning_history, run by the wallet-info task and by API calls,    *)
(* which first expires old payments.                                       *)
(*                                                                         *)
(* Every SQL statement runs on its own pooled connection outside any       *)
(* transaction, so one action is what happens between two awaits.          *)
(*                                                                         *)
(* LDK (channel manager, invoice payer) is not part of the repository: it  *)
(* is modelled by the events it raises and the calls it accepts.           *)
(***************************************************************************)
EXTENDS Naturals, Sequences, FiniteSets

CONSTANTS
    Outgoing,       \* payment hashes of invoices the user may pay
    Incoming,       \* payment hashes of invoices the user may create
    Spontaneous,    \* payment hashes of keysend payments to the user
    Callers,        \* bridge threads that run send_payment / create_invoice
    Refreshers,     \* tasks and calls that run get_lightning_history
    SyncTask,       \* the one of them that is the wallet-info task of run()
    Null,           \* absent row, idle process, SQL NULL
    InvoiceExpiry,  \* when the foreign invoices expire
    Lifetime,       \* expiry_secs of the invoices the user creates
    MaxTime,        \* bound: how far the clock runs
    MaxParts,       \* bound: HTLCs a payment is split into
    MaxAttempts,    \* bound: accepted pay_invoice calls per invoice
    MaxDbErrors,    \* bound: failing SQL statements
    MaxCrashes      \* bound: times the app is killed and started again

Inbound == Incoming \cup Spontaneous
Hash == Outgoing \cup Inbound
PaymentId == Outgoing \X (1..MaxAttempts)
Missable == Hash \X {"no row", "failed"}

Row == [ flow     : {"Outbound", "Inbound"},
         status   : {"Pending", "Succeeded", "Failed", "Expired"},
         preimage : BOOLEAN,
         secret   : BOOLEAN,
         expiry   : Nat \cup {Null} ]

\* What the events of LDK that reach the table say.
SuccessTypes == {"PaymentSent", "PaymentPathSuccessful", "PaymentClaimed"}
FailureTypes == {"PaymentPathFailed", "PaymentFailed"}
Event == [type : SuccessTypes \cup FailureTypes \cup {"PaymentReceived"},
          hash : Hash]

ASSUME ConstantsAssumption ==
    /\ Outgoing \cap Inbound = {} /\ Incoming \cap Spontaneous = {}
    /\ SyncTask \in Refreshers
    /\ {InvoiceExpiry, Lifetime, MaxTime, MaxParts, MaxAttempts,
        MaxDbErrors, MaxCrashes} \subseteq Nat

ASSUME NullAssumption ==
    /\ Null \notin Nat /\ Null \notin Row /\ Null \notin Event
    /\ Null \notin [hash : Hash, row : Row]

VARIABLES
    payments,       \* the payments table, keyed by the UNIQUE payment_hash
    call,           \* per caller: the row its pending insert_payment writes
    history,        \* per refresher: where get_lightning_history stands
    handler,        \* the LDK event thread
    queue,          \* events LDK has raised and not yet handed over
    handled,        \* events handed over since LDK last persisted itself
    payer,          \* hashes cached by the InvoicePayer as being paid
    attempts,       \* pay_invoice calls LDK accepted, per hash
    pending,        \* HTLCs in flight, per accepted call
    finalizing,     \* HTLCs fulfilled, their removal not yet final
    fulfilled,      \* accepted calls whose preimage LDK has seen
    issued,         \* invoices create_invoice has returned
    held,           \* inbound payments LDK holds, waiting for a claim
    settled,        \* hashes whose money has moved
    missed,         \* history variable: payments whose PaymentSent did not
                    \* update a row, with the cause
    now, dbErrors, crashes

ldk == <<attempts, pending, finalizing, fulfilled, held, settled>>
bounds == <<now, dbErrors, crashes>>
vars == <<payments, call, history, handler, queue, handled, payer, issued,
          ldk, missed, bounds>>

IdleHandler == [pc |-> "idle", event |-> Null]
IdleHistory == [pc |-> "idle", expired |-> {}, due |-> {}]

Init ==
    /\ payments = [h \in Hash |-> Null]
    /\ call = [c \in Callers |-> Null]
    /\ history = [r \in Refreshers |-> IdleHistory]
    /\ handler = IdleHandler
    /\ queue = <<>> /\ handled = <<>>
    /\ payer = {} /\ issued = {}
    /\ attempts = [h \in Outgoing |-> 0]
    /\ pending = [p \in PaymentId |-> 0]
    /\ finalizing = [p \in PaymentId |-> 0]
    /\ fulfilled = {} /\ held = {} /\ settled = {}
    /\ missed = {}
    /\ now = 0 /\ dbErrors = 0 /\ crashes = 0

(***************************************************************************)
(* SQL statements                                                          *)
(***************************************************************************)
DbWorks == UNCHANGED dbErrors
DbFails == dbErrors < MaxDbErrors /\ dbErrors' = dbErrors + 1

HasRow(h) == payments[h] # Null
Is(h, status) == HasRow(h) /\ payments[h].status = status

\* Mutant: two columns bound in the wrong order.
NewRowSwapped(flow, status, preimage, secret, expiry) ==
    [flow |-> status, status |-> flow, preimage |-> preimage,
     secret |-> secret, expiry |-> expiry]

NewRow(flow, status, preimage, secret, expiry) ==
    [flow |-> flow, status |-> status, preimage |-> preimage,
     secret |-> secret, expiry |-> expiry]

\* Mutant: INSERT OR REPLACE.
ReplacePayment(h, row) == payments' = [payments EXCEPT ![h] = row]

\* The UNIQUE payment_hash makes the INSERT of a known hash an error.
InsertPayment(h, row) ==
    payments' = IF HasRow(h) THEN payments ELSE [payments EXCEPT ![h] = row]

\* Mutant: one UPDATE for both cases, which clears the preimage.
UpdateStatusClearing(h, status) ==
    payments' = IF HasRow(h)
                THEN [payments EXCEPT ![h] =
                        [@ EXCEPT !.status = status, !.preimage = FALSE]]
                ELSE payments

\* The UPDATE of an unknown hash affects no row, which is an error.
UpdateStatus(h, status) ==
    payments' = IF HasRow(h)
                THEN [payments EXCEPT ![h] = [@ EXCEPT !.status = status]]
                ELSE payments

\* With PaymentNewInfo the UPDATE sets both columns, also to NULL.
UpdateInfo(h, preimage, secret) ==
    payments' = IF HasRow(h)
                THEN [payments EXCEPT ![h] =
                        [@ EXCEPT !.status = "Succeeded",
                                  !.preimage = preimage,
                                  !.secret = secret]]
                ELSE payments

(***************************************************************************)
(* send_payment and create_invoice                                         *)
(***************************************************************************)
\* Mutant: an accepted pay_invoice counts as a payment.
OutboundRowOptimistic(status) ==
    NewRow("Outbound", IF status = "Pending" THEN "Succeeded" ELSE status,
           FALSE, TRUE, InvoiceExpiry)

OutboundRow(status) == NewRow("Outbound", status, FALSE, TRUE, InvoiceExpiry)
InboundRow == NewRow("Inbound", "Pending", FALSE, TRUE, now + Lifetime)

\* pay_invoice accepts: HTLCs go out, and only then is the row prepared. A
\* cached hash is refused, which returns an error and changes nothing.
PayInvoice(c, h) ==
    /\ call[c] = Null
    /\ h \notin payer
    /\ attempts[h] < MaxAttempts
    /\ \E n \in 1..MaxParts :
         pending' = [pending EXCEPT ![<<h, attempts[h] + 1>>] = n]
    /\ attempts' = [attempts EXCEPT ![h] = @ + 1]
    /\ payer' = payer \cup {h}
    /\ call' = [call EXCEPT ![c] = [hash |-> h, row |-> OutboundRow("Pending")]]
    /\ UNCHANGED <<payments, history, handler, queue, handled, issued,
                   finalizing, fulfilled, held, settled, missed, bounds>>

\* PaymentError::Sending: nothing went out, a Failed row is prepared.
SendingError(c, h) ==
    /\ call[c] = Null
    /\ h \notin payer
    /\ call' = [call EXCEPT ![c] = [hash |-> h, row |-> OutboundRow("Failed")]]
    /\ UNCHANGED <<payments, history, handler, queue, handled, payer, issued,
                   ldk, missed, bounds>>

\* The tail of send_payment: insert_payment, whose error is returned.
RecordSent(c) ==
    /\ call[c] # Null /\ call[c].hash \in Outgoing
    /\ call' = [call EXCEPT ![c] = Null]
    /\ \/ DbWorks /\ InsertPayment(call[c].hash, call[c].row)
       \/ DbFails /\ UNCHANGED payments
    /\ UNCHANGED <<history, handler, queue, handled, payer, issued, ldk,
                   missed, now, crashes>>

\* create_invoice up to its insert_payment. LDK makes a new hash each time.
CreateInvoice(c, h) ==
    /\ call[c] = Null
    /\ ~HasRow(h) /\ \A d \in Callers : call[d] # Null => call[d].hash # h
    /\ now + Lifetime < MaxTime
    /\ call' = [call EXCEPT ![c] = [hash |-> h, row |-> InboundRow]]
    /\ UNCHANGED <<payments, history, handler, queue, handled, payer, issued,
                   ldk, missed, bounds>>

\* The invoice is returned only after its row is written.
RecordInvoice(c) ==
    /\ call[c] # Null /\ call[c].hash \in Incoming
    /\ call' = [call EXCEPT ![c] = Null]
    /\ \/ /\ DbWorks /\ InsertPayment(call[c].hash, call[c].row)
          /\ issued' = issued \cup {call[c].hash}
       \/ DbFails /\ UNCHANGED <<payments, issued>>
    /\ UNCHANGED <<history, handler, queue, handled, payer, ldk, missed, now,
                   crashes>>

(***************************************************************************)
(* LDK: what happens to HTLCs, and the events that tell about it           *)
(***************************************************************************)
Raise(type, h) == queue' = Append(queue, [type |-> type, hash |-> h])

\* The first HTLC of a payment to be fulfilled reveals the preimage.
FulfilHtlc(h, k) ==
    LET p == <<h, k>> IN
    /\ pending[p] > 0
    /\ pending' = [pending EXCEPT ![p] = @ - 1]
    /\ finalizing' = [finalizing EXCEPT ![p] = @ + 1]
    /\ fulfilled' = fulfilled \cup {p}
    /\ settled' = settled \cup {h}
    /\ IF p \in fulfilled THEN UNCHANGED queue ELSE Raise("PaymentSent", h)
    /\ UNCHANGED <<payments, call, history, handler, handled, payer, attempts,
                   issued, held, missed, bounds>>

\* The counterparty revokes the state that held the fulfilled HTLC.
FinalizeHtlc(h, k) ==
    LET p == <<h, k>> IN
    /\ finalizing[p] > 0
    /\ finalizing' = [finalizing EXCEPT ![p] = @ - 1]
    /\ Raise("PaymentPathSuccessful", h)
    /\ UNCHANGED <<payments, call, history, handler, handled, payer, attempts,
                   pending, fulfilled, issued, held, settled, missed, bounds>>

\* An HTLC fails and the invoice payer has no retry left. After a fulfilled
\* HTLC of the same payment no failure is reported.
FailHtlc(h, k) ==
    LET p == <<h, k>>
        failed(type) == [type |-> type, hash |-> h] IN
    /\ pending[p] > 0
    /\ pending' = [pending EXCEPT ![p] = @ - 1]
    /\ queue' = IF p \in fulfilled THEN queue
                ELSE IF pending[p] > 1
                     THEN Append(queue, failed("PaymentPathFailed"))
                     ELSE Append(Append(queue, failed("PaymentPathFailed")),
                                 failed("PaymentFailed"))
    /\ UNCHANGED <<payments, call, history, handler, handled, payer, attempts,
                   finalizing, fulfilled, issued, held, settled, missed,
                   bounds>>

\* A payment to the user arrives: for an invoice somebody was given, or a
\* spontaneous one.
HoldPayment(h) ==
    /\ h \in issued \cup Spontaneous
    /\ h \notin held \cup settled
    /\ held' = held \cup {h}
    /\ Raise("PaymentReceived", h)
    /\ UNCHANGED <<payments, call, history, handler, handled, payer, attempts,
                   pending, finalizing, fulfilled, issued, settled, missed,
                   bounds>>

(***************************************************************************)
(* The event thread                                                        *)
(***************************************************************************)
\* LDK hands over the oldest event through the invoice payer, which forgets
\* a payment that is over.
TakeEvent ==
    /\ handler.pc = "idle" /\ queue # <<>>
    /\ LET e == Head(queue) IN
         /\ handler' = [pc |-> "handle", event |-> e]
         /\ queue' = Tail(queue)
         /\ handled' = Append(handled, e)
         /\ payer' = IF e.type \in {"PaymentSent", "PaymentFailed"}
                     THEN payer \ {e.hash} ELSE payer
    /\ UNCHANGED <<payments, call, history, issued, ldk, missed, bounds>>

Handling(type) == handler.pc = "handle" /\ handler.event.type = type
Done == handler' = IdleHandler

\* claim_funds takes what LDK still holds and reports it with an event.
HandlePaymentReceived ==
    /\ Handling("PaymentReceived")
    /\ LET h == handler.event.hash IN
         IF h \in held
         THEN /\ held' = held \ {h}
              /\ settled' = settled \cup {h}
              /\ Raise("PaymentClaimed", h)
         ELSE UNCHANGED <<held, settled, queue>>
    /\ Done
    /\ UNCHANGED <<payments, call, history, handled, payer, attempts, pending,
                   finalizing, fulfilled, issued, missed, bounds>>

\* Mutant: the preimage of the event is not passed on.
HandlePaymentSentBare ==
    /\ Handling("PaymentSent")
    /\ LET h == handler.event.hash IN
         /\ DbWorks /\ UpdateStatus(h, "Succeeded")
         /\ missed' = IF HasRow(h) THEN missed ELSE missed \cup {<<h, "no row">>}
    /\ Done
    /\ UNCHANGED <<call, history, queue, handled, payer, issued, ldk, now,
                   crashes>>

\* update_payment may fail before its UPDATE or after it, in the load_payment
\* at its end. An error, and a row that is not there, is only logged.
HandlePaymentSent ==
    /\ Handling("PaymentSent")
    /\ LET h == handler.event.hash IN
         \/ /\ DbWorks /\ UpdateInfo(h, TRUE, FALSE)
            /\ missed' = IF HasRow(h) THEN missed ELSE missed \cup {<<h, "no row">>}
         \/ /\ DbFails
            /\ UpdateInfo(h, TRUE, FALSE) \/ UNCHANGED payments
            /\ missed' = missed \cup {<<h, "failed">>}
    /\ Done
    /\ UNCHANGED <<call, history, queue, handled, payer, issued, ldk, now,
                   crashes>>

\* PaymentPathFailed and PaymentFailed have the same effect on the table.
HandlePaymentFailed ==
    /\ handler.pc = "handle" /\ handler.event.type \in FailureTypes
    /\ \/ UpdateStatus(handler.event.hash, "Failed") /\ (DbWorks \/ DbFails)
       \/ DbFails /\ UNCHANGED payments
    /\ Done
    /\ UNCHANGED <<call, history, queue, handled, payer, issued, ldk, missed,
                   now, crashes>>

\* payment.preimage.unwrap() of the row update_payment returns.
Panics(h) == HasRow(h) /\ ~payments[h].preimage

\* A panic ends the thread. claim_funds itself finds nothing to claim.
HandlePathSuccessful ==
    /\ Handling("PaymentPathSuccessful")
    /\ LET h == handler.event.hash IN
         \/ /\ DbWorks /\ UpdateStatus(h, "Succeeded")
            /\ handler' = IF Panics(h)
                          THEN [handler EXCEPT !.pc = "dead"]
                          ELSE IdleHandler
         \/ /\ DbFails
            /\ UpdateStatus(h, "Succeeded") \/ UNCHANGED payments
            /\ Done
    /\ UNCHANGED <<call, history, queue, handled, payer, issued, ldk, missed,
                   now, crashes>>

\* load_payment: any error counts as "no such row".
HandlePaymentClaimed ==
    /\ Handling("PaymentClaimed")
    /\ \/ /\ DbWorks
          /\ handler' = [handler EXCEPT !.pc =
                           IF HasRow(handler.event.hash) THEN "update" ELSE "insert"]
       \/ DbFails /\ handler' = [handler EXCEPT !.pc = "insert"]
    /\ UNCHANGED <<payments, call, history, queue, handled, payer, issued, ldk,
                   missed, now, crashes>>

\* Mutant: the preimage of the claimed payment is not passed on.
UpdateClaimedBare ==
    /\ handler.pc = "update"
    /\ DbWorks /\ UpdateInfo(handler.event.hash, FALSE, TRUE)
    /\ Done
    /\ UNCHANGED <<call, history, queue, handled, payer, issued, ldk, missed,
                   now, crashes>>

\* Only an invoice payment comes with a payment secret.
UpdateClaimed ==
    /\ handler.pc = "update"
    /\ \/ /\ DbWorks \/ DbFails
          /\ UpdateInfo(handler.event.hash, TRUE, handler.event.hash \in Incoming)
       \/ DbFails /\ UNCHANGED payments
    /\ Done
    /\ UNCHANGED <<call, history, queue, handled, payer, issued, ldk, missed,
                   now, crashes>>

InsertClaimed ==
    /\ handler.pc = "insert"
    /\ LET h == handler.event.hash IN
         \/ /\ DbWorks
            /\ InsertPayment(h, NewRow("Inbound", "Succeeded", TRUE,
                                       h \in Incoming, Null))
         \/ DbFails /\ UNCHANGED payments
    /\ Done
    /\ UNCHANGED <<call, history, queue, handled, payer, issued, ldk, missed,
                   now, crashes>>

\* The background thread persists the channel manager between two batches:
\* the events handed over so far will not come again.
Persist ==
    /\ handler.pc = "idle" /\ handled # <<>>
    /\ handled' = <<>>
    /\ UNCHANGED <<payments, call, history, handler, queue, payer, issued, ldk,
                   missed, bounds>>

(***************************************************************************)
(* get_lightning_history: clean_expired_payments, then load_payments       *)
(***************************************************************************)
\* Mutant: only outgoing payments are looked at.
ExpiredOutgoing(h) ==
    /\ Is(h, "Pending") /\ payments[h].flow = "Outbound"
    /\ payments[h].expiry # Null /\ now > payments[h].expiry

Expired(h) ==
    Is(h, "Pending") /\ payments[h].expiry # Null /\ now > payments[h].expiry

LoadExpired(r) ==
    /\ history[r].pc = "idle"
    /\ LET expired == {h \in Hash : Expired(h)} IN
         \/ /\ DbWorks
            /\ history' = [history EXCEPT ![r] =
                         [pc |-> "clean", expired |-> expired, due |-> expired]]
         \/ DbFails /\ UNCHANGED history
    /\ UNCHANGED <<payments, call, handler, queue, handled, payer, issued, ldk,
                   missed, now, crashes>>

\* One turn of the loop; `?` ends the whole call at the first error.
ExpirePayment(r) ==
    /\ history[r].pc = "clean"
    /\ \E h \in history[r].expired :
         \/ /\ DbWorks /\ UpdateStatus(h, "Expired")
            /\ history' = [history EXCEPT ![r].expired = @ \ {h}]
         \/ /\ DbFails
            /\ UpdateStatus(h, "Expired") \/ UNCHANGED payments
            /\ history' = [history EXCEPT ![r] = IdleHistory]
    /\ UNCHANGED <<call, handler, queue, handled, payer, issued, ldk, missed,
                   now, crashes>>

\* The loop is over; the rows are loaded and shown.
LoadHistory(r) ==
    /\ history[r].pc = "clean" /\ history[r].expired = {}
    /\ history' = [history EXCEPT ![r] = IdleHistory]
    /\ DbWorks \/ DbFails
    /\ UNCHANGED <<payments, call, handler, queue, handled, payer, issued, ldk,
                   missed, now, crashes>>

(***************************************************************************)
(* Time, and the app being killed and started again                        *)
(***************************************************************************)
Tick ==
    /\ now < MaxTime
    /\ now' = now + 1
    /\ UNCHANGED <<payments, call, history, handler, queue, handled, payer,
                   issued, ldk, missed, dbErrors, crashes>>

\* Tables and LDK's own state survive, calls and the payer's cache do not.
\* Events that were not persisted as handled are raised again.
Crash ==
    /\ crashes < MaxCrashes
    /\ crashes' = crashes + 1
    /\ call' = [c \in Callers |-> Null]
    /\ history' = [r \in Refreshers |-> IdleHistory]
    /\ handler' = IdleHandler
    /\ queue' = handled \o queue
    /\ handled' = <<>>
    /\ payer' = {}
    /\ UNCHANGED <<payments, issued, ldk, missed, now, dbErrors>>

Handle ==
    \/ HandlePaymentReceived \/ HandlePaymentSent \/ HandlePaymentFailed
    \/ HandlePathSuccessful \/ HandlePaymentClaimed
    \/ UpdateClaimed \/ InsertClaimed

Next ==
    \/ \E c \in Callers :
         \/ \E h \in Outgoing : PayInvoice(c, h) \/ SendingError(c, h)
         \/ \E h \in Incoming : CreateInvoice(c, h)
         \/ RecordSent(c) \/ RecordInvoice(c)
    \/ \E h \in Outgoing, k \in 1..MaxAttempts :
         FulfilHtlc(h, k) \/ FinalizeHtlc(h, k) \/ FailHtlc(h, k)
    \/ \E h \in Inbound : HoldPayment(h)
    \/ TakeEvent \/ Handle \/ Persist
    \/ \E r \in Refreshers :
         LoadExpired(r) \/ ExpirePayment(r) \/ LoadHistory(r)
    \/ Tick \/ Crash

Spec == Init /\ [][Next]_vars

\* The event thread and a history call that has begun go on, the wallet-info
\* task begins one every ten seconds, and time passes. Nobody has to pay, to
\* create an invoice or to answer an HTLC.
Fairness ==
    /\ WF_vars(TakeEvent) /\ WF_vars(Handle)
    /\ WF_vars(LoadExpired(SyncTask))
    /\ \A r \in Refreshers : WF_vars(ExpirePayment(r)) /\ WF_vars(LoadHistory(r))
    /\ WF_vars(Tick)

FairSpec == Spec /\ Fairness

-----------------------------------------------------------------------------
(* Properties *)

\* Every variable has its type.
TypeOK ==
    /\ payments \in [Hash -> Row \cup {Null}]
    /\ call \in [Callers -> [hash : Hash, row : Row] \cup {Null}]
    /\ history \in [Refreshers -> [pc : {"idle", "clean"},
                                   expired : SUBSET Hash, due : SUBSET Hash]]
    /\ handler \in [pc : {"idle", "handle", "update", "insert", "dead"},
                    event : Event \cup {Null}]
    /\ handler.pc # "idle" => handler.event \in Event
    /\ queue \in Seq(Event) /\ handled \in Seq(Event)
    /\ payer \subseteq Outgoing
    /\ attempts \in [Outgoing -> 0..MaxAttempts]
    /\ pending \in [PaymentId -> 0..MaxParts]
    /\ finalizing \in [PaymentId -> Nat]
    /\ fulfilled \subseteq PaymentId
    /\ issued \subseteq Incoming /\ held \subseteq Inbound
    /\ settled \subseteq Hash
    /\ missed \subseteq Missable
    /\ now \in Nat /\ dbErrors \in Nat /\ crashes \in Nat

\* The ledger never claims money moved that did not: a row is Succeeded, or
\* holds a preimage, only if LDK settled that payment, through every
\* interleaving of calls, events, expiry, SQL errors and restarts.
SucceededIsSettled ==
    \A h \in Hash : HasRow(h) =>
        ((payments[h].status = "Succeeded" \/ payments[h].preimage)
            => h \in settled)

\* The event thread dies only of a payment that went through and whose
\* PaymentSent was handled in vain: when its row was not there yet, or with a
\* failing statement. A row that PaymentSent has updated never kills it, in
\* whatever order calls, events, failures and restarts come.
DeadOnlyAfterMissedPaymentSent ==
    handler.pc = "dead" =>
        LET h == handler.event.hash IN
        /\ h \in settled /\ HasRow(h) /\ ~payments[h].preimage
        /\ \E cause \in {"no row", "failed"} : <<h, cause>> \in missed

\* What a history call found expired when it began is not Pending any more
\* when it loads the rows to show, whoever else wrote them in between.
HistoryHidesExpired ==
    \A r \in Refreshers : \A h \in history[r].due \ history[r].expired :
        ~Is(h, "Pending")

\* A received invoice payment always finds the row create_invoice wrote: the
\* row without an expiry that PaymentClaimed inserts is for spontaneous
\* payments only, even when loads fail.
OnlySpontaneousHasNoExpiry ==
    \A h \in Hash : (HasRow(h) /\ payments[h].expiry = Null) => h \in Spontaneous

\* No row stays Pending: the event thread or, failing that (a dead thread, a
\* lost update), the expiry of the wallet-info task ends it.
PendingEnds == \A h \in Hash : Is(h, "Pending") ~> ~Is(h, "Pending")

\* Received money is booked: the row of a settled inbound payment gets the
\* preimage, across restarts, unless a statement failed or the event thread
\* has died. (Its status may still be overwritten: see OnlyPendingExpires.)
ReceivedIsBooked ==
    \A h \in Inbound :
        h \in settled ~> \/ HasRow(h) /\ payments[h].preimage
                        \/ dbErrors > 0 \/ handler.pc = "dead"

\* The table, with every thread that writes it, keeps the promises of
\* PaymentLedger.
Ledger == INSTANCE PaymentLedger
KeepsLedger == Ledger!LedgerSpec

\* "only act on pending payments": clean_expired_payments changes only rows
\* that are Pending. The filter reads, the update writes later.
OnlyPendingExpires ==
    [][\A h \in Hash :
         Is(h, "Expired")' => Is(h, "Pending") \/ Is(h, "Expired")]_vars

=============================================================================
