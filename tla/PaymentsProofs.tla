--------------------------- MODULE PaymentsProofs ---------------------------
(***************************************************************************)
(* Proofs about Payments, for every number of hashes, threads, parts,      *)
(* attempts, SQL errors and restarts.                                      *)
(***************************************************************************)
EXTENDS Payments, SequenceTheorems, TLAPS

(***************************************************************************)
(* Type correctness                                                        *)
(***************************************************************************)
USE ConstantsAssumption, NullAssumption

\* The initial state is well typed.
LEMMA TypeInit == Init => TypeOK
  BY EmptySeq DEF Init, TypeOK, IdleHandler, IdleHistory, PaymentId, Hash

Table == [Hash -> Row \cup {Null}]

\* Each SQL statement on the table keeps it well typed.
LEMMA StatementTypes ==
  ASSUME payments \in Table, NEW h \in Hash
  PROVE  /\ \A row \in Row : InsertPayment(h, row) => payments' \in Table
         /\ \A s \in {"Succeeded", "Failed", "Expired"} :
              UpdateStatus(h, s) => payments' \in Table
         /\ \A p, q \in BOOLEAN : UpdateInfo(h, p, q) => payments' \in Table
<1>1. ASSUME NEW row \in Row, InsertPayment(h, row) PROVE payments' \in Table
  BY <1>1 DEF InsertPayment, Table
<1>2. ASSUME NEW s \in {"Succeeded", "Failed", "Expired"}, UpdateStatus(h, s)
      PROVE  payments' \in Table
  <2>1. HasRow(h) => [payments[h] EXCEPT !.status = s] \in Row
    BY DEF HasRow, Row, Table
  <2> QED
    BY <1>2, <2>1 DEF UpdateStatus, Table
<1>3. ASSUME NEW p \in BOOLEAN, NEW q \in BOOLEAN, UpdateInfo(h, p, q)
      PROVE  payments' \in Table
  <2>1. HasRow(h) => [payments[h] EXCEPT !.status = "Succeeded",
                                         !.preimage = p, !.secret = q] \in Row
    BY DEF HasRow, Row, Table
  <2> QED
    BY <1>3, <2>1 DEF UpdateInfo, Table
<1> QED
  BY <1>1, <1>2, <1>3

\* The statement of the PaymentClaimed handler keeps the table well typed.
LEMMA ClaimTypes ==
  ASSUME payments \in Table, NEW h \in Hash,
         UpdateInfo(h, TRUE, h \in Incoming)
  PROVE  payments' \in Table
<1>1. HasRow(h) => [payments[h] EXCEPT !.status = "Succeeded",
                                       !.preimage = TRUE,
                                       !.secret = h \in Incoming] \in Row
  <2> DEFINE q == h \in Incoming
  <2>1. q \in BOOLEAN
    OBVIOUS
  <2> HIDE DEF q
  <2>2. HasRow(h) => [payments[h] EXCEPT !.status = "Succeeded",
                                         !.preimage = TRUE, !.secret = q] \in Row
    BY <2>1 DEF HasRow, Row, Table
  <2> QED
    BY <2>2 DEF q
<1> QED
  BY <1>1 DEF UpdateInfo, Table

\* How far a history call can be.
Progress == [pc : {"idle", "clean"}, expired : SUBSET Hash, due : SUBSET Hash]

\* Going through the list keeps a history call well typed.
LEMMA ProgressType ==
  ASSUME NEW p \in Progress, NEW rest \in SUBSET Hash
  PROVE  [p EXCEPT !.expired = rest] \in Progress
  BY DEF Progress

\* The error count stays a number.
LEMMA ErrorsType ==
  dbErrors \in Nat /\ (DbWorks \/ DbFails) => dbErrors' \in Nat
  BY DEF DbWorks, DbFails

\* Noting that a PaymentSent was missed keeps the history variable well typed.
LEMMA MissType ==
  ASSUME NEW S \in SUBSET Missable, NEW h \in Hash,
         NEW cause \in {"no row", "failed"}
  PROVE  S \cup {<<h, cause>>} \subseteq Missable
<1>1. <<h, cause>> \in Missable
  BY DEF Missable
<1> QED
  BY <1>1

\* A handler that changes only the table, its own state and the error count
\* is well typed if these are.
LEMMA HandlerType ==
  ASSUME TypeOK, payments' \in Table, DbWorks \/ DbFails,
         missed' \subseteq Missable,
         handler' = IdleHandler \/ (/\ handler'.event \in Event
                                   /\ handler' \in
               [pc : {"idle", "handle", "update", "insert", "dead"},
                event : Event \cup {Null}]),
         UNCHANGED <<call, history, queue, handled, payer, issued, ldk, now,
                     crashes>>
  PROVE  TypeOK'
<1>1. dbErrors' \in Nat
  BY ErrorsType DEF TypeOK
<1>2. /\ handler' \in [pc : {"idle", "handle", "update", "insert", "dead"},
                      event : Event \cup {Null}]
      /\ handler'.pc # "idle" => handler'.event \in Event
  BY DEF IdleHandler
<1> QED
  BY <1>1, <1>2 DEF TypeOK, ldk, Table

\* Counting the HTLCs of a payment up and down stays within the counters' types.
LEMMA CountTypes ==
  ASSUME NEW P, NEW p \in P, NEW f, NEW n \in Nat
  PROVE  /\ f \in [P -> 0..n] /\ f[p] > 0 => [f EXCEPT ![p] = @ - 1] \in [P -> 0..n]
         /\ f \in [P -> Nat] => [f EXCEPT ![p] = @ + 1] \in [P -> Nat]
         /\ f \in [P -> Nat] /\ f[p] > 0 => [f EXCEPT ![p] = @ - 1] \in [P -> Nat]
<1>1. ASSUME f \in [P -> 0..n], f[p] > 0
      PROVE  [f EXCEPT ![p] = @ - 1] \in [P -> 0..n]
  <2>1. f[p] - 1 \in 0..n
    BY <1>1
  <2> QED
    BY <1>1, <2>1
<1>2. ASSUME f \in [P -> Nat] PROVE [f EXCEPT ![p] = @ + 1] \in [P -> Nat]
  BY <1>2
<1>3. ASSUME f \in [P -> Nat], f[p] > 0
      PROVE  [f EXCEPT ![p] = @ - 1] \in [P -> Nat]
  BY <1>3
<1> QED
  BY <1>1, <1>2, <1>3

\* Every action keeps every variable in its type.
LEMMA TypeStep == TypeOK /\ [Next]_vars => TypeOK'
<1> SUFFICES ASSUME TypeOK, [Next]_vars PROVE TypeOK'
  OBVIOUS
<1> USE DEF TypeOK
<1>1. ASSUME NEW c \in Callers, NEW h \in Outgoing, PayInvoice(c, h)
      PROVE  TypeOK'
  <2>1. OutboundRow("Pending") \in Row
    BY DEF OutboundRow, NewRow, Row
  <2>2. h \in Hash
    BY DEF Hash
  <2>3. call' \in [Callers -> [hash : Hash, row : Row] \cup {Null}]
    BY <1>1, <2>1, <2>2 DEF PayInvoice
  <2>4. pending' \in [PaymentId -> 0..MaxParts]
    BY <1>1 DEF PayInvoice, PaymentId
  <2>5. attempts' \in [Outgoing -> 0..MaxAttempts]
    BY <1>1 DEF PayInvoice
  <2> QED
    BY <1>1, <2>3, <2>4, <2>5 DEF PayInvoice, bounds
<1>2. ASSUME NEW c \in Callers, NEW h \in Outgoing, SendingError(c, h)
      PROVE  TypeOK'
  <2>1. OutboundRow("Failed") \in Row
    BY DEF OutboundRow, NewRow, Row
  <2>2. call' \in [Callers -> [hash : Hash, row : Row] \cup {Null}]
    BY <1>2, <2>1 DEF SendingError, Hash
  <2> QED
    BY <1>2, <2>2 DEF SendingError, bounds, ldk
<1>3. ASSUME NEW c \in Callers, NEW h \in Incoming, CreateInvoice(c, h)
      PROVE  TypeOK'
  <2>1. InboundRow \in Row
    BY DEF InboundRow, NewRow, Row
  <2>2. call' \in [Callers -> [hash : Hash, row : Row] \cup {Null}]
    BY <1>3, <2>1 DEF CreateInvoice, Hash, Inbound
  <2> QED
    BY <1>3, <2>2 DEF CreateInvoice, bounds, ldk
<1>0. payments \in Table
  BY DEF Table
<1>4. ASSUME NEW c \in Callers, RecordSent(c) PROVE TypeOK'
  <2>1. call[c].hash \in Hash /\ call[c].row \in Row
    BY <1>4 DEF RecordSent
  <2>2. payments' \in Table
    BY <1>0, <1>4, <2>1, StatementTypes DEF RecordSent
  <2>3. call' \in [Callers -> [hash : Hash, row : Row] \cup {Null}]
    BY <1>4 DEF RecordSent
  <2>4. dbErrors' \in Nat
    BY <1>4, ErrorsType DEF RecordSent
  <2>5. UNCHANGED <<history, handler, queue, handled, payer, issued, ldk, missed,
                   now, crashes>>
    BY <1>4 DEF RecordSent
  <2> QED
    BY <2>2, <2>3, <2>4, <2>5 DEF ldk, Table
<1>5. ASSUME NEW c \in Callers, RecordInvoice(c) PROVE TypeOK'
  <2>1. call[c].hash \in Hash /\ call[c].row \in Row
    BY <1>5 DEF RecordInvoice
  <2>2. payments' \in Table /\ issued' \subseteq Incoming
    BY <1>0, <1>5, <2>1, StatementTypes DEF RecordInvoice
  <2>3. call' \in [Callers -> [hash : Hash, row : Row] \cup {Null}]
    BY <1>5 DEF RecordInvoice
  <2>4. dbErrors' \in Nat
    BY <1>5, ErrorsType DEF RecordInvoice
  <2>5. UNCHANGED <<history, handler, queue, handled, payer, ldk, missed, now,
                   crashes>>
    BY <1>5 DEF RecordInvoice
  <2> QED
    BY <2>2, <2>3, <2>4, <2>5 DEF ldk, Table
<1>6. ASSUME NEW h \in Outgoing, NEW k \in 1..MaxAttempts, FulfilHtlc(h, k)
      PROVE  TypeOK'
  <2> DEFINE e == [type |-> "PaymentSent", hash |-> h]
  <2>0. e \in Event
    BY DEF Event, SuccessTypes, Hash
  <2>1. queue' = queue \/ queue' = Append(queue, e)
    BY <1>6 DEF FulfilHtlc, Raise
  <2>4. queue' \in Seq(Event)
    <3> HIDE DEF e
    <3>1. Append(queue, e) \in Seq(Event)
      BY <2>0
    <3> QED
      BY <2>1, <3>1
  <2>5. <<h, k>> \in PaymentId
    BY DEF PaymentId
  <2>6. /\ pending[<<h, k>>] > 0
        /\ pending' = [pending EXCEPT ![<<h, k>>] = @ - 1]
        /\ finalizing' = [finalizing EXCEPT ![<<h, k>>] = @ + 1]
        /\ fulfilled' = fulfilled \cup {<<h, k>>}
        /\ settled' = settled \cup {h}
    BY <1>6 DEF FulfilHtlc
  <2>2. /\ pending' \in [PaymentId -> 0..MaxParts]
        /\ finalizing' \in [PaymentId -> Nat]
    BY <2>5, <2>6, CountTypes
  <2>3. fulfilled' \subseteq PaymentId /\ settled' \subseteq Hash
    BY <2>5, <2>6 DEF Hash
  <2> QED
    BY <1>6, <2>2, <2>3, <2>4 DEF FulfilHtlc, bounds
<1>7. ASSUME NEW h \in Outgoing, NEW k \in 1..MaxAttempts, FinalizeHtlc(h, k)
      PROVE  TypeOK'
  <2> DEFINE e == [type |-> "PaymentPathSuccessful", hash |-> h]
  <2>3. e \in Event
    BY DEF Event, SuccessTypes, Hash
  <2>4. /\ queue' = Append(queue, e)
        /\ finalizing[<<h, k>>] > 0
        /\ finalizing' = [finalizing EXCEPT ![<<h, k>>] = @ - 1]
    BY <1>7 DEF FinalizeHtlc, Raise
  <2>1. queue' \in Seq(Event)
    <3> HIDE DEF e
    <3> QED
      BY <2>3, <2>4
  <2>2. finalizing' \in [PaymentId -> Nat]
    <3>1. <<h, k>> \in PaymentId
      BY DEF PaymentId
    <3> QED
      BY <2>4, <3>1, CountTypes
  <2> QED
    BY <1>7, <2>1, <2>2 DEF FinalizeHtlc, bounds
<1>8. ASSUME NEW h \in Outgoing, NEW k \in 1..MaxAttempts, FailHtlc(h, k)
      PROVE  TypeOK'
  <2>1. \A t \in FailureTypes : [type |-> t, hash |-> h] \in Event
    BY DEF Event, Hash
  <2>2. queue' \in Seq(Event)
    BY <1>8, <2>1 DEF FailHtlc, FailureTypes
  <2>3. pending' \in [PaymentId -> 0..MaxParts]
    <3>1. <<h, k>> \in PaymentId
      BY DEF PaymentId
    <3>2. /\ pending[<<h, k>>] > 0
          /\ pending' = [pending EXCEPT ![<<h, k>>] = @ - 1]
      BY <1>8 DEF FailHtlc
    <3> QED
      BY <3>1, <3>2, CountTypes
  <2> QED
    BY <1>8, <2>2, <2>3 DEF FailHtlc, bounds
<1>9. ASSUME NEW h \in Inbound, HoldPayment(h) PROVE TypeOK'
  <2>1. queue' \in Seq(Event)
    BY <1>9 DEF HoldPayment, Raise, Event, Hash
  <2>2. held' \subseteq Inbound
    BY <1>9 DEF HoldPayment
  <2> QED
    BY <1>9, <2>1, <2>2 DEF HoldPayment, bounds
<1>10. ASSUME TakeEvent PROVE TypeOK'
  <2>1. Head(queue) \in Event /\ Tail(queue) \in Seq(Event)
    BY <1>10, HeadTailProperties DEF TakeEvent
  <2>2. handled' \in Seq(Event) /\ queue' \in Seq(Event)
    BY <1>10, <2>1 DEF TakeEvent
  <2>3. /\ handler' \in [pc : {"idle", "handle", "update", "insert", "dead"},
                        event : Event \cup {Null}]
        /\ handler'.event \in Event
    BY <1>10, <2>1 DEF TakeEvent
  <2>4. payer' \subseteq Outgoing
    BY <1>10 DEF TakeEvent
  <2>5. UNCHANGED <<payments, call, history, issued, ldk, missed, bounds>>
    BY <1>10 DEF TakeEvent
  <2> QED
    BY <2>2, <2>3, <2>4, <2>5 DEF bounds, ldk
<1>11. ASSUME HandlePaymentReceived PROVE TypeOK'
  <2>1. handler.event.hash \in Hash
    BY <1>11 DEF HandlePaymentReceived, Handling, Event
  <2> DEFINE e == [type |-> "PaymentClaimed", hash |-> handler.event.hash]
  <2>0. e \in Event
    BY <2>1 DEF Event, SuccessTypes
  <2>5. queue' = queue \/ queue' = Append(queue, e)
    BY <1>11 DEF HandlePaymentReceived, Raise
  <2>2. queue' \in Seq(Event)
    <3> HIDE DEF e
    <3>1. Append(queue, e) \in Seq(Event)
      BY <2>0
    <3> QED
      BY <2>5, <3>1
  <2>3. held' \subseteq Inbound /\ settled' \subseteq Hash
    BY <1>11, <2>1 DEF HandlePaymentReceived
  <2>4. handler' = IdleHandler
    BY <1>11 DEF HandlePaymentReceived, Done
  <2> QED
    BY <1>11, <2>2, <2>3, <2>4 DEF HandlePaymentReceived, IdleHandler, bounds
<1>12. ASSUME handler.pc # "idle" PROVE handler.event.hash \in Hash
  BY <1>12 DEF Event
<1>13. ASSUME HandlePaymentSent PROVE TypeOK'
  <2>1. payments' \in Table
    BY <1>0, <1>12, <1>13, StatementTypes DEF HandlePaymentSent, Handling
  <2>2. missed' \subseteq Missable
    <3>1. \/ UNCHANGED missed
          \/ \E cause \in {"no row", "failed"} :
               missed' = missed \cup {<<handler.event.hash, cause>>}
      BY <1>13 DEF HandlePaymentSent
    <3>2. handler.event.hash \in Hash
      BY <1>12, <1>13 DEF HandlePaymentSent, Handling
    <3>3. missed \subseteq Missable
      OBVIOUS
    <3>4. ASSUME NEW cause \in {"no row", "failed"},
                 missed' = missed \cup {<<handler.event.hash, cause>>}
          PROVE  missed' \subseteq Missable
      <4> HIDE DEF TypeOK
      <4> QED
        BY <3>2, <3>3, <3>4, MissType
    <3> QED
      BY <3>1, <3>3, <3>4
  <2>3. DbWorks \/ DbFails
    BY <1>13 DEF HandlePaymentSent
  <2> QED
    BY <1>13, <2>1, <2>2, <2>3, HandlerType DEF HandlePaymentSent, Done
<1>14. ASSUME HandlePaymentFailed PROVE TypeOK'
  <2>1. payments' \in Table
    BY <1>0, <1>12, <1>14, StatementTypes DEF HandlePaymentFailed
  <2> QED
    BY <1>14, <2>1, HandlerType DEF HandlePaymentFailed, Done
<1>15. ASSUME HandlePathSuccessful PROVE TypeOK'
  <2>1. payments' \in Table
    BY <1>0, <1>12, <1>15, StatementTypes DEF HandlePathSuccessful, Handling
  <2>2. handler' = IdleHandler \/ handler' = [handler EXCEPT !.pc = "dead"]
    BY <1>15 DEF HandlePathSuccessful, Done
  <2>3. handler.event \in Event
    BY <1>15 DEF HandlePathSuccessful, Handling
  <2> QED
    BY <1>15, <2>1, <2>2, <2>3, HandlerType DEF HandlePathSuccessful
<1>16. ASSUME HandlePaymentClaimed PROVE TypeOK'
  <2>1. \E pc \in {"update", "insert"} : handler' = [handler EXCEPT !.pc = pc]
    BY <1>16 DEF HandlePaymentClaimed
  <2>2. handler.event \in Event
    BY <1>16 DEF HandlePaymentClaimed, Handling
  <2>3. payments' \in Table
    BY <1>0, <1>16 DEF HandlePaymentClaimed
  <2>4. /\ handler' \in [pc : {"idle", "handle", "update", "insert", "dead"},
                        event : Event \cup {Null}]
        /\ handler'.event \in Event
    BY <2>1, <2>2
  <2>5. /\ DbWorks \/ DbFails
        /\ UNCHANGED <<call, history, queue, handled, payer, issued, ldk,
                      missed, now, crashes>>
    BY <1>16 DEF HandlePaymentClaimed
  <2> QED
    BY <2>3, <2>4, <2>5, HandlerType
<1>17. ASSUME UpdateClaimed PROVE TypeOK'
  <2>1. payments' \in Table
    <3>1. CASE UNCHANGED payments
      BY <1>0, <3>1
    <3>2. CASE UpdateInfo(handler.event.hash, TRUE,
                          handler.event.hash \in Incoming)
      <4>1. handler.event.hash \in Hash
        BY <1>12, <1>17 DEF UpdateClaimed
      <4> QED
        BY <1>0, <3>2, <4>1, ClaimTypes
    <3> QED
      BY <1>17, <3>1, <3>2 DEF UpdateClaimed
  <2> QED
    BY <1>17, <2>1, HandlerType DEF UpdateClaimed, Done
<1>18. ASSUME InsertClaimed PROVE TypeOK'
  <2>1. NewRow("Inbound", "Succeeded", TRUE, handler.event.hash \in Incoming,
               Null) \in Row
    BY DEF NewRow, Row
  <2>2. payments' \in Table
    BY <1>0, <1>12, <1>18, <2>1, StatementTypes DEF InsertClaimed
  <2> QED
    BY <1>18, <2>2, HandlerType DEF InsertClaimed, Done
<1>19. ASSUME Persist PROVE TypeOK'
  BY <1>19, EmptySeq DEF Persist, ldk, bounds
<1>20. ASSUME NEW r \in Refreshers,
              LoadExpired(r) \/ ExpirePayment(r) \/ LoadHistory(r)
       PROVE  TypeOK'
  <2>1. payments' \in Table
    BY <1>0, <1>20, StatementTypes
    DEF LoadExpired, ExpirePayment, LoadHistory
  <2>2. history' \in [Refreshers -> [pc : {"idle", "clean"},
                                    expired : SUBSET Hash, due : SUBSET Hash]]
    <3>1. CASE LoadExpired(r)
      <4> DEFINE expired == {h \in Hash : Expired(h)}
                 loaded == [pc |-> "clean", expired |-> expired, due |-> expired]
      <4>1. loaded \in Progress
        BY DEF Progress
      <4>2. history' = [history EXCEPT ![r] = loaded] \/ UNCHANGED history
        BY <3>1, Zenon DEF LoadExpired
      <4>3. history \in [Refreshers -> Progress]
        BY DEF Progress
      <4> HIDE DEF loaded
      <4> QED
        BY <4>1, <4>2, <4>3 DEF Progress
    <3>2. CASE ExpirePayment(r)
      <4>1. PICK h \in history[r].expired :
              \/ history' = [history EXCEPT ![r].expired = @ \ {h}]
              \/ history' = [history EXCEPT ![r] = IdleHistory]
        BY <3>2 DEF ExpirePayment
      <4>2. history[r].expired \ {h} \in SUBSET Hash
        OBVIOUS
      <4>3. IdleHistory \in Progress
        BY DEF IdleHistory, Progress
      <4>4. [history[r] EXCEPT !.expired = @ \ {h}] \in Progress
        <5>1. history[r] \in Progress
          BY DEF Progress
        <5> QED
          BY <4>2, <5>1, ProgressType
      <4>5. history \in [Refreshers -> Progress]
        BY DEF Progress
      <4>6. history' \in [Refreshers -> Progress]
        <5>1. CASE history' = [history EXCEPT ![r].expired = @ \ {h}]
          BY <4>4, <4>5, <5>1
        <5>2. CASE history' = [history EXCEPT ![r] = IdleHistory]
          BY <4>3, <4>5, <5>2
        <5> QED
          BY <4>1, <5>1, <5>2
      <4> QED
        BY <4>6 DEF Progress
    <3>3. CASE LoadHistory(r)
      BY <3>3 DEF LoadHistory, IdleHistory
    <3> QED
      BY <1>20, <3>1, <3>2, <3>3
  <2>3. dbErrors' \in Nat
    BY <1>20, ErrorsType DEF LoadExpired, ExpirePayment, LoadHistory
  <2>4. UNCHANGED <<call, handler, queue, handled, payer, issued, ldk, missed,
                   now, crashes>>
    BY <1>20 DEF LoadExpired, ExpirePayment, LoadHistory
  <2> QED
    BY <2>1, <2>2, <2>3, <2>4 DEF ldk, Table
<1>21. ASSUME Tick PROVE TypeOK'
  <2>1. now' \in Nat
    BY <1>21 DEF Tick
  <2>2. UNCHANGED <<payments, call, history, handler, queue, handled, payer,
                   issued, ldk, missed, dbErrors, crashes>>
    BY <1>21 DEF Tick
  <2> QED
    BY <2>1, <2>2 DEF ldk
<1>22. ASSUME Crash PROVE TypeOK'
  <2>1. queue' \in Seq(Event)
    BY <1>22, ConcatProperties DEF Crash
  <2> QED
    BY <1>22, <2>1, EmptySeq DEF Crash, IdleHandler, IdleHistory, ldk
<1>23. ASSUME UNCHANGED vars PROVE TypeOK'
  BY <1>23 DEF vars, ldk, bounds
<1> QED
  BY <1>1, <1>2, <1>3, <1>4, <1>5, <1>6, <1>7, <1>8, <1>9, <1>10, <1>11,
     <1>13, <1>14, <1>15, <1>16, <1>17, <1>18, <1>19, <1>20, <1>21, <1>22,
     <1>23
  DEF Next, Handle

\* Every behaviour of the payments table and of the threads that write it
\* stays within the types.
THEOREM TypeCorrect == Spec => []TypeOK
  BY TypeInit, TypeStep, PTL DEF Spec

(***************************************************************************)
(* The ledger says only what LDK said                                      *)
(*                                                                         *)
(* SucceededIsSettled is not inductive: a status comes from an event, and  *)
(* an event may wait in the queue, be in the hands of the event thread, or *)
(* come again after a restart. The invariant follows a success event from  *)
(* the HTLC that caused it to the row it ends in.                          *)
(***************************************************************************)
\* Events that are true of the settled payments S.
True(S) ==
    {e \in Event : /\ e.type \in SuccessTypes => e.hash \in S
                   /\ e.type \in {"PaymentReceived", "PaymentClaimed"}
                        => e.hash \in Inbound}

EventsTrue ==
    /\ queue \in Seq(True(settled)) /\ handled \in Seq(True(settled))
    /\ handler.pc # "idle" => handler.event \in True(settled)
    /\ handler.pc \in {"update", "insert"} =>
         handler.event.type = "PaymentClaimed"

FinalizingSettled ==
    \A h \in Outgoing, k \in 1..MaxAttempts :
        finalizing[<<h, k>>] > 0 => h \in settled

\* A row a caller is about to insert makes no claim.
CallsModest ==
    \A c \in Callers : call[c] # Null =>
        /\ call[c].row.flow = Ledger!FlowOf(call[c].hash)
        /\ call[c].row.status # "Succeeded" /\ ~call[c].row.preimage

RowsTrue ==
    /\ SucceededIsSettled
    /\ \A h \in Hash : HasRow(h) => payments[h].flow = Ledger!FlowOf(h)

IInv == TypeOK /\ EventsTrue /\ FinalizingSettled /\ CallsModest /\ RowsTrue

\* The inductive invariant holds before the first call.
LEMMA InvInit == Init => IInv
<1> SUFFICES ASSUME Init PROVE IInv
  OBVIOUS
<1>1. TypeOK
  BY TypeInit
<1>2. EventsTrue
  BY EmptySeq DEF Init, EventsTrue, IdleHandler
<1>3. FinalizingSettled
  BY DEF Init, FinalizingSettled, PaymentId
<1>4. CallsModest /\ RowsTrue
  BY DEF Init, CallsModest, RowsTrue, SucceededIsSettled, HasRow
<1> QED
  BY <1>1, <1>2, <1>3, <1>4 DEF IInv

\* What is true stays true when more is settled.
LEMMA TrueGrows ==
  ASSUME NEW S, NEW T, S \subseteq T
  PROVE  True(S) \subseteq True(T) /\ Seq(True(S)) \subseteq Seq(True(T))
<1>1. True(S) \subseteq True(T)
  BY DEF True
<1> QED
  BY <1>1, SeqMonotonic

\* Settled payments stay settled.
LEMMA SettledGrows == TypeOK /\ [Next]_vars => settled \subseteq settled'
  BY DEF Next, Handle, vars, ldk, PayInvoice, SendingError, RecordSent,
         CreateInvoice, RecordInvoice, FulfilHtlc, FinalizeHtlc, FailHtlc,
         HoldPayment, TakeEvent, HandlePaymentReceived, HandlePaymentSent,
         HandlePaymentFailed, HandlePathSuccessful, HandlePaymentClaimed,
         UpdateClaimed, InsertClaimed, Persist, LoadExpired, ExpirePayment,
         LoadHistory, Tick, Crash

\* An HTLC being finalised was fulfilled.
LEMMA FinalizingStep ==
  TypeOK /\ FinalizingSettled /\ [Next]_vars => FinalizingSettled'
<1> SUFFICES ASSUME TypeOK, FinalizingSettled, [Next]_vars
             PROVE  FinalizingSettled'
  OBVIOUS
<1>1. settled \subseteq settled'
  BY SettledGrows
<1>2. ASSUME NEW h \in Outgoing, NEW k \in 1..MaxAttempts, FulfilHtlc(h, k)
      PROVE  FinalizingSettled'
  <2>1. /\ finalizing' = [finalizing EXCEPT ![<<h, k>>] = @ + 1]
        /\ settled' = settled \cup {h}
    BY <1>2 DEF FulfilHtlc
  <2> QED
    BY <2>1 DEF FinalizingSettled, TypeOK, PaymentId
<1>3. ASSUME NEW h \in Outgoing, NEW k \in 1..MaxAttempts, FinalizeHtlc(h, k)
      PROVE  FinalizingSettled'
  <2>1. /\ finalizing' = [finalizing EXCEPT ![<<h, k>>] = @ - 1]
        /\ finalizing[<<h, k>>] > 0
    BY <1>3 DEF FinalizeHtlc
  <2> QED
    BY <1>1, <2>1 DEF FinalizingSettled, TypeOK, PaymentId
<1>4. CASE UNCHANGED finalizing
  BY <1>1, <1>4 DEF FinalizingSettled
<1>5. \/ UNCHANGED finalizing
      \/ \E h \in Outgoing, k \in 1..MaxAttempts :
           FulfilHtlc(h, k) \/ FinalizeHtlc(h, k)
  BY DEF Next, Handle, vars, ldk, PayInvoice, SendingError, RecordSent,
         CreateInvoice, RecordInvoice, FailHtlc,
         HoldPayment, TakeEvent, HandlePaymentReceived, HandlePaymentSent,
         HandlePaymentFailed, HandlePathSuccessful, HandlePaymentClaimed,
         UpdateClaimed, InsertClaimed, Persist, LoadExpired, ExpirePayment,
         LoadHistory, Tick, Crash
<1> QED
  BY <1>2, <1>3, <1>4, <1>5

\* A caller prepares only rows that claim nothing.
LEMMA CallsStep == TypeOK /\ CallsModest /\ [Next]_vars => CallsModest'
<1> SUFFICES ASSUME TypeOK, CallsModest, [Next]_vars PROVE CallsModest'
  OBVIOUS
<1>1. ASSUME NEW c \in Callers, NEW h \in Outgoing,
             PayInvoice(c, h) \/ SendingError(c, h)
      PROVE  CallsModest'
  <2>1. PICK s \in {"Pending", "Failed"} :
          call' = [call EXCEPT ![c] = [hash |-> h, row |-> OutboundRow(s)]]
    BY <1>1 DEF PayInvoice, SendingError
  <2>2. /\ OutboundRow(s).flow = Ledger!FlowOf(h)
        /\ OutboundRow(s).status # "Succeeded" /\ ~OutboundRow(s).preimage
    BY DEF OutboundRow, NewRow, Ledger!FlowOf
  <2> QED
    BY <2>1, <2>2 DEF CallsModest, TypeOK
<1>2. ASSUME NEW c \in Callers, NEW h \in Incoming, CreateInvoice(c, h)
      PROVE  CallsModest'
  <2>1. call' = [call EXCEPT ![c] = [hash |-> h, row |-> InboundRow]]
    BY <1>2 DEF CreateInvoice
  <2>2. /\ InboundRow.flow = Ledger!FlowOf(h)
        /\ InboundRow.status # "Succeeded" /\ ~InboundRow.preimage
    BY DEF InboundRow, NewRow, Ledger!FlowOf, Inbound
  <2> QED
    BY <2>1, <2>2 DEF CallsModest, TypeOK
<1>3. ASSUME NEW c \in Callers, RecordSent(c) \/ RecordInvoice(c)
      PROVE  CallsModest'
  BY <1>3 DEF RecordSent, RecordInvoice, CallsModest, TypeOK
<1>4. CASE Crash
  BY <1>4 DEF Crash, CallsModest
<1>5. CASE UNCHANGED call
  BY <1>5 DEF CallsModest
<1>6. \/ UNCHANGED call \/ Crash
      \/ \E c \in Callers :
           \/ \E h \in Outgoing : PayInvoice(c, h) \/ SendingError(c, h)
           \/ \E h \in Incoming : CreateInvoice(c, h)
           \/ RecordSent(c) \/ RecordInvoice(c)
  BY DEF Next, Handle, vars, FulfilHtlc, FinalizeHtlc, FailHtlc,
         HoldPayment, TakeEvent, HandlePaymentReceived, HandlePaymentSent,
         HandlePaymentFailed, HandlePathSuccessful, HandlePaymentClaimed,
         UpdateClaimed, InsertClaimed, Persist, LoadExpired, ExpirePayment,
         LoadHistory, Tick
<1> QED
  BY <1>1, <1>2, <1>3, <1>4, <1>5, <1>6

\* Putting a true event into the queue keeps everything true.
LEMMA RaiseTrue ==
  ASSUME EventsTrue, settled \subseteq settled', NEW e \in True(settled'),
         queue' = Append(queue, e), UNCHANGED handled,
         UNCHANGED handler \/ handler' = IdleHandler
  PROVE  EventsTrue'
<1>1. /\ True(settled) \subseteq True(settled')
      /\ Seq(True(settled)) \subseteq Seq(True(settled'))
  BY TrueGrows
<1>2. queue' \in Seq(True(settled'))
  BY <1>1 DEF EventsTrue
<1>3. handled' \in Seq(True(settled'))
  BY <1>1 DEF EventsTrue
<1>4. /\ handler'.pc # "idle" => handler'.event \in True(settled')
      /\ handler'.pc \in {"update", "insert"} =>
           handler'.event.type = "PaymentClaimed"
  BY <1>1 DEF EventsTrue, IdleHandler
<1> QED
  BY <1>2, <1>3, <1>4 DEF EventsTrue

\* So does leaving the queue alone while more is settled.
LEMMA KeepTrue ==
  ASSUME EventsTrue, settled \subseteq settled', UNCHANGED <<queue, handled>>,
         UNCHANGED handler \/ handler' = IdleHandler
  PROVE  EventsTrue'
<1>1. /\ True(settled) \subseteq True(settled')
      /\ Seq(True(settled)) \subseteq Seq(True(settled'))
  BY TrueGrows
<1> QED
  BY <1>1 DEF EventsTrue, IdleHandler

\* Every event, wherever it waits, is true of what is settled.
LEMMA EventsStep ==
  TypeOK /\ FinalizingSettled /\ EventsTrue /\ [Next]_vars => EventsTrue'
<1> SUFFICES ASSUME TypeOK, FinalizingSettled, EventsTrue, [Next]_vars
             PROVE  EventsTrue'
  OBVIOUS
<1>0. settled \subseteq settled'
  BY SettledGrows
<1>1. ASSUME NEW h \in Outgoing, NEW k \in 1..MaxAttempts, FulfilHtlc(h, k)
      PROVE  EventsTrue'
  <2> DEFINE e == [type |-> "PaymentSent", hash |-> h]
  <2>1. e \in True(settled')
    BY <1>1 DEF FulfilHtlc, True, Event, SuccessTypes, Hash
  <2>2. /\ queue' = queue \/ queue' = Append(queue, e)
        /\ UNCHANGED <<handled, handler>>
    BY <1>1 DEF FulfilHtlc, Raise
  <2> HIDE DEF e
  <2> QED
    BY <1>0, <2>1, <2>2, RaiseTrue, KeepTrue
<1>2. ASSUME NEW h \in Outgoing, NEW k \in 1..MaxAttempts, FinalizeHtlc(h, k)
      PROVE  EventsTrue'
  <2> DEFINE e == [type |-> "PaymentPathSuccessful", hash |-> h]
  <2>1. e \in True(settled')
    BY <1>0, <1>2
    DEF FinalizeHtlc, FinalizingSettled, True, Event, SuccessTypes, Hash
  <2>2. queue' = Append(queue, e) /\ UNCHANGED <<handled, handler>>
    BY <1>2 DEF FinalizeHtlc, Raise
  <2> HIDE DEF e
  <2> QED
    BY <1>0, <2>1, <2>2, RaiseTrue
<1>3. ASSUME NEW h \in Outgoing, NEW k \in 1..MaxAttempts, FailHtlc(h, k)
      PROVE  EventsTrue'
  <2> DEFINE e == [type |-> "PaymentPathFailed", hash |-> h]
             f == [type |-> "PaymentFailed", hash |-> h]
  <2>1. e \in True(settled) /\ f \in True(settled)
    BY DEF True, Event, SuccessTypes, FailureTypes, Hash
  <2>2. /\ \/ queue' = queue
           \/ queue' = Append(queue, e)
           \/ queue' = Append(Append(queue, e), f)
        /\ UNCHANGED <<handled, handler, settled>>
    BY <1>3 DEF FailHtlc
  <2> HIDE DEF e, f
  <2>3. Append(queue, e) \in Seq(True(settled))
    BY <2>1 DEF EventsTrue
  <2>4. Append(Append(queue, e), f) \in Seq(True(settled))
    BY <2>1, <2>3
  <2> QED
    BY <2>2, <2>3, <2>4 DEF EventsTrue
<1>4. ASSUME NEW h \in Inbound, HoldPayment(h) PROVE EventsTrue'
  <2> DEFINE e == [type |-> "PaymentReceived", hash |-> h]
  <2>1. e \in True(settled')
    BY DEF True, Event, SuccessTypes, FailureTypes, Hash
  <2>2. queue' = Append(queue, e) /\ UNCHANGED <<handled, handler>>
    BY <1>4 DEF HoldPayment, Raise
  <2> HIDE DEF e
  <2> QED
    BY <1>0, <2>1, <2>2, RaiseTrue
<1>5. ASSUME TakeEvent PROVE EventsTrue'
  <2>1. /\ Head(queue) \in True(settled)
        /\ Tail(queue) \in Seq(True(settled))
    BY <1>5, HeadTailProperties DEF TakeEvent, EventsTrue
  <2>2. /\ handler' = [pc |-> "handle", event |-> Head(queue)]
        /\ queue' = Tail(queue) /\ handled' = Append(handled, Head(queue))
        /\ UNCHANGED settled
    BY <1>5 DEF TakeEvent, ldk
  <2>3. handled' \in Seq(True(settled))
    BY <2>1, <2>2 DEF EventsTrue
  <2> QED
    BY <2>1, <2>2, <2>3 DEF EventsTrue
<1>6. ASSUME HandlePaymentReceived PROVE EventsTrue'
  <2> DEFINE e == [type |-> "PaymentClaimed", hash |-> handler.event.hash]
  <2>1. /\ handler.event.hash \in Hash
        /\ handler.event \in True(settled)
        /\ handler.event.type = "PaymentReceived"
    BY <1>6 DEF HandlePaymentReceived, Handling, EventsTrue, TypeOK, Event
  <2>2. handler.event.hash \in Inbound
    BY <2>1 DEF True
  <2>3. /\ \/ UNCHANGED queue
           \/ queue' = Append(queue, e) /\ handler.event.hash \in settled'
        /\ UNCHANGED handled /\ handler' = IdleHandler
    BY <1>6 DEF HandlePaymentReceived, Raise, Done
  <2>4. handler.event.hash \in settled' => e \in True(settled')
    BY <2>1, <2>2 DEF True, Event, SuccessTypes
  <2> HIDE DEF e
  <2> QED
    BY <1>0, <2>3, <2>4, RaiseTrue, KeepTrue
<1>7. CASE HandlePaymentClaimed \/ HandlePathSuccessful
  <2>1. \/ handler' = IdleHandler
        \/ handler' = [handler EXCEPT !.pc = "dead"]
        \/ /\ handler.event.type = "PaymentClaimed"
           /\ \E pc \in {"update", "insert"} :
                handler' = [handler EXCEPT !.pc = pc]
    BY <1>7 DEF HandlePaymentClaimed, HandlePathSuccessful, Handling, Done
  <2>2. handler.event \in True(settled)
    BY <1>7 DEF HandlePaymentClaimed, HandlePathSuccessful, Handling, EventsTrue
  <2>3. UNCHANGED <<queue, handled, settled>>
    BY <1>7 DEF HandlePaymentClaimed, HandlePathSuccessful, ldk
  <2>4. /\ handler'.pc # "idle" => handler'.event \in True(settled)
        /\ handler'.pc \in {"update", "insert"} =>
             handler'.event.type = "PaymentClaimed"
    <3>1. CASE handler' = IdleHandler
      BY <3>1 DEF IdleHandler
    <3>2. CASE handler' = [handler EXCEPT !.pc = "dead"]
      <4>1. handler'.pc = "dead" /\ handler'.event = handler.event
        BY <3>2 DEF TypeOK
      <4> QED
        BY <2>2, <4>1
    <3>3. ASSUME NEW pc \in {"update", "insert"},
                 handler.event.type = "PaymentClaimed",
                 handler' = [handler EXCEPT !.pc = pc]
          PROVE  <2>4!1 /\ <2>4!2
      <4>1. handler'.event = handler.event
        BY <3>3 DEF TypeOK
      <4> QED
        BY <2>2, <3>3, <4>1
    <3> QED
      BY <2>1, <3>1, <3>2, <3>3
  <2> QED
    BY <2>3, <2>4 DEF EventsTrue
<1>8. CASE Persist
  BY <1>8, EmptySeq DEF Persist, EventsTrue, ldk
<1>9. CASE Crash
  <2>1. handled \o queue \in Seq(True(settled))
    BY ConcatProperties DEF EventsTrue
  <2> QED
    BY <1>9, <2>1, EmptySeq DEF Crash, EventsTrue, IdleHandler, ldk
<1>10. CASE /\ UNCHANGED <<queue, handled>>
            /\ UNCHANGED handler \/ handler' = IdleHandler
  BY <1>0, <1>10, KeepTrue
<1>11. \/ /\ UNCHANGED <<queue, handled>>
          /\ UNCHANGED handler \/ handler' = IdleHandler
       \/ \E h \in Outgoing, k \in 1..MaxAttempts :
            FulfilHtlc(h, k) \/ FinalizeHtlc(h, k) \/ FailHtlc(h, k)
       \/ \E h \in Inbound : HoldPayment(h)
       \/ TakeEvent \/ HandlePaymentReceived \/ HandlePaymentClaimed
       \/ HandlePathSuccessful \/ Persist \/ Crash
  BY DEF Next, Handle, vars, PayInvoice, SendingError, RecordSent,
         CreateInvoice, RecordInvoice, HandlePaymentSent, HandlePaymentFailed,
         UpdateClaimed, InsertClaimed, LoadExpired, ExpirePayment, LoadHistory,
         Tick, Done
<1> QED
  BY <1>1, <1>2, <1>3, <1>4, <1>5, <1>6, <1>7, <1>8, <1>9, <1>10, <1>11

(***************************************************************************)
(* The table implements PaymentLedger                                      *)
(***************************************************************************)
LedgerStutter == UNCHANGED <<payments, settled>>

\* An INSERT records an entry or does nothing.
LEMMA InsertImplements ==
  ASSUME TypeOK, UNCHANGED settled, NEW h \in Hash,
         NEW row \in Ledger!Entry(h), Ledger!Backed(row, h),
         InsertPayment(h, row)
  PROVE  LedgerStutter \/ Ledger!Record(h)
<1>1. CASE HasRow(h)
  BY <1>1 DEF InsertPayment, LedgerStutter
<1>2. CASE ~HasRow(h)
  <2>1. payments' = [payments EXCEPT ![h] = row] /\ payments[h] = Null
    BY <1>2 DEF InsertPayment, HasRow
  <2>2. payments'[h] = row
    BY <2>1 DEF TypeOK
  <2> QED
    BY <2>1, <2>2 DEF Ledger!Record, Ledger!Backed
<1> QED
  BY <1>1, <1>2

\* An UPDATE of the status resolves an entry or does nothing.
LEMMA StatusImplements ==
  ASSUME TypeOK, RowsTrue, UNCHANGED settled, NEW h \in Hash,
         NEW s \in {"Succeeded", "Failed", "Expired"},
         s = "Succeeded" => h \in settled,
         UpdateStatus(h, s)
  PROVE  LedgerStutter \/ Ledger!Resolve(h)
<1>1. CASE ~HasRow(h)
  BY <1>1 DEF UpdateStatus, LedgerStutter
<1>2. CASE HasRow(h)
  <2> DEFINE row == [payments[h] EXCEPT !.status = s]
  <2>1. payments[h] \in Row /\ payments[h].flow = Ledger!FlowOf(h)
    BY <1>2 DEF HasRow, TypeOK, RowsTrue
  <2>2. payments[h].preimage => h \in settled
    BY <1>2 DEF RowsTrue, SucceededIsSettled
  <2>3. payments' = [payments EXCEPT ![h] = row] /\ payments'[h] = row
    BY <1>2 DEF UpdateStatus, TypeOK
  <2>4. /\ row \in Ledger!Entry(h) /\ row.status = s
        /\ row.expiry = payments[h].expiry
        /\ row.preimage = payments[h].preimage
    BY <2>1 DEF Row, Ledger!Entry, Ledger!Statuses
  <2> HIDE DEF row
  <2> QED
    BY <1>2, <2>2, <2>3, <2>4 DEF Ledger!Resolve, Ledger!Backed, HasRow
<1> QED
  BY <1>1, <1>2

\* An UPDATE with the preimage of a settled payment resolves its entry.
LEMMA InfoImplements ==
  ASSUME TypeOK, RowsTrue, UNCHANGED settled, NEW h \in settled,
         NEW q \in BOOLEAN, UpdateInfo(h, TRUE, q)
  PROVE  LedgerStutter \/ Ledger!Resolve(h)
<1>0. h \in Hash
  BY DEF TypeOK
<1>1. CASE ~HasRow(h)
  BY <1>1 DEF UpdateInfo, LedgerStutter
<1>2. CASE HasRow(h)
  <2> DEFINE row == [payments[h] EXCEPT !.status = "Succeeded",
                                        !.preimage = TRUE, !.secret = q]
  <2>1. payments[h] \in Row /\ payments[h].flow = Ledger!FlowOf(h)
    BY <1>0, <1>2 DEF HasRow, TypeOK, RowsTrue
  <2>2. payments' = [payments EXCEPT ![h] = row] /\ payments'[h] = row
    BY <1>0, <1>2 DEF UpdateInfo, TypeOK
  <2>3. /\ row \in Ledger!Entry(h) /\ row.status = "Succeeded"
        /\ row.expiry = payments[h].expiry /\ row.preimage
    BY <2>1 DEF Row, Ledger!Entry, Ledger!Statuses
  <2> HIDE DEF row
  <2> QED
    BY <1>2, <2>2, <2>3 DEF Ledger!Resolve, Ledger!Backed, HasRow
<1> QED
  BY <1>1, <1>2

\* Every step is a step of the ledger or leaves it alone.
LEMMA LedgerStep ==
  IInv /\ [Next]_vars => [Ledger!LedgerNext]_<<payments, settled>>
<1> SUFFICES ASSUME IInv, [Next]_vars
             PROVE  LedgerStutter \/ Ledger!LedgerNext
  BY DEF LedgerStutter
<1> USE DEF IInv
<1>0. \A h \in Hash : Ledger!Settle(h) \/ Ledger!Record(h) \/ Ledger!Resolve(h)
                        => Ledger!LedgerNext
  BY DEF Ledger!LedgerNext, Ledger!LedgerHash, Hash
<1>1. ASSUME NEW c \in Callers, RecordSent(c) \/ RecordInvoice(c)
      PROVE  LedgerStutter \/ Ledger!LedgerNext
  <2>1. /\ call[c].hash \in Hash /\ call[c].row \in Row
        /\ call[c].row.flow = Ledger!FlowOf(call[c].hash)
        /\ call[c].row.status # "Succeeded" /\ ~call[c].row.preimage
    BY <1>1 DEF RecordSent, RecordInvoice, TypeOK, CallsModest
  <2>2. /\ call[c].row \in Ledger!Entry(call[c].hash)
        /\ Ledger!Backed(call[c].row, call[c].hash)
    BY <2>1 DEF Row, Ledger!Entry, Ledger!Statuses, Ledger!Backed
  <2>3. /\ UNCHANGED settled
        /\ UNCHANGED payments \/ InsertPayment(call[c].hash, call[c].row)
    BY <1>1 DEF RecordSent, RecordInvoice, ldk
  <2> QED
    BY <1>0, <2>1, <2>2, <2>3, InsertImplements DEF LedgerStutter
<1>2. ASSUME NEW h \in Outgoing, NEW k \in 1..MaxAttempts, FulfilHtlc(h, k)
      PROVE  Ledger!LedgerNext
  BY <1>0, <1>2 DEF FulfilHtlc, Ledger!Settle, Hash
<1>3. ASSUME HandlePaymentReceived PROVE LedgerStutter \/ Ledger!LedgerNext
  <2>1. handler.event.hash \in Hash
    BY <1>3 DEF HandlePaymentReceived, Handling, TypeOK, Event
  <2> QED
    BY <1>0, <1>3, <2>1
    DEF HandlePaymentReceived, Ledger!Settle, LedgerStutter
<1>4. ASSUME handler.pc # "idle"
      PROVE  /\ handler.event.hash \in Hash
             /\ handler.event.type \in SuccessTypes =>
                  handler.event.hash \in settled
             /\ handler.event.type = "PaymentClaimed" =>
                  handler.event.hash \in Inbound
  BY <1>4 DEF TypeOK, EventsTrue, True, Event
<1>5. ASSUME HandlePaymentSent PROVE LedgerStutter \/ Ledger!LedgerNext
  <2>1. handler.event.hash \in settled
    BY <1>4, <1>5 DEF HandlePaymentSent, Handling, SuccessTypes
  <2>2. /\ UNCHANGED settled
        /\ UNCHANGED payments \/ UpdateInfo(handler.event.hash, TRUE, FALSE)
    BY <1>5 DEF HandlePaymentSent, ldk
  <2> QED
    BY <1>0, <2>1, <2>2, InfoImplements DEF LedgerStutter, TypeOK
<1>6. ASSUME HandlePaymentFailed \/ HandlePathSuccessful
      PROVE  LedgerStutter \/ Ledger!LedgerNext
  <2>1. PICK s \in {"Succeeded", "Failed"} :
          /\ s = "Succeeded" => handler.event.hash \in settled
          /\ UNCHANGED payments \/ UpdateStatus(handler.event.hash, s)
    BY <1>4, <1>6
    DEF HandlePaymentFailed, HandlePathSuccessful, Handling, SuccessTypes
  <2>2. UNCHANGED settled /\ handler.event.hash \in Hash
    BY <1>4, <1>6 DEF HandlePaymentFailed, HandlePathSuccessful, Handling, ldk
  <2> QED
    BY <1>0, <2>1, <2>2, StatusImplements DEF LedgerStutter
<1>7. ASSUME UpdateClaimed PROVE LedgerStutter \/ Ledger!LedgerNext
  <2> DEFINE q == handler.event.hash \in Incoming
  <2>1. handler.event.hash \in settled
    BY <1>4, <1>7 DEF UpdateClaimed, EventsTrue, SuccessTypes
  <2>2. q \in BOOLEAN
    OBVIOUS
  <2>3. UNCHANGED payments \/ UpdateInfo(handler.event.hash, TRUE, q)
    BY <1>7, Zenon DEF UpdateClaimed
  <2>4. UNCHANGED settled
    BY <1>7 DEF UpdateClaimed, ldk
  <2> HIDE DEF q
  <2> QED
    BY <1>0, <2>1, <2>2, <2>3, <2>4, InfoImplements DEF LedgerStutter, TypeOK
<1>8. ASSUME InsertClaimed PROVE LedgerStutter \/ Ledger!LedgerNext
  <2> DEFINE h == handler.event.hash
             row == NewRow("Inbound", "Succeeded", TRUE, h \in Incoming, Null)
  <2>1. h \in Hash /\ h \in settled /\ h \in Inbound
    BY <1>4, <1>8 DEF InsertClaimed, EventsTrue, SuccessTypes
  <2>2. row \in Ledger!Entry(h) /\ Ledger!Backed(row, h)
    BY <2>1 DEF NewRow, Ledger!Entry, Ledger!FlowOf, Ledger!Statuses,
                Ledger!Backed
  <2>3. UNCHANGED settled /\ (UNCHANGED payments \/ InsertPayment(h, row))
    BY <1>8 DEF InsertClaimed, ldk
  <2> HIDE DEF h, row
  <2> QED
    BY <1>0, <2>1, <2>2, <2>3, InsertImplements DEF LedgerStutter
<1>9. ASSUME NEW r \in Refreshers, ExpirePayment(r)
      PROVE  LedgerStutter \/ Ledger!LedgerNext
  <2>1. PICK h \in Hash : UNCHANGED payments \/ UpdateStatus(h, "Expired")
    BY <1>9 DEF ExpirePayment, TypeOK
  <2>2. UNCHANGED settled
    BY <1>9 DEF ExpirePayment, ldk
  <2> QED
    BY <1>0, <2>1, <2>2, StatusImplements DEF LedgerStutter
<1>10. CASE LedgerStutter
  BY <1>10
<1>11. \/ LedgerStutter
       \/ \E c \in Callers : RecordSent(c) \/ RecordInvoice(c)
       \/ \E h \in Outgoing, k \in 1..MaxAttempts : FulfilHtlc(h, k)
       \/ HandlePaymentReceived \/ HandlePaymentSent \/ HandlePaymentFailed
       \/ HandlePathSuccessful \/ UpdateClaimed \/ InsertClaimed
       \/ \E r \in Refreshers : ExpirePayment(r)
  BY DEF LedgerStutter, Next, Handle, vars, ldk, PayInvoice, SendingError,
         CreateInvoice, FinalizeHtlc, FailHtlc, HoldPayment, TakeEvent,
         HandlePaymentClaimed, Persist, LoadExpired, LoadHistory, Tick, Crash
<1> QED
  BY <1>1, <1>2, <1>3, <1>5, <1>6, <1>7, <1>8, <1>9, <1>10, <1>11

\* A step of the ledger keeps the rows true.
LEMMA RowsStep ==
  TypeOK /\ RowsTrue /\ [Ledger!LedgerNext]_<<payments, settled>> => RowsTrue'
<1> SUFFICES ASSUME TypeOK, RowsTrue, [Ledger!LedgerNext]_<<payments, settled>>
             PROVE  RowsTrue'
  OBVIOUS
<1> USE DEF RowsTrue, SucceededIsSettled, HasRow
<1>1. ASSUME NEW h \in Hash, Ledger!Settle(h) PROVE RowsTrue'
  BY <1>1 DEF Ledger!Settle
<1>2. ASSUME NEW h \in Hash, Ledger!Record(h) \/ Ledger!Resolve(h)
      PROVE  RowsTrue'
  <2>1. /\ payments' = [payments EXCEPT ![h] = payments'[h]]
        /\ payments'[h].flow = Ledger!FlowOf(h)
        /\ Ledger!Backed(payments'[h], h) /\ UNCHANGED settled
    BY <1>2 DEF Ledger!Record, Ledger!Resolve, Ledger!Entry
  <2>2. \A g \in Hash \ {h} : payments'[g] = payments[g]
    <3> DEFINE row == payments'[h]
    <3>1. payments' = [payments EXCEPT ![h] = row]
      BY <2>1
    <3> HIDE DEF row
    <3> QED
      BY <3>1 DEF TypeOK
  <2>3. ASSUME NEW g \in Hash, payments'[g] # Null
        PROVE  /\ payments'[g].flow = Ledger!FlowOf(g)
               /\ (payments'[g].status = "Succeeded" \/ payments'[g].preimage)
                    => g \in settled'
    <3>1. CASE g = h
      BY <2>1, <3>1 DEF Ledger!Backed
    <3>2. CASE g # h
      BY <2>1, <2>2, <2>3, <3>2
    <3> QED
      BY <3>1, <3>2
  <2> QED
    BY <2>3
<1>3. CASE UNCHANGED <<payments, settled>>
  BY <1>3
<1> QED
  BY <1>1, <1>2, <1>3 DEF Ledger!LedgerNext, Ledger!LedgerHash, Hash

\* Every step of every thread, and a restart, keeps the inductive invariant.
LEMMA InvStep == IInv /\ [Next]_vars => IInv'
  BY TypeStep, EventsStep, FinalizingStep, CallsStep, LedgerStep, RowsStep
  DEF IInv

\* The inductive invariant holds throughout.
THEOREM Invariant == Spec => []IInv
  BY InvInit, InvStep, PTL DEF Spec

\* The table claims that money moved only for payments LDK settled: through
\* every interleaving of send_payment, create_invoice, the events, expiry,
\* failing statements and restarts.
THEOREM LedgerIsTrue == Spec => []SucceededIsSettled
<1>1. IInv => SucceededIsSettled
  BY DEF IInv, RowsTrue
<1> QED
  BY <1>1, Invariant, PTL

\* The table, written by every thread in any order, implements PaymentLedger.
THEOREM TableImplementsLedger == Spec => KeepsLedger
<1>1. Init => Ledger!LedgerInit
  BY DEF Init, Ledger!LedgerInit, Ledger!LedgerHash, Hash
<1>2. IInv /\ [Next]_vars => [Ledger!LedgerNext]_(Ledger!ledgerVars)
  BY LedgerStep DEF Ledger!ledgerVars
<1> QED
  BY <1>1, <1>2, Invariant, PTL DEF Spec, KeepsLedger, Ledger!LedgerSpec
=============================================================================
