--------------------------- MODULE PaymentLedger ---------------------------
(***************************************************************************)
(* What the payments table promises, whoever writes it and in whatever     *)
(* order: a payment is recorded once and never deleted; its direction and  *)
(* its expiry never change; it never becomes Pending again; it is          *)
(* Succeeded, or holds a preimage, only if its money moved; and a preimage *)
(* that was stored is never lost.                                          *)
(***************************************************************************)
EXTENDS Naturals

CONSTANTS Outgoing, Inbound, Null

Statuses == {"Pending", "Succeeded", "Failed", "Expired"}

VARIABLES payments, settled

ledgerVars == <<payments, settled>>

LedgerHash == Outgoing \cup Inbound
FlowOf(h) == IF h \in Outgoing THEN "Outbound" ELSE "Inbound"
Entry(h) == [ flow : {FlowOf(h)}, status : Statuses, preimage : BOOLEAN,
              secret : BOOLEAN, expiry : Nat \cup {Null} ]

\* An entry that says the money moved needs money that moved.
Backed(row, h) ==
    row.status = "Succeeded" \/ row.preimage => h \in settled

LedgerInit == payments = [h \in LedgerHash |-> Null] /\ settled = {}

Settle(h) == settled' = settled \cup {h} /\ UNCHANGED payments

Record(h) ==
    /\ payments[h] = Null
    /\ payments'[h] \in Entry(h)
    /\ Backed(payments'[h], h)
    /\ payments' = [payments EXCEPT ![h] = payments'[h]]
    /\ UNCHANGED settled

Resolve(h) ==
    /\ payments[h] # Null
    /\ payments'[h] \in Entry(h)
    /\ payments'[h].status # "Pending"
    /\ payments'[h].expiry = payments[h].expiry
    /\ payments[h].preimage => payments'[h].preimage
    /\ Backed(payments'[h], h)
    /\ payments' = [payments EXCEPT ![h] = payments'[h]]
    /\ UNCHANGED settled

LedgerNext == \E h \in LedgerHash : Settle(h) \/ Record(h) \/ Resolve(h)

LedgerSpec == LedgerInit /\ [][LedgerNext]_ledgerVars
=============================================================================
