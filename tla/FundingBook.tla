---------------------------- MODULE FundingBook ----------------------------
(***************************************************************************)
(* What opening channels promises about the taker's coins: a call brings   *)
(* at most one payment of the maker and, after it, at most one channel,    *)
(* which takes its capacity out of the coins at once and in full.  Nothing *)
(* else moves a coin, whatever fails.                                      *)
(***************************************************************************)
EXTENDS Naturals

CONSTANTS
    Call,
    Start,          \* what the taker has
    Payment,        \* what the maker sends for a call
    Price           \* what a channel takes out of the coins

VARIABLES
    balance,        \* the coins
    paid,           \* calls the maker has paid for
    funded          \* calls whose channel is funded

fundingVars == <<balance, paid, funded>>

FundingInit == balance = Start /\ paid = {} /\ funded = {}

ReceivePayment(c) ==
    /\ c \notin paid
    /\ paid' = paid \cup {c}
    /\ balance' = balance + Payment
    /\ UNCHANGED funded

Fund(c) ==
    /\ c \in paid \ funded
    /\ balance >= Price
    /\ funded' = funded \cup {c}
    /\ balance' = balance - Price
    /\ UNCHANGED paid

FundingNext == \E c \in Call : ReceivePayment(c) \/ Fund(c)

FundingSpec == FundingInit /\ [][FundingNext]_fundingVars
=============================================================================
