------------------------------- MODULE MCCfds -------------------------------
(* A small instance of Cfds: one offer, which may also be missing. *)
EXTENDS Cfds

OneOffer == {[bid |-> 1, ask |-> 2]}
=============================================================================
