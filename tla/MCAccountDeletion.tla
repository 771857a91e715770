------------------------- MODULE MCAccountDeletion -------------------------
(* AccountDeletion for TLC: one plan, two Stripe subscriptions, two chains. *)
EXTENDS AccountDeletion
=============================================================================
