------------------------ MODULE MCDeliveryCompletion ------------------------
(***************************************************************************)
(* The instance of DeliveryCompletion for TLC: three deliveries and lists  *)
(* of two.  The first two share an account, so that its source, paused,    *)
(* can fill every list and keep the third delivery, of an active source,   *)
(* out of it; with one of them waiting, the third has its place.           *)
(***************************************************************************)
EXTENDS DeliveryCompletion

MCTwoAccounts == <<"a", "a", "b">>

=============================================================================
