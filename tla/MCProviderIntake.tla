-------------------------- MODULE MCProviderIntake --------------------------
(* Instances of ProviderIntake for TLC. *)
EXTENDS ProviderIntake
=============================================================================
