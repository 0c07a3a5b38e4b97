-------------------------- MODULE MCClipPersistence --------------------------
(* Two scans, of one id or of two, and two processes that both run the outbox. *)
EXTENDS ClipPersistence
==============================================================================
