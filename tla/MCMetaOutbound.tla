--------------------------- MODULE MCMetaOutbound ---------------------------
(***************************************************************************)
(* Instances of MetaOutbound for TLC.  Time is counted in units of the     *)
(* first backoff; the stale limit and the Retry-After values are a few     *)
(* units, so a cycle can outlast each of them.                             *)
(***************************************************************************)
EXTENDS MetaOutbound

\* Doubling, capped: the shape of 30 * 2^(n-1) up to 3600.
MCBackoff == [n \in 1..MaxAttempt |-> IF n = 1 THEN 1 ELSE 2]

=============================================================================
