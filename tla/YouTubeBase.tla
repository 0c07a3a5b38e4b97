----------------------------- MODULE YouTubeBase -----------------------------
(***************************************************************************)
(* What the models of the YouTube integration share: a value for what is   *)
(* not there (SQL NULL, a process without work), and the faults of a       *)
(* behaviour, which are bounded for TLC.                                   *)
(***************************************************************************)
EXTENDS Naturals

CONSTANTS
  None,
  MaxFaults    \* deaths, refusals, lost answers, failed statements, renewals of the
               \* subscription and disabled bindings together

ASSUME FaultAssumption == MaxFaults \in Nat

VARIABLE faults

Fault == faults < MaxFaults /\ faults' = faults + 1

=============================================================================
