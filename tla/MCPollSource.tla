---------------------------- MODULE MCPollSource ----------------------------
(***************************************************************************)
(* The instance of PollSource for TLC.  One unit of time is the interval   *)
(* between two polls and the length of a lease, which a cycle may outlast; *)
(* the pages of a walk follow each other within it.                        *)
(***************************************************************************)
EXTENDS PollSource

MCBackoff == <<1>>

=============================================================================
