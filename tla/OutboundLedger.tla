--------------------------- MODULE OutboundLedger ---------------------------
(***************************************************************************)
(* What the dispatch of outbound Messenger replies promises, without its   *)
(* workers, claims, locks and requests: the life of a stored reply, the    *)
(* number of times it was tried, what Graph told us of each try and when   *)
(* the next may begin.  MetaOutbound implements it.                        *)
(***************************************************************************)
EXTENDS Integers

CONSTANT Outbound

VARIABLES
  reply,    \* status of each reply, "absent" before it is stored
  tries,    \* attempts begun
  told,     \* attempts whose success we were told of
  due,      \* earliest begin of the next attempt, once one has failed
  now

ledger == <<reply, tries, told, due, now>>

\* VALID_STATUS_TRANSITIONS of the module's pure state machine.
ValidTransition ==
  [pending |-> {"claimed", "retryable_failed", "terminal_failed"},
   claimed |-> {"sent", "retryable_failed", "terminal_failed", "provider_sent_unconfirmed"},
   retryable_failed |-> {"claimed", "terminal_failed"},
   sent |-> {},
   terminal_failed |-> {},
   provider_sent_unconfirmed |-> {"sent", "terminal_failed"}]

Init ==
  /\ reply = [o \in Outbound |-> "absent"]
  /\ tries = [o \in Outbound |-> 0]
  /\ told = [o \in Outbound |-> {}]
  /\ due = [o \in Outbound |-> 0]
  /\ now = 0

Store(o) ==
  /\ reply[o] = "absent"
  /\ reply' = [reply EXCEPT ![o] = "pending"]
  /\ UNCHANGED <<tries, told, due, now>>

\* An attempt begins: the first, one that is due after a failure, or one that takes the reply
\* over from a dispatch that has not ended. A reply that has ended is never tried again.
Try(o) ==
  /\ reply[o] \in {"pending", "claimed", "retryable_failed"}
  /\ reply[o] = "retryable_failed" => due[o] <= now
  /\ reply' = [reply EXCEPT ![o] = "claimed"]
  /\ tries' = [tries EXCEPT ![o] = @ + 1]
  /\ due' = [due EXCEPT ![o] = 0]
  /\ UNCHANGED <<told, now>>

\* Graph's success answer to the n-th attempt, which may have been taken over since. It comes
\* before the end of the attempt, and once.
Hear(o, n) ==
  /\ n \in (1..tries[o]) \ told[o]
  /\ n = tries[o] => reply[o] = "claimed"
  /\ told' = [told EXCEPT ![o] = @ \cup {n}]
  /\ UNCHANGED <<reply, tries, due, now>>

\* The last attempt begun ends: well, or held, exactly when we were told so.
End(o, s) ==
  /\ reply[o] = "claimed" /\ s \in ValidTransition[reply[o]]
  /\ s \in {"sent", "provider_sent_unconfirmed"} <=> tries[o] \in told[o]
  /\ reply' = [reply EXCEPT ![o] = s]
  /\ IF s = "retryable_failed"
       THEN due'[o] \in Nat /\ due' = [due EXCEPT ![o] = due'[o]]
       ELSE UNCHANGED due
  /\ UNCHANGED <<tries, told, now>>

Tick == now' = now + 1 /\ UNCHANGED <<reply, tries, told, due>>

Next ==
  \/ \E o \in Outbound : Store(o) \/ Try(o)
  \/ \E o \in Outbound : \E n \in 1..tries[o] : Hear(o, n)
  \/ \E o \in Outbound : \E s \in ValidTransition["claimed"] : End(o, s)
  \/ Tick

Spec == Init /\ [][Next]_ledger

=============================================================================
