------------------------- MODULE DeliveryCompletion -------------------------
(***************************************************************************)
(* codeClip's completion of polled deliveries: after each polling cycle a  *)
(* worker lists the deliveries of codeclip_provider_deliveries that wait,  *)
(* checks where each came from, claims it, commits its interaction and     *)
(* records the outcome in the ledger.                                      *)
(*                                                                         *)
(* Every SQL statement is one step.  Only the claim tests the row it       *)
(* writes: the other updates find the row by its identity alone.           *)
(***************************************************************************)
EXTENDS Naturals, FiniteSets

CONSTANTS
  Delivery,     \* deliveries, in the order of created_at, id
  Account,      \* provider accounts, each with a poll source
  AccountOf,    \* the account a delivery was detected on
  Unreadable,   \* deliveries stored without usable detection metadata
  Process,       \* polling worker processes
  ListLimit,        \* deliveries one completion cycle lists at most
  MaxFaults,    \* bound on crashes, raised statements and failed transactions
  MaxChanges,   \* bound on changes of sources and bindings
  NoDelivery    \* a worker that has none in hand

ASSUME DeliveryAssumption ==
  /\ Delivery \subseteq Nat /\ NoDelivery \notin Delivery /\ Unreadable \subseteq Delivery
  /\ AccountOf \in [Delivery -> Account]
ASSUME BoundAssumption == ListLimit \in Nat \ {0} /\ MaxFaults \in Nat /\ MaxChanges \in Nat

VARIABLES
  row,          \* the ledger
  interaction,  \* deliveries whose interaction is stored
  active,       \* accounts whose poll source is active
  mapped,       \* deliveries whose event the account's binding leads to
  worker,       \* the completion cycle of each process
  faults,
  changes

completionVars == <<row, interaction, active, mapped, worker, faults, changes>>
World == <<active, mapped, changes>>

-----------------------------------------------------------------------------
\* The columns completion reads and writes. "absent" stands for a row not inserted yet.
DeliveryRow == [processing : {"absent", "processing", "failed", "completed"},
        core : {"not_started", "processing", "failed", "committed"},
        completed : BOOLEAN, retry : BOOLEAN, terminal : BOOLEAN]

Shape(processing, core, completed, retry, terminal) ==
  [processing |-> processing, core |-> core, completed |-> completed,
   retry |-> retry, terminal |-> terminal]

AbsentDelivery == Shape("absent", "not_started", FALSE, FALSE, FALSE)
NewDelivery == Shape("processing", "not_started", FALSE, FALSE, FALSE)

\* Not started at the time it was listed: core_persistence_state goes back to that.
TerminalFailure == Shape("failed", "not_started", FALSE, FALSE, TRUE)

\* Mutant: the delivery is put back in line.
RetryableRequeued == Shape("processing", "not_started", FALSE, TRUE, FALSE)
RetryableFailure == Shape("failed", "failed", FALSE, TRUE, FALSE)

Completion == Shape("completed", "committed", TRUE, FALSE, TRUE)

\* The WHERE of the list and of the claim.
Claimable(d) ==
  /\ row[d].processing = "processing"
  /\ row[d].core = "not_started"
  /\ ~row[d].completed /\ ~row[d].terminal

-----------------------------------------------------------------------------
\* loop: between two deliveries of the list; source, mapping: before reading the poll source,
\* the binding with its event; rejecting, failing, committed: before the update that ends it.
CompleterPC == {"idle", "loop", "source", "mapping", "unclaimed", "claimed", "committed", "failing", "rejecting"}
Completer == [pc : CompleterPC, todo : SUBSET Delivery, delivery : Delivery \cup {NoDelivery}]
IdleCompleter == [pc |-> "idle", todo |-> {}, delivery |-> NoDelivery]

CompletionInit ==
  /\ row = [d \in Delivery |-> AbsentDelivery]
  /\ interaction = {}
  /\ active = Account
  /\ mapped = Delivery
  /\ worker = [w \in Process |-> IdleCompleter]
  /\ faults = 0
  /\ changes = 0

\* A poll stores what it detected (ON CONFLICT DO NOTHING); only an active source is polled.
StoreDetected(d) ==
  /\ row[d].processing = "absent"
  /\ AccountOf[d] \in active
  /\ row' = [row EXCEPT ![d] = NewDelivery]
  /\ UNCHANGED <<interaction, World, worker, faults>>

\* A poll pauses a source, activation resumes it.
ChangeSource(a) ==
  /\ changes < MaxChanges /\ changes' = changes + 1
  /\ active' = IF a \in active THEN active \ {a} ELSE active \cup {a}
  /\ UNCHANGED <<row, interaction, mapped, worker, faults>>

\* An operator ends or changes the one binding of an account, or the event it leads to.
OnAccount(a) == {d \in Delivery : AccountOf[d] = a}
ChangeMapping(a) ==
  /\ changes < MaxChanges /\ changes' = changes + 1
  /\ \E M \in SUBSET OnAccount(a) : mapped' = (mapped \ OnAccount(a)) \cup M
  /\ UNCHANGED <<row, interaction, active, worker, faults>>

-----------------------------------------------------------------------------
\* runCodeClipProviderPollingDeliveryCompletionCycle.

At(w, pc) == worker[w].pc = pc
GoTo(w, pc) == worker' = [worker EXCEPT ![w].pc = pc]

\* The loop goes on.
Continue(w) == worker' = [worker EXCEPT ![w].pc = "loop", ![w].delivery = NoDelivery]

\* ORDER BY created_at, id LIMIT: sources are not looked at.
ListedDeliveries ==
  LET claimable == {d \in Delivery : Claimable(d)}
  IN  {d \in claimable : Cardinality({e \in claimable : e < d}) < ListLimit}

List(w) ==
  /\ At(w, "idle")
  /\ worker' = [worker EXCEPT ![w] = [IdleCompleter EXCEPT !.pc = "loop", !.todo = ListedDeliveries]]
  /\ UNCHANGED <<row, interaction, World, faults>>

EndCompletion(w) ==
  /\ At(w, "loop") /\ worker[w].todo = {}
  /\ GoTo(w, "idle")
  /\ UNCHANGED <<row, interaction, World, faults>>

\* The next delivery: passed over while its source is not active. Then its metadata are read,
\* before anything else. Mutant: the first such delivery ends the loop.
TakeOrEnd(w) ==
  /\ At(w, "loop")
  /\ \E d \in worker[w].todo :
       /\ \A e \in worker[w].todo : d <= e
       /\ IF AccountOf[d] \in active
            THEN worker' = [worker EXCEPT ![w] =
                   [pc |-> IF d \in Unreadable THEN "rejecting" ELSE "source",
                    todo |-> @.todo \ {d}, delivery |-> d]]
            ELSE worker' = [worker EXCEPT ![w].todo = {}]
  /\ UNCHANGED <<row, interaction, World, faults>>
Take(w) ==
  /\ At(w, "loop")
  /\ \E d \in worker[w].todo :
       /\ \A e \in worker[w].todo : d <= e
       /\ IF AccountOf[d] \in active
            THEN worker' = [worker EXCEPT ![w] =
                   [pc |-> IF d \in Unreadable THEN "rejecting" ELSE "source",
                    todo |-> @.todo \ {d}, delivery |-> d]]
            ELSE worker' = [worker EXCEPT ![w].todo = @ \ {d}]
  /\ UNCHANGED <<row, interaction, World, faults>>

-----------------------------------------------------------------------------
\* completeOneProviderPollingDelivery, statement by statement.

\* The source is read a second time: paused meanwhile, the delivery is rejected for good.
ReadSource(w) ==
  /\ At(w, "source")
  /\ GoTo(w, IF AccountOf[worker[w].delivery] \in active THEN "mapping" ELSE "rejecting")
  /\ UNCHANGED <<row, interaction, World, faults>>

\* The binding, its event and the event's activation.
ReadMapping(w) ==
  /\ At(w, "mapping")
  /\ GoTo(w, IF worker[w].delivery \in mapped THEN "unclaimed" ELSE "rejecting")
  /\ UNCHANGED <<row, interaction, World, faults>>

\* claimDeliveryForCompletion. Mutant: the WHERE names the delivery alone.
ClaimUnguarded(w) ==
  /\ At(w, "unclaimed")
  /\ row' = [row EXCEPT ![worker[w].delivery].core = "processing"]
  /\ GoTo(w, "claimed")
  /\ UNCHANGED <<interaction, World, faults>>
ClaimDelivery(w) ==
  /\ At(w, "unclaimed")
  /\ LET d == worker[w].delivery
     IN  IF Claimable(d)
           THEN row' = [row EXCEPT ![d].core = "processing"] /\ GoTo(w, "claimed")
           ELSE Continue(w) /\ UNCHANGED row
  /\ UNCHANGED <<interaction, World, faults>>

\* persistCodeClipCoreInteraction in one transaction: it commits; or it fails, for the caller,
\* though an answer lost at COMMIT leaves the interaction stored. The interaction is an upsert.
\* Mutant: the decision on a transaction that failed is not looked at.
CommitUndecided(w) ==
  /\ At(w, "claimed")
  /\ \/ interaction' = interaction \cup {worker[w].delivery} /\ UNCHANGED faults
     \/ faults < MaxFaults /\ faults' = faults + 1 /\ UNCHANGED interaction
  /\ GoTo(w, "committed")
  /\ UNCHANGED <<row, World>>
Commit(w) ==
  /\ At(w, "claimed")
  /\ \/ /\ interaction' = interaction \cup {worker[w].delivery}
        /\ GoTo(w, "committed") /\ UNCHANGED faults
     \/ /\ faults < MaxFaults /\ faults' = faults + 1
        /\ interaction' \in {interaction, interaction \cup {worker[w].delivery}}
        /\ GoTo(w, "failing")
  /\ UNCHANGED <<row, World>>

\* updateCodeClipProviderDeliveryState: WHERE names the delivery and nothing else.
Update(w, columns) ==
  /\ row' = [row EXCEPT ![worker[w].delivery] = columns]
  /\ Continue(w)
  /\ UNCHANGED <<interaction, World, faults>>

MarkTerminal(w) == At(w, "rejecting") /\ Update(w, TerminalFailure)
MarkRetryable(w) == At(w, "failing") /\ Update(w, RetryableFailure)
Finish(w) == At(w, "committed") /\ Update(w, Completion)

\* The process dies, or a statement raises and with it the whole completion cycle: the next
\* cycle lists afresh. (An update that committed before its answer was lost is a step further.)
Abandon(w) ==
  /\ faults < MaxFaults /\ faults' = faults + 1
  /\ ~At(w, "idle")
  /\ worker' = [worker EXCEPT ![w] = IdleCompleter]
  /\ UNCHANGED <<row, interaction, World>>

-----------------------------------------------------------------------------
CycleStep(w) ==
  \/ List(w) \/ EndCompletion(w) \/ Take(w)
  \/ ReadSource(w) \/ ReadMapping(w) \/ ClaimDelivery(w) \/ Commit(w)
  \/ MarkTerminal(w) \/ MarkRetryable(w) \/ Finish(w)

CompletionNext ==
  \/ \E d \in Delivery : StoreDetected(d)
  \/ \E a \in Account : ChangeSource(a) \/ ChangeMapping(a)
  \/ \E w \in Process : CycleStep(w) \/ Abandon(w)

CompletionSpec == CompletionInit /\ [][CompletionNext]_completionVars

\* A worker keeps cycling and its statements return.
FairCompletionSpec == CompletionSpec /\ \A w \in Process : WF_completionVars(CycleStep(w))

-----------------------------------------------------------------------------
(***************************************************************************)
(* Properties.                                                             *)
(***************************************************************************)

CompletionTypeOK ==
  /\ row \in [Delivery -> DeliveryRow]
  /\ interaction \subseteq Delivery
  /\ active \subseteq Account
  /\ mapped \subseteq Delivery
  /\ worker \in [Process -> Completer]
  /\ faults \in 0..MaxFaults
  /\ changes \in 0..MaxChanges

\* A worker between its claim and the update that ends it.
HoldsDelivery(w, d) == worker[w].delivery = d /\ worker[w].pc \in {"claimed", "committed", "failing"}

\* Nobody works on a delivery somebody claimed, though every worker may have listed it: one
\* holder, and the row no claim would take.
OneClaimant ==
  \A w \in Process : \A d \in Delivery : HoldsDelivery(w, d) =>
    /\ ~Claimable(d)
    /\ \A x \in Process \ {w} : ~HoldsDelivery(x, d)

\* A delivery is taken up once: no failure, no late update of another worker and no crash puts
\* it back in line.
NeverClaimableAgain ==
  [][\A d \in Delivery :
       row[d].processing # "absent" /\ ~Claimable(d) => ~Claimable(d)']_completionVars

\* What the ledger calls completed has its interaction, whatever was lost on the way.
CompletedHasInteraction ==
  \A d \in Delivery : row[d].completed => d \in interaction

\* The four counts of the operator status (operator-status.js) add up to its total: no
\* sequence of updates leaves a delivery in none of them, or in two.
InCount(r, c) ==
  \/ c = "processing" /\ r.processing = "processing"
  \/ c = "completed" /\ r.completed /\ r.terminal
  \/ c = "retryable_failed" /\ r.retry /\ ~r.terminal /\ r.processing = "failed"
  \/ c = "terminal_failed" /\ r.terminal /\ ~r.completed
Count == {"processing", "completed", "retryable_failed", "terminal_failed"}
StatusAddsUp ==
  \A d \in Delivery : row[d].processing # "absent" =>
    \E c \in Count : \A e \in Count : InCount(row[d], e) <=> e = c

\* A completed delivery stays completed.
CompletedStaysCompleted ==
  [][\A d \in Delivery : row[d].completed => row'[d].completed]_completionVars

\* Deliveries before d that wait for a source that is not active; nothing rejects them, and
\* each takes a place in every list.
BlockedBefore(d) == {e \in Delivery : e < d /\ Claimable(e) /\ AccountOf[e] \notin active}

\* A delivery of an active source does not wait for ever, unless as many deliveries as one
\* list holds stand before it and wait for their source to be resumed: LIMIT counts them
\* before the loop passes over them.
ClaimableIsTaken ==
  \A d \in Delivery :
    Claimable(d) ~> \/ ~Claimable(d)
                    \/ AccountOf[d] \notin active
                    \/ Cardinality(BlockedBefore(d)) >= ListLimit

=============================================================================
