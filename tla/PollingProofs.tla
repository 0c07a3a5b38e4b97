---------------------------- MODULE PollingProofs ----------------------------
(***************************************************************************)
(* Theorems about the polling workers: PollSource and TikTokPaging for     *)
(* every set of sources and workers, every lease, interval, backoff and    *)
(* page size, and any number of videos and events; DeliveryCompletion for  *)
(* every set of deliveries, accounts and workers, every limit and any      *)
(* number of faults and changes.                                           *)
(***************************************************************************)
EXTENDS PollSource, DeliveryCompletion, TLAPS, FiniteSetTheorems, WellFoundedInduction

-----------------------------------------------------------------------------
(***************************************************************************)
(* The completion of the deliveries.                                       *)
(***************************************************************************)

USE DeliveryAssumption, BoundAssumption

-----------------------------------------------------------------------------
(***************************************************************************)
(* Types.  A worker inside completeOneProviderPollingDelivery has a        *)
(* delivery in hand, which the updates it makes rely on.                   *)
(***************************************************************************)

HasInHand == \A w \in Process : worker[w].pc \notin {"idle", "loop"} => worker[w].delivery \in Delivery

CompletionTypeInv == CompletionTypeOK /\ HasInHand

\* What the updates write is a row.
LEMMA DeliveryRowTypes ==
  /\ AbsentDelivery \in DeliveryRow /\ NewDelivery \in DeliveryRow
  /\ TerminalFailure \in DeliveryRow /\ RetryableFailure \in DeliveryRow /\ Completion \in DeliveryRow
BY DEF AbsentDelivery, NewDelivery, TerminalFailure, RetryableFailure, Completion, Shape, DeliveryRow

LEMMA IdleType == IdleCompleter \in Completer
BY DEF IdleCompleter, Completer, CompleterPC

\* A worker whose record is replaced by another of the right type.
LEMMA WorkerType ==
  ASSUME CompletionTypeInv, NEW w \in Process, NEW u \in Completer,
         u.pc \notin {"idle", "loop"} => u.delivery \in Delivery,
         worker' = [worker EXCEPT ![w] = u]
  PROVE  worker' \in [Process -> Completer] /\ HasInHand'
<1>1. worker \in [Process -> Completer]
  BY DEF CompletionTypeInv, CompletionTypeOK
<1> QED
  BY <1>1 DEF CompletionTypeInv, HasInHand

LEMMA GoToType ==
  ASSUME CompletionTypeInv, NEW w \in Process, NEW pc \in CompleterPC,
         pc \notin {"idle", "loop"} => worker[w].delivery \in Delivery, GoTo(w, pc)
  PROVE  worker' \in [Process -> Completer] /\ HasInHand'
<1> DEFINE u == [worker[w] EXCEPT !.pc = pc]
<1>1. worker[w] \in Completer
  BY DEF CompletionTypeInv, CompletionTypeOK
<1>2. u \in Completer /\ u.pc = pc /\ u.delivery = worker[w].delivery
  BY <1>1 DEF Completer
<1>3. worker' = [worker EXCEPT ![w] = u]
  BY DEF GoTo
<1> QED
  BY <1>2, <1>3, WorkerType

LEMMA ContinueType ==
  ASSUME CompletionTypeInv, NEW w \in Process, Continue(w)
  PROVE  worker' \in [Process -> Completer] /\ HasInHand'
<1> DEFINE u == [worker[w] EXCEPT !.pc = "loop", !.delivery = NoDelivery]
<1>1. worker[w] \in Completer
  BY DEF CompletionTypeInv, CompletionTypeOK
<1>2. u \in Completer /\ u.pc = "loop"
  BY <1>1 DEF Completer, CompleterPC
<1>3. worker' = [worker EXCEPT ![w] = u]
  BY DEF Continue
<1> QED
  BY <1>2, <1>3, WorkerType

LEMMA ClaimedType ==
  ASSUME NEW r \in DeliveryRow
  PROVE  [r EXCEPT !.core = "processing"] \in DeliveryRow
BY DEF DeliveryRow

LEMMA CompletionTypeInit == CompletionInit => CompletionTypeInv
BY DeliveryRowTypes, IdleType DEF CompletionInit, CompletionTypeInv, CompletionTypeOK, HasInHand,
   IdleCompleter

LEMMA CompletionTypeNext == CompletionTypeInv /\ [CompletionNext]_completionVars => CompletionTypeInv'
<1> SUFFICES ASSUME CompletionTypeInv, [CompletionNext]_completionVars PROVE CompletionTypeInv'
  OBVIOUS
<1> USE DEF World
<1>1. ASSUME NEW d \in Delivery, StoreDetected(d) PROVE CompletionTypeInv'
  BY <1>1, DeliveryRowTypes DEF StoreDetected, CompletionTypeInv, CompletionTypeOK, HasInHand
<1>2. ASSUME NEW a \in Account, ChangeSource(a) PROVE CompletionTypeInv'
  BY <1>2 DEF ChangeSource, CompletionTypeInv, CompletionTypeOK, HasInHand
<1>3. ASSUME NEW a \in Account, ChangeMapping(a) PROVE CompletionTypeInv'
  <2>1. mapped' \subseteq Delivery
    BY <1>3 DEF ChangeMapping, OnAccount, CompletionTypeInv, CompletionTypeOK
  <2> QED
    BY <1>3, <2>1 DEF ChangeMapping, CompletionTypeInv, CompletionTypeOK, HasInHand
<1>4. ASSUME NEW w \in Process, List(w) PROVE CompletionTypeInv'
  <2>1. [IdleCompleter EXCEPT !.pc = "loop", !.todo = ListedDeliveries] \in Completer
    BY DEF IdleCompleter, Completer, CompleterPC, ListedDeliveries
  <2> QED
    BY <1>4, <2>1, WorkerType DEF List, IdleCompleter, CompletionTypeInv, CompletionTypeOK
<1>5. ASSUME NEW w \in Process, EndCompletion(w) PROVE CompletionTypeInv'
  BY <1>5, GoToType DEF EndCompletion, CompleterPC, CompletionTypeInv, CompletionTypeOK
<1>6. ASSUME NEW w \in Process, Take(w) PROVE CompletionTypeInv'
  <2>1. worker[w] \in Completer
    BY DEF CompletionTypeInv, CompletionTypeOK
  <2>2. PICK d \in worker[w].todo :
          worker' = [worker EXCEPT ![w] =
            IF AccountOf[d] \in active
              THEN [pc |-> IF d \in Unreadable THEN "rejecting" ELSE "source",
                    todo |-> worker[w].todo \ {d}, delivery |-> d]
              ELSE [worker[w] EXCEPT !.todo = @ \ {d}]]
    BY <1>6 DEF Take
  <2>3. d \in Delivery
    BY <2>1 DEF Completer
  <2>4. [pc |-> IF d \in Unreadable THEN "rejecting" ELSE "source",
         todo |-> worker[w].todo \ {d}, delivery |-> d] \in Completer
    BY <2>1, <2>3 DEF Completer, CompleterPC
  <2>5. [worker[w] EXCEPT !.todo = @ \ {d}] \in Completer
    BY <2>1 DEF Completer
  <2>6. worker' \in [Process -> Completer] /\ HasInHand'
    <3>1. CASE AccountOf[d] \in active
      BY <2>2, <2>3, <2>4, <3>1, WorkerType
    <3>2. CASE AccountOf[d] \notin active
      <4>1. [worker[w] EXCEPT !.todo = @ \ {d}].pc = "loop"
        BY <1>6, <2>1 DEF Take, At, Completer
      <4> QED
        BY <2>2, <2>5, <3>2, <4>1, WorkerType
    <3> QED
      BY <3>1, <3>2
  <2> QED
    BY <1>6, <2>6 DEF Take, CompletionTypeInv, CompletionTypeOK
<1>7. ASSUME NEW w \in Process, ReadSource(w) PROVE CompletionTypeInv'
  BY <1>7, GoToType DEF ReadSource, At, CompleterPC, CompletionTypeInv, CompletionTypeOK, HasInHand
<1>8. ASSUME NEW w \in Process, ReadMapping(w) PROVE CompletionTypeInv'
  BY <1>8, GoToType DEF ReadMapping, At, CompleterPC, CompletionTypeInv, CompletionTypeOK, HasInHand
<1>9. ASSUME NEW w \in Process, ClaimDelivery(w) PROVE CompletionTypeInv'
  <2>1. worker[w].delivery \in Delivery
    BY <1>9 DEF ClaimDelivery, At, CompletionTypeInv, HasInHand
  <2>2. row' \in [Delivery -> DeliveryRow]
    BY <1>9, <2>1, ClaimedType DEF ClaimDelivery, CompletionTypeInv, CompletionTypeOK
  <2>3. worker' \in [Process -> Completer] /\ HasInHand'
    BY <1>9, <2>1, GoToType, ContinueType DEF ClaimDelivery, CompleterPC
  <2> QED
    BY <1>9, <2>2, <2>3 DEF ClaimDelivery, CompletionTypeInv, CompletionTypeOK
<1>10. ASSUME NEW w \in Process, Commit(w) PROVE CompletionTypeInv'
  <2>1. worker[w].delivery \in Delivery
    BY <1>10 DEF Commit, At, CompletionTypeInv, HasInHand
  <2>2. worker' \in [Process -> Completer] /\ HasInHand'
    BY <1>10, <2>1, GoToType DEF Commit, CompleterPC
  <2>3. interaction' = interaction \/ interaction' = interaction \cup {worker[w].delivery}
    BY <1>10 DEF Commit
  <2>4. interaction' \subseteq Delivery
    BY <2>1, <2>3 DEF CompletionTypeInv, CompletionTypeOK
  <2>5. faults' \in 0..MaxFaults
    BY <1>10 DEF Commit, CompletionTypeInv, CompletionTypeOK
  <2> QED
    BY <1>10, <2>2, <2>4, <2>5 DEF Commit, CompletionTypeInv, CompletionTypeOK
<1>11. ASSUME NEW w \in Process, NEW columns \in DeliveryRow, Update(w, columns) PROVE CompletionTypeInv'
  BY <1>11, ContinueType DEF Update, CompletionTypeInv, CompletionTypeOK
<1>12. ASSUME NEW w \in Process, MarkTerminal(w) \/ MarkRetryable(w) \/ Finish(w) PROVE CompletionTypeInv'
  <2>1. CASE MarkTerminal(w)
    BY <1>11, <2>1, DeliveryRowTypes DEF MarkTerminal
  <2>2. CASE MarkRetryable(w)
    BY <1>11, <2>2, DeliveryRowTypes DEF MarkRetryable
  <2>3. CASE Finish(w)
    BY <1>11, <2>3, DeliveryRowTypes DEF Finish
  <2> QED
    BY <1>12, <2>1, <2>2, <2>3
<1>13. ASSUME NEW w \in Process, Abandon(w) PROVE CompletionTypeInv'
  <2>1. worker' \in [Process -> Completer] /\ HasInHand'
    BY <1>13, IdleType, WorkerType DEF Abandon, IdleCompleter
  <2> QED
    BY <1>13, <2>1 DEF Abandon, CompletionTypeInv, CompletionTypeOK
<1>14. CASE UNCHANGED completionVars
  BY <1>14 DEF completionVars, CompletionTypeInv, CompletionTypeOK, HasInHand
<1> QED
  BY <1>1, <1>2, <1>3, <1>4, <1>5, <1>6, <1>7, <1>8, <1>9, <1>10, <1>12, <1>13, <1>14
  DEF CompletionNext, CycleStep

\* The variables of the completion keep their types.
THEOREM CompletionTypeCorrect == CompletionSpec => []CompletionTypeOK
<1>1. CompletionTypeInv => CompletionTypeOK
  BY DEF CompletionTypeInv
<1> QED
  BY <1>1, CompletionTypeInit, CompletionTypeNext, PTL DEF CompletionSpec

-----------------------------------------------------------------------------
(***************************************************************************)
(* What a step does to one row, and to what a worker holds.  The updates   *)
(* test nothing, so an outcome may be written over any row: what saves the *)
(* claim is that no outcome, and no claim, is claimable.                   *)
(***************************************************************************)

ClaimedRow(r) == [r EXCEPT !.core = "processing"]

InHand(w, d) == worker[w].pc \notin {"idle", "loop"} /\ worker[w].delivery = d

LEMMA RowChange ==
  ASSUME CompletionTypeInv, [CompletionNext]_completionVars, NEW d \in Delivery
  PROVE  \/ row'[d] = row[d]
         \/ row[d].processing = "absent" /\ row'[d] = NewDelivery
         \/ Claimable(d) /\ row'[d] = ClaimedRow(row[d])
         \/ /\ row'[d] \in {TerminalFailure, RetryableFailure}
            /\ \E w \in Process : InHand(w, d)
         \/ /\ row'[d] = Completion
            /\ \E w \in Process : Finish(w) /\ worker[w].delivery = d
<1> SUFFICES ASSUME row'[d] # row[d]
             PROVE  \/ row[d].processing = "absent" /\ row'[d] = NewDelivery
                    \/ Claimable(d) /\ row'[d] = ClaimedRow(row[d])
                    \/ /\ row'[d] \in {TerminalFailure, RetryableFailure}
                       /\ \E w \in Process : InHand(w, d)
                    \/ /\ row'[d] = Completion
                       /\ \E w \in Process : Finish(w) /\ worker[w].delivery = d
  OBVIOUS
<1>0. row \in [Delivery -> DeliveryRow]
  BY DEF CompletionTypeInv, CompletionTypeOK
<1>1. ASSUME NEW e \in Delivery, StoreDetected(e) PROVE row[d].processing = "absent" /\ row'[d] = NewDelivery
  BY <1>0, <1>1 DEF StoreDetected
<1>2. ASSUME NEW w \in Process, ClaimDelivery(w) PROVE Claimable(d) /\ row'[d] = ClaimedRow(row[d])
  BY <1>0, <1>2 DEF ClaimDelivery, ClaimedRow
<1>3. ASSUME NEW w \in Process, NEW columns \in DeliveryRow, Update(w, columns)
      PROVE  worker[w].delivery = d /\ row'[d] = columns
  BY <1>0, <1>3 DEF Update
<1>4. ASSUME NEW w \in Process, MarkTerminal(w) PROVE row'[d] = TerminalFailure /\ InHand(w, d)
  BY <1>3, <1>4, DeliveryRowTypes DEF MarkTerminal, At, InHand
<1>5. ASSUME NEW w \in Process, MarkRetryable(w) PROVE row'[d] = RetryableFailure /\ InHand(w, d)
  BY <1>3, <1>5, DeliveryRowTypes DEF MarkRetryable, At, InHand
<1>6. ASSUME NEW w \in Process, Finish(w) PROVE row'[d] = Completion /\ worker[w].delivery = d
  BY <1>3, <1>6, DeliveryRowTypes DEF Finish
<1>7. ASSUME NEW a \in Account, ChangeSource(a) \/ ChangeMapping(a) PROVE FALSE
  BY <1>7 DEF ChangeSource, ChangeMapping
<1>8. ASSUME NEW w \in Process,
             \/ List(w) \/ EndCompletion(w) \/ Take(w) \/ ReadSource(w) \/ ReadMapping(w)
             \/ Commit(w) \/ Abandon(w)
      PROVE  FALSE
  BY <1>8 DEF List, EndCompletion, Take, ReadSource, ReadMapping, Commit, Abandon
<1>9. ASSUME UNCHANGED completionVars PROVE FALSE
  BY <1>9 DEF completionVars
<1> QED
  BY <1>1, <1>2, <1>4, <1>5, <1>6, <1>7, <1>8, <1>9 DEF CompletionNext, CycleStep

\* What is read off the rows that are written.
LEMMA OutcomeShapes ==
  /\ NewDelivery.processing = "processing" /\ ~NewDelivery.completed
  /\ TerminalFailure.processing = "failed" /\ ~TerminalFailure.completed
  /\ RetryableFailure.processing = "failed" /\ ~RetryableFailure.completed
  /\ Completion.processing = "completed" /\ Completion.completed
BY DEF NewDelivery, TerminalFailure, RetryableFailure, Completion, Shape

\* A row that is in the ledger stays there, and once it is not claimable it never is again.
LEMMA RowStays ==
  ASSUME CompletionTypeInv, [CompletionNext]_completionVars, NEW d \in Delivery,
         row[d].processing # "absent", ~Claimable(d)
  PROVE  row'[d].processing # "absent" /\ ~Claimable(d)'
<1>1. \/ row'[d] = row[d]
      \/ row'[d].processing \in {"failed", "completed"}
  BY RowChange, OutcomeShapes
<1> QED
  BY <1>1 DEF Claimable

\* A claimed row is in the ledger and no claim takes it.
LEMMA ClaimedRowIsTaken ==
  ASSUME NEW r \in DeliveryRow
  PROVE  /\ ClaimedRow(r).core = "processing"
         /\ ClaimedRow(r).processing = r.processing /\ ClaimedRow(r).completed = r.completed
BY DEF ClaimedRow, DeliveryRow

\* A delivery comes into a worker's hold by its claim, which finds it claimable.
LEMMA HoldChange ==
  ASSUME CompletionTypeInv, [CompletionNext]_completionVars, NEW w \in Process,
         NEW d \in Delivery, HoldsDelivery(w, d)', ~HoldsDelivery(w, d)
  PROVE  /\ Claimable(d) /\ row'[d] = ClaimedRow(row[d])
         /\ \A x \in Process \ {w} : worker'[x] = worker[x]
<1>0. worker \in [Process -> Completer] /\ row \in [Delivery -> DeliveryRow]
  BY DEF CompletionTypeInv, CompletionTypeOK
<1> USE DEF At, GoTo, Continue, HoldsDelivery
<1>1. ASSUME NEW e \in Delivery, StoreDetected(e) PROVE FALSE
  BY <1>1 DEF StoreDetected
<1>2. ASSUME NEW a \in Account, ChangeSource(a) \/ ChangeMapping(a) PROVE FALSE
  BY <1>2 DEF ChangeSource, ChangeMapping
<1>3. ASSUME NEW x \in Process, List(x) \/ EndCompletion(x) \/ Abandon(x) PROVE FALSE
  <2>1. List(x) => worker'[x].pc = "loop"
    BY <1>0 DEF List, IdleCompleter
  <2>2. EndCompletion(x) \/ Abandon(x) => worker'[x].pc = "idle"
    BY <1>0 DEF EndCompletion, Abandon, IdleCompleter, Completer
  <2>3. \A y \in Process \ {x} : worker'[y] = worker[y]
    BY <1>0, <1>3 DEF List, EndCompletion, Abandon
  <2> QED
    BY <1>3, <2>1, <2>2, <2>3
<1>4. ASSUME NEW x \in Process, Take(x) PROVE FALSE
  BY <1>0, <1>4 DEF Take, Completer
<1>5. ASSUME NEW x \in Process, ReadSource(x) \/ ReadMapping(x) PROVE FALSE
  BY <1>0, <1>5 DEF ReadSource, ReadMapping, Completer
<1>6. ASSUME NEW x \in Process, ClaimDelivery(x)
      PROVE  /\ Claimable(d) /\ row'[d] = ClaimedRow(row[d])
             /\ \A y \in Process \ {w} : worker'[y] = worker[y]
  <2>1. x = w /\ worker[w].delivery = d
    BY <1>0, <1>6 DEF ClaimDelivery, Completer
  <2>2. Claimable(d)
    BY <1>0, <1>6, <2>1 DEF ClaimDelivery, Completer
  <2> QED
    BY <1>0, <1>6, <2>1, <2>2 DEF ClaimDelivery, ClaimedRow
<1>7. ASSUME NEW x \in Process, Commit(x) PROVE FALSE
  BY <1>0, <1>7 DEF Commit, Completer
<1>8. ASSUME NEW x \in Process, MarkTerminal(x) \/ MarkRetryable(x) \/ Finish(x) PROVE FALSE
  BY <1>0, <1>8 DEF MarkTerminal, MarkRetryable, Finish, Update, Completer
<1>9. ASSUME UNCHANGED completionVars PROVE FALSE
  BY <1>9 DEF completionVars
<1> QED
  BY <1>1, <1>2, <1>3, <1>4, <1>5, <1>6, <1>7, <1>8, <1>9 DEF CompletionNext, CycleStep

-----------------------------------------------------------------------------
(***************************************************************************)
(* One claimant.  A held delivery must also be in the ledger, or it could  *)
(* be ingested, and claimed, a second time.                                *)
(***************************************************************************)

HeldIsStored == \A w \in Process : \A d \in Delivery : HoldsDelivery(w, d) => row[d].processing # "absent"

HoldInv == OneClaimant /\ HeldIsStored

LEMMA HoldInit == CompletionInit => HoldInv
BY DEF CompletionInit, HoldInv, OneClaimant, HeldIsStored, HoldsDelivery, IdleCompleter

LEMMA HoldNext == CompletionTypeInv /\ HoldInv /\ [CompletionNext]_completionVars => HoldInv'
<1> SUFFICES ASSUME CompletionTypeInv, HoldInv, [CompletionNext]_completionVars,
                    NEW w \in Process, NEW d \in Delivery, HoldsDelivery(w, d)'
             PROVE  /\ ~Claimable(d)' /\ row'[d].processing # "absent"
                    /\ \A x \in Process \ {w} : ~HoldsDelivery(x, d)'
  BY DEF HoldInv, OneClaimant, HeldIsStored
<1>1. CASE HoldsDelivery(w, d)
  <2>1. row[d].processing # "absent" /\ ~Claimable(d)
    BY <1>1 DEF HoldInv, OneClaimant, HeldIsStored
  <2>2. \A x \in Process \ {w} : ~HoldsDelivery(x, d)
    BY <1>1 DEF HoldInv, OneClaimant
  <2>3. \A x \in Process \ {w} : ~HoldsDelivery(x, d)'
    BY <2>1, <2>2, HoldChange
  <2> QED
    BY <2>1, <2>3, RowStays
<1>2. CASE ~HoldsDelivery(w, d)
  <2>1. /\ Claimable(d) /\ row'[d] = ClaimedRow(row[d])
        /\ \A x \in Process \ {w} : worker'[x] = worker[x]
    BY <1>2, HoldChange
  <2>2. \A x \in Process : ~HoldsDelivery(x, d)
    BY <2>1 DEF HoldInv, OneClaimant
  <2>3. \A x \in Process \ {w} : ~HoldsDelivery(x, d)'
    BY <2>1, <2>2 DEF HoldsDelivery
  <2>4. ~Claimable(d)' /\ row'[d].processing # "absent"
    BY <2>1, ClaimedRowIsTaken DEF Claimable, CompletionTypeInv, CompletionTypeOK
  <2> QED
    BY <2>3, <2>4
<1> QED
  BY <1>1, <1>2

\* Between its claim and the update that ends it a delivery has one worker, and is out of
\* reach of every claim.
THEOREM ClaimIsExclusive == CompletionSpec => []OneClaimant
<1>1. HoldInv => OneClaimant
  BY DEF HoldInv
<1> QED
  BY <1>1, CompletionTypeInit, CompletionTypeNext, HoldInit, HoldNext, PTL DEF CompletionSpec

\* Each delivery is claimed at most once, whatever fails and whoever updates it late.
THEOREM ClaimedAtMostOnce == CompletionSpec => NeverClaimableAgain
<1> DEFINE Kept == \A d \in Delivery :
                     row[d].processing # "absent" /\ ~Claimable(d) => ~Claimable(d)'
<1>1. CompletionTypeInv /\ [CompletionNext]_completionVars => Kept
  BY RowStays
<1> QED
  BY <1>1, CompletionTypeInit, CompletionTypeNext, PTL DEF CompletionSpec, NeverClaimableAgain

-----------------------------------------------------------------------------
(***************************************************************************)
(* The ledger and the interactions.                                        *)
(***************************************************************************)

CommittedIsStored ==
  \A w \in Process : At(w, "committed") => worker[w].delivery \in interaction

InteractionInv == CompletedHasInteraction /\ CommittedIsStored

LEMMA InteractionInit == CompletionInit => InteractionInv
BY DEF CompletionInit, InteractionInv, CompletedHasInteraction, CommittedIsStored, At,
       IdleCompleter, AbsentDelivery, Shape

\* No interaction is ever removed, and a worker gets to its last update by a commit.
LEMMA CommitChange ==
  ASSUME CompletionTypeInv, [CompletionNext]_completionVars
  PROVE  /\ interaction \subseteq interaction'
         /\ \A w \in Process : At(w, "committed")' =>
              \/ At(w, "committed") /\ worker'[w].delivery = worker[w].delivery
              \/ worker'[w].delivery \in interaction'
<1> SUFFICES ASSUME NEW w \in Process
             PROVE  /\ interaction \subseteq interaction'
                    /\ At(w, "committed")' =>
                         \/ At(w, "committed") /\ worker'[w].delivery = worker[w].delivery
                         \/ worker'[w].delivery \in interaction'
  BY DEF CompletionNext, CycleStep, completionVars, StoreDetected, ChangeSource, ChangeMapping, List, EndCompletion, Take,
     ReadSource, ReadMapping, ClaimDelivery, Commit, MarkTerminal, MarkRetryable, Finish, Update, Abandon
<1>0. worker \in [Process -> Completer]
  BY DEF CompletionTypeInv, CompletionTypeOK
<1> USE <1>0 DEF At, GoTo, Continue, Completer
<1>1. ASSUME NEW e \in Delivery, StoreDetected(e) PROVE UNCHANGED <<interaction, worker>>
  BY <1>1 DEF StoreDetected
<1>2. ASSUME NEW a \in Account, ChangeSource(a) \/ ChangeMapping(a)
      PROVE  UNCHANGED <<interaction, worker>>
  BY <1>2 DEF ChangeSource, ChangeMapping
<1>3. ASSUME NEW x \in Process, List(x) \/ EndCompletion(x) \/ Abandon(x)
      PROVE  /\ interaction' = interaction
             /\ At(w, "committed")' => worker'[w] = worker[w]
  <2>1. List(x) => worker'[x].pc = "loop"
    BY DEF List, IdleCompleter
  <2>2. EndCompletion(x) \/ Abandon(x) => worker'[x].pc = "idle"
    BY DEF EndCompletion, Abandon, IdleCompleter
  <2>3. interaction' = interaction /\ \A y \in Process \ {x} : worker'[y] = worker[y]
    BY <1>3 DEF List, EndCompletion, Abandon
  <2> QED
    BY <1>3, <2>1, <2>2, <2>3
<1>4. ASSUME NEW x \in Process, Take(x) \/ ReadSource(x) \/ ReadMapping(x) \/ ClaimDelivery(x)
      PROVE  /\ interaction' = interaction
             /\ At(w, "committed")' => worker'[w] = worker[w]
  BY <1>4 DEF Take, ReadSource, ReadMapping, ClaimDelivery
<1>5. ASSUME NEW x \in Process, Commit(x)
      PROVE  /\ interaction \subseteq interaction'
             /\ At(w, "committed")' =>
                  worker'[w] = worker[w] \/ worker'[w].delivery \in interaction'
  <2>1. CASE x = w
    BY <1>5, <2>1 DEF Commit
  <2>2. CASE x # w
    BY <1>5, <2>2 DEF Commit
  <2> QED
    BY <2>1, <2>2
<1>6. ASSUME NEW x \in Process, MarkTerminal(x) \/ MarkRetryable(x) \/ Finish(x)
      PROVE  /\ interaction' = interaction
             /\ At(w, "committed")' => worker'[w] = worker[w]
  BY <1>6 DEF MarkTerminal, MarkRetryable, Finish, Update
<1>7. ASSUME UNCHANGED completionVars PROVE UNCHANGED <<interaction, worker>>
  BY <1>7 DEF completionVars
<1> QED
  BY <1>1, <1>2, <1>3, <1>4, <1>5, <1>6, <1>7 DEF CompletionNext, CycleStep

LEMMA InteractionNext ==
  CompletionTypeInv /\ InteractionInv /\ [CompletionNext]_completionVars => InteractionInv'
<1> SUFFICES ASSUME CompletionTypeInv, InteractionInv, [CompletionNext]_completionVars PROVE InteractionInv'
  OBVIOUS
<1>1. CommittedIsStored'
  BY CommitChange DEF InteractionInv, CommittedIsStored
<1>2. ASSUME NEW d \in Delivery, row'[d].completed PROVE d \in interaction'
  <2>1. row[d] \in DeliveryRow
    BY DEF CompletionTypeInv, CompletionTypeOK
  <2>2. row[d].completed \/ \E w \in Process : At(w, "committed") /\ worker[w].delivery = d
    BY <1>2, <2>1, RowChange, ClaimedRowIsTaken, OutcomeShapes DEF Finish
  <2>3. d \in interaction
    BY <2>2 DEF InteractionInv, CompletedHasInteraction, CommittedIsStored
  <2> QED
    BY <2>3, CommitChange
<1> QED
  BY <1>1, <1>2 DEF InteractionInv, CompletedHasInteraction

\* A delivery the ledger calls completed has its interaction.
THEOREM CompletionIsTrue == CompletionSpec => []CompletedHasInteraction
<1>1. InteractionInv => CompletedHasInteraction
  BY DEF InteractionInv
<1> QED
  BY <1>1, CompletionTypeInit, CompletionTypeNext, InteractionInit, InteractionNext, PTL DEF CompletionSpec

-----------------------------------------------------------------------------
(***************************************************************************)
(* The operator's counts.  None of them looks at the column a claim        *)
(* writes, and each row an insert or an update writes is in one.           *)
(***************************************************************************)

InOneCount(r) == \E c \in Count : \A e \in Count : InCount(r, e) <=> e = c

LEMMA WrittenRowsAreCounted ==
  /\ InOneCount(NewDelivery)
  /\ InOneCount(TerminalFailure) /\ InOneCount(RetryableFailure) /\ InOneCount(Completion)
<1> USE DEF InOneCount, Count, InCount, Shape
<1>1. InOneCount(NewDelivery)
  BY DEF NewDelivery
<1>2. InOneCount(TerminalFailure)
  BY DEF TerminalFailure
<1>3. InOneCount(RetryableFailure)
  BY DEF RetryableFailure
<1>4. InOneCount(Completion)
  BY DEF Completion
<1> QED
  BY <1>1, <1>2, <1>3, <1>4

LEMMA ClaimKeepsCount ==
  ASSUME NEW r \in DeliveryRow, InOneCount(r)
  PROVE  InOneCount(ClaimedRow(r))
<1>1. \A e \in Count : InCount(ClaimedRow(r), e) <=> InCount(r, e)
  BY DEF InCount, ClaimedRow, DeliveryRow
<1> QED
  BY <1>1 DEF InOneCount

LEMMA CountNext == CompletionTypeInv /\ StatusAddsUp /\ [CompletionNext]_completionVars => StatusAddsUp'
<1> SUFFICES ASSUME CompletionTypeInv, StatusAddsUp, [CompletionNext]_completionVars,
                    NEW d \in Delivery, row'[d].processing # "absent"
             PROVE  InOneCount(row'[d])
  BY DEF StatusAddsUp, InOneCount
<1>1. row[d] \in DeliveryRow
  BY DEF CompletionTypeInv, CompletionTypeOK
<1>2. row[d].processing # "absent" => InOneCount(row[d])
  BY DEF StatusAddsUp, InOneCount
<1>3. CASE row'[d] = row[d]
  BY <1>2, <1>3
<1>4. CASE Claimable(d) /\ row'[d] = ClaimedRow(row[d])
  BY <1>1, <1>2, <1>4, ClaimKeepsCount DEF Claimable
<1> QED
  BY <1>3, <1>4, RowChange, WrittenRowsAreCounted

\* The operator's counts of deliveries add up, in every order of updates.
THEOREM CountsAddUp == CompletionSpec => []StatusAddsUp
<1>1. CompletionInit => StatusAddsUp
  BY DEF CompletionInit, StatusAddsUp, AbsentDelivery, Shape
<1> QED
  BY <1>1, CompletionTypeInit, CompletionTypeNext, CountNext, PTL DEF CompletionSpec

-----------------------------------------------------------------------------
(***************************************************************************)
(* One worker alone.  The updates that test nothing do no harm as long as  *)
(* nobody else settles a delivery between the list and the update: then    *)
(* what the worker has listed or in hand is not completed.                 *)
(***************************************************************************)

Pending(w, d) == d \in worker[w].todo \/ InHand(w, d)

TodoIsAhead == \A w \in Process : \A d \in worker[w].todo : ~InHand(w, d)

PendingNotCompleted == \A w \in Process : \A d \in Delivery : Pending(w, d) => ~row[d].completed

LEMMA PendingInit == CompletionInit => TodoIsAhead /\ PendingNotCompleted
BY DEF CompletionInit, TodoIsAhead, PendingNotCompleted, Pending, InHand, IdleCompleter

\* A delivery comes to a worker by its list only, and leaves it by an update.
LEMMA PendingChange ==
  ASSUME CompletionTypeInv, TodoIsAhead, [CompletionNext]_completionVars, NEW w \in Process
  PROVE  /\ \A d \in worker'[w].todo : ~InHand(w, d)'
         /\ \A d \in Delivery : Pending(w, d)' => Pending(w, d) \/ Claimable(d)
<1> DEFINE Kept == /\ \A d \in worker'[w].todo : ~InHand(w, d)'
                   /\ \A d \in Delivery : Pending(w, d)' => Pending(w, d) \/ Claimable(d)
<1>0. worker \in [Process -> Completer] /\ \A d \in worker[w].todo : ~InHand(w, d)
  BY DEF CompletionTypeInv, CompletionTypeOK, TodoIsAhead
<1> USE <1>0 DEF At, GoTo, Continue, Completer, Pending, InHand
<1>1. worker'[w] = worker[w] => Kept
  OBVIOUS
<1>2. ASSUME NEW d \in Delivery, StoreDetected(d) PROVE worker' = worker
  BY <1>2 DEF StoreDetected
<1>3. ASSUME NEW a \in Account, ChangeSource(a) \/ ChangeMapping(a) PROVE worker' = worker
  BY <1>3 DEF ChangeSource, ChangeMapping
<1>4. ASSUME NEW x \in Process, CycleStep(x) \/ Abandon(x), x # w PROVE worker'[w] = worker[w]
  BY <1>4 DEF CycleStep, List, EndCompletion, Take, ReadSource, ReadMapping, ClaimDelivery, Commit,
     MarkTerminal, MarkRetryable, Finish, Update, Abandon
<1>5. ASSUME List(w) PROVE Kept
  <2>1. worker'[w].pc = "loop" /\ worker'[w].todo = ListedDeliveries
    BY <1>5 DEF List, IdleCompleter
  <2>2. \A d \in ListedDeliveries : Claimable(d)
    BY DEF ListedDeliveries
  <2> QED
    BY <2>1, <2>2
<1>6. ASSUME EndCompletion(w) PROVE Kept
  BY <1>6 DEF EndCompletion
<1>7. ASSUME Take(w) PROVE Kept
  BY <1>7 DEF Take
<1>8. ASSUME ReadSource(w) \/ ReadMapping(w) PROVE Kept
  BY <1>8 DEF ReadSource, ReadMapping
<1>9. ASSUME ClaimDelivery(w) PROVE Kept
  BY <1>9 DEF ClaimDelivery
<1>10. ASSUME Commit(w) PROVE Kept
  BY <1>10 DEF Commit
<1>11. ASSUME MarkTerminal(w) \/ MarkRetryable(w) \/ Finish(w) PROVE Kept
  BY <1>11 DEF MarkTerminal, MarkRetryable, Finish, Update
<1>12. ASSUME Abandon(w) PROVE Kept
  BY <1>12 DEF Abandon, IdleCompleter
<1>13. ASSUME UNCHANGED completionVars PROVE worker' = worker
  BY <1>13 DEF completionVars
<1> QED
  BY <1>1, <1>2, <1>3, <1>4, <1>5, <1>6, <1>7, <1>8, <1>9, <1>10, <1>11, <1>12, <1>13
  DEF CompletionNext, CycleStep

\* A delivery is completed by its last update, after which its worker has it no more.
LEMMA FinishLeaves ==
  ASSUME CompletionTypeInv, TodoIsAhead, [CompletionNext]_completionVars, NEW d \in Delivery,
         ~row[d].completed, row'[d].completed
  PROVE  \E w \in Process : Pending(w, d) /\ ~Pending(w, d)'
<1>0. worker \in [Process -> Completer] /\ row \in [Delivery -> DeliveryRow]
  BY DEF CompletionTypeInv, CompletionTypeOK
<1>1. PICK w \in Process : Finish(w) /\ worker[w].delivery = d
  BY <1>0, RowChange, ClaimedRowIsTaken, OutcomeShapes
<1>2. InHand(w, d)
  BY <1>1 DEF Finish, At, InHand
<1>3. worker'[w].pc = "loop" /\ worker'[w].todo = worker[w].todo
  BY <1>0, <1>1 DEF Finish, Update, Continue, Completer
<1> QED
  BY <1>2, <1>3 DEF Pending, InHand, TodoIsAhead

LEMMA AloneNext ==
  ASSUME NEW w, Process = {w}
  PROVE  /\ CompletionTypeInv /\ TodoIsAhead /\ [CompletionNext]_completionVars => TodoIsAhead'
         /\ CompletionTypeInv /\ TodoIsAhead /\ PendingNotCompleted
              /\ [CompletionNext]_completionVars => PendingNotCompleted'
<1>1. CompletionTypeInv /\ TodoIsAhead /\ [CompletionNext]_completionVars => TodoIsAhead'
  BY PendingChange DEF TodoIsAhead
<1>2. ASSUME CompletionTypeInv, TodoIsAhead, PendingNotCompleted, [CompletionNext]_completionVars,
             NEW d \in Delivery, Pending(w, d)', row'[d].completed
      PROVE  FALSE
  <2>1. ~row[d].completed
    BY <1>2, PendingChange DEF PendingNotCompleted, Claimable
  <2> QED
    BY <1>2, <2>1, FinishLeaves
<1> QED
  BY <1>1, <1>2 DEF PendingNotCompleted

AbsentNotCompleted == \A d \in Delivery : row[d].processing = "absent" => ~row[d].completed

LEMMA AbsentInit == CompletionInit => AbsentNotCompleted
BY DEF CompletionInit, AbsentNotCompleted, AbsentDelivery, Shape

LEMMA AbsentNext ==
  CompletionTypeInv /\ AbsentNotCompleted /\ [CompletionNext]_completionVars => AbsentNotCompleted'
<1> SUFFICES ASSUME CompletionTypeInv, AbsentNotCompleted, [CompletionNext]_completionVars,
                    NEW d \in Delivery, row'[d].processing = "absent"
             PROVE  ~row'[d].completed
  BY DEF AbsentNotCompleted
<1>1. row[d] \in DeliveryRow
  BY DEF CompletionTypeInv, CompletionTypeOK
<1> QED
  BY <1>1, RowChange, ClaimedRowIsTaken, OutcomeShapes DEF AbsentNotCompleted, Claimable

\* With one worker process a completed delivery stays completed, whatever fails: the overwriting
\* the runs exhibit takes a second one.
THEOREM AloneCompletedStays ==
  ASSUME NEW w, Process = {w}
  PROVE  CompletionSpec => CompletedStaysCompleted
<1> DEFINE Stays == \A d \in Delivery : row[d].completed => row'[d].completed
<1>1. CompletionTypeInv /\ AbsentNotCompleted /\ PendingNotCompleted
        /\ [CompletionNext]_completionVars => Stays
  <2> SUFFICES ASSUME CompletionTypeInv, AbsentNotCompleted, PendingNotCompleted, [CompletionNext]_completionVars,
                      NEW d \in Delivery, row[d].completed
               PROVE  row'[d].completed
    OBVIOUS
  <2>1. row[d] \in DeliveryRow
    BY DEF CompletionTypeInv, CompletionTypeOK
  <2>2. \A x \in Process : ~InHand(x, d)
    BY DEF PendingNotCompleted, Pending
  <2>3. ~Claimable(d)
    BY DEF Claimable
  <2> QED
    BY <2>1, <2>2, <2>3, RowChange, OutcomeShapes DEF AbsentNotCompleted
<1> QED
  BY <1>1, CompletionTypeInit, CompletionTypeNext, AbsentInit, AbsentNext, PendingInit, AloneNext,
     PTL DEF CompletionSpec, CompletedStaysCompleted

-----------------------------------------------------------------------------
(***************************************************************************)
(* The polls.                                                              *)
(***************************************************************************)

USE SourceAssumption, TimeAssumption, WidthAssumption, PagingAssumption

-----------------------------------------------------------------------------
(***************************************************************************)
(* Marks and pages.  A set of marks has a highest and a lowest one; a page *)
(* holds the newest of the videos older than the cursor, without a gap.    *)
(***************************************************************************)

LEMMA LeastExists ==
  ASSUME NEW S \in SUBSET Nat, S # {}
  PROVE  \E m \in S : \A n \in S : m <= n
<1>1. PICK m \in S : \A n \in S : ~ (<<n, m>> \in OpToRel(<, Nat))
  BY WFMin, NatLessThanWellFounded
<1>2. \A n \in S : ~ (n < m)
  BY <1>1 DEF OpToRel
<1> QED
  BY <1>2

LEMMA LowestIsLeast ==
  ASSUME NEW S \in SUBSET Mark, S # {}
  PROVE  /\ Lowest(S) \in S
         /\ \A n \in S : Lowest(S) <= n
<1>1. S \in SUBSET Nat
  BY DEF Mark
<1>2. \E m \in S : \A n \in S : m <= n
  BY <1>1, LeastExists
<1> QED
  BY <1>2 DEF Lowest

LEMMA HighestIsGreatest ==
  ASSUME NEW S \in SUBSET Mark, S # {}
  PROVE  /\ Highest(S) \in S
         /\ \A n \in S : n <= Highest(S)
<1> DEFINE T == {MaxVideo - m : m \in S}
<1>1. T \in SUBSET Nat /\ T # {}
  <2>1. \A m \in S : MaxVideo - m \in Nat
    BY DEF Mark
  <2> QED
    BY <2>1
<1>2. PICK t \in T : \A u \in T : t <= u
  BY <1>1, LeastExists
<1>3. PICK m \in S : t = MaxVideo - m
  BY <1>2
<1>4. \A n \in S : n <= m
  <2> TAKE n \in S
  <2>1. MaxVideo - m <= MaxVideo - n
    BY <1>2, <1>3
  <2>2. m \in 0..MaxVideo /\ n \in 0..MaxVideo
    BY DEF Mark
  <2> QED
    BY <2>1, <2>2
<1>5. \E x \in S : \A n \in S : n <= x
  BY <1>4
<1> QED
  BY <1>5 DEF Highest

\* A page is part of what is older than the cursor, and closed towards the newer videos.
LEMMA PageIsNewest ==
  ASSUME NEW up \in SUBSET Video, NEW cursor \in Mark
  PROVE  /\ PageVideos(up, cursor) \subseteq Older(up, cursor)
         /\ \A v \in PageVideos(up, cursor) : \A u \in Older(up, cursor) :
              u > v => u \in PageVideos(up, cursor)
<1> DEFINE older == Older(up, cursor)
           above(v) == {u \in older : u > v}
<1>1. older \in SUBSET Video /\ older \in SUBSET Nat
  <2>1. older \subseteq up
    BY DEF Older
  <2>2. \A v \in Video : v \in Nat
    BY DEF Video
  <2> HIDE DEF older
  <2> QED
    BY <2>1, <2>2
<1>2. \A v \in older : IsFiniteSet(above(v)) /\ Cardinality(above(v)) \in Nat
  <2> TAKE v \in older
  <2>1. above(v) \in SUBSET Nat /\ \A x \in above(v) : x <= MaxVideo
    BY <1>1 DEF Video
  <2> QED
    BY <2>1, FS_BoundedSetOfNaturals, FS_CardinalityType
<1>3. ASSUME NEW v \in older, NEW u \in older, u > v
      PROVE  Cardinality(above(u)) <= Cardinality(above(v))
  <2>1. above(u) \in SUBSET above(v)
    BY <1>1, <1>3
  <2> HIDE DEF above
  <2> QED
    BY <1>2, <2>1, FS_Subset
<1>4. PageVideos(up, cursor) = {v \in older : Cardinality(above(v)) < PageSize}
  BY DEF PageVideos
<1> HIDE DEF above, older
<1>5. PageVideos(up, cursor) \subseteq older
  BY <1>4
<1>6. ASSUME NEW v \in PageVideos(up, cursor), NEW u \in older, u > v
      PROVE  u \in PageVideos(up, cursor)
  <2>1. v \in older /\ Cardinality(above(v)) < PageSize
    BY <1>4, <1>6
  <2>2. Cardinality(above(u)) < PageSize
    BY <1>2, <1>3, <1>6, <2>1
  <2> QED
    BY <1>4, <1>6, <2>2
<1> QED
  BY <1>5, <1>6 DEF older

\* Where something is older than the cursor the page is not empty.
LEMMA PageIsNotEmpty ==
  ASSUME NEW up \in SUBSET Video, NEW cursor \in Mark, Older(up, cursor) # {}
  PROVE  PageVideos(up, cursor) # {}
<1> DEFINE older == Older(up, cursor)
           top == Highest(older)
<1>1. older \in SUBSET Mark /\ older # {}
  <2>1. older \subseteq up
    BY DEF Older
  <2>2. \A v \in Video : v \in Mark
    BY DEF Video, Mark
  <2>3. older # {}
    OBVIOUS
  <2> HIDE DEF older
  <2> QED
    BY <2>1, <2>2, <2>3
<1>2. top \in older /\ \A n \in older : n <= top
  BY <1>1, HighestIsGreatest
<1>3. {u \in older : u > top} = {}
  BY <1>1, <1>2 DEF Mark
<1>4. Cardinality({u \in older : u > top}) = 0
  BY <1>3, FS_EmptySet
<1>5. top \in PageVideos(up, cursor)
  BY <1>2, <1>4 DEF PageVideos
<1> QED
  BY <1>5

-----------------------------------------------------------------------------
(***************************************************************************)
(* What one page does to a checkpoint.                                     *)
(***************************************************************************)

\* A walk that is not over lies above the cutoff and below the newest video it has seen.
Sound(c) ==
  /\ c \in Checkpoint
  /\ ~c.initialized => c.high = 0 /\ c.cursor = 0
  /\ c.cursor # 0 => c.high # 0 /\ c.high < c.cursor /\ c.cursor <= c.pending

\* The step CheckpointNeverRegresses allows, for one source.
Advances(c, d) ==
  /\ c.initialized => d.initialized
  /\ c.high <= d.high
  /\ c.cursor # 0 /\ d.high = c.high => d.cursor # 0 /\ d.cursor <= c.cursor
  /\ c.cursor # 0 => c.pending <= d.pending \/ c.pending <= d.high

Below(c, n) == c.high <= n /\ c.pending <= n

LEMMA CheckpointFields ==
  ASSUME NEW c \in Checkpoint
  PROVE  c.initialized \in BOOLEAN /\ c.high \in Nat /\ c.pending \in Nat /\ c.cursor \in Nat
BY DEF Checkpoint, Mark

LEMMA ObservedMark ==
  ASSUME NEW c \in Checkpoint, NEW up \in SUBSET Video
  PROVE  LET videos == PageVideos(up, c.cursor)
             observed == Highest(videos \cup {c.pending, c.high})
         IN  /\ videos \subseteq up
             /\ observed \in videos \cup {c.pending, c.high} /\ observed \in Mark
             /\ c.high <= observed /\ c.pending <= observed
             /\ \A v \in videos : v <= observed
<1> DEFINE videos == PageVideos(up, c.cursor)
           seen == videos \cup {c.pending, c.high}
<1>1. c.cursor \in Mark /\ c.high \in Mark /\ c.pending \in Mark
  BY DEF Checkpoint
<1>2. videos \subseteq Older(up, c.cursor)
  BY <1>1, PageIsNewest
<1>3. videos \subseteq up
  BY <1>2 DEF Older
<1>4. \A v \in Video : v \in Mark
  BY DEF Video, Mark
<1> HIDE DEF videos
<1>5. seen \in SUBSET Mark /\ seen # {}
  BY <1>1, <1>3, <1>4
<1>6. Highest(seen) \in seen /\ \A n \in seen : n <= Highest(seen)
  BY <1>5, HighestIsGreatest
<1> QED
  BY <1>3, <1>5, <1>6 DEF videos

\* The page a walk stops at for now: its lowest video is the new cursor.
LEMMA WalkGoesOn ==
  ASSUME NEW c \in Checkpoint, NEW up \in SUBSET Video, GoesOn(c, up)
  PROVE  LET videos == PageVideos(up, c.cursor)
         IN  /\ videos # {} /\ Lowest(videos) \in videos
             /\ \A v \in videos : Lowest(videos) <= v
             /\ c.high < Lowest(videos)
             /\ Lowest(videos) \in Mark
<1> DEFINE videos == PageVideos(up, c.cursor)
<1>1. c.cursor \in Mark /\ c.high \in Mark
  BY DEF Checkpoint
<1>2. videos # Older(up, c.cursor) /\ \A v \in videos : v > c.high
  BY DEF GoesOn, HasMore
<1>3. videos \subseteq Older(up, c.cursor)
  BY <1>1, PageIsNewest
<1>4. videos # {}
  BY <1>1, <1>2, <1>3, PageIsNotEmpty
<1>5. \A v \in Video : v \in Mark
  BY DEF Video, Mark
<1>6. videos \in SUBSET Mark
  BY <1>3, <1>5 DEF Older
<1>7. Lowest(videos) \in videos /\ \A v \in videos : Lowest(videos) <= v
  BY <1>4, <1>6, LowestIsLeast
<1> HIDE DEF videos
<1>8. c.high < Lowest(videos)
  BY <1>1, <1>2, <1>6, <1>7 DEF Mark
<1> QED
  BY <1>4, <1>6, <1>7, <1>8 DEF videos

\* The next checkpoint is well formed, is not behind the last one and knows no video that
\* was not there.
LEMMA NextIsSound ==
  ASSUME NEW c, Sound(c), NEW up \in SUBSET Video
  PROVE  LET d == NextCheckpoint(c, up)
         IN  /\ Sound(d) /\ d.initialized /\ Advances(c, d)
             /\ ~c.initialized => d.cursor = 0
             /\ \A n \in Nat : Below(c, n) /\ (\A v \in up : v <= n) => Below(d, n)
<1> DEFINE videos == PageVideos(up, c.cursor)
           observed == Highest(videos \cup {c.pending, c.high})
           d == NextCheckpoint(c, up)
<1>1. c \in Checkpoint
  BY DEF Sound
<1>2. /\ videos \subseteq up
      /\ observed \in videos \cup {c.pending, c.high} /\ observed \in Mark
      /\ c.high <= observed /\ c.pending <= observed
      /\ \A v \in videos : v <= observed
  BY <1>1, ObservedMark
<1>3. observed \in Nat
  BY <1>2 DEF Mark
<1>4. CASE c.initialized /\ GoesOn(c, up)
  <2> DEFINE low == Lowest(videos)
  <2>1. d = [initialized |-> TRUE, high |-> c.high, pending |-> observed, cursor |-> low]
    BY <1>4 DEF NextCheckpoint
  <2>2. low \in videos /\ c.high < low /\ low \in Mark
    BY <1>1, <1>4, WalkGoesOn
  <2>3. c.high # 0
    BY <1>4 DEF GoesOn
  <2>4. low <= observed /\ low \in Nat
    <3> HIDE DEF low, videos, observed
    <3> QED
      BY <1>2, <2>2 DEF Mark
  <2>5. c.high \in Mark
    BY <1>1 DEF Checkpoint
  <2>6. c.cursor # 0 => low < c.cursor
    <3>1. videos \subseteq Older(up, c.cursor)
      BY <1>1, PageIsNewest DEF Checkpoint
    <3> QED
      BY <2>2, <3>1 DEF Older
  <2> HIDE DEF low, videos, observed, d
  <2>7. Sound(d) /\ d.initialized
    BY <1>2, <2>1, <2>2, <2>3, <2>4, <2>5 DEF Sound, Checkpoint
  <2>8. Advances(c, d)
    BY <1>1, <1>2, <1>3, <2>1, <2>2, <2>4, <2>6, CheckpointFields DEF Advances, Mark
  <2>9. ASSUME NEW n \in Nat, Below(c, n), \A v \in up : v <= n
        PROVE  Below(d, n)
    BY <1>2, <2>1, <2>9 DEF Below
  <2> QED
    BY <1>4, <2>7, <2>8, <2>9 DEF d
<1>5. CASE ~(c.initialized /\ GoesOn(c, up))
  <2>1. d = AtRest(observed)
    BY <1>5 DEF NextCheckpoint
  <2> HIDE DEF videos, observed, d
  <2>2. d \in Checkpoint /\ d.initialized /\ d.cursor = 0 /\ d.high = observed /\ d.pending = 0
    BY <1>2, <2>1 DEF AtRest, Checkpoint, Mark
  <2>3. Sound(d)
    BY <2>2 DEF Sound
  <2>4. c.cursor # 0 => c.high < observed
    BY <1>1, <1>2, <1>3, CheckpointFields DEF Sound
  <2>5. Advances(c, d)
    BY <1>1, <1>2, <1>3, <2>2, <2>4, CheckpointFields DEF Advances
  <2>6. ASSUME NEW n \in Nat, Below(c, n), \A v \in up : v <= n
        PROVE  Below(d, n)
    BY <1>2, <2>2, <2>6 DEF Below
  <2> QED
    BY <2>2, <2>3, <2>5, <2>6 DEF d
<1> QED
  BY <1>4, <1>5

\* Every video the next checkpoint has passed was passed before, or is one of the detections.
LEMMA NothingSkipped ==
  ASSUME NEW c, Sound(c), c.initialized, c.high # 0, NEW up \in SUBSET Video,
         NEW v \in up, v \in Passed(NextCheckpoint(c, up))
  PROVE  v \in Passed(c) \cup Detections(c, up)
<1> DEFINE videos == PageVideos(up, c.cursor)
           older == Older(up, c.cursor)
           observed == Highest(videos \cup {c.pending, c.high})
           d == NextCheckpoint(c, up)
<1>1. c \in Checkpoint /\ c.high \in Nat /\ c.pending \in Nat /\ c.cursor \in Nat
  BY CheckpointFields DEF Sound
<1>2. /\ videos \subseteq up
      /\ observed \in videos \cup {c.pending, c.high} /\ observed \in Mark
      /\ \A u \in videos : u <= observed
  BY <1>1, ObservedMark
<1>3. v \in Video /\ v \in Nat /\ \A u \in up : u \in Nat
  BY DEF Video
<1>4. /\ videos \subseteq older
      /\ \A u \in videos : \A x \in older : x > u => x \in videos
  BY <1>1, PageIsNewest DEF Checkpoint
<1>5. ASSUME v \in videos
      PROVE  v \in Passed(c) \cup Detections(c, up)
  <2>1. CASE v > c.high
    BY <1>5, <2>1 DEF Detections
  <2>2. CASE v <= c.high
    BY <1>3, <2>2 DEF Passed
  <2> QED
    BY <1>1, <1>3, <2>1, <2>2
\* A video that is not older than the cursor lies on a page of the walk that was read before.
<1>6. ASSUME v \notin older, v <= observed
      PROVE  v \in Passed(c)
  <2>1. c.cursor # 0 /\ c.cursor <= v
    BY <1>1, <1>3, <1>6 DEF Older
  <2>2. \A u \in older : u < c.cursor
    BY <2>1 DEF Older
  <2> HIDE DEF videos, older, observed
  <2>3. \A u \in videos : u < v
    BY <1>1, <1>2, <1>3, <1>4, <2>1, <2>2
  <2>4. c.high < v
    BY <1>1, <1>3, <2>1 DEF Sound
  <2>5. v <= c.pending
    BY <1>1, <1>2, <1>3, <1>6, <2>3, <2>4
  <2> QED
    BY <1>3, <2>1, <2>5 DEF Passed
<1>7. CASE GoesOn(c, up)
  <2> DEFINE low == Lowest(videos)
  <2>1. d = [initialized |-> TRUE, high |-> c.high, pending |-> observed, cursor |-> low]
    BY <1>7 DEF NextCheckpoint
  <2>2. low \in videos /\ low \in Nat
    BY <1>1, <1>7, WalkGoesOn DEF Mark
  <2>3. v <= c.high \/ (low <= v /\ v <= observed)
    <3> HIDE DEF low, observed, d
    <3> QED
      BY <2>1 DEF Passed, d
  <2>4. CASE v <= c.high
    BY <1>3, <2>4 DEF Passed
  <2>5. CASE low <= v /\ v <= observed
    <3>1. CASE v \in older
      <4>1. v = low \/ v > low
        BY <1>3, <2>2, <2>5
      <4>2. v \in videos
        BY <1>4, <2>2, <3>1, <4>1
      <4> QED
        BY <1>5, <4>2
    <3> QED
      BY <1>6, <2>5, <3>1
  <2> QED
    BY <2>3, <2>4, <2>5
<1>8. CASE ~GoesOn(c, up)
  <2>1. d = AtRest(observed)
    BY <1>8 DEF NextCheckpoint
  <2>2. v <= observed
    <3> HIDE DEF observed, d
    <3> QED
      BY <2>1, <1>3 DEF Passed, AtRest, d
  <2>3. CASE v \in older /\ videos = older
    BY <1>5, <2>3
  <2>4. CASE v \in older /\ videos # older
    <3>1. PICK u \in videos : ~(u > c.high)
      BY <1>8, <2>4 DEF GoesOn, HasMore
    <3>2. CASE v > u
      <4>1. v \in videos
        BY <1>4, <2>4, <3>1, <3>2
      <4> QED
        BY <1>5, <4>1
    <3>3. CASE ~(v > u)
      <4>1. v <= c.high
        <5> HIDE DEF videos
        <5> QED
          BY <1>1, <1>2, <1>3, <3>1, <3>3
      <4> QED
        BY <1>3, <4>1 DEF Passed
    <3> QED
      BY <3>2, <3>3
  <2> QED
    BY <1>6, <2>2, <2>3, <2>4
<1> QED
  BY <1>7, <1>8

-----------------------------------------------------------------------------
(***************************************************************************)
(* Types.                                                                  *)
(***************************************************************************)

\* A poll is at work only in a cycle that runs or is being stopped.
RestsOutsideCycles ==
  \A w \in Worker : cycle[w].mode \in {"stopped", "sleeping"} =>
    \A s \in Source : poll[w][s].pc = "idle"

\* The instant of a cycle has passed.
InstantsHavePassed == \A w \in Worker : cycle[w].now <= clock

TypeInv == TypeOK /\ RestsOutsideCycles /\ InstantsHavePassed

LEMMA RecordTypes ==
  /\ EmptyCheckpoint \in Checkpoint /\ AbsentRow \in Row
  /\ Idle \in Poll /\ Listed \in Poll
  /\ Idle.pc = "idle" /\ Listed.pc = "listed"
<1>1. EmptyCheckpoint \in Checkpoint
  BY DEF EmptyCheckpoint, Checkpoint, Mark
<1>2. NoTime \in Time /\ NoOwner \in Owner /\ 0 \in 0..LastBackoff
  BY DEF Time, Owner
<1>3. AbsentRow \in Row
  BY <1>1, <1>2 DEF AbsentRow, Row
<1>4. Idle \in Poll /\ Idle.pc = "idle"
  BY <1>1, <1>2 DEF Idle, Poll, PC
<1>5. Listed \in Poll /\ Listed.pc = "listed"
  BY <1>4 DEF Listed, Poll, PC
<1> QED
  BY <1>1, <1>3, <1>4, <1>5

LEMMA TypeFacts ==
  ASSUME TypeInv, NEW w \in Worker, NEW s \in Source
  PROVE  /\ source[s] \in Row /\ cycle[w] \in Cycle /\ poll[w][s] \in Poll
         /\ visible[s] \in SUBSET Video /\ newest[s] \in Mark
         /\ clock \in Nat /\ cycle[w].now \in Nat
         /\ source[s].version \in Nat /\ poll[w][s].version \in Nat
BY DEF TypeInv, TypeOK, Row, Poll, Cycle

\* One poll record is replaced.
LEMMA GoType ==
  ASSUME TypeInv, NEW w \in Worker, NEW s \in Source, NEW p \in Poll, Go(w, s, p)
  PROVE  /\ poll' \in [Worker -> [Source -> Poll]]
         /\ poll'[w][s] = p
         /\ \A x \in Worker, t \in Source : (x # w \/ t # s) => poll'[x][t] = poll[x][t]
BY DEF Go, TypeInv, TypeOK

LEMMA GoKeepsRest ==
  ASSUME TypeInv, NEW w \in Worker, NEW s \in Source, NEW p \in Poll, Go(w, s, p),
         poll[w][s].pc # "idle", UNCHANGED cycle
  PROVE  RestsOutsideCycles'
BY GoType DEF TypeInv, RestsOutsideCycles

\* The two kinds of failure record.
LEMMA FailShape ==
  ASSUME TypeInv, NEW w \in Worker, NEW s \in Source,
         NEW status \in {"active", "paused"}, NEW delay \in Nat, Fail(w, s, status, delay)
  PROVE  \E p \in Poll : /\ Go(w, s, p) /\ p.pc = "failing"
                         /\ p.version = poll[w][s].version
<1> DEFINE p == [Idle EXCEPT !.pc = "failing", !.version = poll[w][s].version,
                             !.failures = poll[w][s].failures, !.status = status,
                             !.delay = delay]
<1>1. poll[w][s] \in Poll
  BY TypeFacts
<1>2. p \in Poll /\ p.pc = "failing" /\ p.version = poll[w][s].version
  BY <1>1, RecordTypes DEF Poll, PC, Idle
<1> QED
  BY <1>2 DEF Fail

LEMMA BackoffType ==
  ASSUME NEW failures \in 0..LastBackoff
  PROVE  BackoffAfter(failures) \in Nat
BY DEF BackoffAfter, Counted

LEMMA FailureShape ==
  ASSUME TypeInv, NEW w \in Worker, NEW s \in Source,
         \/ Failure(w, s)
         \/ \E delay \in RetryAfter : Fail(w, s, "active", delay)
         \/ Fail(w, s, "active", BackoffAfter(poll[w][s].failures))
  PROVE  \E p \in Poll : /\ Go(w, s, p) /\ p.pc = "failing"
                         /\ p.version = poll[w][s].version
<1>1. BackoffAfter(poll[w][s].failures) \in Nat
  BY TypeFacts, BackoffType DEF Poll
<1> QED
  BY <1>1, FailShape DEF Failure

\* The page a poll accepts.
LEMMA AcceptedShape ==
  ASSUME NEW p \in Poll, NEW up \in SUBSET Video, NEW bound \in BOOLEAN
  PROVE  LET q == [Accepted(p, up) EXCEPT !.bound = bound]
         IN  /\ NextCheckpoint(p.checkpoint, up) \in Checkpoint => q \in Poll
             /\ q.pc = "polled" /\ q.version = p.version
             /\ q.next = NextCheckpoint(p.checkpoint, up)
             /\ q.found = Detections(p.checkpoint, up)
<1> DEFINE next == NextCheckpoint(p.checkpoint, up)
           found == Detections(p.checkpoint, up)
           complete == PageComplete(p.checkpoint, up)
           q == [Accepted(p, up) EXCEPT !.bound = bound]
<1>1. found \in SUBSET Video
  <2>1. PageVideos(up, p.checkpoint.cursor) \subseteq Older(up, p.checkpoint.cursor)
    BY PageIsNewest DEF Poll, Checkpoint
  <2>2. found \subseteq up
    BY <2>1 DEF Detections, Older
  <2> HIDE DEF found
  <2> QED
    BY <2>2
<1>2. complete \in BOOLEAN
  BY DEF PageComplete
<1>3. q = [p EXCEPT !.pc = "polled", !.checkpoint = EmptyCheckpoint, !.found = found,
                    !.next = next, !.complete = complete, !.bound = bound]
  BY DEF Accepted, Poll
<1> HIDE DEF next, found, complete, q
<1>4. next \in Checkpoint => q \in Poll
  BY <1>1, <1>2, <1>3, RecordTypes DEF Poll, PC
<1>5. /\ q.pc = "polled" /\ q.version = p.version /\ q.next = next /\ q.found = found
  BY <1>3 DEF Poll
<1> QED
  BY <1>4, <1>5 DEF q, next, found

\* What the updates write is a row.
LEMMA RowTypes ==
  ASSUME NEW r \in Row, NEW p \in Poll, NEW w \in Worker, NEW now \in Nat
  PROVE  /\ NewRow(now) \in Row /\ Reactivated(r, now) \in Row
         /\ Claimed(r, w, now) \in Row /\ Completed(r, p, now) \in Row
         /\ Released(r, p, now) \in Row
<1>1. now \in Time /\ now + Lease \in Time /\ NoTime \in Time /\ w \in Owner /\ NoOwner \in Owner
  BY DEF Time, Owner
<1>2. NewRow(now) \in Row
  BY <1>1, RecordTypes DEF NewRow, AbsentRow, Row
<1>3. Reactivated(r, now) \in Row
  BY <1>1 DEF Reactivated, Row
<1>4. Claimed(r, w, now) \in Row
  <2> DEFINE expires == now + Lease
  <2>1. r.version + 1 \in Nat
    BY DEF Row
  <2>2. Claimed(r, w, now) = [r EXCEPT !.owner = w, !.expiresAt = expires, !.version = r.version + 1]
    BY DEF Claimed, Row
  <2> HIDE DEF expires
  <2> QED
    BY <1>1, <2>1, <2>2 DEF Row, expires
<1>5. Completed(r, p, now) \in Row
  <2> DEFINE next == now + (IF p.complete THEN Interval ELSE PageDelay)
  <2>1. next \in Time
    BY DEF Time
  <2>2. p.next \in Checkpoint /\ 0 \in 0..LastBackoff
    BY DEF Poll
  <2>3. Completed(r, p, now) =
          [r EXCEPT !.status = "active", !.owner = NoOwner, !.expiresAt = NoTime,
                    !.checkpoint = p.next, !.failures = 0, !.nextPollAt = next]
    BY DEF Completed
  <2> HIDE DEF next
  <2> QED
    BY <1>1, <2>1, <2>2, <2>3 DEF Row
<1>6. Released(r, p, now) \in Row
  <2> DEFINE next == IF p.status = "paused" THEN NoTime ELSE now + p.delay
  <2>1. next \in Time
    BY DEF Time, Poll
  <2>2. Counted(p.failures) \in 0..LastBackoff /\ p.status \in {"absent", "active", "paused"}
    BY DEF Counted, Poll
  <2>3. Released(r, p, now) =
          [r EXCEPT !.status = p.status, !.owner = NoOwner, !.expiresAt = NoTime,
                    !.failures = Counted(p.failures), !.nextPollAt = next]
    BY DEF Released
  <2> HIDE DEF next
  <2> QED
    BY <1>1, <2>1, <2>2, <2>3 DEF Row
<1> QED
  BY <1>2, <1>3, <1>4, <1>5, <1>6

LEMMA NextType ==
  ASSUME NEW c \in Checkpoint, NEW up \in SUBSET Video
  PROVE  NextCheckpoint(c, up) \in Checkpoint
<1> DEFINE videos == PageVideos(up, c.cursor)
           observed == Highest(videos \cup {c.pending, c.high})
           low == Lowest(videos)
<1>1. observed \in Mark
  BY ObservedMark
<1>2. GoesOn(c, up) => low \in Mark
  BY WalkGoesOn
<1>3. NextCheckpoint(c, up) =
        IF c.initialized /\ GoesOn(c, up)
          THEN [initialized |-> TRUE, high |-> c.high, pending |-> observed, cursor |-> low]
          ELSE AtRest(observed)
  BY DEF NextCheckpoint
<1> HIDE DEF observed, low
<1> QED
  BY <1>1, <1>2, <1>3 DEF AtRest, Checkpoint, Mark

\* Each step of a poll replaces its record; where it holds on, it keeps its version.
LEMMA PollRecordStep ==
  ASSUME TypeInv, NEW w \in Worker, NEW s \in Source, PollStep(w, s) \/ PollThrows(w, s)
  PROVE  /\ UNCHANGED <<cycle, visible, newest, clock>>
         /\ poll[w][s].pc # "idle" /\ cycle[w].mode \in {"running", "stopping"}
         /\ \E p \in Poll :
              /\ Go(w, s, p)
              /\ \/ p.pc = "idle"
                 \/ Claim(w, s) /\ p.pc = "claimed" /\ p.version = source[s].version + 1
                 \/ Holds(w, s) /\ p.version = poll[w][s].version /\ UNCHANGED source
<1>0. poll[w][s] \in Poll /\ source[s] \in Row /\ cycle[w] \in Cycle /\ visible[s] \in SUBSET Video
  BY TypeFacts
<1>a. Idle \in Poll /\ Idle.pc = "idle"
  BY RecordTypes
<1>b. poll[w][s].pc # "idle" => cycle[w].mode \in {"running", "stopping"}
  BY <1>0 DEF TypeInv, RestsOutsideCycles, Cycle, Mode
<1>1. CASE Claim(w, s)
  <2> DEFINE p == [Idle EXCEPT !.pc = "claimed", !.version = source[s].version + 1]
  <2>0. source[s].version + 1 \in Nat
    <3>1. source[s].version \in Nat
      BY TypeFacts
    <3> QED
      BY <3>1
  <2>1. p \in Poll /\ p.pc = "claimed" /\ p.version = source[s].version + 1
    <3> DEFINE n == source[s].version + 1
    <3> HIDE DEF n
    <3>1. n \in Nat
      BY <2>0 DEF n
    <3>2. [Idle EXCEPT !.pc = "claimed", !.version = n] \in Poll
      BY <1>a, <3>1 DEF Poll, PC
    <3> QED
      BY <1>a, <3>2 DEF n, Poll
  <2>2. Go(w, s, p) \/ Go(w, s, Idle)
    BY <1>1 DEF Claim, Return
  <2>3. UNCHANGED <<cycle, visible, newest, clock>> /\ poll[w][s].pc # "idle"
    BY <1>1 DEF Claim, History
  <2> HIDE DEF p
  <2> QED
    BY <1>1, <1>a, <1>b, <2>1, <2>2, <2>3
<1>2. CASE ReadBack(w, s)
  <2> DEFINE p == [poll[w][s] EXCEPT !.pc = "ready", !.checkpoint = source[s].checkpoint,
                                     !.failures = source[s].failures]
  <2>1. p \in Poll /\ p.version = poll[w][s].version
    BY <1>0 DEF Poll, PC, Row
  <2>2. Go(w, s, p)
    BY <1>2 DEF ReadBack
  <2>3. /\ UNCHANGED <<cycle, visible, newest, clock, source>> /\ poll[w][s].pc # "idle"
        /\ Holds(w, s)
    BY <1>2 DEF ReadBack, History, Holds
  <2> HIDE DEF p
  <2> QED
    BY <1>b, <2>1, <2>2, <2>3
<1>3. CASE NotReady(w, s) \/ ProviderFails(w, s) \/ IngestRollsBack(w, s)
  <2>1. PICK p \in Poll : Go(w, s, p) /\ p.pc = "failing" /\ p.version = poll[w][s].version
    BY <1>3, FailureShape DEF NotReady, ProviderFails, IngestRollsBack
  <2>2. /\ UNCHANGED <<cycle, visible, newest, clock, source>> /\ poll[w][s].pc # "idle"
        /\ Holds(w, s)
    BY <1>3 DEF NotReady, ProviderFails, IngestRollsBack, History, Holds
  <2> QED
    BY <1>b, <2>1, <2>2
<1>4. CASE PageReceived(w, s)
  <2>1. PICK bound \in BOOLEAN : Go(w, s, [Accepted(poll[w][s], visible[s]) EXCEPT !.bound = bound])
    BY <1>4 DEF PageReceived
  <2> DEFINE p == [Accepted(poll[w][s], visible[s]) EXCEPT !.bound = bound]
  <2>2. poll[w][s].checkpoint \in Checkpoint
    BY <1>0 DEF Poll
  <2>3. p \in Poll /\ p.version = poll[w][s].version
    <3>1. NextCheckpoint(poll[w][s].checkpoint, visible[s]) \in Checkpoint
      BY <1>0, <2>2, NextType
    <3>2. poll[w][s] \in Poll /\ visible[s] \in SUBSET Video
      BY <1>0
    <3> DEFINE polled == poll[w][s]
               up == visible[s]
    <3> HIDE DEF polled, up
    <3>3. polled \in Poll /\ up \in SUBSET Video
      BY <3>2 DEF polled, up
    <3>4. /\ NextCheckpoint(polled.checkpoint, up) \in Checkpoint =>
               [Accepted(polled, up) EXCEPT !.bound = bound] \in Poll
          /\ [Accepted(polled, up) EXCEPT !.bound = bound].version = polled.version
      BY <3>3, AcceptedShape
    <3> QED
      BY <3>1, <3>4 DEF polled, up
  <2>4. /\ UNCHANGED <<cycle, visible, newest, clock, source>> /\ poll[w][s].pc # "idle"
        /\ Holds(w, s)
    BY <1>4 DEF PageReceived, History, Holds
  <2> HIDE DEF p
  <2> QED
    BY <1>b, <2>1, <2>3, <2>4 DEF p
<1>5. CASE Ingest(w, s) \/ Release(w, s) \/ PollThrows(w, s)
  <2>1. /\ UNCHANGED <<cycle, visible, newest, clock>> /\ poll[w][s].pc # "idle"
        /\ Go(w, s, Idle)
    BY <1>5 DEF Ingest, Release, PollThrows, History, Holds, Return
  <2> QED
    BY <1>a, <1>b, <2>1
<1> QED
  BY <1>1, <1>2, <1>3, <1>4, <1>5 DEF PollStep

LEMMA TypeInit == Init => TypeInv
<1> SUFFICES ASSUME Init PROVE TypeInv
  OBVIOUS
<1>1. TypeOK
  <2>1. \A w \in Worker : cycle[w] \in Cycle
    BY DEF Init, Cycle, Mode
  <2> QED
    BY <2>1, RecordTypes DEF Init, TypeOK, Mark, Cycle, Mode
<1>2. RestsOutsideCycles /\ InstantsHavePassed
  BY RecordTypes DEF Init, RestsOutsideCycles, InstantsHavePassed
<1> QED
  BY <1>1, <1>2 DEF TypeInv

LEMMA TypeNext == TypeInv /\ [Next]_vars => TypeInv'
<1> SUFFICES ASSUME TypeInv, [Next]_vars PROVE TypeInv'
  OBVIOUS
<1> USE DEF History
<1>1. ASSUME NEW s \in Source, Publish(s) PROVE TypeInv'
  <2>1. newest[s] + 1 \in Video /\ newest[s] + 1 \in Mark
    BY <1>1 DEF Publish, TypeInv, TypeOK, Video, Mark
  <2>2. visible' \in [Source -> SUBSET Video] /\ newest' \in [Source -> Mark]
    BY <1>1, <2>1 DEF Publish, TypeInv, TypeOK
  <2> QED
    BY <1>1, <2>2 DEF Publish, TypeInv, TypeOK, RestsOutsideCycles, InstantsHavePassed
<1>2. ASSUME NEW s \in Source, TakeDown(s) PROVE TypeInv'
  <2>1. visible' \in [Source -> SUBSET Video] /\ events' \in 0..MaxEvents
    BY <1>2 DEF TakeDown, TypeInv, TypeOK
  <2> QED
    BY <1>2, <2>1 DEF TakeDown, TypeInv, TypeOK, RestsOutsideCycles, InstantsHavePassed
<1>3. ASSUME NEW s \in Source, Activate(s) PROVE TypeInv'
  <2>1. clock \in Nat /\ source[s] \in Row
    BY DEF TypeInv, TypeOK
  <2>2. source' \in [Source -> Row]
    <3>1. NewRow(clock) \in Row
      BY <2>1, RecordTypes DEF NewRow, AbsentRow, Row, Time
    <3>2. Reactivated(source[s], clock) \in Row
      BY <2>1, RecordTypes DEF Reactivated, Row, Time, Owner
    <3> QED
      BY <1>3, <3>1, <3>2 DEF Activate, TypeInv, TypeOK
  <2>3. events' \in 0..MaxEvents
    BY <1>3 DEF Activate, TypeInv, TypeOK
  <2> QED
    BY <1>3, <2>2, <2>3 DEF Activate, TypeInv, TypeOK, RestsOutsideCycles, InstantsHavePassed
<1>4. ASSUME NEW w \in Worker, StartWorker(w) \/ Stop(w) PROVE TypeInv'
  <2>1. PICK mode \in Mode : cycle' = [cycle EXCEPT ![w].mode = mode]
    BY <1>4 DEF StartWorker, Stop, Mode
  <2>2. cycle[w] \in Cycle
    BY DEF TypeInv, TypeOK
  <2>3. cycle' \in [Worker -> Cycle]
    BY <2>1, <2>2 DEF TypeInv, TypeOK, Cycle
  <2>4. RestsOutsideCycles'
    <3>1. /\ cycle'[w].mode = mode /\ \A x \in Worker : x # w => cycle'[x] = cycle[x]
          /\ UNCHANGED poll
      BY <1>4, <2>1, <2>2 DEF StartWorker, Stop, TypeInv, TypeOK, Cycle
    <3>2. cycle[w].mode \in {"stopped", "sleeping"} \/ cycle'[w].mode = "stopping"
      BY <1>4, <2>2 DEF StartWorker, Stop, TypeInv, TypeOK, Cycle
    <3> QED
      BY <3>1, <3>2 DEF TypeInv, RestsOutsideCycles
  <2>5. InstantsHavePassed'
    BY <1>4, <2>1, <2>2 DEF StartWorker, Stop, TypeInv, TypeOK, InstantsHavePassed, Cycle
  <2>6. events' \in 0..MaxEvents
    BY <1>4 DEF StartWorker, Stop, TypeInv, TypeOK
  <2> QED
    BY <1>4, <2>3, <2>4, <2>5, <2>6 DEF StartWorker, Stop, TypeInv, TypeOK
<1>5. ASSUME NEW w \in Worker, Crash(w) \/ EndCycle(w) \/ BeginCycle(w) PROVE TypeInv'
  <2>1. PICK c \in Cycle : /\ cycle' = [cycle EXCEPT ![w] = c] /\ c.now <= clock
                           /\ c.mode # "running" => c.now = 0 /\ poll'[w] = [s \in Source |-> Idle]
    <3>1. CASE Crash(w)
      <4> DEFINE c == [mode |-> "stopped", now |-> 0]
      <4>1. c \in Cycle /\ c.now <= clock /\ c.now = 0
        BY DEF Cycle, Mode, TypeInv, TypeOK
      <4>2. cycle' = [cycle EXCEPT ![w] = c] /\ poll'[w] = [s \in Source |-> Idle]
        BY <3>1 DEF Crash, TypeInv, TypeOK
      <4> QED
        BY <4>1, <4>2
    <3>2. CASE EndCycle(w)
      <4> DEFINE c == [mode |-> IF cycle[w].mode = "running" THEN "sleeping" ELSE "stopped", now |-> 0]
      <4>1. c \in Cycle /\ c.now <= clock /\ c.now = 0
        BY DEF Cycle, Mode, TypeInv, TypeOK
      <4>2. cycle' = [cycle EXCEPT ![w] = c] /\ poll'[w] = [s \in Source |-> Idle]
        BY <3>2 DEF EndCycle, TypeInv, TypeOK
      <4> QED
        BY <4>1, <4>2
    <3>3. CASE BeginCycle(w)
      <4> DEFINE c == [mode |-> "running", now |-> clock]
      <4>1. c \in Cycle /\ c.now <= clock /\ c.mode = "running"
        BY DEF Cycle, Mode, TypeInv, TypeOK
      <4>2. cycle' = [cycle EXCEPT ![w] = c]
        BY <3>3 DEF BeginCycle
      <4> QED
        BY <4>1, <4>2
    <3> QED
      BY <1>5, <3>1, <3>2, <3>3
  <2>2. poll' \in [Worker -> [Source -> Poll]] /\ \A x \in Worker : x # w => poll'[x] = poll[x]
    <3>1. PICK q : poll' = [poll EXCEPT ![w] = q] /\ q \in [Source -> Poll]
      <4>1. [s \in Source |-> Idle] \in [Source -> Poll]
        BY RecordTypes
      <4>2. [s \in Source |-> IF s \in Chosen(clock) THEN Listed ELSE Idle] \in [Source -> Poll]
        BY RecordTypes
      <4> QED
        BY <1>5, <4>1, <4>2 DEF Crash, EndCycle, BeginCycle
    <3> QED
      BY <3>1 DEF TypeInv, TypeOK
  <2>3. cycle' \in [Worker -> Cycle] /\ cycle'[w] = c /\ \A x \in Worker : x # w => cycle'[x] = cycle[x]
    BY <2>1 DEF TypeInv, TypeOK
  <2>4. events' \in 0..MaxEvents /\ UNCHANGED <<source, visible, newest, ledger, dropped, baseline, clock>>
    <3>1. /\ UNCHANGED <<source, visible, newest, ledger, dropped, baseline, clock>>
          /\ events' = events \/ (events < MaxEvents /\ events' = events + 1)
      BY <1>5 DEF Crash, EndCycle, BeginCycle
    <3> QED
      BY <3>1 DEF TypeInv, TypeOK
  <2>5. RestsOutsideCycles'
    <3>1. c.mode # "running" => \A s \in Source : poll'[w][s].pc = "idle"
      BY <2>1, RecordTypes
    <3>2. ASSUME NEW x \in Worker, cycle'[x].mode \in {"stopped", "sleeping"}, NEW s \in Source
          PROVE  poll'[x][s].pc = "idle"
      BY <2>2, <2>3, <3>1, <3>2 DEF TypeInv, RestsOutsideCycles
    <3> QED
      BY <3>2 DEF RestsOutsideCycles
  <2>6. InstantsHavePassed'
    BY <2>1, <2>2, <2>3, <2>4 DEF TypeInv, InstantsHavePassed
  <2> QED
    BY <2>2, <2>3, <2>4, <2>5, <2>6 DEF TypeInv, TypeOK
<1>6. ASSUME NEW w \in Worker, NEW s \in Source, PollStep(w, s) \/ PollThrows(w, s)
      PROVE  TypeInv'
  <2>1. UNCHANGED <<cycle, visible, newest, clock>> /\ poll[w][s].pc # "idle"
    BY <1>6, PollRecordStep
  <2>2. PICK p \in Poll : Go(w, s, p)
    BY <1>6, PollRecordStep
  <2>3. poll' \in [Worker -> [Source -> Poll]] /\ RestsOutsideCycles'
    BY <2>1, <2>2, GoType, GoKeepsRest
  <2>4. source[s] \in Row /\ poll[w][s] \in Poll /\ cycle[w].now \in Nat
    BY TypeFacts
  <2>5. source' \in [Source -> Row]
    <3>1. \/ UNCHANGED source
          \/ source' = [source EXCEPT ![s] = Claimed(source[s], w, cycle[w].now)]
          \/ source' = [source EXCEPT ![s] = Completed(source[s], poll[w][s], cycle[w].now)]
          \/ source' = [source EXCEPT ![s] = Released(source[s], poll[w][s], cycle[w].now)]
      BY <1>6 DEF PollStep, PollThrows, Claim, ReadBack, NotReady, PageReceived, ProviderFails,
                  Ingest, CompleteClaim, IngestRollsBack, Release
    <3> QED
      BY <2>4, <3>1, RowTypes DEF TypeInv, TypeOK
  <2>6. /\ ledger' \in [Source -> SUBSET Video] /\ dropped' \in [Source -> SUBSET Video]
        /\ baseline' \in [Source -> Mark]
    <3>1. CASE Ingest(w, s)
      <4>1. poll[w][s].found \in SUBSET Video /\ poll[w][s].next.high \in Mark
        BY <2>4 DEF Poll, Checkpoint
      <4> DEFINE found == poll[w][s].found
                 high == poll[w][s].next.high
      <4>2. /\ ledger' = ledger
               \/ ledger' = [ledger EXCEPT ![s] = IF poll[w][s].bound THEN @ \cup found ELSE @]
            /\ dropped' = dropped
               \/ dropped' = [dropped EXCEPT ![s] = IF poll[w][s].bound THEN @ ELSE @ \cup found]
            /\ baseline' = baseline
               \/ baseline' = [baseline EXCEPT ![s] =
                                 IF source[s].checkpoint.initialized THEN @ ELSE high]
        BY <3>1 DEF Ingest, CompleteClaim, StoreDetections
      <4>3. found \in SUBSET Video /\ high \in Mark
        BY <4>1
      <4> HIDE DEF found, high
      <4>4. ledger' \in [Source -> SUBSET Video]
        BY <4>2, <4>3 DEF TypeInv, TypeOK
      <4>5. dropped' \in [Source -> SUBSET Video]
        BY <4>2, <4>3 DEF TypeInv, TypeOK
      <4>6. baseline' \in [Source -> Mark]
        BY <4>2, <4>3 DEF TypeInv, TypeOK
      <4> QED
        BY <4>4, <4>5, <4>6
    <3>2. CASE ~Ingest(w, s)
      BY <1>6, <3>2 DEF PollStep, PollThrows, Claim, ReadBack, NotReady, PageReceived,
                  ProviderFails, IngestRollsBack, Release, TypeInv, TypeOK
    <3> QED
      BY <3>1, <3>2
  <2>7. events' \in 0..MaxEvents
    BY <1>6 DEF PollStep, PollThrows, Claim, ReadBack, NotReady, PageReceived, ProviderFails,
                Ingest, IngestRollsBack, Release, TypeInv, TypeOK
  <2> QED
    BY <2>1, <2>3, <2>5, <2>6, <2>7 DEF TypeInv, TypeOK, InstantsHavePassed
<1>7. CASE Tick
  BY <1>7 DEF Tick, TypeInv, TypeOK, RestsOutsideCycles, InstantsHavePassed, Cycle
<1>8. CASE UNCHANGED vars
  BY <1>8 DEF vars, TypeInv, TypeOK, RestsOutsideCycles, InstantsHavePassed
<1> QED
  BY <1>1, <1>2, <1>3, <1>4, <1>5, <1>6, <1>7, <1>8 DEF Next, LoopStep

\* The variables of the polling keep their types.
THEOREM TypeCorrect == Spec => []TypeOK
<1>1. TypeInv => TypeOK
  BY DEF TypeInv
<1> QED
  BY <1>1, TypeInit, TypeNext, PTL DEF Spec

-----------------------------------------------------------------------------
(***************************************************************************)
(* What a step does to one row and to the polls of its source.             *)
(***************************************************************************)

Activates(s) ==
  \/ source[s].status = "absent" /\ source'[s] = NewRow(clock)
  \/ source[s].status = "paused" /\ source'[s] = Reactivated(source[s], clock)

Takes(w, s) ==
  /\ source[s].status = "active" /\ ~LeaseRuns(source[s], cycle[w].now)
  /\ source'[s] = Claimed(source[s], w, cycle[w].now)
  /\ poll'[w][s].pc = "claimed" /\ poll'[w][s].version = source[s].version + 1

Settles(w, s) ==
  /\ Holds(w, s) /\ ~Holds(w, s)'
  /\ Fence(source[s], w, poll[w][s], cycle[w].now)
  /\ \/ Release(w, s) /\ source'[s] = Released(source[s], poll[w][s], cycle[w].now)
     \/ Ingest(w, s) /\ source'[s] = Completed(source[s], poll[w][s], cycle[w].now)

LEMMA RowStep ==
  ASSUME TypeInv, [Next]_vars, NEW s \in Source
  PROVE  \/ source'[s] = source[s]
         \/ Activates(s)
         \/ \E w \in Worker : Takes(w, s) \/ Settles(w, s)
<1> USE DEF History
<1>0. source \in [Source -> Row] /\ \A w \in Worker : poll[w][s] \in Poll
  BY DEF TypeInv, TypeOK
<1>a. Idle \in Poll /\ Idle.pc = "idle"
  BY RecordTypes
<1>1. ASSUME NEW t \in Source, Activate(t) PROVE source'[s] = source[s] \/ Activates(s)
  BY <1>0, <1>1 DEF Activate, Activates
<1>2. ASSUME NEW w \in Worker, NEW t \in Source, PollStep(w, t) \/ PollThrows(w, t)
      PROVE  source'[s] = source[s] \/ Takes(w, s) \/ Settles(w, s)
  <2>1. CASE Claim(w, t)
    <3>1. CASE source[t].status = "active" /\ ~LeaseRuns(source[t], cycle[w].now)
      <4> DEFINE p == [Idle EXCEPT !.pc = "claimed", !.version = source[t].version + 1]
      <4>1. /\ source' = [source EXCEPT ![t] = Claimed(source[t], w, cycle[w].now)]
            /\ Go(w, t, p)
        BY <2>1, <3>1 DEF Claim
      <4>2. poll'[w][t] = p
        BY <4>1 DEF Go, TypeInv, TypeOK
      <4>3. p.pc = "claimed" /\ p.version = source[t].version + 1
        BY <1>a DEF Poll
      <4> QED
        BY <1>0, <3>1, <4>1, <4>2, <4>3 DEF Takes
    <3>2. CASE ~(source[t].status = "active" /\ ~LeaseRuns(source[t], cycle[w].now))
      BY <2>1, <3>2 DEF Claim
    <3> QED
      BY <3>1, <3>2
  <2>2. CASE Release(w, t) \/ Ingest(w, t)
    <3>1. Holds(w, t) /\ Go(w, t, Idle)
      BY <2>2 DEF Release, Ingest, Holds, Return
    <3>2. ~Holds(w, t)'
      BY <1>a, <3>1, GoType DEF Holds
    <3> QED
      BY <1>0, <2>2, <3>1, <3>2 DEF Release, Ingest, CompleteClaim, Settles
  <2>3. CASE ReadBack(w, t) \/ NotReady(w, t) \/ PageReceived(w, t) \/ ProviderFails(w, t)
             \/ IngestRollsBack(w, t) \/ PollThrows(w, t)
    BY <2>3 DEF ReadBack, NotReady, PageReceived, ProviderFails, IngestRollsBack, PollThrows
  <2> QED
    BY <1>2, <2>1, <2>2, <2>3 DEF PollStep
<1>3. ASSUME NEW t \in Source, Publish(t) \/ TakeDown(t) PROVE source'[s] = source[s]
  BY <1>3 DEF Publish, TakeDown
<1>4. ASSUME NEW w \in Worker, LoopStep(w) \/ Stop(w) \/ Crash(w) PROVE source'[s] = source[s]
  BY <1>4 DEF LoopStep, StartWorker, BeginCycle, EndCycle, Stop, Crash
<1>5. CASE Tick \/ UNCHANGED vars
  BY <1>5 DEF Tick, vars
<1> QED
  BY <1>1, <1>2, <1>3, <1>4, <1>5 DEF Next

\* A poll that holds after a step held before, at the same version and instant, or has just
\* claimed.
LEMMA HoldStep ==
  ASSUME TypeInv, [Next]_vars, NEW w \in Worker, NEW s \in Source, Holds(w, s)'
  PROVE  /\ cycle'[w].now = cycle[w].now
         /\ \/ Holds(w, s) /\ poll'[w][s].version = poll[w][s].version
            \/ Takes(w, s)
<1> USE DEF History
<1>0. /\ poll \in [Worker -> [Source -> Poll]] /\ poll[w][s] \in Poll
      /\ cycle \in [Worker -> Cycle] /\ cycle[w] \in Cycle
  BY DEF TypeInv, TypeOK
<1>a. Idle \in Poll /\ Idle.pc = "idle" /\ Listed.pc = "listed"
  BY RecordTypes
<1>1. CASE UNCHANGED <<poll, cycle>>
  BY <1>1 DEF Holds
<1>2. ASSUME NEW x \in Worker, StartWorker(x) \/ Stop(x)
      PROVE  UNCHANGED poll /\ cycle'[w].now = cycle[w].now
  <2>1. PICK mode \in Mode : cycle' = [cycle EXCEPT ![x].mode = mode]
    BY <1>2 DEF StartWorker, Stop, Mode
  <2>2. cycle'[w].now = cycle[w].now
    BY <1>0, <2>1 DEF Cycle
  <2> QED
    BY <1>2, <2>2 DEF StartWorker, Stop
<1>3. ASSUME NEW x \in Worker, Crash(x) \/ EndCycle(x) \/ BeginCycle(x)
      PROVE  poll'[w] = poll[w] /\ cycle'[w] = cycle[w]
  <2>1. x # w => poll'[w] = poll[w] /\ cycle'[w] = cycle[w]
    BY <1>0, <1>3 DEF Crash, EndCycle, BeginCycle
  <2>2. x = w => poll'[w][s] \in {Idle, Listed}
    BY <1>0, <1>3 DEF Crash, EndCycle, BeginCycle
  <2> QED
    BY <1>a, <2>1, <2>2 DEF Holds
<1>4. ASSUME NEW x \in Worker, NEW t \in Source, PollStep(x, t) \/ PollThrows(x, t)
      PROVE  /\ UNCHANGED cycle
             /\ \/ Holds(w, s) /\ poll'[w][s].version = poll[w][s].version
                \/ Takes(w, s)
  <2>1. UNCHANGED cycle
    BY <1>4, PollRecordStep
  <2>2. PICK p \in Poll :
          /\ Go(x, t, p)
          /\ \/ p.pc = "idle"
             \/ Claim(x, t) /\ p.pc = "claimed" /\ p.version = source[t].version + 1
             \/ Holds(x, t) /\ p.version = poll[x][t].version /\ UNCHANGED source
    BY <1>4, PollRecordStep
  <2>3. CASE x # w \/ t # s
    <3>1. poll'[w][s] = poll[w][s]
      <4>1. TypeInv /\ Go(x, t, p) /\ p \in Poll
        BY <2>2
      <4> QED
        BY <2>3, <4>1, GoType
    <3> QED
      BY <2>1, <3>1 DEF Holds
  <2>4. CASE x = w /\ t = s
    <3>1. poll'[w][s] = p
      BY <2>2, <2>4, GoType
    <3>2. p.pc # "idle"
      BY <3>1 DEF Holds
    <3>3. CASE Claim(w, s) /\ p.pc = "claimed" /\ p.version = source[s].version + 1
      <4>1. source[s].status = "active" /\ ~LeaseRuns(source[s], cycle[w].now)
        <5>1. ASSUME ~(source[s].status = "active" /\ ~LeaseRuns(source[s], cycle[w].now))
              PROVE  FALSE
          <6>1. Go(w, s, Idle)
            BY <3>3, <5>1 DEF Claim, Return
          <6> QED
            BY <1>a, <3>1, <3>2, <6>1, GoType
        <5> QED
          BY <5>1
      <4>2. source'[s] = Claimed(source[s], w, cycle[w].now)
        BY <3>3, <4>1 DEF Claim, TypeInv, TypeOK
      <4> QED
        BY <2>1, <3>1, <3>3, <4>1, <4>2 DEF Takes
    <3>4. CASE Holds(w, s) /\ p.version = poll[w][s].version
      BY <2>1, <3>1, <3>4
    <3> QED
      BY <2>2, <2>4, <3>2, <3>3, <3>4
  <2> QED
    BY <2>1, <2>3, <2>4
<1>5. ASSUME NEW t \in Source, Publish(t) \/ TakeDown(t) \/ Activate(t)
      PROVE  UNCHANGED <<poll, cycle>>
  BY <1>5 DEF Publish, TakeDown, Activate
<1>6. ASSUME Tick \/ UNCHANGED vars PROVE UNCHANGED <<poll, cycle>>
  BY <1>6 DEF Tick, vars
<1> QED
  BY <1>1, <1>2, <1>3, <1>4, <1>5, <1>6 DEF Next, LoopStep, Holds

LEMMA ClockStep ==
  ASSUME TypeInv, [Next]_vars
  PROVE  clock <= clock'
<1> USE DEF History
<1>0. clock \in Nat
  BY DEF TypeInv, TypeOK
<1>1. CASE Tick
  BY <1>0, <1>1 DEF Tick
<1>2. ASSUME NEW w \in Worker, NEW s \in Source, PollStep(w, s) \/ PollThrows(w, s)
      PROVE  clock' = clock
  BY <1>2, PollRecordStep
<1>3. CASE UNCHANGED vars
  BY <1>0, <1>3 DEF vars
<1> QED
  BY <1>0, <1>1, <1>2, <1>3 DEF Next, LoopStep, Publish, TakeDown, Activate, StartWorker,
     BeginCycle, EndCycle, Stop, Crash

-----------------------------------------------------------------------------
(***************************************************************************)
(* The fence.  The holder of the row's own version also knows when its     *)
(* lease runs out, and a claim by another proves that it has.              *)
(***************************************************************************)

NamedAt(w, s) ==
  /\ poll[w][s].version \in 1..source[s].version
  /\ poll[w][s].version = source[s].version =>
       source[s].owner = w /\ source[s].expiresAt = cycle[w].now + Lease
  /\ \A x \in Worker \ {w} : Holds(x, s) => poll[x][s].version # poll[w][s].version

SupersededAt(w, s) ==
  poll[w][s].version < source[s].version =>
    /\ cycle[w].now + Lease <= clock
    /\ \A x \in Worker : Holds(x, s) /\ poll[x][s].version = poll[w][s].version + 1
         => cycle[w].now + Lease <= cycle[x].now

HolderIsNamed == \A s \in Source : \A w \in Worker : Holds(w, s) => NamedAt(w, s)

\* A row that was never inserted was never claimed, and has no checkpoint.
AbsentIsBlank ==
  \A s \in Source : source[s].status = "absent" =>
    source[s].version = 0 /\ source[s].checkpoint = EmptyCheckpoint

FenceInv == ScheduleMatchesStatus /\ HolderIsNamed /\ OverlapNeedsExpiredLease /\ AbsentIsBlank

LEMMA FenceInit == Init => FenceInv
<1> SUFFICES ASSUME Init PROVE FenceInv
  OBVIOUS
<1>1. \A s \in Source : source[s] = AbsentRow /\ \A w \in Worker : ~Holds(w, s)
  BY RecordTypes DEF Init, Holds
<1>2. \A s \in Source :
        /\ source[s].status = "absent" /\ source[s].nextPollAt = NoTime /\ source[s].owner = NoOwner
        /\ source[s].expiresAt = NoTime /\ source[s].version = 0
        /\ source[s].checkpoint = EmptyCheckpoint
  BY <1>1 DEF AbsentRow
<1>3. ScheduleMatchesStatus /\ AbsentIsBlank
  BY <1>2 DEF ScheduleMatchesStatus, AbsentIsBlank
<1>4. HolderIsNamed /\ OverlapNeedsExpiredLease
  BY <1>1 DEF HolderIsNamed, OverlapNeedsExpiredLease
<1> QED
  BY <1>3, <1>4 DEF FenceInv

\* The columns the updates set.
LEMMA RowColumns ==
  ASSUME NEW r \in Row, NEW now \in Nat
  PROVE  /\ NewRow(now).status = "active" /\ NewRow(now).nextPollAt = now
         /\ NewRow(now).owner = NoOwner /\ NewRow(now).expiresAt = NoTime
         /\ NewRow(now).version = 0 /\ NewRow(now).checkpoint = EmptyCheckpoint
         /\ Reactivated(r, now).status = "active" /\ Reactivated(r, now).nextPollAt = now
         /\ Reactivated(r, now).owner = NoOwner /\ Reactivated(r, now).expiresAt = NoTime
         /\ Reactivated(r, now).version = r.version
         /\ Reactivated(r, now).checkpoint = r.checkpoint
<1>1. AbsentRow \in Row
  BY RecordTypes
<1>2. /\ NewRow(now).status = "active" /\ NewRow(now).nextPollAt = now
      /\ NewRow(now).owner = NoOwner /\ NewRow(now).expiresAt = NoTime
      /\ NewRow(now).version = 0 /\ NewRow(now).checkpoint = EmptyCheckpoint
  BY <1>1 DEF NewRow, AbsentRow
<1>3. /\ Reactivated(r, now).status = "active" /\ Reactivated(r, now).nextPollAt = now
      /\ Reactivated(r, now).owner = NoOwner /\ Reactivated(r, now).expiresAt = NoTime
      /\ Reactivated(r, now).version = r.version
      /\ Reactivated(r, now).checkpoint = r.checkpoint
  BY DEF Reactivated, Row
<1> QED
  BY <1>2, <1>3

LEMMA TakesColumns ==
  ASSUME TypeInv, NEW w \in Worker, NEW s \in Source, Takes(w, s)
  PROVE  /\ source'[s].status = "active" /\ source'[s].nextPollAt = source[s].nextPollAt
         /\ source'[s].owner = w /\ source'[s].expiresAt = cycle[w].now + Lease
         /\ source'[s].version = source[s].version + 1
         /\ source'[s].checkpoint = source[s].checkpoint
<1>1. source[s] \in Row /\ poll[w][s] \in Poll /\ cycle[w].now \in Nat
  BY TypeFacts
<1>2. source'[s] = Claimed(source[s], w, cycle[w].now) /\ source[s].status = "active"
  BY DEF Takes
<1> DEFINE r == source[s] now == cycle[w].now
<1> HIDE DEF r, now
<1>3. /\ Claimed(r, w, now).status = r.status /\ Claimed(r, w, now).nextPollAt = r.nextPollAt
      /\ Claimed(r, w, now).owner = w /\ Claimed(r, w, now).expiresAt = now + Lease
      /\ Claimed(r, w, now).version = r.version + 1
      /\ Claimed(r, w, now).checkpoint = r.checkpoint
  <2>1. r \in Row /\ now \in Nat
    BY <1>1 DEF r, now
  <2> QED
    BY <2>1 DEF Claimed, Row
<1> QED
  BY <1>2, <1>3 DEF r, now

LEMMA SettledColumns ==
  ASSUME NEW r \in Row, NEW p \in Poll, NEW now \in Nat
  PROVE  /\ Completed(r, p, now).status = "active" /\ Completed(r, p, now).owner = NoOwner
         /\ Completed(r, p, now).expiresAt = NoTime /\ Completed(r, p, now).version = r.version
         /\ Completed(r, p, now).checkpoint = p.next /\ Completed(r, p, now).nextPollAt \in Nat
         /\ Released(r, p, now).status = p.status /\ Released(r, p, now).owner = NoOwner
         /\ Released(r, p, now).expiresAt = NoTime /\ Released(r, p, now).version = r.version
         /\ Released(r, p, now).checkpoint = r.checkpoint
         /\ p.status = "paused" => Released(r, p, now).nextPollAt = NoTime
         /\ p.status = "active" => Released(r, p, now).nextPollAt \in Nat
<1>1. /\ Completed(r, p, now).status = "active" /\ Completed(r, p, now).owner = NoOwner
      /\ Completed(r, p, now).expiresAt = NoTime /\ Completed(r, p, now).version = r.version
      /\ Completed(r, p, now).checkpoint = p.next
      /\ Completed(r, p, now).nextPollAt = now + (IF p.complete THEN Interval ELSE PageDelay)
  BY DEF Completed, Row
<1>2. now + (IF p.complete THEN Interval ELSE PageDelay) \in Nat
  OBVIOUS
<1>3. /\ Released(r, p, now).status = p.status /\ Released(r, p, now).owner = NoOwner
      /\ Released(r, p, now).expiresAt = NoTime /\ Released(r, p, now).version = r.version
      /\ Released(r, p, now).checkpoint = r.checkpoint
      /\ Released(r, p, now).nextPollAt = IF p.status = "paused" THEN NoTime ELSE now + p.delay
  BY DEF Released, Row
<1>4. now + p.delay \in Nat
  BY DEF Poll
<1> QED
  BY <1>1, <1>2, <1>3, <1>4

\* Where the version stays, and the row keeps its owner for the holder of that version, the
\* holders are as well named as before.
LEMMA VersionStays ==
  ASSUME TypeInv, FenceInv, [Next]_vars, NEW s \in Source,
         source'[s].version = source[s].version,
         \A w \in Worker : Holds(w, s)' /\ poll[w][s].version = source[s].version =>
           source'[s].owner = source[s].owner /\ source'[s].expiresAt = source[s].expiresAt,
         NEW w \in Worker, Holds(w, s)'
  PROVE  NamedAt(w, s)' /\ SupersededAt(w, s)'
<1>0. source[s].version \in Nat /\ clock \in Nat /\ clock' \in Nat /\ clock <= clock'
  <2>1. clock' \in Nat
    <3>1. TypeInv'
      BY TypeNext
    <3> QED
      BY <3>1 DEF TypeInv, TypeOK
  <2>2. source[s].version \in Nat /\ clock \in Nat
    BY TypeFacts
  <2>3. clock <= clock'
    BY ClockStep
  <2> QED
    BY <2>1, <2>2, <2>3
<1>1. ASSUME NEW x \in Worker, Holds(x, s)'
      PROVE  /\ cycle'[x].now = cycle[x].now /\ cycle[x].now \in Nat
             /\ Holds(x, s) /\ poll'[x][s].version = poll[x][s].version
             /\ poll[x][s].version \in Nat
  <2>1. ~Takes(x, s)
    <3>1. Takes(x, s) => source'[s].version = source[s].version + 1
      BY TakesColumns
    <3> QED
      BY <1>0, <3>1
  <2> QED
    BY <1>1, <2>1, HoldStep, TypeFacts
<1>2. NamedAt(w, s) /\ SupersededAt(w, s)
  BY <1>1 DEF FenceInv, HolderIsNamed, OverlapNeedsExpiredLease, SupersededAt
<1>3. NamedAt(w, s)'
  BY <1>1, <1>2 DEF NamedAt
<1>4. SupersededAt(w, s)'
  <2> SUFFICES ASSUME poll[w][s].version < source[s].version
               PROVE  /\ cycle[w].now + Lease <= clock'
                      /\ \A x \in Worker : Holds(x, s)' /\ poll[x][s].version = poll[w][s].version + 1
                           => cycle[w].now + Lease <= cycle[x].now
    BY <1>1 DEF SupersededAt
  <2> QED
    BY <1>0, <1>1, <1>2 DEF SupersededAt
<1> QED
  BY <1>3, <1>4

\* A claim: all versions held before are below the new one, and the holder of the last one,
\* if any, has outlived its lease.
LEMMA VersionMoves ==
  ASSUME TypeInv, FenceInv, [Next]_vars, NEW s \in Source, NEW u \in Worker, Takes(u, s),
         NEW w \in Worker, Holds(w, s)'
  PROVE  NamedAt(w, s)' /\ SupersededAt(w, s)'
<1>0. /\ source[s] \in Row /\ source[s].version \in Nat /\ clock \in Nat /\ clock' \in Nat
      /\ clock <= clock' /\ cycle[u].now \in Nat /\ cycle[u].now <= clock
  <2>1. clock' \in Nat
    <3>1. TypeInv'
      BY TypeNext
    <3> QED
      BY <3>1 DEF TypeInv, TypeOK
  <2>2. source[s] \in Row /\ source[s].version \in Nat
    BY TypeFacts
  <2>3. clock \in Nat /\ cycle[u].now \in Nat
    BY TypeFacts
  <2>4. cycle[u].now <= clock
    BY DEF TypeInv, InstantsHavePassed
  <2>5. clock <= clock'
    BY ClockStep
  <2> QED
    BY <2>1, <2>2, <2>3, <2>4, <2>5
<1>1. /\ source'[s].owner = u /\ source'[s].expiresAt = cycle[u].now + Lease
      /\ source'[s].version = source[s].version + 1
  BY TakesColumns
<1>2. Holds(u, s)' /\ poll'[u][s].version = source[s].version + 1 /\ cycle'[u].now = cycle[u].now
  <2>1. Holds(u, s)'
    BY DEF Takes, Holds
  <2> QED
    BY <2>1, HoldStep DEF Takes
<1>3. ASSUME NEW x \in Worker, x # u, Holds(x, s)'
      PROVE  /\ cycle'[x].now = cycle[x].now /\ cycle[x].now \in Nat
             /\ Holds(x, s) /\ poll'[x][s].version = poll[x][s].version
             /\ poll[x][s].version \in 1..source[s].version
             /\ NamedAt(x, s) /\ SupersededAt(x, s)
  <2>1. ~Takes(x, s)
    <3>1. Takes(x, s) => source'[s].owner = x
      BY TakesColumns
    <3> QED
      BY <1>1, <1>3, <3>1
  <2>2. /\ cycle'[x].now = cycle[x].now
        /\ Holds(x, s) /\ poll'[x][s].version = poll[x][s].version
    BY <1>3, <2>1, HoldStep
  <2>3. NamedAt(x, s) /\ SupersededAt(x, s)
    BY <2>2 DEF FenceInv, HolderIsNamed, OverlapNeedsExpiredLease, SupersededAt
  <2> QED
    BY <2>2, <2>3, TypeFacts DEF NamedAt
\* The lease of the last holder has run out at the instant of the claim.
<1>4. ASSUME NEW x \in Worker, x # u, Holds(x, s)', poll[x][s].version = source[s].version
      PROVE  cycle[x].now + Lease <= cycle[u].now
  <2>1. source[s].owner = x /\ source[s].expiresAt = cycle[x].now + Lease
    BY <1>3, <1>4 DEF NamedAt
  <2>2. source[s].owner # NoOwner
    BY <2>1
  <2>3. ~(source[s].expiresAt > cycle[u].now)
    BY <2>2 DEF Takes, LeaseRuns
  <2> QED
    BY <1>0, <1>3, <1>4, <2>1, <2>3
<1>5. CASE w = u
  <2>1. \A x \in Worker \ {u} : Holds(x, s)' => poll'[x][s].version # poll'[u][s].version
    BY <1>0, <1>2, <1>3
  <2>2. NamedAt(u, s)'
    BY <1>0, <1>1, <1>2, <2>1 DEF NamedAt
  <2>3. SupersededAt(u, s)'
    BY <1>0, <1>1, <1>2 DEF SupersededAt
  <2> QED
    BY <1>5, <2>2, <2>3
<1>6. CASE w # u
  <2>1. poll'[w][s].version \in 1..source[s].version /\ poll'[w][s].version # source[s].version + 1
    BY <1>0, <1>3, <1>6
  <2>2. ASSUME NEW x \in Worker \ {w}, Holds(x, s)'
        PROVE  poll'[x][s].version # poll'[w][s].version
    <3>1. CASE x = u
      BY <1>2, <2>1, <3>1
    <3>2. CASE x # u
      BY <1>3, <1>6, <2>2, <3>2 DEF NamedAt
    <3> QED
      BY <3>1, <3>2
  <2>3. NamedAt(w, s)'
    BY <1>0, <1>1, <2>1, <2>2 DEF NamedAt
  <2>4. cycle'[w].now + Lease <= clock'
    <3>1. CASE poll[w][s].version = source[s].version
      BY <1>0, <1>3, <1>4, <1>6, <3>1
    <3>2. CASE poll[w][s].version # source[s].version
      BY <1>0, <1>3, <1>6, <3>2 DEF SupersededAt
    <3> QED
      BY <3>1, <3>2
  <2>5. ASSUME NEW x \in Worker, Holds(x, s)', poll'[x][s].version = poll'[w][s].version + 1
        PROVE  cycle'[w].now + Lease <= cycle'[x].now
    <3>1. CASE x = u
      <4>1. poll[w][s].version = source[s].version
        BY <1>0, <1>2, <1>3, <1>6, <2>5, <3>1
      <4> QED
        BY <1>2, <1>3, <1>4, <1>6, <3>1, <4>1
    <3>2. CASE x # u
      <4>1. poll[x][s].version = poll[w][s].version + 1 /\ poll[w][s].version < source[s].version
        BY <1>0, <1>3, <1>6, <2>5, <3>2
      <4> QED
        BY <1>3, <1>6, <2>5, <3>2, <4>1 DEF SupersededAt
    <3> QED
      BY <3>1, <3>2
  <2> QED
    BY <2>3, <2>4, <2>5 DEF SupersededAt
<1> QED
  BY <1>5, <1>6

LEMMA FenceNext == TypeInv /\ FenceInv /\ [Next]_vars => FenceInv'
<1> SUFFICES ASSUME TypeInv, FenceInv, [Next]_vars, NEW s \in Source
             PROVE  /\ source'[s].status = "active" <=> source'[s].nextPollAt # NoTime
                    /\ source'[s].owner # NoOwner <=> source'[s].expiresAt # NoTime
                    /\ source'[s].owner # NoOwner => source'[s].status = "active"
                    /\ source'[s].status = "absent" =>
                         source'[s].version = 0 /\ source'[s].checkpoint = EmptyCheckpoint
                    /\ \A w \in Worker : Holds(w, s)' => NamedAt(w, s)' /\ SupersededAt(w, s)'
  BY DEF FenceInv, ScheduleMatchesStatus, HolderIsNamed, OverlapNeedsExpiredLease,
         AbsentIsBlank, SupersededAt
<1>0. source[s] \in Row /\ source[s].version \in Nat /\ clock \in Nat
  BY DEF TypeInv, TypeOK, Row
<1>1. /\ source[s].status = "active" <=> source[s].nextPollAt # NoTime
      /\ source[s].owner # NoOwner <=> source[s].expiresAt # NoTime
      /\ source[s].owner # NoOwner => source[s].status = "active"
      /\ source[s].status = "absent" =>
           source[s].version = 0 /\ source[s].checkpoint = EmptyCheckpoint
  BY DEF FenceInv, ScheduleMatchesStatus, AbsentIsBlank
<1>2. \A w \in Worker : Holds(w, s) /\ poll[w][s].version = source[s].version => source[s].owner = w
  BY DEF FenceInv, HolderIsNamed, NamedAt
<1>3. ASSUME NEW w \in Worker, Holds(w, s)', source'[s].version = source[s].version
      PROVE  Holds(w, s)
  <2>1. ~Takes(w, s)
    <3>1. Takes(w, s) => source'[s].version = source[s].version + 1
      BY TakesColumns
    <3> QED
      BY <1>0, <1>3, <3>1
  <2> QED
    BY <1>3, <2>1, HoldStep
<1>4. CASE source'[s] = source[s]
  BY <1>1, <1>4, VersionStays
<1>5. CASE Activates(s)
  <2>1. /\ source'[s].status = "active" /\ source'[s].nextPollAt = clock
        /\ source'[s].owner = NoOwner /\ source'[s].expiresAt = NoTime
        /\ source'[s].version = source[s].version
    <3>1. CASE source[s].status = "absent" /\ source'[s] = NewRow(clock)
      <4>1. source[s].version = 0
        BY <1>1, <3>1
      <4> QED
        BY <1>0, <3>1, <4>1, RowColumns
    <3>2. CASE source[s].status = "paused" /\ source'[s] = Reactivated(source[s], clock)
      BY <1>0, <3>2, RowColumns DEF Activates
    <3> QED
      BY <1>5, <3>1, <3>2 DEF Activates
  <2>2. source[s].owner = NoOwner
    BY <1>1, <1>5 DEF Activates
  <2>3. \A w \in Worker : Holds(w, s) => poll[w][s].version # source[s].version
    BY <1>2, <2>2
  <2>4. \A w \in Worker : Holds(w, s)' => NamedAt(w, s)' /\ SupersededAt(w, s)'
    BY <1>3, <2>1, <2>3, VersionStays
  <2> QED
    BY <1>0, <2>1, <2>4
<1>6. ASSUME NEW u \in Worker, Takes(u, s)
      PROVE  /\ source'[s].status = "active" <=> source'[s].nextPollAt # NoTime
             /\ source'[s].owner # NoOwner <=> source'[s].expiresAt # NoTime
             /\ source'[s].owner # NoOwner => source'[s].status = "active"
             /\ source'[s].status # "absent"
             /\ \A w \in Worker : Holds(w, s)' => NamedAt(w, s)' /\ SupersededAt(w, s)'
  <2>1. cycle[u].now + Lease # NoTime
    BY TypeFacts
  <2>2. /\ source'[s].status = source[s].status /\ source'[s].nextPollAt = source[s].nextPollAt
        /\ source'[s].owner = u /\ source'[s].expiresAt = cycle[u].now + Lease
        /\ source[s].status = "active"
    BY <1>6, TakesColumns DEF Takes
  <2> QED
    BY <1>1, <1>6, <2>1, <2>2, VersionMoves
<1>7. ASSUME NEW u \in Worker, Settles(u, s)
      PROVE  /\ source'[s].status = "active" <=> source'[s].nextPollAt # NoTime
             /\ source'[s].owner # NoOwner <=> source'[s].expiresAt # NoTime
             /\ source'[s].owner # NoOwner => source'[s].status = "active"
             /\ source'[s].status # "absent"
             /\ \A w \in Worker : Holds(w, s)' => NamedAt(w, s)' /\ SupersededAt(w, s)'
  <2>1. poll[u][s] \in Poll /\ cycle[u].now \in Nat
    BY TypeFacts
  <2>2. /\ source'[s].owner = NoOwner /\ source'[s].expiresAt = NoTime
        /\ source'[s].version = source[s].version
        /\ source'[s].status \in {"active", "paused"}
        /\ source'[s].status = "active" <=> source'[s].nextPollAt # NoTime
    <3>1. poll[u][s].status \in {"active", "paused"}
      BY <2>1 DEF Poll
    <3> QED
      BY <1>0, <1>7, <2>1, <3>1, SettledColumns DEF Settles
  <2>3. poll[u][s].version = source[s].version /\ ~Holds(u, s)'
    BY <1>7 DEF Settles, Fence
  <2>4. \A w \in Worker : Holds(w, s)' => poll[w][s].version # source[s].version
    <3>1. \A w \in Worker : Holds(w, s)' => Holds(w, s) /\ w # u
      BY <1>3, <2>2, <2>3
    <3> QED
      BY <1>2, <1>7, <2>3, <3>1 DEF Settles
  <2>5. \A w \in Worker : Holds(w, s)' => NamedAt(w, s)' /\ SupersededAt(w, s)'
    BY <2>2, <2>4, VersionStays
  <2> QED
    BY <2>2, <2>5
<1> QED
  BY <1>4, <1>5, <1>6, <1>7, RowStep

\* One poll holds each claim version, the row names the holder of its own, and a claim is
\* superseded only when its lease has run out: a stale worker cannot complete or release.
THEOREM PollsStayFenced == Spec => []PollsAreFenced
<1>1. TypeInv /\ FenceInv => PollsAreFenced
  BY DEF TypeInv, FenceInv, HolderIsNamed, NamedAt, PollsAreFenced, VersionHasOneHolder
<1> QED
  BY <1>1, TypeInit, TypeNext, FenceInit, FenceNext, PTL DEF Spec

-----------------------------------------------------------------------------
(***************************************************************************)
(* The checkpoint.  Only the poll that holds the row's version can store   *)
(* one, and what it is about to store was computed from the checkpoint     *)
(* the row still has.                                                      *)
(***************************************************************************)

\* The videos up and passed, newer than the baseline, are known.
Covers(c, up, base, known) == \A v \in up \cap Passed(c) : v > base => v \in known

CheckpointIsSound(s) ==
  LET c == source[s].checkpoint
  IN  /\ Sound(c) /\ Below(c, newest[s])
      /\ ~c.initialized => baseline[s] = 0
      /\ c.initialized => baseline[s] <= c.high
      /\ baseline[s] # 0 => Covers(c, visible[s], baseline[s], ledger[s] \cup dropped[s])

NextIsAhead(w, s) ==
  LET c == source[s].checkpoint
      d == poll[w][s].next
  IN  /\ Sound(d) /\ d.initialized /\ Below(d, newest[s]) /\ Advances(c, d)
      /\ ~c.initialized => d.cursor = 0
      /\ c.initialized /\ baseline[s] # 0 =>
           Covers(d, visible[s], baseline[s], ledger[s] \cup dropped[s] \cup poll[w][s].found)

PollIsCurrent(w, s) ==
  poll[w][s].version = source[s].version =>
    /\ poll[w][s].pc = "ready" => poll[w][s].checkpoint = source[s].checkpoint
    /\ poll[w][s].pc = "polled" => NextIsAhead(w, s)

CheckInv ==
  \A s \in Source :
    /\ \A v \in visible[s] : v <= newest[s]
    /\ CheckpointIsSound(s)
    /\ \A w \in Worker : PollIsCurrent(w, s)

LEMMA CheckInit == Init => CheckInv
<1> SUFFICES ASSUME Init, NEW s \in Source
             PROVE  /\ \A v \in visible[s] : v <= newest[s]
                    /\ CheckpointIsSound(s)
                    /\ \A w \in Worker : PollIsCurrent(w, s)
  BY DEF CheckInv
<1>1. /\ source[s].checkpoint = EmptyCheckpoint /\ visible[s] = {}
      /\ newest[s] = 0 /\ baseline[s] = 0
  BY DEF Init, AbsentRow
<1>2. Sound(EmptyCheckpoint) /\ Below(EmptyCheckpoint, 0)
  BY RecordTypes DEF Sound, Below, EmptyCheckpoint
<1>3. CheckpointIsSound(s)
  BY <1>1, <1>2 DEF CheckpointIsSound, EmptyCheckpoint
<1>4. \A w \in Worker : poll[w][s].pc = "idle"
  BY RecordTypes DEF Init
<1> QED
  BY <1>1, <1>3, <1>4 DEF PollIsCurrent

\* Videos appear above all marks, and what is known stays known.
LEMMA HistoryStep ==
  ASSUME TypeInv, [Next]_vars, NEW s \in Source
  PROVE  /\ newest[s] \in Nat /\ newest'[s] \in Nat /\ newest[s] <= newest'[s]
         /\ \A v \in visible'[s] : v \in visible[s] \/ (v > newest[s] /\ v <= newest'[s])
         /\ ledger[s] \cup dropped[s] \subseteq ledger'[s] \cup dropped'[s]
<1> USE DEF History
<1>0. /\ newest \in [Source -> Mark] /\ newest[s] \in Nat
      /\ visible \in [Source -> SUBSET Video]
      /\ ledger \in [Source -> SUBSET Video] /\ dropped \in [Source -> SUBSET Video]
  BY DEF TypeInv, TypeOK, Mark
<1>1. CASE UNCHANGED <<visible, newest, ledger, dropped>>
  BY <1>0, <1>1
<1>2. ASSUME NEW t \in Source, Publish(t)
      PROVE  /\ newest'[s] \in Nat /\ newest[s] <= newest'[s]
             /\ \A v \in visible'[s] : v \in visible[s] \/ (v > newest[s] /\ v <= newest'[s])
             /\ UNCHANGED <<ledger, dropped>>
  <2>1. CASE t = s
    <3>1. newest'[s] = newest[s] + 1 /\ visible'[s] = visible[s] \cup {newest[s] + 1}
      BY <1>0, <1>2, <2>1 DEF Publish
    <3> QED
      BY <1>0, <1>2, <3>1 DEF Publish
  <2>2. CASE t # s
    BY <1>0, <1>2, <2>2 DEF Publish
  <2> QED
    BY <2>1, <2>2
<1>3. ASSUME NEW t \in Source, TakeDown(t)
      PROVE  UNCHANGED <<newest, ledger, dropped>> /\ visible'[s] \subseteq visible[s]
  BY <1>0, <1>3 DEF TakeDown
<1>4. ASSUME NEW w \in Worker, NEW t \in Source, Ingest(w, t)
      PROVE  /\ UNCHANGED <<visible, newest>>
             /\ ledger[s] \cup dropped[s] \subseteq ledger'[s] \cup dropped'[s]
  <2>1. CASE UNCHANGED <<ledger, dropped>>
    BY <1>4, <2>1 DEF Ingest, CompleteClaim, StoreDetections
  <2>2. CASE ~UNCHANGED <<ledger, dropped>>
    <3>1. StoreDetections(t, poll[w][t]) /\ UNCHANGED <<visible, newest>>
      BY <1>4, <2>2 DEF Ingest, CompleteClaim
    <3> QED
      BY <1>0, <3>1 DEF StoreDetections
  <2> QED
    BY <2>1, <2>2
<1>5. ASSUME NEW t \in Source, Activate(t) PROVE UNCHANGED <<visible, newest, ledger, dropped>>
  BY <1>5 DEF Activate
<1>6. ASSUME NEW w \in Worker, LoopStep(w) \/ Stop(w) \/ Crash(w)
      PROVE  UNCHANGED <<visible, newest, ledger, dropped>>
  BY <1>6 DEF LoopStep, StartWorker, BeginCycle, EndCycle, Stop, Crash
<1>7. ASSUME NEW w \in Worker, NEW t \in Source, PollStep(w, t) \/ PollThrows(w, t), ~Ingest(w, t)
      PROVE  UNCHANGED <<visible, newest, ledger, dropped>>
  BY <1>7 DEF PollStep, Claim, ReadBack, NotReady, PageReceived, ProviderFails, IngestRollsBack,
     Release, PollThrows
<1>8. CASE Tick \/ UNCHANGED vars
  BY <1>1, <1>8 DEF Tick, vars
<1> QED
  BY <1>0, <1>1, <1>2, <1>3, <1>4, <1>5, <1>6, <1>7, <1>8 DEF Next

\* What covered the videos covers them after a step.
LEMMA CoversStays ==
  ASSUME TypeInv, [Next]_vars, NEW s \in Source, NEW c \in Checkpoint, Below(c, newest[s]),
         NEW extra, Covers(c, visible[s], baseline[s], ledger[s] \cup dropped[s] \cup extra),
         baseline'[s] = baseline[s]
  PROVE  Covers(c, visible'[s], baseline'[s], ledger'[s] \cup dropped'[s] \cup extra)
<1> SUFFICES ASSUME NEW v \in visible'[s] \cap Passed(c), v > baseline[s]
             PROVE  v \in ledger'[s] \cup dropped'[s] \cup extra
  BY DEF Covers
<1>1. v \in Nat /\ v \in Passed(c) /\ (v <= c.high \/ v <= c.pending)
  BY DEF Passed, Video
<1>2. v <= newest[s]
  <2>1. newest[s] \in Nat /\ c.high \in Nat /\ c.pending \in Nat
    BY CheckpointFields, HistoryStep
  <2>2. c.high <= newest[s] /\ c.pending <= newest[s]
    BY DEF Below
  <2> QED
    BY <1>1, <2>1, <2>2
<1>3. v \in visible[s]
  <2>1. v \in visible[s] \/ v > newest[s]
    BY HistoryStep
  <2>2. newest[s] \in Nat
    BY HistoryStep
  <2> QED
    BY <1>1, <1>2, <2>1, <2>2
<1>4. v \in ledger[s] \cup dropped[s] \cup extra
  BY <1>1, <1>3 DEF Covers
<1> QED
  BY <1>4, HistoryStep

\* A checkpoint is stored by the poll that held the row's version, and by nothing else.
Stores(w, s) ==
  /\ Holds(w, s) /\ ~Holds(w, s)' /\ poll[w][s].pc = "polled"
  /\ poll[w][s].version = source[s].version
  /\ source'[s].checkpoint = poll[w][s].next
  /\ baseline'[s] = IF source[s].checkpoint.initialized THEN baseline[s] ELSE poll[w][s].next.high
  /\ ledger'[s] \cup dropped'[s] = ledger[s] \cup dropped[s] \cup poll[w][s].found
  /\ UNCHANGED <<visible, newest>>

LEMMA CheckpointStep ==
  ASSUME TypeInv, FenceInv, [Next]_vars, NEW s \in Source
  PROVE  \/ source'[s].checkpoint = source[s].checkpoint /\ baseline'[s] = baseline[s]
         \/ \E w \in Worker : Stores(w, s)
<1> USE DEF History
<1>0. /\ source \in [Source -> Row] /\ source[s] \in Row /\ clock \in Nat
      /\ baseline \in [Source -> Mark]
      /\ ledger \in [Source -> SUBSET Video] /\ dropped \in [Source -> SUBSET Video]
  BY DEF TypeInv, TypeOK
<1>1. ASSUME NEW w \in Worker, Ingest(w, s), Fence(source[s], w, poll[w][s], cycle[w].now)
      PROVE  Stores(w, s)
  <2>1. poll[w][s] \in Poll /\ cycle[w].now \in Nat
    BY TypeFacts
  <2>2. /\ source' = [source EXCEPT ![s] = Completed(source[s], poll[w][s], cycle[w].now)]
        /\ baseline' = [baseline EXCEPT ![s] =
             IF source[s].checkpoint.initialized THEN @ ELSE poll[w][s].next.high]
        /\ StoreDetections(s, poll[w][s]) /\ UNCHANGED <<visible, newest>>
    BY <1>1 DEF Ingest, CompleteClaim
  <2>3. source'[s].checkpoint = poll[w][s].next
    BY <1>0, <2>1, <2>2, SettledColumns
  <2>4. ledger'[s] \cup dropped'[s] = ledger[s] \cup dropped[s] \cup poll[w][s].found
    BY <1>0, <2>2 DEF StoreDetections
  <2>5. Holds(w, s) /\ poll[w][s].pc = "polled"
    BY <1>1 DEF Ingest, Holds
  <2>6. ~Holds(w, s)'
    BY <1>1, RecordTypes, GoType DEF Ingest, Return, Holds
  <2> QED
    BY <1>0, <1>1, <2>2, <2>3, <2>4, <2>5, <2>6 DEF Stores, Fence
<1>2. CASE baseline'[s] = baseline[s]
  <2>1. CASE source'[s] = source[s]
    BY <1>2, <2>1
  <2>2. CASE Activates(s)
    <3>1. CASE source[s].status = "absent" /\ source'[s] = NewRow(clock)
      <4>1. source[s].checkpoint = EmptyCheckpoint
        BY <3>1 DEF FenceInv, AbsentIsBlank
      <4> QED
        BY <1>0, <1>2, <3>1, <4>1, RowColumns
    <3>2. CASE source'[s] = Reactivated(source[s], clock)
      BY <1>0, <1>2, <3>2, RowColumns
    <3> QED
      BY <2>2, <3>1, <3>2 DEF Activates
  <2>3. ASSUME NEW w \in Worker, Takes(w, s)
        PROVE  source'[s].checkpoint = source[s].checkpoint
    BY <2>3, TakesColumns
  <2>4. ASSUME NEW w \in Worker, Settles(w, s)
        PROVE  source'[s].checkpoint = source[s].checkpoint \/ Stores(w, s)
    <3>1. CASE source'[s] = Released(source[s], poll[w][s], cycle[w].now)
      BY <1>0, <3>1, TypeFacts, SettledColumns
    <3>2. CASE Ingest(w, s)
      BY <1>1, <2>4, <3>2 DEF Settles
    <3> QED
      BY <2>4, <3>1, <3>2 DEF Settles
  <2> QED
    BY <1>2, <2>1, <2>2, <2>3, <2>4, RowStep
<1>3. CASE baseline'[s] # baseline[s]
  <2>1. PICK w \in Worker, t \in Source : Ingest(w, t)
    BY <1>3 DEF Next, vars, Publish, TakeDown, Activate, LoopStep, StartWorker, BeginCycle,
       EndCycle, Stop, Crash, PollStep, Claim, ReadBack, NotReady, PageReceived, ProviderFails,
       IngestRollsBack, Release, PollThrows, Tick
  <2>2. t = s /\ Fence(source[s], w, poll[w][s], cycle[w].now)
    BY <1>0, <1>3, <2>1 DEF Ingest, CompleteClaim
  <2> QED
    BY <1>1, <2>1, <2>2
<1> QED
  BY <1>2, <1>3

\* A poll that is ready or polled after a step was so before, or has just become so.
LEMMA PollStepShape ==
  ASSUME TypeInv, [Next]_vars, NEW w \in Worker, NEW s \in Source,
         poll'[w][s].pc \in {"ready", "polled"}
  PROVE  poll'[w][s] = poll[w][s] \/ ReadBack(w, s) \/ PageReceived(w, s)
<1> USE DEF History
<1>0. /\ poll \in [Worker -> [Source -> Poll]] /\ poll[w][s] \in Poll
  BY TypeFacts DEF TypeInv, TypeOK
<1>a. Idle \in Poll /\ Idle.pc = "idle" /\ Listed.pc = "listed"
  BY RecordTypes
<1>1. ASSUME NEW x \in Worker, NEW t \in Source, PollStep(x, t) \/ PollThrows(x, t)
      PROVE  poll'[w][s] = poll[w][s] \/ ReadBack(w, s) \/ PageReceived(w, s)
  <2>1. CASE x # w \/ t # s
    <3>1. \E p \in Poll : Go(x, t, p)
      BY <1>1, PollRecordStep
    <3> QED
      BY <2>1, <3>1, GoType
  <2>2. CASE Claim(w, s)
    <3>1. PICK p \in Poll : Go(w, s, p) /\ (p.pc \in {"idle", "claimed"} \/ Holds(w, s))
      BY <2>2, PollRecordStep DEF PollStep
    <3>2. poll'[w][s].pc \in {"idle", "claimed"}
      BY <2>2, <3>1, GoType DEF Claim, Holds
    <3> QED
      BY <3>2
  <2>3. CASE NotReady(w, s) \/ ProviderFails(w, s) \/ IngestRollsBack(w, s)
    <3>1. PICK p \in Poll : Go(w, s, p) /\ p.pc = "failing"
      BY <2>3, FailureShape DEF NotReady, ProviderFails, IngestRollsBack
    <3>2. poll'[w][s].pc = "failing"
      BY <3>1, GoType
    <3> QED
      BY <3>2
  <2>4. CASE Ingest(w, s) \/ Release(w, s) \/ PollThrows(w, s)
    <3>1. Go(w, s, Idle)
      BY <2>4 DEF Ingest, Release, PollThrows, Return
    <3>2. poll'[w][s].pc = "idle"
      BY <1>a, <3>1, GoType
    <3> QED
      BY <3>2
  <2> QED
    BY <1>1, <2>1, <2>2, <2>3, <2>4 DEF PollStep
<1>2. ASSUME NEW x \in Worker, Crash(x) \/ EndCycle(x) \/ BeginCycle(x)
      PROVE  poll'[w][s] = poll[w][s]
  <2>1. x # w => poll'[w] = poll[w]
    BY <1>0, <1>2 DEF Crash, EndCycle, BeginCycle
  <2>2. x = w => poll'[w][s] \in {Idle, Listed}
    BY <1>0, <1>2 DEF Crash, EndCycle, BeginCycle
  <2> QED
    BY <1>a, <2>1, <2>2
<1>3. ASSUME NEW t \in Source, Publish(t) \/ TakeDown(t) \/ Activate(t) PROVE UNCHANGED poll
  BY <1>3 DEF Publish, TakeDown, Activate
<1>4. ASSUME NEW x \in Worker, StartWorker(x) \/ Stop(x) PROVE UNCHANGED poll
  BY <1>4 DEF StartWorker, Stop
<1>5. ASSUME Tick \/ UNCHANGED vars PROVE UNCHANGED poll
  BY <1>5 DEF Tick, vars
<1> QED
  BY <1>1, <1>2, <1>3, <1>4, <1>5 DEF Next, LoopStep

\* What a poll carries is right when it is read or accepted.
LEMMA ReadIsCurrent ==
  ASSUME TypeInv, NEW w \in Worker, NEW s \in Source, ReadBack(w, s)
  PROVE  /\ UNCHANGED source /\ poll'[w][s].pc = "ready"
         /\ poll'[w][s].checkpoint = source[s].checkpoint
<1> DEFINE p == [poll[w][s] EXCEPT !.pc = "ready", !.checkpoint = source[s].checkpoint,
                                   !.failures = source[s].failures]
<1>1. poll[w][s] \in Poll /\ source[s] \in Row
  BY TypeFacts
<1>2. p \in Poll /\ p.pc = "ready" /\ p.checkpoint = source[s].checkpoint
  BY <1>1 DEF Poll, PC, Row
<1>3. Go(w, s, p) /\ UNCHANGED source
  BY DEF ReadBack
<1> HIDE DEF p
<1> QED
  BY <1>2, <1>3, GoType

LEMMA PageIsAhead ==
  ASSUME TypeInv, CheckInv, NEW w \in Worker, NEW s \in Source, PageReceived(w, s),
         poll[w][s].version = source[s].version
  PROVE  /\ UNCHANGED <<source, visible, newest, baseline, ledger, dropped>>
         /\ poll'[w][s].pc = "polled"
         /\ NextIsAhead(w, s)'
<1> USE DEF History
<1> DEFINE c == source[s].checkpoint
           d == NextCheckpoint(c, visible[s])
<1>1. UNCHANGED <<source, visible, newest, baseline, ledger, dropped>>
  BY DEF PageReceived
<1>2. /\ poll[w][s] \in Poll /\ visible[s] \in SUBSET Video
      /\ poll[w][s].pc = "ready" /\ poll[w][s].checkpoint = c
      /\ newest[s] \in Nat /\ \A v \in visible[s] : v <= newest[s]
      /\ CheckpointIsSound(s)
  BY TypeFacts DEF CheckInv, PollIsCurrent, PageReceived, Mark
<1>3. Sound(c) /\ Below(c, newest[s])
  BY <1>2 DEF CheckpointIsSound
<1>4. /\ Sound(d) /\ d.initialized /\ Advances(c, d) /\ Below(d, newest[s])
      /\ ~c.initialized => d.cursor = 0
  BY <1>2, <1>3, NextIsSound
<1>5. PICK bound \in BOOLEAN :
        Go(w, s, [Accepted(poll[w][s], visible[s]) EXCEPT !.bound = bound])
  BY DEF PageReceived
<1> DEFINE p == [Accepted(poll[w][s], visible[s]) EXCEPT !.bound = bound]
<1>6. p \in Poll /\ p.pc = "polled" /\ p.next = d /\ p.found = Detections(c, visible[s])
  <2>1. d \in Checkpoint
    BY <1>4 DEF Sound
  <2> QED
    BY <1>2, <2>1, AcceptedShape
<1>7. poll'[w][s] = p
  BY <1>5, <1>6, GoType
<1> HIDE DEF p
<1>8. ASSUME c.initialized, baseline[s] # 0
      PROVE  Covers(d, visible[s], baseline[s],
                    ledger[s] \cup dropped[s] \cup Detections(c, visible[s]))
  <2>1. c.high # 0
    <3>0. baseline[s] \in Nat
      BY DEF TypeInv, TypeOK, Mark
    <3>1. baseline[s] \in Nat /\ c.high \in Nat
      <4>1. c \in Checkpoint
        BY <1>3 DEF Sound
      <4> HIDE DEF c
      <4> QED
        BY <3>0, <4>1 DEF Checkpoint, Mark
    <3>2. baseline[s] <= c.high
      BY <1>2, <1>8 DEF CheckpointIsSound
    <3> QED
      BY <1>8, <3>1, <3>2
  <2>2. Covers(c, visible[s], baseline[s], ledger[s] \cup dropped[s])
    BY <1>2, <1>8 DEF CheckpointIsSound
  <2>3. ASSUME NEW v \in visible[s], v \in Passed(d)
        PROVE  v \in Passed(c) \cup Detections(c, visible[s])
    BY <1>2, <1>3, <1>8, <2>1, <2>3, NothingSkipped
  <2> HIDE DEF d, c
  <2> QED
    BY <2>2, <2>3 DEF Covers
<1> HIDE DEF d
<1>9. NextIsAhead(w, s)'
  BY <1>1, <1>4, <1>6, <1>7, <1>8 DEF NextIsAhead
<1> QED
  BY <1>1, <1>6, <1>7, <1>9

\* The version of a row moves only with a claim.
LEMMA VersionStep ==
  ASSUME TypeInv, FenceInv, [Next]_vars, NEW s \in Source
  PROVE  source'[s].version \in {source[s].version, source[s].version + 1}
<1>1. source[s] \in Row /\ clock \in Nat
  BY DEF TypeInv, TypeOK
<1>2. CASE Activates(s)
  <2>1. CASE source[s].status = "absent" /\ source'[s] = NewRow(clock)
    <3>1. source[s].version = 0
      BY <2>1 DEF FenceInv, AbsentIsBlank
    <3> QED
      BY <1>1, <2>1, <3>1, RowColumns
  <2>2. CASE source'[s] = Reactivated(source[s], clock)
    BY <1>1, <2>2, RowColumns
  <2> QED
    BY <1>2, <2>1, <2>2 DEF Activates
<1>3. ASSUME NEW w \in Worker, Takes(w, s)
      PROVE  source'[s].version = source[s].version + 1
  BY <1>3, TakesColumns
<1>4. ASSUME NEW w \in Worker, Settles(w, s)
      PROVE  source'[s].version = source[s].version
  <2>1. poll[w][s] \in Poll /\ cycle[w].now \in Nat
    BY TypeFacts
  <2> QED
    BY <1>1, <1>4, <2>1, SettledColumns DEF Settles
<1> QED
  BY <1>2, <1>3, <1>4, RowStep

LEMMA CheckNext == TypeInv /\ FenceInv /\ CheckInv /\ [Next]_vars => CheckInv'
<1> SUFFICES ASSUME TypeInv, FenceInv, CheckInv, [Next]_vars, NEW s \in Source
             PROVE  /\ \A v \in visible'[s] : v <= newest'[s]
                    /\ CheckpointIsSound(s)'
                    /\ \A w \in Worker : PollIsCurrent(w, s)'
  BY DEF CheckInv
<1>0. /\ newest[s] \in Nat /\ newest'[s] \in Nat /\ newest[s] <= newest'[s]
      /\ baseline[s] \in Nat /\ source[s].version \in Nat
  BY HistoryStep DEF TypeInv, TypeOK, Mark, Row
<1>a. CheckpointIsSound(s) /\ \A v \in visible[s] : v \in Nat /\ v <= newest[s]
  BY DEF CheckInv, TypeInv, TypeOK, Video
<1>1. \A v \in visible'[s] : v <= newest'[s]
  BY <1>0, <1>a, HistoryStep
<1>2. ASSUME NEW c \in Checkpoint, Below(c, newest[s])
      PROVE  Below(c, newest'[s])
  BY <1>0, <1>2, CheckpointFields DEF Below
<1>3. CheckpointIsSound(s)'
  <2>1. CASE source'[s].checkpoint = source[s].checkpoint /\ baseline'[s] = baseline[s]
    <3> DEFINE c == source[s].checkpoint
    <3>1. Sound(c) /\ c \in Checkpoint /\ Below(c, newest[s])
      BY <1>a DEF CheckpointIsSound, Sound
    <3>2. ASSUME baseline[s] # 0
          PROVE  Covers(c, visible'[s], baseline'[s], ledger'[s] \cup dropped'[s])
      <4>1. Covers(c, visible[s], baseline[s], ledger[s] \cup dropped[s] \cup {})
        BY <1>a, <3>2 DEF CheckpointIsSound
      <4>2. Covers(c, visible'[s], baseline'[s], ledger'[s] \cup dropped'[s] \cup {})
        BY <2>1, <3>1, <4>1, CoversStays
      <4> QED
        BY <4>2
    <3> QED
      BY <1>2, <1>a, <2>1, <3>1, <3>2 DEF CheckpointIsSound
  <2>2. ASSUME NEW w \in Worker, Stores(w, s)
        PROVE  CheckpointIsSound(s)'
    <3> DEFINE c == source[s].checkpoint
               d == poll[w][s].next
    <3>1. NextIsAhead(w, s)
      BY <2>2 DEF CheckInv, PollIsCurrent, Stores
    <3>2. /\ Sound(d) /\ d \in Checkpoint /\ d.initialized /\ Below(d, newest[s])
          /\ Sound(c) /\ c \in Checkpoint /\ c.high <= d.high
          /\ ~c.initialized => d.cursor = 0
      BY <3>1, <1>a DEF NextIsAhead, Sound, Advances, CheckpointIsSound
    <3>3. /\ source'[s].checkpoint = d
          /\ baseline'[s] = IF c.initialized THEN baseline[s] ELSE d.high
          /\ ledger'[s] \cup dropped'[s] = ledger[s] \cup dropped[s] \cup poll[w][s].found
          /\ visible' = visible /\ newest' = newest
      BY <2>2 DEF Stores
    <3>4. baseline'[s] <= d.high
      BY <1>0, <1>a, <3>2, <3>3, CheckpointFields DEF CheckpointIsSound
    <3>5. ASSUME baseline'[s] # 0
          PROVE  Covers(d, visible'[s], baseline'[s], ledger'[s] \cup dropped'[s])
      <4>1. CASE c.initialized
        BY <3>1, <3>3, <3>5, <4>1 DEF NextIsAhead
      <4>2. CASE ~c.initialized
        <5>1. \A v \in Passed(d) : v \in Nat /\ v <= d.high
          BY <3>2, <4>2 DEF Passed, Video
        <5> QED
          BY <3>2, <3>3, <4>2, <5>1, CheckpointFields DEF Covers
      <4> QED
        BY <4>1, <4>2
    <3> QED
      BY <3>2, <3>3, <3>4, <3>5 DEF CheckpointIsSound
  <2> QED
    BY <2>1, <2>2, CheckpointStep
<1>4. ASSUME NEW w \in Worker
      PROVE  PollIsCurrent(w, s)'
  <2> SUFFICES ASSUME poll'[w][s].version = source'[s].version, poll'[w][s].pc \in {"ready", "polled"}
               PROVE  /\ poll'[w][s].pc = "ready" => poll'[w][s].checkpoint = source'[s].checkpoint
                      /\ poll'[w][s].pc = "polled" => NextIsAhead(w, s)'
    BY DEF PollIsCurrent
  <2>1. CASE ReadBack(w, s)
    BY <2>1, ReadIsCurrent
  <2>2. CASE PageReceived(w, s)
    <3>1. UNCHANGED source /\ poll'[w][s].version = poll[w][s].version
      <4>1. PICK p \in Poll : Go(w, s, p) /\ (p.pc = "idle" \/ Claim(w, s) \/ p.version = poll[w][s].version)
        BY <2>2, PollRecordStep DEF PollStep
      <4>2. poll'[w][s] = p /\ ~Claim(w, s) /\ UNCHANGED source
        BY <2>2, <4>1, GoType DEF PageReceived, Claim
      <4> QED
        BY <4>1, <4>2
    <3> QED
      BY <2>2, <3>1, PageIsAhead
  <2>3. CASE poll'[w][s] = poll[w][s]
    <3>1. Holds(w, s) /\ Holds(w, s)' /\ NamedAt(w, s)
      BY <2>3 DEF Holds, FenceInv, HolderIsNamed
    <3>2. poll[w][s].version = source[s].version
      BY <1>0, <2>3, <3>1, VersionStep DEF NamedAt
    <3>3. \A u \in Worker : ~Stores(u, s)
      BY <3>1, <3>2 DEF Stores, FenceInv, HolderIsNamed, NamedAt
    <3>4. source'[s].checkpoint = source[s].checkpoint /\ baseline'[s] = baseline[s]
      BY <3>3, CheckpointStep
    <3>5. PollIsCurrent(w, s)
      BY DEF CheckInv
    <3>6. CASE poll[w][s].pc = "ready"
      BY <2>3, <3>2, <3>4, <3>5, <3>6 DEF PollIsCurrent
    <3>7. CASE poll[w][s].pc = "polled"
      <4> DEFINE d == poll[w][s].next
                 c == source[s].checkpoint
      <4>1. NextIsAhead(w, s)
        BY <3>2, <3>5, <3>7 DEF PollIsCurrent
      <4>2. d \in Checkpoint /\ Below(d, newest[s])
        BY <4>1 DEF NextIsAhead, Sound
      <4>3. ASSUME c.initialized, baseline[s] # 0
            PROVE  Covers(d, visible'[s], baseline'[s],
                          ledger'[s] \cup dropped'[s] \cup poll[w][s].found)
        <5>1. Covers(d, visible[s], baseline[s], ledger[s] \cup dropped[s] \cup poll[w][s].found)
          BY <4>1, <4>3 DEF NextIsAhead
        <5> QED
          BY <3>4, <4>2, <5>1, CoversStays
      <4>4. Below(d, newest'[s])
        BY <1>2, <4>2
      <4>5. NextIsAhead(w, s)'
        BY <2>3, <3>4, <4>1, <4>3, <4>4 DEF NextIsAhead
      <4> QED
        BY <2>3, <3>7, <4>5
    <3> QED
      BY <2>3, <3>6, <3>7
  <2> QED
    BY <2>1, <2>2, <2>3, PollStepShape
<1> QED
  BY <1>1, <1>3, <1>4

\* Nothing is missed: a video published after the baseline and still up has a delivery, or was
\* dropped for want of a binding, once the checkpoint has passed it.
THEOREM NothingIsMissed == Spec => []NothingMissed
<1>1. CheckInv => NothingMissed
  BY DEF CheckInv, CheckpointIsSound, Covers, NothingMissed
<1> QED
  BY <1>1, TypeInit, TypeNext, FenceInit, FenceNext, CheckInit, CheckNext, PTL DEF Spec

\* No completion sets the checkpoint back, however long its poll took.
THEOREM CheckpointAdvances == Spec => CheckpointNeverRegresses
<1> DEFINE Forward == \A s \in Source : Advances(source[s].checkpoint, source'[s].checkpoint)
<1>1. TypeInv /\ FenceInv /\ CheckInv /\ [Next]_vars => [Forward]_vars
  <2> SUFFICES ASSUME TypeInv, FenceInv, CheckInv, [Next]_vars, NEW s \in Source
               PROVE  Advances(source[s].checkpoint, source'[s].checkpoint)
    OBVIOUS
  <2>1. CASE source'[s].checkpoint = source[s].checkpoint
    <3>1. source[s].checkpoint \in Checkpoint
      BY DEF CheckInv, CheckpointIsSound, Sound
    <3> QED
      BY <2>1, <3>1, CheckpointFields DEF Advances
  <2>2. ASSUME NEW w \in Worker, Stores(w, s)
        PROVE  Advances(source[s].checkpoint, source'[s].checkpoint)
    BY <2>2 DEF CheckInv, PollIsCurrent, NextIsAhead, Stores
  <2> QED
    BY <2>1, <2>2, CheckpointStep
<1>2. [Forward]_vars =>
        [\A s \in Source :
           LET c == source[s].checkpoint
               d == source'[s].checkpoint
           IN  /\ c.initialized => d.initialized
               /\ c.high <= d.high
               /\ c.cursor # 0 /\ d.high = c.high => d.cursor # 0 /\ d.cursor <= c.cursor
               /\ c.cursor # 0 => c.pending <= d.pending \/ c.pending <= d.high]_vars
  BY DEF Advances
<1> QED
  BY <1>1, <1>2, TypeInit, TypeNext, FenceInit, FenceNext, CheckInit, CheckNext,
     PTL DEF Spec, CheckpointNeverRegresses

=============================================================================
