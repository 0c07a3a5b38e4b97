--------------------------- MODULE ClipPersistence ---------------------------
(* What a codeClip scan or keyword entry leaves in Postgres: up to four writes *)
(* in one transaction (persistCodeClipCoreInteraction), an outbox event when    *)
(* the transaction failed, and the outbox worker that makes the failed writes   *)
(* up, one statement at a time, with retries and a dead letter.  The visitor is  *)
(* answered "success" whatever became of the writes.                            *)
EXTENDS Integers, FiniteSets, Sequences

CONSTANTS Scan,        \* the scan or message ids (the rows' keys)
          Request,     \* the handlers that can be in progress at once
          Worker,      \* the processes with an outbox worker
          Optional,    \* the writes a scan may or may not need
          Limit,       \* events claimed per batch
          MaxAttempts, \* attempts before the dead letter
          MaxScans,    \* bound: scans received, and so outbox events
          MaxFaults    \* bound: statements that raise, deaths

\* The writes, in the order of the transaction.
Step == <<"interaction", "rewards", "xtra", "outbound">>
StepName == {Step[i] : i \in 1 .. 4}
Event == 1 .. MaxScans

ASSUME OptionalAreSteps == Optional \subseteq StepName \ {"interaction"}
ASSUME BoundAssumption ==
  /\ Limit \in Nat \ {0} /\ MaxAttempts \in Nat \ {0}
  /\ MaxScans \in Nat /\ MaxFaults \in Nat

VARIABLES saved,    \* <<scan, step>> -> version of the row, 0 when there is none
          req,      \* the handlers in progress
          scans,    \* scans received: the versions, in order of arrival
          outbox,   \* event -> its row
          queued,   \* outbox events inserted
          worker,   \* the workers
          faults,   \* statements that raised (bounded)
          wanted,   \* history: version -> the <<scan, step>> it should save
          missed,   \* history: <<version, key>> a failed transaction did not reach
          unqueued, \* history: <<version, key>> whose outbox event was never saved
          late,     \* history: <<version, key>> whose row an older write replaced
          overlapped, \* history: versions that came while an older one of the id
                      \* was being saved
          stranded  \* history: events left in processing

vars == <<saved, req, scans, outbox, queued, worker, faults,
          wanted, missed, unqueued, late, overlapped, stranded>>
Lost == <<missed, unqueued>>
Rows == <<saved, late>>

NoEvent == [status |-> "none", scan |-> CHOOSE s \in Scan : TRUE, version |-> 0,
            failed |-> {}, attempts |-> 0, due |-> TRUE]
NoRequest == [pc |-> "idle", scan |-> CHOOSE s \in Scan : TRUE, version |-> 0,
              wants |-> {}, failed |-> {}]
Resting == [pc |-> "idle", batch |-> {}, event |-> 0, todo |-> {}]

Init ==
  /\ saved = [k \in Scan \X StepName |-> 0]
  /\ req = [r \in Request |-> NoRequest]
  /\ scans = 0
  /\ outbox = [e \in Event |-> NoEvent]
  /\ queued = 0
  /\ worker = [w \in Worker |-> Resting]
  /\ faults = 0 /\ wanted = [v \in Event |-> {}]
  /\ missed = {} /\ unqueued = {} /\ late = {} /\ overlapped = {} /\ stranded = {}

Index(s) == CHOOSE i \in 1 .. 4 : Step[i] = s
Before(s, t) == Index(s) < Index(t)
CanFail == faults < MaxFaults
Fault == faults' = faults + 1

\* Three of the writes are upserts that look at no time or version, so an older
\* write that comes late replaces a newer row; a message's outbound row is
\* inserted once and then taken as it is.
Upserted(k) == k[2] # "outbound"
Stored(k, version) == IF Upserted(k) \/ saved[k] = 0 THEN version ELSE saved[k]
Replaced(K, version) ==
  {p \in Event \X K : Upserted(p[2]) /\ version < p[1] /\ p[1] <= saved[p[2]]}

Save(K, version) ==
  /\ saved' = [k \in DOMAIN saved |-> IF k \in K THEN Stored(k, version) ELSE saved[k]]
  /\ late' = late \cup Replaced(K, version)

------------------------------------------------------------------------------
(* The handler *)

\* A free handler takes a request for the id s; wants are the writes it will make.
Arrives(r, s, wants) ==
  /\ req[r].pc = "idle" /\ scans < MaxScans
  /\ scans' = scans + 1
  /\ req' = [req EXCEPT ![r] = [pc |-> "persist", scan |-> s, version |-> scans + 1,
                                wants |-> wants, failed |-> {}]]
  /\ wanted' = [wanted EXCEPT ![scans + 1] = {s} \X wants]
  /\ overlapped' = IF \E q \in Request : req[q].pc = "persist" /\ req[q].scan = s
                   THEN overlapped \cup {scans + 1} ELSE overlapped
  /\ UNCHANGED <<Rows, outbox, queued, worker, faults, Lost, stranded>>

\* What was assigned decides on rewards and ClipXtra.
ScanArrives(r, s) ==
  \E extra \in SUBSET (Optional \ {"outbound"}) : Arrives(r, s, {"interaction"} \cup extra)

\* A keyword entry may also record the reply it owes the platform.
KeywordArrives(r, s) ==
  \E extra \in SUBSET Optional : Arrives(r, s, {"interaction"} \cup extra)

Commit(r) == Save({req[r].scan} \X req[r].wants, req[r].version)

PersistAll(r) ==
  /\ req[r].pc = "persist"
  /\ Commit(r)
  /\ req' = [req EXCEPT ![r] = NoRequest]
  /\ UNCHANGED <<scans, outbox, queued, worker, faults, Lost, wanted, overlapped, stranded>>

\* Mutant: the write that raised, and not those rolled back with it.
CauseAlone(r, cause) == {cause}

\* recordRolledBackCorePersistence: the writes made before the one that raised, and
\* that one, count as failed; when no connection or no BEGIN was had, the
\* interaction alone.  What the work did not reach is not recorded.
RolledBack(r, cause) ==
  {s \in req[r].wants : s = cause \/ Before(s, cause)}

\* The reply a message owes is not the one its stored row owes.
OutboundConflicts(r, step) == step = "outbound" /\ saved[<<req[r].scan, step>>] > 0

\* What version v was to write, of the steps T of its scan.
Writing(r, T) == {<<req[r].version, <<req[r].scan, s>>>> : s \in T}

PersistFails(r) ==
  /\ req[r].pc = "persist"
  /\ \E cause \in req[r].wants :
       /\ \/ CanFail /\ Fault
          \/ OutboundConflicts(r, cause) /\ UNCHANGED faults
       /\ req' = [req EXCEPT ![r].pc = "queue", ![r].failed = RolledBack(r, cause)]
       /\ missed' = missed \cup Writing(r, {t \in req[r].wants : Before(cause, t)})
  /\ UNCHANGED <<Rows, scans, outbox, queued, worker, unqueued, wanted, overlapped, stranded>>

\* COMMIT raises: everything counts as failed, whether or not the server committed.
CommitFails(r) ==
  /\ req[r].pc = "persist" /\ CanFail /\ Fault
  /\ req' = [req EXCEPT ![r].pc = "queue", ![r].failed = req[r].wants]
  /\ Commit(r) \/ UNCHANGED Rows
  /\ UNCHANGED <<scans, outbox, queued, worker, Lost, wanted, overlapped, stranded>>

\* The row holds a copy of the interaction, and of what failed, for the recovery.
QueuedEvent(r) ==
  [status |-> "pending", scan |-> req[r].scan, version |-> req[r].version,
   failed |-> req[r].failed, attempts |-> 0, due |-> TRUE]

\* Any failed step asks for a retry, whatever its severity.
QueueAction(r) ==
  /\ req[r].pc = "queue"
  /\ queued' = queued + 1
  /\ outbox' = [outbox EXCEPT ![queued + 1] = QueuedEvent(r)]
  /\ req' = [req EXCEPT ![r] = NoRequest]
  /\ UNCHANGED <<Rows, scans, worker, faults, Lost, wanted, overlapped, stranded>>

Lose(r) == unqueued' = unqueued \cup Writing(r, req[r].wants)

\* The INSERT raises (and is logged), or the process dies before it.
QueueFails(r) ==
  /\ req[r].pc = "queue" /\ CanFail /\ Fault
  /\ Lose(r)
  /\ req' = [req EXCEPT ![r] = NoRequest]
  /\ UNCHANGED <<Rows, scans, outbox, queued, worker, missed, wanted, overlapped, stranded>>

HandlerDies(r) ==
  /\ req[r].pc = "persist" /\ CanFail /\ Fault
  /\ Lose(r)
  /\ req' = [req EXCEPT ![r] = NoRequest]
  /\ UNCHANGED <<Rows, scans, outbox, queued, worker, missed, wanted, overlapped, stranded>>

------------------------------------------------------------------------------
(* The outbox worker; isRunning keeps a process to one batch at a time *)

\* Mutant: an event in processing is claimed again once it is due.
DueInProgress == {e \in Event : outbox[e].status \in {"pending", "processing"} /\ outbox[e].due}

Due == {e \in Event : outbox[e].status = "pending" /\ outbox[e].due}

\* FOR UPDATE SKIP LOCKED: pending and due, up to the limit.  The order of the
\* claim does not matter here: the events are finitely many.
Batches ==
  {b \in SUBSET Due :
     /\ b # {} /\ Cardinality(b) <= Limit
     /\ Cardinality(b) < Limit => b = Due}

Claimed(b) ==
  [e \in Event |-> IF e \in b
                   THEN [outbox[e] EXCEPT !.status = "processing", !.attempts = @ + 1]
                   ELSE outbox[e]]

ClaimBatch(w) ==
  /\ worker[w].pc = "idle"
  /\ \E b \in Batches :
       /\ outbox' = Claimed(b)
       /\ worker' = [worker EXCEPT ![w] = [Resting EXCEPT !.pc = "pick", !.batch = b]]
  /\ UNCHANGED <<Rows, req, scans, queued, faults, Lost, wanted, overlapped, stranded>>

\* The claim commits and its answer is lost: the batch stays in processing.
ClaimAnswerLost(w) ==
  /\ worker[w].pc = "idle" /\ CanFail /\ Fault
  /\ \E b \in Batches : outbox' = Claimed(b) /\ stranded' = stranded \cup b
  /\ UNCHANGED <<Rows, req, scans, queued, worker, Lost, wanted, overlapped>>

PickEvent(w) ==
  /\ worker[w].pc = "pick"
  /\ IF worker[w].batch = {}
     THEN worker' = [worker EXCEPT ![w] = Resting]
     ELSE \E e \in worker[w].batch :
            worker' = [worker EXCEPT ![w] = [pc |-> "recover", batch |-> @.batch \ {e},
                                             event |-> e, todo |-> outbox[e].failed]]
  /\ UNCHANGED <<Rows, req, scans, outbox, queued, faults, Lost, wanted, overlapped, stranded>>

\* The failed steps in order, each by the upsert the handler would have made.
NextStep(w) == CHOOSE s \in worker[w].todo : \A t \in worker[w].todo : s = t \/ Before(s, t)

RecoverStep(w) ==
  LET e == worker[w].event
  IN  /\ worker[w].pc = "recover" /\ worker[w].todo # {}
      /\ NextStep(w) # "outbound"
      /\ Save({<<outbox[e].scan, NextStep(w)>>}, outbox[e].version)
      /\ worker' = [worker EXCEPT ![w].todo = @ \ {NextStep(w)}]
      /\ UNCHANGED <<req, scans, outbox, queued, faults, Lost, wanted, overlapped, stranded>>

\* There is no handler for the outbound step: it raises every time.
OutboundUnsupported(w) ==
  /\ worker[w].pc = "recover" /\ worker[w].todo # {}
  /\ NextStep(w) = "outbound"
  /\ worker' = [worker EXCEPT ![w].pc = "retry"]
  /\ UNCHANGED <<Rows, req, scans, outbox, queued, faults, Lost, wanted, overlapped, stranded>>

\* A recovery write raises, or the statement that marks success does: the same
\* catch retries the whole event.
RecoverFails(w) ==
  /\ worker[w].pc = "recover" /\ CanFail /\ Fault
  /\ worker' = [worker EXCEPT ![w].pc = "retry"]
  /\ UNCHANGED <<Rows, req, scans, outbox, queued, Lost, wanted, overlapped, stranded>>

Mark(w, status, due) ==
  /\ outbox' = [outbox EXCEPT ![worker[w].event].status = status,
                              ![worker[w].event].due = due]
  /\ worker' = [worker EXCEPT ![w].pc = "pick", ![w].event = 0, ![w].todo = {}]
  /\ UNCHANGED <<Rows, req, scans, queued, faults, Lost, wanted, overlapped, stranded>>

MarkSucceeded(w) ==
  /\ worker[w].pc = "recover" /\ worker[w].todo = {}
  /\ Mark(w, "succeeded", TRUE)

\* Mutant: the retry is scheduled, and the status left as it is.
MarkFailedHalf(w) ==
  /\ worker[w].pc = "retry"
  /\ outbox[worker[w].event].attempts < MaxAttempts
  /\ Mark(w, "processing", FALSE)

MarkFailed(w) ==
  /\ worker[w].pc = "retry"
  /\ outbox[worker[w].event].attempts < MaxAttempts
  /\ Mark(w, "pending", FALSE)

MarkDeadLetter(w) ==
  /\ worker[w].pc = "retry"
  /\ outbox[worker[w].event].attempts >= MaxAttempts
  /\ Mark(w, "dead_letter", TRUE)

\* The statement that would record the failure raises: the event stays in processing.
MarkRaises(w) ==
  /\ worker[w].pc = "retry" /\ CanFail /\ Fault
  /\ stranded' = stranded \cup {worker[w].event}
  /\ worker' = [worker EXCEPT ![w].pc = "pick", ![w].event = 0, ![w].todo = {}]
  /\ UNCHANGED <<Rows, req, scans, outbox, queued, Lost, wanted, overlapped>>

\* The process dies and is started again: nothing releases what it had claimed.
WorkerDies(w) ==
  /\ worker[w].pc # "idle" /\ CanFail /\ Fault
  /\ stranded' = stranded \cup worker[w].batch \cup ({worker[w].event} \ {0})
  /\ worker' = [worker EXCEPT ![w] = Resting]
  /\ UNCHANGED <<Rows, req, scans, outbox, queued, Lost, wanted, overlapped>>

\* available_at passes.
DelayPasses(e) ==
  /\ outbox[e].status = "pending" /\ ~outbox[e].due
  /\ outbox' = [outbox EXCEPT ![e].due = TRUE]
  /\ UNCHANGED <<Rows, req, scans, queued, worker, faults, Lost, wanted, overlapped, stranded>>

WorkerStep(w) ==
  \/ ClaimBatch(w) \/ PickEvent(w) \/ RecoverStep(w) \/ OutboundUnsupported(w)
  \/ MarkSucceeded(w) \/ MarkFailed(w) \/ MarkDeadLetter(w)

HandlerStep(r) == PersistAll(r) \/ QueueAction(r)

Next ==
  \/ \E r \in Request : \/ \E s \in Scan : ScanArrives(r, s) \/ KeywordArrives(r, s)
                        \/ HandlerStep(r) \/ PersistFails(r) \/ CommitFails(r)
                        \/ QueueFails(r) \/ HandlerDies(r)
  \/ \E w \in Worker : WorkerStep(w) \/ ClaimAnswerLost(w) \/ RecoverFails(w)
                       \/ MarkRaises(w) \/ WorkerDies(w)
  \/ \E e \in Event : DelayPasses(e)

\* setInterval starts a batch again and again, statements end, and time passes.
Spec == Init /\ [][Next]_vars
FairSpec == /\ Spec
            /\ \A w \in Worker : WF_vars(WorkerStep(w))
            /\ \A r \in Request : WF_vars(HandlerStep(r))
            /\ \A e \in Event : WF_vars(DelayPasses(e))

------------------------------------------------------------------------------
Statuses == {"none", "pending", "processing", "succeeded", "dead_letter"}

TypeOK ==
  /\ saved \in [Scan \X StepName -> 0 .. MaxScans]
  /\ \A e \in Event : outbox[e].status \in Statuses /\ (outbox[e].status = "none" <=> e > queued)
  /\ \A w \in Worker : worker[w].pc \in {"idle", "pick", "recover", "retry"}
  /\ missed \cup unqueued \cup late \subseteq Event \X (Scan \X StepName)
  /\ overlapped \cup stranded \subseteq Event

Holds(w, e) == e \in worker[w].batch \/ worker[w].event = e

\* An event in processing is in the hands of exactly one worker, or was stranded:
\* no second worker repeats its writes, and no other event waits for nothing.
OneWorkerPerEvent ==
  /\ TypeOK
  /\ \A v, w \in Worker, e \in Event : (Holds(v, e) /\ Holds(w, e)) => v = w
  /\ \A e \in Event : (\E w \in Worker : Holds(w, e)) \/ e \in stranded
                        <=> outbox[e].status = "processing"

\* The row of k holds what version v was to write, or what a later scan of the
\* id wrote; a message's outbound row is the same whoever inserted it.
Kept(v, k) == IF Upserted(k) THEN saved[k] >= v ELSE saved[k] > 0

\* How an older write can come after a newer one: two handlers of an id at once,
\* or the recovery of an older scan.
Overtaken(v, k) ==
  \/ v \in overlapped
  \/ \E e \in Event : /\ outbox[e].scan = k[1] /\ outbox[e].version < v
                      /\ k[2] \in outbox[e].failed

\* No write of an answered scan vanishes unseen: it is in Postgres (of this or of
\* a later scan of the id), in progress, or listed in an outbox event that has not
\* succeeded - or it was lost in one of four ways.  Its handler died, its event
\* could not be saved, or the transaction had not come to it when it failed: a gap
\* of the code's own, which nothing ever makes up.  Or its row was replaced by
\* that of an older scan, which only an overlap of two handlers or the recovery
\* of an older scan's event brings about.
NoWriteVanishes ==
  \A v \in Event : \A k \in wanted[v] :
    \/ Kept(v, k)
    \/ \E r \in Request : req[r].pc # "idle" /\ req[r].version = v
    \/ \E e \in Event : /\ outbox[e].version = v /\ k[2] \in outbox[e].failed
                       /\ outbox[e].status # "succeeded"
    \/ <<v, k>> \in missed \cup unqueued
    \/ <<v, k>> \in late /\ Overtaken(v, k)

\* Every event is settled or stranded: made up, or in the dead letter after
\* MaxAttempts, as those with an outbound step always are.
EventSettles ==
  \A e \in Event : outbox[e].status = "pending" ~>
                     (outbox[e].status \in {"succeeded", "dead_letter"} \/ e \in stranded)
==============================================================================
