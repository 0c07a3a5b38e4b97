---------------------------- MODULE MetaOutbound ----------------------------
(***************************************************************************)
(* codeClip's outbound Messenger dispatch: the rows of the table           *)
(* codeclip_meta_messenger_outbounds, the worker processes that list,      *)
(* claim, send and record them, and Meta's Graph API at the other end.     *)
(*                                                                         *)
(* Every SQL statement of the repository is one atomic step.  A claim is a *)
(* SELECT followed by a conditional UPDATE, a record likewise, and nothing *)
(* holds a lock between the two, so other workers run in between.          *)
(***************************************************************************)
EXTENDS Integers, Sequences, FiniteSets

CONSTANTS
  Outbound,       \* ids of rows (BIGSERIAL, so naturals; also the sort tie-break)
  Worker,         \* dispatch worker processes
  Attempt,        \* attempt ids; one is fresh when nothing refers to it any more
  Concurrency,    \* mapPool's width
  Limit,          \* rows one cycle selects at most
  StaleAfter,     \* staleAfterSeconds
  MaxAttempt,     \* DISPATCH_MAX_ATTEMPT_COUNT
  Backoff,        \* delay after the n-th attempt failed
  RetryAfter,     \* Retry-After values Graph may send, 0 for none
  MaxTime,        \* bound on the clock
  MaxFaults,      \* bound on crashes, signals and failing SQL statements
  NoTime, NoToken \* SQL NULL in a timestamp, in last_error_metadata.attemptId

ASSUME OutboundAssumption == Outbound \subseteq Nat
ASSUME BoundAssumption ==
  /\ Concurrency \in Nat \ {0}
  /\ Limit \in Nat \ {0}
  /\ StaleAfter \in Nat \ {0}
  /\ MaxAttempt \in Nat \ {0}
  /\ MaxTime \in Nat
  /\ MaxFaults \in Nat
ASSUME DelayAssumption ==
  /\ Backoff \in [1..MaxAttempt -> Nat]
  /\ RetryAfter \subseteq Nat
ASSUME NullAssumption == NoTime \notin Nat /\ NoToken \notin Attempt

VARIABLES
  rows,       \* the table: one row per outbound
  worker,     \* the loop of each worker process
  task,       \* the dispatch each attempt id stands for
  wire,       \* the Graph request each attempt id has in flight
  accepted,   \* attempt numbers whose message Graph took, per row
  confirmed,  \* attempt numbers whose success answer reached a process, with the process
  clock,
  faults      \* crashes, signals and failed statements so far

vars == <<rows, worker, task, wire, accepted, confirmed, clock, faults>>

-----------------------------------------------------------------------------
\* The table.

Status == {"pending", "claimed", "sent", "retryable_failed", "terminal_failed",
           "provider_sent_unconfirmed"}
Time == Nat \cup {NoTime}
Token == Attempt \cup {NoToken}

\* "absent" is not a status of the code: it stands for a row not inserted yet.
Row == [status : Status \cup {"absent"}, attemptCount : 0..MaxAttempt,
        terminal : BOOLEAN, retryEligible : BOOLEAN, token : Token,
        claimedAt : Time, sentAt : Time, failedAt : Time,
        nextAttemptAt : Time, createdAt : Time]

AbsentRow == [status |-> "absent", attemptCount |-> 0, terminal |-> FALSE,
              retryEligible |-> FALSE, token |-> NoToken, claimedAt |-> NoTime,
              sentAt |-> NoTime, failedAt |-> NoTime, nextAttemptAt |-> NoTime,
              createdAt |-> NoTime]

PendingRow(now) ==
  [status |-> "pending", attemptCount |-> 0, terminal |-> FALSE, retryEligible |-> TRUE,
   token |-> NoToken, claimedAt |-> NoTime, sentAt |-> NoTime, failedAt |-> NoTime,
   nextAttemptAt |-> NoTime, createdAt |-> now]

\* TERMINAL_STATUSES, and the statuses an automatic dispatch never leaves.
TerminalStatus == {"sent", "terminal_failed"}
FinalStatus == TerminalStatus \cup {"provider_sent_unconfirmed"}
RetryStatus == {"pending", "retryable_failed"}

\* validateAuthoritativeDispatchState: what a row must look like before the
\* repository touches it; the CHECK constraints state the flag part again.
Authoritative(r) ==
  /\ r.status \in Status
  /\ r.terminal <=> r.status \in TerminalStatus
  /\ r.retryEligible <=> r.status \in RetryStatus
  /\ r.status = "pending" => r.attemptCount = 0
  /\ r.status \in {"claimed", "provider_sent_unconfirmed"} =>
       r.claimedAt # NoTime /\ r.attemptCount >= 1
  /\ r.status = "sent" => r.sentAt # NoTime
  /\ r.status \in {"retryable_failed", "terminal_failed"} => r.failedAt # NoTime

IsClaimStale(r, now) == r.claimedAt + StaleAfter <= now

\* Mutant: the hold is taken over like a claim.
ClaimableHold(r, now) ==
  \/ r.status = "pending"
  \/ r.status \in {"claimed", "provider_sent_unconfirmed"} /\ IsClaimStale(r, now)
  \/ r.status = "retryable_failed" /\ r.nextAttemptAt <= now

\* The status-by-status test of claimCodeClipMetaMessengerOutboundDispatch.
Claimable(r, now) ==
  \/ r.status = "pending" /\ r.token = NoToken
  \/ r.status = "claimed" /\ r.token # NoToken /\ IsClaimStale(r, now)
  \/ /\ r.status = "retryable_failed" /\ r.token # NoToken
     /\ r.nextAttemptAt # NoTime /\ r.nextAttemptAt <= now

\* DISPATCH_MAX_ATTEMPT_COUNT: the next number must not pass it.
AttemptFits(r) == r.attemptCount + 1 <= MaxAttempt

\* Mutants: WHERE id = $1 alone; WHERE id = $1 AND status = $13.
SameRow(r, seen) == TRUE
SameStatus(r, seen) == r.status = seen.status

\* The optimistic lock in the WHERE clause of applyOutboundDispatchUpdate.
SameAuthority(r, seen) ==
  /\ r.status = seen.status
  /\ r.attemptCount = seen.attemptCount
  /\ r.terminal = seen.terminal
  /\ r.retryEligible = seen.retryEligible

\* Mutant: the claim leaves retry_eligible as it was.
ClaimedStillEligible(seen, a, now) ==
  [seen EXCEPT !.status = "claimed", !.attemptCount = @ + 1, !.terminal = FALSE,
               !.token = a, !.claimedAt = now, !.nextAttemptAt = NoTime]

Claimed(seen, a, now) ==
  [status |-> "claimed", attemptCount |-> seen.attemptCount + 1,
   terminal |-> FALSE, retryEligible |-> FALSE, token |-> a, claimedAt |-> now,
   sentAt |-> seen.sentAt, failedAt |-> seen.failedAt,
   nextAttemptAt |-> NoTime, createdAt |-> seen.createdAt]

Recorded(seen, t, a) ==
  [status |-> t.outcome, attemptCount |-> seen.attemptCount,
   terminal |-> t.outcome \in TerminalStatus,
   retryEligible |-> t.outcome = "retryable_failed",
   token |-> a, claimedAt |-> seen.claimedAt,
   sentAt |-> IF t.outcome = "sent" THEN t.now ELSE seen.sentAt,
   failedAt |-> IF t.outcome \in {"retryable_failed", "terminal_failed"}
                  THEN t.now ELSE seen.failedAt,
   nextAttemptAt |-> IF t.outcome = "retryable_failed" THEN t.now + t.delay ELSE NoTime,
   createdAt |-> seen.createdAt]

-----------------------------------------------------------------------------
\* The worker processes and the dispatches they run.

Mode == {"sleeping", "cycle", "stopped"}
WorkerState == [mode : Mode, shuttingDown : BOOLEAN, now : Time, queue : Seq(Outbound)]
Resting(mode) == [mode |-> mode, shuttingDown |-> FALSE, now |-> NoTime, queue |-> <<>>]
StoppedWorker == Resting("stopped")

\* "claim_write", "record_write" and "hold_write" sit between the SELECT and the UPDATE.
PC == {"idle", "claim_read", "claim_write", "prepare", "sending",
       "record_read", "record_write", "hold_read", "hold_write"}
Outcome == {"none", "sent", "retryable_failed", "terminal_failed", "provider_sent_unconfirmed"}

TaskState == [pc : PC \ {"idle"}, by : Worker, of : Outbound, now : Nat, seen : Row,
              number : 0..MaxAttempt, outcome : Outcome, delay : Nat,
              providerAccepted : BOOLEAN]
Idle == [pc |-> "idle"]
Running(w) == {a \in Attempt : task[a].pc # "idle" /\ task[a].by = w}

\* A dispatch that was given a claim and has not returned yet.
OwningPC == {"prepare", "sending", "record_read", "record_write", "hold_read", "hold_write"}
Owns(a, o) == task[a].pc \in OwningPC /\ task[a].of = o

\* A Graph request: under way, or answered but the answer not yet read.
Request == [state : {"sent", "accepted", "refused"}, of : Outbound, number : 0..MaxAttempt]
NoRequest == [state |-> "none"]

\* crypto.randomUUID gives an id nothing refers to: not a dispatch, not a request, not a row.
Fresh(a) ==
  /\ task[a] = Idle
  /\ wire[a] = NoRequest
  /\ \A o \in Outbound : rows[o].token # a

Init ==
  /\ rows = [o \in Outbound |-> AbsentRow]
  /\ worker = [w \in Worker |-> StoppedWorker]
  /\ task = [a \in Attempt |-> Idle]
  /\ wire = [a \in Attempt |-> NoRequest]
  /\ accepted = [o \in Outbound |-> {}]
  /\ confirmed = [o \in Outbound |-> {}]
  /\ clock = 0
  /\ faults = 0

-----------------------------------------------------------------------------
\* An inbound message's reward reply is stored: INSERT ... ON CONFLICT DO NOTHING
\* leaves a row that is already there alone, whatever its status.
CreateOrGet(o) ==
  /\ rows[o] = AbsentRow
  /\ rows' = [rows EXCEPT ![o] = PendingRow(clock)]
  /\ UNCHANGED <<worker, task, wire, accepted, confirmed, clock, faults>>

\* The supervisor starts the worker script.
StartWorker(w) ==
  /\ worker[w].mode = "stopped"
  /\ worker' = [worker EXCEPT ![w] = Resting("sleeping")]
  /\ UNCHANGED <<rows, task, wire, accepted, confirmed, clock, faults>>

\* SIGTERM or SIGINT: the loop ends after the cycle that is running.
Shutdown(w) ==
  /\ faults < MaxFaults
  /\ worker[w].mode # "stopped" /\ ~worker[w].shuttingDown
  /\ worker' = [worker EXCEPT ![w].shuttingDown = TRUE]
  /\ faults' = faults + 1
  /\ UNCHANGED <<rows, task, wire, accepted, confirmed, clock>>

\* The process dies. Its dispatches are gone; a request it had sent is not.
Crash(w) ==
  /\ faults < MaxFaults
  /\ worker[w].mode = "cycle"
  /\ worker' = [worker EXCEPT ![w] = StoppedWorker]
  /\ task' = [a \in Attempt |-> IF a \in Running(w) THEN Idle ELSE task[a]]
  /\ wire' = [a \in Attempt |-> IF a \in Running(w) /\ wire[a].state # "sent"
                                  THEN NoRequest ELSE wire[a]]
  /\ faults' = faults + 1
  /\ UNCHANGED <<rows, accepted, confirmed, clock>>

\* Mutants: pending rows must have a schedule too; claims that have gone stale are listed.
EligibleScheduled(now) ==
  {o \in Outbound : /\ rows[o].status \in RetryStatus
                    /\ rows[o].nextAttemptAt # NoTime /\ rows[o].nextAttemptAt <= now}
EligibleStale(now) ==
  {o \in Outbound : \/ rows[o].status = "pending"
                    \/ rows[o].status = "retryable_failed" /\ rows[o].nextAttemptAt <= now
                    \/ rows[o].status = "claimed" /\ IsClaimStale(rows[o], now)}

\* Due rows only: a claimed row is never listed, however old its claim.
Eligible(now) ==
  {o \in Outbound : \/ rows[o].status = "pending"
                    \/ /\ rows[o].status = "retryable_failed"
                       /\ rows[o].retryEligible /\ ~rows[o].terminal
                       /\ rows[o].nextAttemptAt # NoTime /\ rows[o].nextAttemptAt <= now}

\* ORDER BY COALESCE(next_attempt_at, created_at) ASC, id ASC
SortTime(o) == IF rows[o].nextAttemptAt # NoTime THEN rows[o].nextAttemptAt
                                                 ELSE rows[o].createdAt
Before(o, p) == SortTime(o) < SortTime(p) \/ (SortTime(o) = SortTime(p) /\ o < p)

IsSelection(q, now) ==
  LET chosen == {q[i] : i \in DOMAIN q}
  IN  /\ chosen \subseteq Eligible(now)
      /\ \A i, j \in DOMAIN q : i < j => Before(q[i], q[j])
      /\ \A o \in Eligible(now) \ chosen : Len(q) = Limit /\ \A p \in chosen : Before(p, o)

\* runCodeClipMetaMessengerDispatchCycle up to mapPool. The cycle reads the clock
\* once; selection, claims and records all use that reading.
BeginCycle(w) ==
  /\ worker[w].mode = "sleeping" /\ ~worker[w].shuttingDown
  /\ \E n \in 0..Limit : \E q \in [1..n -> Outbound] :
       /\ IsSelection(q, clock)
       /\ worker' = [worker EXCEPT ![w] =
            [mode |-> "cycle", shuttingDown |-> FALSE, now |-> clock, queue |-> q]]
  /\ UNCHANGED <<rows, task, wire, accepted, confirmed, clock, faults>>

\* mapPool: an idle pool member takes the next id and draws a new attempt id.
StartDispatch(w) ==
  /\ worker[w].mode = "cycle" /\ worker[w].queue # <<>>
  /\ Cardinality(Running(w)) < Concurrency
  /\ \E a \in Attempt :
       /\ Fresh(a)
       /\ task' = [task EXCEPT ![a] =
            [pc |-> "claim_read", by |-> w, of |-> Head(worker[w].queue),
             now |-> worker[w].now, seen |-> AbsentRow, number |-> 0, outcome |-> "none",
             delay |-> 0, providerAccepted |-> FALSE]]
  /\ worker' = [worker EXCEPT ![w].queue = Tail(@)]
  /\ UNCHANGED <<rows, wire, accepted, confirmed, clock, faults>>

\* Mutant: the cycle ends with its last start, not with its last return.
EndCycleUnawaited(w) ==
  /\ worker[w].mode = "cycle" /\ worker[w].queue = <<>>
  /\ worker' = [worker EXCEPT ![w] =
       IF @.shuttingDown THEN StoppedWorker ELSE Resting("sleeping")]
  /\ UNCHANGED <<rows, task, wire, accepted, confirmed, clock, faults>>

\* All dispatches have returned: the loop sleeps, or ends when a signal came.
EndCycle(w) ==
  /\ worker[w].mode = "cycle" /\ worker[w].queue = <<>> /\ Running(w) = {}
  /\ worker' = [worker EXCEPT ![w] =
       IF @.shuttingDown THEN StoppedWorker ELSE Resting("sleeping")]
  /\ UNCHANGED <<rows, task, wire, accepted, confirmed, clock, faults>>

\* A signal that comes while the loop sleeps ends it at the next test of shuttingDown.
EndSleep(w) ==
  /\ worker[w].mode = "sleeping" /\ worker[w].shuttingDown
  /\ worker' = [worker EXCEPT ![w] = StoppedWorker]
  /\ UNCHANGED <<rows, task, wire, accepted, confirmed, clock, faults>>

-----------------------------------------------------------------------------
\* One dispatch: claim, credentials and request, send, record, hold.

Step(a, t) == task' = [task EXCEPT ![a] = t]
Return(a) == Step(a, Idle)

\* claim: the SELECT, and the decision made on the row it returned.
ClaimRead(a) ==
  /\ task[a].pc = "claim_read"
  /\ LET t == task[a]
         r == rows[t.of]
         mine == r.status = "claimed" /\ r.token = a /\ ~IsClaimStale(r, t.now)
     IN  IF ~Authoritative(r) THEN Return(a)
         ELSE IF mine THEN Step(a, [t EXCEPT !.pc = "prepare", !.number = r.attemptCount])
         ELSE IF Claimable(r, t.now) /\ AttemptFits(r)
                THEN Step(a, [t EXCEPT !.pc = "claim_write", !.seen = r])
         ELSE Return(a)
  /\ UNCHANGED <<rows, worker, wire, accepted, confirmed, clock, faults>>

\* claim: the conditional UPDATE on the row as it is now. No row back is a lost race.
ClaimWrite(a) ==
  /\ task[a].pc = "claim_write"
  /\ LET t == task[a]
         won == SameAuthority(rows[t.of], t.seen)
     IN  IF won
           THEN /\ rows' = [rows EXCEPT ![t.of] = Claimed(t.seen, a, t.now)]
                /\ Step(a, [t EXCEPT !.pc = "prepare", !.seen = AbsentRow,
                                     !.number = t.seen.attemptCount + 1])
           ELSE Return(a) /\ UNCHANGED rows
  /\ UNCHANGED <<worker, wire, accepted, confirmed, clock, faults>>

\* Credentials and request are ready, and the one Graph request leaves.
SendRequest(a) ==
  /\ task[a].pc = "prepare"
  /\ wire' = [wire EXCEPT ![a] = [state |-> "sent", of |-> task[a].of, number |-> task[a].number]]
  /\ Step(a, [task[a] EXCEPT !.pc = "sending"])
  /\ UNCHANGED <<rows, worker, accepted, confirmed, clock, faults>>

Longer(x, y) == IF x < y THEN y ELSE x

\* The outcome to record, with the delay before a retry.
Verdict(a, out, retryAfter) ==
  LET t == task[a]
  IN  [pc |-> "record_read", by |-> t.by, of |-> t.of, now |-> t.now, seen |-> t.seen,
       number |-> t.number, outcome |-> out, delay |-> Longer(Backoff[t.number], retryAfter),
       providerAccepted |-> out = "sent"]

\* The resolver threw (retryable), or it refused, gave no token, or no request could
\* be built (terminal).
PrepareFails(a) ==
  /\ task[a].pc = "prepare"
  /\ \E out \in {"retryable_failed", "terminal_failed"} : Step(a, Verdict(a, out, 0))
  /\ UNCHANGED <<rows, worker, wire, accepted, confirmed, clock, faults>>

\* Meta's side: it takes the message, refuses it, or never sees it. What arrives after
\* the dispatcher stopped waiting is taken or refused all the same.
Waiting(a) == task[a].pc = "sending"

GraphAccepts(a) ==
  /\ wire[a].state = "sent"
  /\ accepted' = [accepted EXCEPT ![wire[a].of] = @ \cup {wire[a].number}]
  /\ wire' = [wire EXCEPT ![a] = IF Waiting(a) THEN [@ EXCEPT !.state = "accepted"] ELSE NoRequest]
  /\ UNCHANGED <<rows, worker, task, confirmed, clock, faults>>

GraphRefuses(a) ==
  /\ wire[a].state = "sent"
  /\ wire' = [wire EXCEPT ![a] = IF Waiting(a) THEN [@ EXCEPT !.state = "refused"] ELSE NoRequest]
  /\ UNCHANGED <<rows, worker, task, accepted, confirmed, clock, faults>>

RequestLost(a) ==
  /\ wire[a].state = "sent"
  /\ wire' = [wire EXCEPT ![a] = NoRequest]
  /\ UNCHANGED <<rows, worker, task, accepted, confirmed, clock, faults>>

\* 2xx with a message_id.
AnswerSuccess(a) ==
  /\ Waiting(a) /\ wire[a].state = "accepted"
  /\ confirmed' = [confirmed EXCEPT ![task[a].of] = @ \cup {<<task[a].number, task[a].by>>}]
  /\ wire' = [wire EXCEPT ![a] = NoRequest]
  /\ Step(a, Verdict(a, "sent", 0))
  /\ UNCHANGED <<rows, worker, accepted, clock, faults>>

\* 2xx whose body is malformed or has no message_id: graph_success_unconfirmed.
AnswerUnconfirmed(a) ==
  /\ Waiting(a) /\ wire[a].state = "accepted"
  /\ wire' = [wire EXCEPT ![a] = NoRequest]
  /\ Step(a, Verdict(a, "terminal_failed", 0))
  /\ UNCHANGED <<rows, worker, accepted, confirmed, clock, faults>>

\* classifyHttpFailure: 408, 429, 5xx and transient errors may be retried, others not.
AnswerFailure(a) ==
  /\ Waiting(a) /\ wire[a].state = "refused"
  /\ wire' = [wire EXCEPT ![a] = NoRequest]
  /\ \/ \E after \in RetryAfter : Step(a, Verdict(a, "retryable_failed", after))
     \/ Step(a, Verdict(a, "terminal_failed", 0))
  /\ UNCHANGED <<rows, worker, accepted, confirmed, clock, faults>>

\* The timer aborts the request, or the network fails: retryable, whatever Graph did.
NoAnswer(a) ==
  /\ Waiting(a)
  /\ wire' = [wire EXCEPT ![a] = IF @.state = "sent" THEN @ ELSE NoRequest]
  /\ Step(a, Verdict(a, "retryable_failed", 0))
  /\ UNCHANGED <<rows, worker, accepted, confirmed, clock, faults>>

\* A result that was not stored: after a success Graph confirmed, one more record asks for
\* the hold; otherwise the dispatch returns and the row stays as it is.
Unrecorded(a) ==
  IF task[a].providerAccepted /\ task[a].pc \in {"record_read", "record_write"}
    THEN Step(a, [task[a] EXCEPT !.pc = "hold_read", !.seen = AbsentRow,
                                 !.outcome = "provider_sent_unconfirmed"])
    ELSE Return(a)

\* record: the SELECT, and the ownership and attempt-number tests on what it returned.
RecordRead(a) ==
  /\ task[a].pc \in {"record_read", "hold_read"}
  /\ LET t == task[a]
         r == rows[t.of]
         mine == Authoritative(r) /\ r.token = a /\ r.attemptCount = t.number
     IN  IF mine /\ r.status = t.outcome THEN Return(a)
         ELSE IF mine /\ r.status = "claimed"
                THEN Step(a, [t EXCEPT !.seen = r, !.pc =
                       IF @ = "record_read" THEN "record_write" ELSE "hold_write"])
         ELSE Unrecorded(a)
  /\ UNCHANGED <<rows, worker, wire, accepted, confirmed, clock, faults>>

\* record: the conditional UPDATE.
RecordWrite(a) ==
  /\ task[a].pc \in {"record_write", "hold_write"}
  /\ LET t == task[a]
     IN  IF SameAuthority(rows[t.of], t.seen)
           THEN rows' = [rows EXCEPT ![t.of] = Recorded(t.seen, t, a)] /\ Return(a)
           ELSE Unrecorded(a) /\ UNCHANGED rows
  /\ UNCHANGED <<worker, wire, accepted, confirmed, clock, faults>>

\* A statement raises: REPOSITORY_ERROR, and nothing was written.
StatementFails(a) ==
  /\ faults < MaxFaults
  /\ faults' = faults + 1
  /\ \/ task[a].pc \in {"claim_read", "claim_write"} /\ Return(a)
     \/ task[a].pc \in {"record_read", "record_write", "hold_read", "hold_write"} /\ Unrecorded(a)
  /\ UNCHANGED <<rows, worker, wire, accepted, confirmed, clock>>

\* An UPDATE commits but its answer is lost, so the caller sees the same error.
AnswerLost(a) ==
  /\ faults < MaxFaults
  /\ faults' = faults + 1
  /\ task[a].pc \in {"claim_write", "record_write", "hold_write"}
  /\ SameAuthority(rows[task[a].of], task[a].seen)
  /\ LET t == task[a]
     IN  \/ /\ t.pc = "claim_write"
            /\ rows' = [rows EXCEPT ![t.of] = Claimed(t.seen, a, t.now)]
            /\ Return(a)
         \/ /\ t.pc \in {"record_write", "hold_write"}
            /\ rows' = [rows EXCEPT ![t.of] = Recorded(t.seen, t, a)]
            /\ Unrecorded(a)
  /\ UNCHANGED <<worker, wire, accepted, confirmed, clock>>

Tick ==
  /\ clock < MaxTime
  /\ clock' = clock + 1
  /\ UNCHANGED <<rows, worker, task, wire, accepted, confirmed, faults>>

-----------------------------------------------------------------------------
WorkerStep(w) == StartWorker(w) \/ BeginCycle(w) \/ StartDispatch(w) \/ EndCycle(w) \/ EndSleep(w)
DispatchStep(a) ==
  \/ ClaimRead(a) \/ ClaimWrite(a) \/ SendRequest(a) \/ PrepareFails(a)
  \/ AnswerSuccess(a) \/ AnswerUnconfirmed(a) \/ AnswerFailure(a) \/ NoAnswer(a)
  \/ RecordRead(a) \/ RecordWrite(a)
GraphStep(a) == GraphAccepts(a) \/ GraphRefuses(a) \/ RequestLost(a)
FaultStep ==
  \/ \E w \in Worker : Shutdown(w) \/ Crash(w)
  \/ \E a \in Attempt : StatementFails(a) \/ AnswerLost(a)

Next ==
  \/ \E o \in Outbound : CreateOrGet(o)
  \/ \E w \in Worker : WorkerStep(w)
  \/ \E a \in Attempt : DispatchStep(a) \/ GraphStep(a)
  \/ FaultStep
  \/ Tick

Spec == Init /\ [][Next]_vars

\* The supervisor restarts a worker, its loop keeps running, a dispatch proceeds (its send
\* is bounded by a timer), a request does not stay under way for ever and time passes.
Fairness ==
  /\ \A w \in Worker : WF_vars(WorkerStep(w))
  /\ \A a \in Attempt : WF_vars(DispatchStep(a)) /\ WF_vars(GraphStep(a))
  /\ WF_vars(Tick)

FairSpec == Spec /\ Fairness

-----------------------------------------------------------------------------
(***************************************************************************)
(* Properties.                                                             *)
(***************************************************************************)

TypeOK ==
  /\ rows \in [Outbound -> Row]
  /\ worker \in [Worker -> WorkerState]
  /\ task \in [Attempt -> TaskState \cup {Idle}]
  /\ wire \in [Attempt -> Request \cup {NoRequest}]
  /\ accepted \in [Outbound -> SUBSET (0..MaxAttempt)]
  /\ confirmed \in [Outbound -> SUBSET ((0..MaxAttempt) \X Worker)]
  /\ clock \in 0..MaxTime
  /\ faults \in 0..MaxFaults

\* No interleaving of claims and records, no crash and no lost answer leaves a row in a shape
\* the repository refuses to work on: it would fail closed there for ever. A row gets its
\* ownership token with its first claim and never loses it; a retryable row has a schedule.
RowsStayAuthoritative ==
  \A o \in Outbound : rows[o] # AbsentRow =>
    /\ Authoritative(rows[o])
    /\ rows[o].token = NoToken <=> rows[o].status = "pending"
    /\ rows[o].status = "retryable_failed" => rows[o].nextAttemptAt # NoTime

\* The optimistic lock, not the attempt id, makes an attempt number a fencing token: no two
\* dispatches are ever given the same number of a row, nor one the row has not reached, and
\* the row names the dispatch that holds its latest number.
AttemptHasOneOwner ==
  \A o \in Outbound : \A a \in Attempt : Owns(a, o) =>
    /\ task[a].number \in 1..rows[o].attemptCount
    /\ task[a].number = rows[o].attemptCount => rows[o].token = a
    /\ \A b \in Attempt \ {a} : Owns(b, o) => task[a].number # task[b].number

\* The success answer to the n-th attempt of a row reached the process that made it.
Told(o, n) == \E w \in Worker : <<n, w>> \in confirmed[o]

\* Graph is asked at most once for each attempt number: two requests on the wire never
\* carry the same one, and one that is still unanswered has not been taken before. What a
\* process was told was taken.
AttemptSentOnce ==
  /\ \A a, b \in Attempt : wire[a] # NoRequest =>
       /\ a # b /\ wire[b] # NoRequest /\ wire[a].of = wire[b].of => wire[a].number # wire[b].number
       /\ wire[a].state = "sent" => wire[a].number \notin accepted[wire[a].of]
  /\ \A o \in Outbound : \A n \in 0..MaxAttempt : Told(o, n) => n \in accepted[o]

\* What the table says of a message agrees with what Graph answered to that very attempt: sent
\* and held rows were confirmed, failed rows were not, so no confirmed send is retried as failed.
OutcomeMatchesAnswer ==
  \A o \in Outbound :
    LET r == rows[o]
    IN  /\ r.status \in {"sent", "provider_sent_unconfirmed"} => Told(o, r.attemptCount)
        /\ r.status \in {"retryable_failed", "terminal_failed"} => ~Told(o, r.attemptCount)

\* Two dispatches are at work on one row only after a stale takeover, by another process whose
\* cycle began at least StaleAfter later than the cycle it took over from. One process never
\* sends a reply twice at a time, however wide its pool and long its cycles and even when it
\* dies and restarts: a cycle waits for all it started.
OverlapNeedsStaleCycle ==
  \A o \in Outbound : \A a, b \in Attempt :
    Owns(a, o) /\ Owns(b, o) /\ task[a].number < task[b].number =>
      task[a].now + StaleAfter <= task[b].now /\ task[a].by # task[b].by

\* sent, terminal_failed and the hold are the end of a row: nothing a worker does, late or
\* retried, changes any column of it again.
FinalRowsFrozen ==
  [][\A o \in Outbound : rows[o].status \in FinalStatus => rows'[o] = rows[o]]_vars

\* A process never sends again what Graph confirmed to it: not when the record and the hold
\* both fail, not when it dies between the answer and the record and is started again.
ConfirmedNotResentByItsProcess ==
  [][\A o \in Outbound : \A w \in Worker :
       rows'[o].attemptCount > rows[o].attemptCount /\ <<rows[o].attemptCount, w>> \in confirmed[o]
         => task[rows'[o].token].by # w]_vars

\* The dispatch as its users see it: OutboundLedger, with the rows' columns for its state.
Ledger == INSTANCE OutboundLedger WITH
  reply <- [o \in Outbound |-> rows[o].status],
  tries <- [o \in Outbound |-> rows[o].attemptCount],
  told  <- [o \in Outbound |-> {n \in 1..MaxAttempt : Told(o, n)}],
  due   <- [o \in Outbound |-> IF rows[o].status = "retryable_failed"
                                 THEN rows[o].nextAttemptAt ELSE 0],
  now   <- clock

\* Claims, locks, late records, crashes and lost answers, whatever their order, amount to the
\* ledger's steps: a reply ends once and for good, as sent or held exactly when we were told
\* so, and no attempt begins before its schedule by the clock of the world.
ImplementsLedger == Ledger!Spec

\* The SQL repository never consults that table, yet each change of status it makes is one the
\* table allows, and the attempt count moves by one exactly when a new owner is written.
RepositoryFollowsTable ==
  [][\A o \in Outbound :
       LET r == rows[o]
           s == rows'[o]
       IN  r.status \in Status /\ s # r =>
             /\ s.status = r.status \/ s.status \in Ledger!ValidTransition[r.status]
             /\ IF s.token # r.token
                  THEN s.status = "claimed" /\ s.attemptCount = r.attemptCount + 1
                  ELSE r.status = "claimed" /\ s.status # "claimed"
                         /\ s.attemptCount = r.attemptCount]_vars

\* A reply that was stored is sent, and sent again when its schedule after a failure is reached:
\* crashes, signals and failing statements may delay an attempt, they never lose the row.
WaitingIsTaken ==
  \A o \in Outbound : \A n \in 0..(MaxAttempt - 1) :
    (/\ rows[o].attemptCount = n
     /\ \/ rows[o].status = "pending"
        \/ rows[o].status = "retryable_failed" /\ rows[o].nextAttemptAt <= MaxTime)
      ~> rows[o].attemptCount > n

\* Without a fault a claim is always followed by a recorded result.
ClaimSettles ==
  \A o \in Outbound : rows[o].status = "claimed" ~> (rows[o].status # "claimed" \/ faults > 0)

\* No stored reply stays where it is: neither waiting, nor, unless something failed, claimed.
NothingStaysPut == WaitingIsTaken /\ ClaimSettles

=============================================================================
