----------------------------- MODULE PollSource -----------------------------
(***************************************************************************)
(* codeClip's provider polling: the rows of codeclip_provider_poll_sources *)
(* with their lease, the worker processes that list, claim, poll and       *)
(* complete them, and the ledger of deliveries a completed poll writes.    *)
(*                                                                         *)
(* Claim, complete and release each lock the row (SELECT ... FOR UPDATE)   *)
(* in a transaction of their own: each is one step.  Between them a poll   *)
(* reads the row again, reads credentials and calls the provider, and      *)
(* holds no lock.                                                          *)
(***************************************************************************)
EXTENDS TikTokPaging

CONSTANTS
  Source,        \* ids of rows (BIGSERIAL, the tie-break of the due list)
  Worker,        \* polling worker processes
  Concurrency,   \* polls one cycle runs at a time
  Limit,         \* sources one cycle lists at most
  Lease,         \* leaseMs
  Interval,      \* poll_interval_ms
  PageDelay,     \* delay before the next page of a walk, 0 if shorter than a unit of time
  LastBackoff,   \* failures in a row from which on the delay no longer grows
  Backoff,       \* delay after the n-th failure in a row
  RetryAfter,    \* delays a provider may ask for, in place of the backoff
  MaxTime,       \* bound on the clock
  MaxEvents,     \* bound on crashes, signals, thrown errors, reactivations and takedowns
  NoTime,        \* SQL NULL in a timestamp
  NoOwner        \* SQL NULL in poll_claim_owner

ASSUME SourceAssumption == Source \subseteq Nat /\ NoOwner \notin Worker
ASSUME TimeAssumption ==
  /\ Lease \in Nat \ {0} /\ Interval \in Nat \ {0} /\ PageDelay \in Nat
  /\ RetryAfter \subseteq Nat
  /\ MaxTime \in Nat /\ MaxEvents \in Nat /\ NoTime \notin Nat
ASSUME WidthAssumption ==
  /\ Concurrency \in Nat \ {0} /\ Limit \in Nat \ {0}
  /\ LastBackoff \in Nat \ {0} /\ Backoff \in [1..LastBackoff -> Nat]

VARIABLES
  source,     \* the table
  cycle,      \* the loop of each worker process
  poll,       \* what each worker is doing with each source of its cycle
  visible,    \* videos on the account a source stands for
  newest,     \* the newest video the account ever published
  ledger,     \* videos of a source with a delivery in the ledger
  dropped,    \* videos reported while the account had no active binding
  baseline,   \* the mark a source was initialized with
  clock,
  events      \* crashes, signals, thrown errors, reactivations and takedowns so far

vars == <<source, cycle, poll, visible, newest, ledger, dropped, baseline, clock, events>>

-----------------------------------------------------------------------------
Time == Nat \cup {NoTime}

\* The owner string also names the source and a nonce of the cycle; the worker stands for it.
Owner == Worker \cup {NoOwner}

\* "absent" stands for a row not inserted yet. No code path sets the status disabled.
Row == [status : {"absent", "active", "paused"}, nextPollAt : Time, owner : Owner,
        version : Nat, expiresAt : Time, checkpoint : Checkpoint, failures : 0..LastBackoff]

AbsentRow == [status |-> "absent", nextPollAt |-> NoTime, owner |-> NoOwner, version |-> 0,
              expiresAt |-> NoTime, checkpoint |-> EmptyCheckpoint, failures |-> 0]

NewRow(now) == [AbsentRow EXCEPT !.status = "active", !.nextPollAt = now]

\* A paused row becomes due at once, with what is left of an old claim cleared.
Reactivated(r, now) ==
  [r EXCEPT !.status = "active", !.nextPollAt = now, !.owner = NoOwner, !.expiresAt = NoTime]

\* hasActiveClaim.
LeaseRuns(r, now) == r.owner # NoOwner /\ r.expiresAt > now

\* A claim: poll_claim_version + 1 is computed in SQL, under the row lock. Mutant: the version
\* moves with the first owner only.
ClaimedSameVersion(r, w, now) ==
  [r EXCEPT !.owner = w, !.expiresAt = now + Lease,
            !.version = IF r.owner = NoOwner THEN @ + 1 ELSE @]
Claimed(r, w, now) ==
  [r EXCEPT !.owner = w, !.expiresAt = now + Lease, !.version = @ + 1]

\* The single UPDATE of a completion, and the one of a release with failure scheduling.
Completed(r, p, now) ==
  [r EXCEPT !.status = "active", !.owner = NoOwner, !.expiresAt = NoTime,
            !.checkpoint = p.next, !.failures = 0,
            !.nextPollAt = now + (IF p.complete THEN Interval ELSE PageDelay)]

\* consecutive_failures + 1. The count stops at LastBackoff, from where it changes nothing.
Counted(failures) == IF failures < LastBackoff THEN failures + 1 ELSE LastBackoff

Released(r, p, now) ==
  [r EXCEPT !.status = p.status, !.owner = NoOwner, !.expiresAt = NoTime,
            !.failures = Counted(p.failures),
            !.nextPollAt = IF p.status = "paused" THEN NoTime ELSE now + p.delay]

\* ownerMatches, versionMatches and notStale. The instant is the one the cycle began with.
\* Mutant: the lease alone is compared, whoever holds it.
FenceLeaseOnly(r, w, p, now) == r.expiresAt # NoTime /\ r.expiresAt > now
Fence(r, w, p, now) ==
  /\ r.owner = w
  /\ r.version = p.version
  /\ r.expiresAt # NoTime /\ r.expiresAt > now

-----------------------------------------------------------------------------
Mode == {"stopped", "sleeping", "running", "stopping"}
Cycle == [mode : Mode, now : Nat]

\* listed: due when the cycle began; claimed: the lease is held; ready: the row was read
\* back; polled: the provider answered; failing: a failure is to be recorded.
PC == {"idle", "listed", "claimed", "ready", "polled", "failing"}
Poll == [pc : PC, version : Nat, checkpoint : Checkpoint, failures : 0..LastBackoff,
         found : SUBSET Video, bound : BOOLEAN, next : Checkpoint, complete : BOOLEAN,
         status : {"active", "paused"}, delay : Nat]
Idle == [pc |-> "idle", version |-> 0, checkpoint |-> EmptyCheckpoint, failures |-> 0,
         found |-> {}, bound |-> FALSE, next |-> EmptyCheckpoint, complete |-> FALSE,
         status |-> "active", delay |-> 0]
Listed == [Idle EXCEPT !.pc = "listed"]

Holds(w, s) == poll[w][s].pc \notin {"idle", "listed"}
Busy(w) == {s \in Source : Holds(w, s)}

Init ==
  /\ source = [s \in Source |-> AbsentRow]
  /\ cycle = [w \in Worker |-> [mode |-> "stopped", now |-> 0]]
  /\ poll = [w \in Worker |-> [s \in Source |-> Idle]]
  /\ visible = [s \in Source |-> {}]
  /\ newest = [s \in Source |-> 0]
  /\ ledger = [s \in Source |-> {}]
  /\ dropped = [s \in Source |-> {}]
  /\ baseline = [s \in Source |-> 0]
  /\ clock = 0
  /\ events = 0

History == <<visible, newest, ledger, dropped, baseline>>

-----------------------------------------------------------------------------
\* The creator's account: videos appear in publication order and may be taken down.
Publish(s) ==
  /\ newest[s] < MaxVideo
  /\ newest' = [newest EXCEPT ![s] = @ + 1]
  /\ visible' = [visible EXCEPT ![s] = @ \cup {newest[s] + 1}]
  /\ UNCHANGED <<source, cycle, poll, ledger, dropped, baseline, clock, events>>

TakeDown(s) ==
  /\ events < MaxEvents /\ events' = events + 1
  /\ \E v \in visible[s] : visible' = [visible EXCEPT ![s] = @ \ {v}]
  /\ UNCHANGED <<source, cycle, poll, newest, ledger, dropped, baseline, clock>>

\* activateCodeClipTikTokPolling: inserts the row, or reactivates it when it is paused and
\* nobody polls it.
Activate(s) ==
  /\ \/ /\ source[s].status = "absent"
        /\ source' = [source EXCEPT ![s] = NewRow(clock)]
        /\ UNCHANGED events
     \/ /\ source[s].status = "paused" /\ ~LeaseRuns(source[s], clock)
        /\ source' = [source EXCEPT ![s] = Reactivated(@, clock)]
        /\ events < MaxEvents /\ events' = events + 1
  /\ UNCHANGED <<cycle, poll, History, clock>>

StartWorker(w) ==
  /\ cycle[w].mode = "stopped"
  /\ cycle' = [cycle EXCEPT ![w].mode = "sleeping"]
  /\ UNCHANGED <<source, poll, History, clock, events>>

\* stop(): the timer is cleared, or the running cycle is aborted and awaited.
Stop(w) ==
  /\ events < MaxEvents
  /\ \/ cycle[w].mode = "sleeping" /\ cycle' = [cycle EXCEPT ![w].mode = "stopped"]
     \/ cycle[w].mode = "running" /\ cycle' = [cycle EXCEPT ![w].mode = "stopping"]
  /\ events' = events + 1
  /\ UNCHANGED <<source, poll, History, clock>>

\* The process dies; the leases it holds stay.
Crash(w) ==
  /\ events < MaxEvents
  /\ cycle[w].mode \in {"running", "stopping"}
  /\ cycle' = [cycle EXCEPT ![w] = [mode |-> "stopped", now |-> 0]]
  /\ poll' = [poll EXCEPT ![w] = [s \in Source |-> Idle]]
  /\ events' = events + 1
  /\ UNCHANGED <<source, History, clock>>

\* listDueCodeClipProviderPollSources. Mutant: a claimed source is not listed, lease or none.
DueUnclaimed(now) ==
  {s \in Source : /\ source[s].status = "active"
                  /\ source[s].nextPollAt # NoTime /\ source[s].nextPollAt <= now
                  /\ source[s].owner = NoOwner}
Due(now) ==
  {s \in Source : /\ source[s].status = "active"
                  /\ source[s].nextPollAt # NoTime /\ source[s].nextPollAt <= now
                  /\ source[s].expiresAt = NoTime \/ source[s].expiresAt <= now}

\* ORDER BY next_poll_at ASC, id ASC LIMIT
Before(s, t) ==
  \/ source[s].nextPollAt < source[t].nextPollAt
  \/ source[s].nextPollAt = source[t].nextPollAt /\ s < t
Chosen(now) == {s \in Due(now) : Cardinality({t \in Due(now) : Before(t, s)}) < Limit}

\* A cycle reads the clock once and hands that instant to every query it makes.
BeginCycle(w) ==
  /\ cycle[w].mode = "sleeping"
  /\ cycle' = [cycle EXCEPT ![w] = [mode |-> "running", now |-> clock]]
  /\ poll' = [poll EXCEPT ![w] = [s \in Source |-> IF s \in Chosen(clock) THEN Listed ELSE Idle]]
  /\ UNCHANGED <<source, History, clock, events>>

\* Every poll has returned; after an abort the sources not begun are skipped.
EndCycle(w) ==
  /\ cycle[w].mode \in {"running", "stopping"}
  /\ Busy(w) = {}
  /\ cycle[w].mode = "running" => \A s \in Source : poll[w][s].pc = "idle"
  /\ cycle' = [cycle EXCEPT ![w] =
       [mode |-> IF @.mode = "running" THEN "sleeping" ELSE "stopped", now |-> 0]]
  /\ poll' = [poll EXCEPT ![w] = [s \in Source |-> Idle]]
  /\ UNCHANGED <<source, History, clock, events>>

-----------------------------------------------------------------------------
\* pollCodeClipProviderSource, step by step.

Go(w, s, p) == poll' = [poll EXCEPT ![w][s] = p]
Return(w, s) == Go(w, s, Idle)

\* The listed sources are begun in some order. One that is not active any more, or claimed by
\* another cycle meanwhile, is left alone; whether it is still due is not looked at again.
Claim(w, s) ==
  /\ poll[w][s].pc = "listed" /\ cycle[w].mode = "running"
  /\ Cardinality(Busy(w)) < Concurrency
  /\ LET r == source[s]
         now == cycle[w].now
     IN  IF r.status = "active" /\ ~LeaseRuns(r, now)
           THEN /\ source' = [source EXCEPT ![s] = Claimed(r, w, now)]
                /\ Go(w, s, [Idle EXCEPT !.pc = "claimed", !.version = r.version + 1])
           ELSE Return(w, s) /\ UNCHANGED source
  /\ UNCHANGED <<cycle, History, clock, events>>

\* getById: the checkpoint and the failures of the row as it is now.
ReadBack(w, s) ==
  /\ poll[w][s].pc = "claimed"
  /\ Go(w, s, [poll[w][s] EXCEPT !.pc = "ready", !.checkpoint = source[s].checkpoint,
                                 !.failures = source[s].failures])
  /\ UNCHANGED <<source, cycle, History, clock, events>>

\* finishFailure: the source is paused, or tried again after the backoff or the provider's delay.
Fail(w, s, status, delay) ==
  Go(w, s, [Idle EXCEPT !.pc = "failing", !.version = poll[w][s].version,
                        !.failures = poll[w][s].failures, !.status = status, !.delay = delay])
BackoffAfter(failures) == Backoff[Counted(failures)]
Failure(w, s) ==
  \/ Fail(w, s, "paused", 0)
  \/ Fail(w, s, "active", BackoffAfter(poll[w][s].failures))

\* No usable credential, a refresh that failed, no adapter: nothing was asked of the provider.
NotReady(w, s) ==
  /\ poll[w][s].pc = "ready"
  /\ Failure(w, s)
  /\ UNCHANGED <<source, cycle, History, clock, events>>

\* The adapter's result as the service accepts it: the detections, the checkpoint to store and
\* whether the walk has ended.
Accepted(p, up) ==
  [p EXCEPT !.pc = "polled", !.checkpoint = EmptyCheckpoint,
            !.found = Detections(p.checkpoint, up),
            !.next = NextCheckpoint(p.checkpoint, up),
            !.complete = PageComplete(p.checkpoint, up)]

\* The provider answers with a page, and the active bindings are read.
PageReceived(w, s) ==
  /\ poll[w][s].pc = "ready"
  /\ \E bound \in BOOLEAN :
       Go(w, s, [Accepted(poll[w][s], visible[s]) EXCEPT !.bound = bound])
  /\ UNCHANGED <<source, cycle, History, clock, events>>

\* The provider refuses, limits the rate, or its answer cannot be read.
ProviderFails(w, s) ==
  /\ poll[w][s].pc = "ready"
  /\ Failure(w, s) \/ \E delay \in RetryAfter : Fail(w, s, "active", delay)
  /\ UNCHANGED <<source, cycle, History, clock, events>>

\* The hook inside the completion's transaction: the deliveries, ON CONFLICT DO NOTHING.
StoreDetections(s, p) ==
  /\ ledger' = [ledger EXCEPT ![s] = IF p.bound THEN @ \cup p.found ELSE @]
  /\ dropped' = [dropped EXCEPT ![s] = IF p.bound THEN @ ELSE @ \cup p.found]

\* completeClaim locks the row, tests the fence, runs the hook and updates, all in one
\* transaction. Behind a lost fence nothing is written.
CompleteClaim(w, s, p, now) ==
  IF Fence(source[s], w, p, now)
    THEN /\ StoreDetections(s, p)
         /\ source' = [source EXCEPT ![s] = Completed(@, p, now)]
         /\ baseline' = [baseline EXCEPT ![s] =
              IF source[s].checkpoint.initialized THEN @ ELSE p.next.high]
    ELSE UNCHANGED <<source, ledger, dropped, baseline>>

\* ingestCodeClipProviderPollDetections
Ingest(w, s) ==
  /\ poll[w][s].pc = "polled"
  /\ CompleteClaim(w, s, poll[w][s], cycle[w].now)
  /\ Return(w, s)
  /\ UNCHANGED <<cycle, visible, newest, clock, events>>

\* A delivery cannot be stored: the transaction rolls back and the failure is recorded.
IngestRollsBack(w, s) ==
  /\ poll[w][s].pc = "polled" /\ poll[w][s].bound /\ poll[w][s].found # {}
  /\ Fence(source[s], w, poll[w][s], cycle[w].now)
  /\ Fail(w, s, "active", BackoffAfter(poll[w][s].failures))
  /\ UNCHANGED <<source, cycle, History, clock, events>>

\* releaseCodeClipProviderPollSourceClaim: never touches the checkpoint.
Release(w, s) ==
  /\ poll[w][s].pc = "failing"
  /\ LET p == poll[w][s]
     IN  IF Fence(source[s], w, p, cycle[w].now)
           THEN source' = [source EXCEPT ![s] = Released(@, p, cycle[w].now)]
           ELSE UNCHANGED source
  /\ Return(w, s)
  /\ UNCHANGED <<cycle, History, clock, events>>

\* A query of the poll throws: WORKER_SOURCE_FAILED, and the lease stays until it expires.
PollThrows(w, s) ==
  /\ events < MaxEvents
  /\ Holds(w, s)
  /\ Return(w, s)
  /\ events' = events + 1
  /\ UNCHANGED <<source, cycle, History, clock>>

Tick ==
  /\ clock < MaxTime
  /\ clock' = clock + 1
  /\ UNCHANGED <<source, cycle, poll, History, events>>

-----------------------------------------------------------------------------
LoopStep(w) == StartWorker(w) \/ BeginCycle(w) \/ EndCycle(w)
PollStep(w, s) ==
  \/ Claim(w, s) \/ ReadBack(w, s) \/ NotReady(w, s) \/ PageReceived(w, s)
  \/ ProviderFails(w, s) \/ Ingest(w, s) \/ IngestRollsBack(w, s) \/ Release(w, s)

Next ==
  \/ \E s \in Source : Publish(s) \/ TakeDown(s) \/ Activate(s)
  \/ \E w \in Worker : LoopStep(w) \/ Stop(w) \/ Crash(w)
  \/ \E w \in Worker, s \in Source : PollStep(w, s) \/ PollThrows(w, s)
  \/ Tick

Spec == Init /\ [][Next]_vars

\* A worker is restarted and keeps cycling, a poll proceeds (its HTTP calls have a timer) and
\* time passes. Nothing is assumed of the creator, of operators or of the provider's answers.
Fairness ==
  /\ \A w \in Worker : WF_vars(LoopStep(w))
  /\ \A w \in Worker, s \in Source : WF_vars(PollStep(w, s))
  /\ WF_vars(Tick)

FairSpec == Spec /\ Fairness

-----------------------------------------------------------------------------
(***************************************************************************)
(* Properties.                                                             *)
(***************************************************************************)

TypeOK ==
  /\ source \in [Source -> Row]
  /\ cycle \in [Worker -> Cycle]
  /\ poll \in [Worker -> [Source -> Poll]]
  /\ visible \in [Source -> SUBSET Video]
  /\ newest \in [Source -> Mark]
  /\ ledger \in [Source -> SUBSET Video]
  /\ dropped \in [Source -> SUBSET Video]
  /\ baseline \in [Source -> Mark]
  /\ clock \in 0..MaxTime
  /\ events \in 0..MaxEvents

\* An active source always has an instant at which it is listed again and a paused one has
\* neither schedule nor lease, whatever failed in between: no source is silently left out.
ScheduleMatchesStatus ==
  \A s \in Source :
    /\ source[s].status = "active" <=> source[s].nextPollAt # NoTime
    /\ source[s].owner # NoOwner <=> source[s].expiresAt # NoTime
    /\ source[s].owner # NoOwner => source[s].status = "active"

\* Rows are well formed and poll_claim_version is a fencing token: two polls of a source never
\* hold the same version, and the one that holds the row's own version is the one the row
\* names, so it alone can complete or release.
VersionHasOneHolder ==
  /\ TypeOK /\ ScheduleMatchesStatus
  /\ \A s \in Source : \A w \in Worker : Holds(w, s) =>
       /\ poll[w][s].version \in 1..source[s].version
       /\ poll[w][s].version = source[s].version => source[s].owner = w
       /\ \A x \in Worker \ {w} : Holds(x, s) => poll[x][s].version # poll[w][s].version

\* A claim is superseded only once its lease has run out: by the clock, and at the beginning
\* of the cycle that took over from it.  (A third worker may claim the source after that one
\* has completed, in a cycle that is older than both.)
OverlapNeedsExpiredLease ==
  \A s \in Source : \A w \in Worker :
    Holds(w, s) /\ poll[w][s].version < source[s].version =>
      /\ cycle[w].now + Lease <= clock
      /\ \A x \in Worker : Holds(x, s) /\ poll[x][s].version = poll[w][s].version + 1 =>
           cycle[w].now + Lease <= cycle[x].now

\* The videos a checkpoint has passed: up to the cutoff, and on the pages of an unfinished
\* walk those from its cursor up to the newest one seen.
Passed(c) ==
  {v \in Video : v <= c.high \/ (c.cursor # 0 /\ c.cursor <= v /\ v <= c.pending)}

\* The checkpoint never runs ahead of the ledger: a video published after the baseline and
\* still up has a delivery once the checkpoint has passed it, through page walks, takedowns,
\* crashes and takeovers. (Videos found while no binding was active are counted apart, and a
\* source initialized on an empty account has no cutoff to walk to.)
NothingMissed ==
  \A s \in Source : baseline[s] # 0 =>
    \A v \in visible[s] \cap Passed(source[s].checkpoint) :
      v > baseline[s] => v \in ledger[s] \cup dropped[s]

\* A stale worker never sets the checkpoint back: the cutoff only rises, and a walk only moves
\* down its pages until it ends.
CheckpointNeverRegresses ==
  [][\A s \in Source :
       LET c == source[s].checkpoint
           d == source'[s].checkpoint
       IN  /\ c.initialized => d.initialized
           /\ c.high <= d.high
           /\ c.cursor # 0 /\ d.high = c.high => d.cursor # 0 /\ d.cursor <= c.cursor
           /\ c.cursor # 0 => c.pending <= d.pending \/ c.pending <= d.high]_vars

\* A worker that dies or whose query throws does not keep a source for ever, and neither do the
\* sources listed before it: once its schedule is reached a source is claimed again, or paused.
DueIsPolled ==
  \A s \in Source : \A n \in 0..MaxTime :
    (/\ source[s].status = "active" /\ source[s].version = n
     /\ source[s].nextPollAt \in 0..MaxTime /\ source[s].expiresAt \in 0..MaxTime \cup {NoTime})
      ~> (source[s].version > n \/ source[s].nextPollAt \notin 0..MaxTime)

\* The lease and the version fence one source: one holder of a version, and a second poll
\* beside the first only once its lease has run out.
PollsAreFenced == VersionHasOneHolder /\ OverlapNeedsExpiredLease

=============================================================================
