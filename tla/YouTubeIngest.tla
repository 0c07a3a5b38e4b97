---------------------------- MODULE YouTubeIngest ----------------------------
(***************************************************************************)
(* The videos of one YouTube channel on their way to an activation: the    *)
(* hub's notifications, the reconciliation workers that look for what the  *)
(* hub missed, and the operator's recovery of one video, which all end in  *)
(* the same processEntry (youtube-websub-notification.js,                  *)
(* youtube-reconciliation-worker.js, -scanner.js and -recovery.js under    *)
(* src/verticals/codeclip, and the claims and deliveries of db.js).        *)
(*                                                                         *)
(* What persistence does inside is ClipPersistence; here it succeeds or    *)
(* not.  The subscription is its status only, which WebSub explains.       *)
(***************************************************************************)
EXTENDS YouTubeBase, FiniteSets

CONSTANTS
  Videos, Historical,   \* and those published before the activation boundary
  Notifiers, Workers, Operators

ASSUME HistoricalAssumption == Historical \subseteq Videos

\* A process is one of the three, and None is neither a process nor a video.
ASSUME ProcessAssumption ==
  /\ Notifiers \cap Workers = {} /\ (Notifiers \cup Workers) \cap Operators = {}
  /\ None \notin Videos \cup Workers

VARIABLES
  age,          \* video |-> "unpublished", then its place in the worker's window
  undelivered,  \* hub: videos it has not had a 2xx for
  sub,          \* status of the channel's subscription
  bound,        \* the channel's binding is active, not disabled
  delivery,     \* video |-> state of its delivery row
  active,       \* video |-> interactions created
  claim,        \* the channel's row of codeclip_youtube_reconciliation_claims
  proc,         \* process |-> what it holds in memory
  hurt,         \* history: videos whose processing was cut short or failed
  missed,       \* history: videos the hub gave up
  lapsed        \* history: a claim was taken over after its lease

ingestVars == <<age, undelivered, sub, bound, delivery, active, claim, proc, faults, hurt,
          missed, lapsed>>
world == <<age, undelivered, sub, bound, missed>>

Procs == Notifiers \cup Workers \cup Operators
Free == [owner |-> None, stale |-> FALSE]
Idle == [pc |-> "idle", asked |-> {}, todo |-> {},
         video |-> None, bad |-> FALSE]

IngestInit ==
  /\ age = [v \in Videos |-> IF v \in Historical THEN "due" ELSE "unpublished"]
  /\ undelivered = Historical
  /\ sub = "active" /\ bound = TRUE
  /\ delivery = [v \in Videos |-> "none"]
  /\ active = [v \in Videos |-> 0]
  /\ claim = Free
  /\ proc = [p \in Procs |-> Idle]
  /\ faults = 0 /\ hurt = {} /\ missed = {} /\ lapsed = FALSE

Goto(p, pc) == proc' = [proc EXCEPT ![p].pc = pc]

\* Where a process goes when it has done with a video, or must stop.
AfterEntry(p, bad) ==
  proc' = [proc EXCEPT ![p] =
    IF p \in Operators THEN Idle
    ELSE [@ EXCEPT !.pc = "next", !.video = None, !.bad = proc[p].bad \/ bad]]
Stopped(p) ==
  proc' = [proc EXCEPT ![p] =
    IF p \in Workers THEN [@ EXCEPT !.pc = "next", !.video = None, !.todo = {}]
    ELSE Idle]

HurtBy(p) == hurt \cup ({proc[p].video} \ ({None} \cup Historical))

-----------------------------------------------------------------------------
(* The channel, the hub and the operator's changes.                        *)

Publish(v) ==
  /\ age[v] = "unpublished"
  /\ age' = [age EXCEPT ![v] = "fresh"] /\ undelivered' = undelivered \cup {v}
  /\ UNCHANGED <<sub, bound, missed, delivery, active, claim, proc, faults, hurt, lapsed>>

\* Out of the grace window, then too old for automatic processing.
VideoAges(v) ==
  /\ age[v] \in {"fresh", "due"} /\ v \notin Historical
  /\ age' = [age EXCEPT ![v] = IF @ = "fresh" THEN "due" ELSE "old"]
  /\ UNCHANGED <<undelivered, sub, bound, missed, delivery, active, claim, proc, faults, hurt, lapsed>>

HubGivesUp(v) ==
  /\ v \in undelivered /\ Fault
  /\ undelivered' = undelivered \ {v} /\ missed' = missed \cup {v}
  /\ UNCHANGED <<age, sub, bound, delivery, active, claim, proc, hurt, lapsed>>

RenewalBeginsOrEnds ==
  /\ IF sub = "active"
       THEN /\ Fault
            /\ sub' = "pending_renewal"
       ELSE /\ sub' = "active"
            /\ UNCHANGED faults
  /\ UNCHANGED <<age, undelivered, bound, missed, delivery, active, claim, proc, hurt, lapsed>>

\* The operator disables the binding or reactivates it; the event it belongs
\* to stays the same (a new one is refused while a disabled one exists).
DisableOrReactivate ==
  /\ IF bound
       THEN /\ Fault
       ELSE UNCHANGED faults
  /\ bound' = ~ bound
  /\ UNCHANGED <<age, undelivered, sub, missed, delivery, active, claim, proc, hurt, lapsed>>

-----------------------------------------------------------------------------
(* The three entrances.                                                    *)

\* A feed of some videos the hub still owes.  A refusal (the subscription
\* waits for its renewal, there is no binding) leaves them with the hub and
\* changes nothing.
Notified(p, vs) ==
  /\ proc[p].pc = "idle" /\ vs # {} /\ vs \subseteq undelivered
  /\ sub = "active" /\ bound
  /\ proc' = [proc EXCEPT ![p] =
       [Idle EXCEPT !.pc = "next", !.asked = vs, !.todo = vs]]
  /\ UNCHANGED <<world, delivery, active, claim, faults, hurt, lapsed>>

Due == {v \in Videos \ Historical : age[v] = "due"}

\* A cycle reads the subscription, the binding and its clock.
Discover(p) ==
  /\ proc[p].pc = "idle" /\ sub = "active" /\ bound
  /\ proc' = [proc EXCEPT ![p] =
       [Idle EXCEPT !.pc = "claim", !.todo = Due]]
  /\ UNCHANGED <<world, delivery, active, claim, faults, hurt, lapsed>>

\* Mutants: the lease is not looked at; a claim never ends by itself.
ChannelFreeAlways == claim.owner \in Workers \cup {None}
ChannelFreeIfReleased == claim.owner = None

ChannelFree == claim.owner = None \/ claim.stale

ClaimChannel(p) ==
  /\ proc[p].pc = "claim"
  /\ IF ChannelFree
       THEN /\ claim' = [owner |-> p, stale |-> FALSE]
            /\ lapsed' = (lapsed \/ claim.stale)
            /\ Goto(p, "next")
       ELSE /\ proc' = [proc EXCEPT ![p] = Idle]
            /\ UNCHANGED <<claim, lapsed>>
  /\ UNCHANGED <<world, delivery, active, faults, hurt>>

ClaimAges ==
  /\ claim.owner # None /\ ~ claim.stale
  /\ claim' = [claim EXCEPT !.stale = TRUE]
  /\ UNCHANGED <<world, delivery, active, proc, faults, hurt, lapsed>>

ReleasedBy(p) == IF claim.owner = p THEN Free ELSE claim

\* The end of a cycle, which any error of the target comes to as well.
ReleaseChannel(p) ==
  /\ proc[p].pc = "next" /\ proc[p].todo = {}
  /\ claim' = ReleasedBy(p)
  /\ proc' = [proc EXCEPT ![p] = Idle]
  /\ UNCHANGED <<world, delivery, active, faults, hurt, lapsed>>

\* revalidateCandidate: the binding, the subscription and the feed, however old
\* the video is.  Its reading of the delivery is LookUp.
Recoverable(v) ==
  /\ bound /\ sub = "active"
  /\ age[v] # "unpublished" /\ v \notin Historical

\* The execution of a recovery revalidates all that its dry run, which only
\* reads, has looked at: the token narrows what may be executed.
Execute(p, v) ==
  /\ proc[p].pc = "idle" /\ Recoverable(v)
  /\ proc' = [proc EXCEPT ![p] =
       [Idle EXCEPT !.pc = "look", !.video = v]]
  /\ UNCHANGED <<world, delivery, active, claim, faults, hurt, lapsed>>

-----------------------------------------------------------------------------
(* The loop over the entries, and processEntry.                            *)

NextEntry(p) ==
  /\ proc[p].pc = "next"
  /\ \E v \in proc[p].todo :
       proc' = [proc EXCEPT ![p].todo = @ \ {v}, ![p].video = v,
                  ![p].pc = IF p \in Notifiers THEN "insert" ELSE "look"]
  /\ UNCHANGED <<world, delivery, active, claim, faults, hurt, lapsed>>

\* 202, or 503 when an entry failed; the hub keeps what it was refused.
AnswerHub(p) ==
  /\ proc[p].pc = "next" /\ proc[p].todo = {}
  /\ undelivered' = IF proc[p].bad THEN undelivered ELSE undelivered \ proc[p].asked
  /\ proc' = [proc EXCEPT ![p] = Idle]
  /\ UNCHANGED <<age, sub, bound, missed, delivery, active, claim, faults, hurt, lapsed>>

\* A delivery that exists in whatever state is left to whoever made it.
LookUp(p) ==
  /\ proc[p].pc = "look"
  /\ IF delivery[proc[p].video] = "none" THEN Goto(p, "insert") ELSE AfterEntry(p, FALSE)
  /\ UNCHANGED <<world, delivery, active, claim, faults, hurt, lapsed>>

IsHistorical(v) == v \in Historical

\* Mutant: a failed delivery is processed again.
RetriesFailed(state) == state \in {"none", "failed"}

Insertable(state) == state = "none"

\* INSERT ... ON CONFLICT DO NOTHING: one process goes on.
InsertDelivery(p) ==
  /\ proc[p].pc = "insert"
  /\ IF Insertable(delivery[proc[p].video])
       THEN /\ delivery' = [delivery EXCEPT ![proc[p].video] = "processing"]
            /\ Goto(p, IF IsHistorical(proc[p].video) THEN "finish" ELSE "persist")
       ELSE /\ AfterEntry(p, FALSE)
            /\ UNCHANGED delivery
  /\ UNCHANGED <<world, active, claim, faults, hurt, lapsed>>

PersistInteraction(p) ==
  /\ proc[p].pc = "persist"
  /\ active' = [active EXCEPT ![proc[p].video] = @ + 1]
  /\ Goto(p, "finish")
  /\ UNCHANGED <<world, delivery, claim, faults, hurt, lapsed>>

\* The decision is not ok, whether or not something was stored.
PersistFails(p) ==
  /\ proc[p].pc = "persist"
  /\ Fault
  /\ \/ active' = [active EXCEPT ![proc[p].video] = @ + 1]
     \/ UNCHANGED active
  /\ hurt' = HurtBy(p)
  /\ Goto(p, "fail")
  /\ UNCHANGED <<world, delivery, claim, lapsed>>

\* The state is written by the delivery's identity, whatever it was.
MarkFailed(p) ==
  /\ proc[p].pc = "fail"
  /\ delivery' = [delivery EXCEPT ![proc[p].video] = "failed"]
  /\ AfterEntry(p, TRUE)
  /\ UNCHANGED <<world, active, claim, faults, hurt, lapsed>>

Finish(p) ==
  /\ proc[p].pc = "finish"
  /\ delivery' = [delivery EXCEPT ![proc[p].video] = "completed"]
  /\ AfterEntry(p, FALSE)
  /\ UNCHANGED <<world, active, claim, faults, hurt, lapsed>>

\* The statement fails: the row stays in processing, the entry is failed;
\* an insert that fails leaves no row.
EntryFails(p) ==
  /\ proc[p].pc \in {"insert", "fail", "finish"}
  /\ Fault
  /\ hurt' = HurtBy(p)
  /\ AfterEntry(p, TRUE)
  /\ UNCHANGED <<world, delivery, active, claim, lapsed>>

\* Something throws (the lookup, the feed, the first video of the
\* subscription): the request or the target ends.
Throws(p) ==
  /\ proc[p].pc \in {"look", "next", "persist"}
  /\ Fault
  /\ hurt' = HurtBy(p)
  /\ Stopped(p)
  /\ UNCHANGED <<world, delivery, active, claim, lapsed>>

Crash(p) ==
  /\ proc[p].pc # "idle"
  /\ Fault
  /\ hurt' = HurtBy(p)
  /\ proc' = [proc EXCEPT ![p] = Idle]
  /\ UNCHANGED <<world, delivery, active, claim, lapsed>>

EntryStep(p) ==
  \/ NextEntry(p) \/ LookUp(p) \/ InsertDelivery(p)
  \/ PersistInteraction(p) \/ MarkFailed(p) \/ Finish(p)

WorkerStep(p) == Discover(p) \/ ClaimChannel(p) \/ ReleaseChannel(p) \/ EntryStep(p)

IngestNext ==
  \/ \E v \in Videos : Publish(v) \/ VideoAges(v) \/ HubGivesUp(v)
  \/ RenewalBeginsOrEnds \/ ClaimAges
  \/ DisableOrReactivate
  \/ \E p \in Notifiers :
       \/ \E vs \in SUBSET Videos : Notified(p, vs)
       \/ EntryStep(p) \/ AnswerHub(p)
  \/ \E p \in Workers : WorkerStep(p)
  \/ \E p \in Operators :
       (\E v \in Videos : Execute(p, v)) \/ EntryStep(p)
  \/ \E p \in Procs : PersistFails(p) \/ EntryFails(p) \/ Throws(p) \/ Crash(p)

IngestSpec == IngestInit /\ [][IngestNext]_ingestVars

\* The worker's timer, its requests that end, and the clock.
Fairness ==
  /\ \A p \in Workers : WF_ingestVars(WorkerStep(p))
  /\ WF_ingestVars(ClaimAges)
FairIngestSpec == IngestSpec /\ Fairness

-----------------------------------------------------------------------------
(* Properties.                                                             *)

\* Shape of the rows and of what the processes hold.
IngestTypeOK ==
  /\ age \in [Videos -> {"unpublished", "fresh", "due", "old"}]
  /\ undelivered \subseteq Videos /\ undelivered \cap missed = {}
  /\ delivery \in [Videos -> {"none", "processing", "failed", "completed"}]
  /\ claim.owner \in Workers \cup {None}
  /\ claim.stale => claim.owner # None
  /\ \A p \in Procs : proc[p].pc \in {"idle", "claim", "next", "look",
       "insert", "persist", "fail", "finish"}

\* However it is found, a video activates its event once, and not at all when
\* it is older than the subscription (the unique delivery identity and
\* isHistoricalEntry in processEntry).
ActivatedOnce ==
  \A v \in Videos : active[v] <= (IF v \in Historical THEN 0 ELSE 1)

\* A video the hub got its 2xx for has activated its event, or was older than
\* the subscription, unless its processing was cut short or failed: then the
\* row it left makes every later attempt a duplicate
\* (processCodeClipYouTubeWebSubNotification).
AcceptedIsActivated ==
  \A v \in Videos \ (undelivered \cup missed \cup hurt \cup Historical) :
    age[v] # "unpublished" =>
      \/ active[v] = 1 /\ delivery[v] # "failed"
      \/ \E p \in Procs : proc[p].video = v /\ proc[p].pc = "persist"

Busy(p) == proc[p].pc \notin {"idle", "claim"}

\* Two workers are at the channel only after a claim outlived its lease
\* (claimCodeClipYouTubeReconciliationSubscription).
OneWorkerPerChannel ==
  Cardinality({p \in Workers : Busy(p)}) > 1 => lapsed

\* A video that stays in the window of the workers is taken up for the
\* event, whatever the hub does and whichever workers die, once
\* the subscription and the binding stay
\* (processCodeClipYouTubeReconciliationRun).
MissedIsFound ==
  \A v \in Videos \ Historical :
    <>[](age[v] = "due" /\ sub = "active" /\ bound) => <>(delivery[v] # "none")

\* Activation is exact: at most once however a video is found, and not less than once when
\* the hub was told so.
ActivationIsExact == IngestTypeOK /\ ActivatedOnce /\ AcceptedIsActivated

=============================================================================
