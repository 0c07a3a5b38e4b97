--------------------------- MODULE ProviderIntake ---------------------------
(* POST /codeclip/provider/:provider/keyword for one message of a live provider. *)
(* The provider posts it again until it is answered 2xx, and two posts can be in  *)
(* hand at once.  Three records decide what a post may do: the rows of the        *)
(* Postgres ledger (one per event the account was bound to), the Redis claim      *)
(* (SET NX, 300 s) and the response kept in Redis (86400 s).  No two of them      *)
(* change in one step, and no UPDATE of the ledger looks at the row it changes.   *)
(* What the core transaction holds and how its failure is made up later is        *)
(* ClipPersistence; posts turned away unread (401, 400, 429) change nothing.      *)
EXTENDS Integers, FiniteSets

CONSTANTS Event,     \* event codes the account may be bound to
          Request,   \* the handlers that can be in progress at once
          Operator,  \* the requests to bind the account, each made once
          NoEvent,   \* no active binding
          MaxPosts,  \* bound: posts of the message
          MaxFaults, \* bound: statements that raise, deaths
          MaxRebinds \* bound: bindings disabled

ASSUME NoEventAssumption == NoEvent \notin Event

VARIABLES binding,   \* operator -> the binding it makes, and its status
          row,       \* event -> the delivery's row
          key,       \* event -> the idempotency claim is there
          response,  \* event -> the response is there
          req,       \* the handlers in progress
          posts, faults, rebinds,
          stored,    \* history: event -> its core transaction committed
          runs,      \* history: event -> how often the core was begun
          acked,     \* history: the 2xx answers given
          expired,   \* history: events whose claim ran out
          abandoned, \* history: events whose handler ended without a result
          failedLate,\* history: a failure came with a 202 given or another post in hand
          rebound    \* history: the binding changed with a post between look-up and insert

vars == <<binding, row, key, response, req, posts, faults, rebinds,
          stored, runs, acked, expired, abandoned, failedLate, rebound>>

Absent == [processing |-> "absent", core |-> "not_started", completion |-> "not_completed"]
Created == [Absent EXCEPT !.processing = "processing"]
Unmade == [status |-> "absent", event |-> NoEvent]
Idle == [pc |-> "idle", event |-> NoEvent, seen |-> Absent]

Init ==
  /\ binding = [o \in Operator |-> Unmade]
  /\ row = [e \in Event |-> Absent]
  /\ key = [e \in Event |-> FALSE] /\ response = [e \in Event |-> FALSE]
  /\ req = [r \in Request |-> Idle]
  /\ posts = 0 /\ faults = 0 /\ rebinds = 0
  /\ stored = [e \in Event |-> FALSE] /\ runs = [e \in Event |-> 0]
  /\ acked = {} /\ expired = {} /\ abandoned = {}
  /\ failedLate = FALSE /\ rebound = FALSE

\* hasCodeClipProviderDeliveryReplayInvariants: the terminal flag, the retry flag
\* and the response move with the completion and the processing state.
Replayable(d) ==
  d.core = "committed" /\ d.processing = "completed" /\ d.completion = "completed"

\* The account has one active binding (the partial unique index).
IsActive(o) == binding[o].status = "active"
Bound ==
  IF \E o \in Operator : IsActive(o)
  THEN binding[CHOOSE o \in Operator : IsActive(o)].event ELSE NoEvent

Go(r, pc) == req' = [req EXCEPT ![r].pc = pc]
Answer(r) == req' = [req EXCEPT ![r] = Idle]
Ack(r, code) == Answer(r) /\ acked' = acked \cup {code}
EventOf(r) == req[r].event
CanFail == faults < MaxFaults
Fault == faults' = faults + 1
Counters == <<posts, rebinds>>
History == <<stored, runs, expired, abandoned, failedLate, rebound>>

------------------------------------------------------------------------------
(* The look-up, the binding and the row *)

Post(r) ==
  /\ req[r].pc = "idle" /\ posts < MaxPosts
  /\ posts' = posts + 1
  /\ Go(r, "lookup")
  /\ UNCHANGED <<binding, row, key, response, faults, rebinds, acked, History>>

\* Mutant: the look-up goes by the event of today's binding.
RowsOfBoundEvent == {e \in Event : row[e] # Absent /\ e = Bound}

\* Rows of the message, whatever their event: more than one is "ambiguous".
Rows == {e \in Event : row[e] # Absent}

InProgress(d) == d.processing = "processing"

\* resolveCodeClipProviderPreBindingReplay: only a message without a row goes on.
LookUp(r) ==
  /\ req[r].pc = "lookup"
  /\ \/ Rows = {} /\ Go(r, "route") /\ UNCHANGED acked
     \/ \E e \in Rows :
          /\ Cardinality(Rows) = 1
          /\ \/ /\ Replayable(row[e])
                /\ req' = [req EXCEPT ![r] = [pc |-> "replay", event |-> e, seen |-> row[e]]]
                /\ UNCHANGED acked
             \/ ~Replayable(row[e]) /\ InProgress(row[e]) /\ Ack(r, "processing")
             \/ ~Replayable(row[e]) /\ ~InProgress(row[e]) /\ Answer(r) /\ UNCHANGED acked
     \/ Cardinality(Rows) > 1 /\ Answer(r) /\ UNCHANGED acked
  /\ UNCHANGED <<binding, row, key, response, faults, Counters, History>>

\* The replay of a completed row: the cached response, or the row's own, which is
\* then put back in the cache.
Replay(r) ==
  /\ req[r].pc = "replay"
  /\ response' = [response EXCEPT ![EventOf(r)] = TRUE]
  /\ Ack(r, "ok")
  /\ UNCHANGED <<binding, row, key, faults, Counters, History>>

\* The active binding and its event, as they are now.  Without a binding, or when the
\* event does not take the keyword, 404; a binding of another channel is acknowledged
\* and ignored.
Route(r) ==
  /\ req[r].pc = "route"
  /\ \/ /\ Bound # NoEvent
        /\ req' = [req EXCEPT ![r].pc = "insert", ![r].event = Bound]
        /\ UNCHANGED acked
     \/ Answer(r) /\ UNCHANGED acked
     \/ Bound # NoEvent /\ Ack(r, "ignored")
  /\ UNCHANGED <<binding, row, key, response, faults, Counters, History>>

\* INSERT ... ON CONFLICT DO NOTHING; a row that is there is read by a second statement.
InsertRow(r) ==
  LET e == EventOf(r)
  IN  /\ req[r].pc = "insert"
      /\ \/ /\ row[e] = Absent
            /\ row' = [row EXCEPT ![e] = Created]
            /\ req' = [req EXCEPT ![r].pc = "claim", ![r].seen = Created]
         \/ row[e] # Absent /\ Go(r, "existing") /\ UNCHANGED row
      /\ UNCHANGED <<binding, key, response, faults, acked, Counters, History>>

ReadExisting(r) ==
  /\ req[r].pc = "existing"
  /\ req' = [req EXCEPT ![r].pc = "claim", ![r].seen = row[EventOf(r)]]
  /\ UNCHANGED <<binding, row, key, response, faults, acked, Counters, History>>

------------------------------------------------------------------------------
(* The claim *)

\* Mutant: SET without NX.
ClaimableAlways(e) == TRUE

Claimable(e) == ~key[e]

\* A claim won on a row that had been seen committed is not used, and not given back.
ClaimKey(r) ==
  LET e == EventOf(r)
  IN  /\ req[r].pc = "claim" /\ Claimable(e)
      /\ key' = [key EXCEPT ![e] = TRUE]
      /\ IF req[r].seen.core = "committed" THEN Answer(r) ELSE Go(r, "begin")
      /\ UNCHANGED <<binding, row, response, faults, acked, Counters, History>>

ClaimRefused(r) ==
  /\ req[r].pc = "claim" /\ ~Claimable(EventOf(r))
  /\ Go(r, "duplicate")
  /\ UNCHANGED <<binding, row, key, response, faults, acked, Counters, History>>

\* A duplicate is judged by the cached response and by the row as it was read before.
Duplicate(r) ==
  LET e == EventOf(r)
      seen == req[r].seen
  IN  /\ req[r].pc = "duplicate"
      /\ \/ response[e] /\ seen.core = "committed" /\ Go(r, "reconcile") /\ UNCHANGED <<response, acked>>
         \/ response[e] /\ seen.core # "committed" /\ Answer(r) /\ UNCHANGED <<response, acked>>
         \/ ~response[e] /\ Replayable(seen) /\ Ack(r, "ok") /\ response' = [response EXCEPT ![e] = TRUE]
         \/ /\ ~response[e] /\ seen.core = "committed" /\ ~Replayable(seen)
            /\ Answer(r) /\ UNCHANGED <<response, acked>>
         \/ ~response[e] /\ seen.core # "committed" /\ Ack(r, "processing") /\ UNCHANGED response
      /\ UNCHANGED <<binding, row, key, faults, Counters, History>>

\* The cached response completes a row that had only been committed.
Reconcile(r) ==
  /\ req[r].pc = "reconcile"
  /\ row' = [row EXCEPT ![EventOf(r)].processing = "completed", ![EventOf(r)].completion = "completed"]
  /\ Ack(r, "ok")
  /\ UNCHANGED <<binding, key, response, faults, Counters, History>>

------------------------------------------------------------------------------
(* The core: what the holder of the claim does *)

BeginCore(r) ==
  /\ req[r].pc = "begin"
  /\ row' = [row EXCEPT ![EventOf(r)].core = "processing"]
  /\ runs' = [runs EXCEPT ![EventOf(r)] = @ + 1]
  /\ Go(r, "core")
  /\ UNCHANGED <<binding, key, response, faults, acked, Counters,
                 stored, expired, abandoned, failedLate, rebound>>

\* handleCodeClipKeywordEntry: the transaction commits; or it fails, as it does too
\* when the answer to COMMIT is lost; or the event is over and nothing is attempted.
RunCore(r) ==
  LET e == EventOf(r)
      commits == stored' = [stored EXCEPT ![e] = TRUE]
  IN  /\ req[r].pc = "core"
      /\ \/ commits /\ Go(r, "committed") /\ UNCHANGED faults
         \/ CanFail /\ Fault /\ (commits \/ UNCHANGED stored) /\ Go(r, "critical")
         \/ Go(r, "unconfirmed") /\ UNCHANGED <<stored, faults>>
      /\ UNCHANGED <<binding, row, key, response, acked, Counters,
                     runs, expired, abandoned, failedLate, rebound>>

\* Mutant: the processing state is left alone.
FailedHalf(d, pc) == [d EXCEPT !.core = IF pc = "critical" THEN "failed" ELSE "unknown",
                               !.completion = "not_completed"]
Failed(d, pc) == [processing |-> "failed",
                  core |-> IF pc = "critical" THEN "failed" ELSE "unknown",
                  completion |-> "not_completed"]

RecordFailure(r) ==
  LET e == EventOf(r)
  IN  /\ req[r].pc \in {"critical", "unconfirmed"}
      /\ row' = [row EXCEPT ![e] = Failed(@, req[r].pc)]
      /\ failedLate' = (failedLate \/ "processing" \in acked
                        \/ \E s \in Request \ {r} : req[s].pc # "idle")
      /\ Answer(r)
      /\ UNCHANGED <<binding, key, response, faults, acked, Counters,
                     stored, runs, expired, abandoned, rebound>>

RecordCommitted(r) ==
  /\ req[r].pc = "committed"
  /\ row' = [row EXCEPT ![EventOf(r)].core = "committed"]
  /\ Go(r, "respond")
  /\ UNCHANGED <<binding, key, response, faults, acked, Counters, History>>

RecordResponse(r) ==
  /\ req[r].pc = "respond"
  /\ response' = [response EXCEPT ![EventOf(r)] = TRUE]
  /\ Go(r, "complete")
  /\ UNCHANGED <<binding, row, key, faults, acked, Counters, History>>

RecordCompleted(r) ==
  /\ req[r].pc = "complete"
  /\ row' = [row EXCEPT ![EventOf(r)].processing = "completed", ![EventOf(r)].completion = "completed"]
  /\ Ack(r, "ok")
  /\ UNCHANGED <<binding, key, response, faults, Counters, History>>

------------------------------------------------------------------------------
(* What goes wrong, and time *)

\* Holders of the claim, and those on their way to it.
WorkPC == {"claim", "begin", "core", "critical", "unconfirmed", "committed", "respond", "complete"}
Working(e) == \E r \in Request : req[r].pc \in WorkPC /\ EventOf(r) = e

\* A statement raises or is not confirmed (500 or 503), or the process dies: nothing is
\* written, the claim stays, and no other post takes the work over.
Abort(r) ==
  /\ req[r].pc # "idle" /\ CanFail /\ Fault
  /\ abandoned' = IF req[r].pc \in WorkPC THEN abandoned \cup {EventOf(r)} ELSE abandoned
  /\ Answer(r)
  /\ UNCHANGED <<binding, row, key, response, acked, Counters,
                 stored, runs, expired, failedLate, rebound>>

\* An UPDATE commits, and its answer is lost.
UpdateAnswerLost(r) ==
  LET e == EventOf(r)
  IN  /\ CanFail /\ Fault
      /\ \/ req[r].pc = "begin" /\ row' = [row EXCEPT ![e].core = "processing"]
         \/ req[r].pc = "committed" /\ row' = [row EXCEPT ![e].core = "committed"]
         \/ /\ req[r].pc = "complete"
            /\ row' = [row EXCEPT ![e].processing = "completed", ![e].completion = "completed"]
      /\ abandoned' = abandoned \cup {e}
      /\ Answer(r)
      /\ UNCHANGED <<binding, key, response, acked, Counters,
                     stored, runs, expired, failedLate, rebound>>

KeyExpires(e) ==
  /\ key[e]
  /\ key' = [key EXCEPT ![e] = FALSE]
  /\ expired' = expired \cup {e}
  /\ UNCHANGED <<binding, row, response, req, faults, acked, Counters,
                 stored, runs, abandoned, failedLate, rebound>>

ResponseExpires(e) ==
  /\ response[e] /\ ~key[e]
  /\ response' = [response EXCEPT ![e] = FALSE]
  /\ UNCHANGED <<binding, row, key, req, faults, acked, Counters, History>>

------------------------------------------------------------------------------
(* The operators' bindings: each request is one transaction, READ COMMITTED *)

Rebinds ==
  rebound' = (rebound \/ \E r \in Request : req[r].pc \in {"route", "insert"})
BindingOnly ==
  UNCHANGED <<row, key, response, req, posts, faults, acked,
              stored, runs, expired, abandoned, failedLate>>

\* A new binding is refused while the account has one: a disabled one "must be
\* reactivated", so that the account stays with its event.
CreateReads(o) ==
  /\ binding[o] = Unmade
  /\ \A p \in Operator : binding[p].status \notin {"active", "disabled"}
  /\ \E e \in Event : binding' = [binding EXCEPT ![o] = [status |-> "reading", event |-> e]]
  /\ UNCHANGED <<rebinds, rebound>> /\ BindingOnly

\* What was read is not read again: the index refuses a second active binding, and
\* nothing refuses one beside a binding made and disabled in the meantime.
CreateInserts(o) ==
  /\ binding[o].status = "reading"
  /\ binding' = [binding EXCEPT ![o].status = IF Bound = NoEvent THEN "active" ELSE "refused"]
  /\ Rebinds
  /\ UNCHANGED rebinds /\ BindingOnly

Disable(o) ==
  /\ IsActive(o) /\ rebinds < MaxRebinds
  /\ rebinds' = rebinds + 1
  /\ binding' = [binding EXCEPT ![o].status = "disabled"]
  /\ Rebinds /\ BindingOnly

Reactivate(o) ==
  /\ binding[o].status = "disabled" /\ Bound = NoEvent
  /\ binding' = [binding EXCEPT ![o].status = "active"]
  /\ Rebinds
  /\ UNCHANGED rebinds /\ BindingOnly

HandlerStep(r) ==
  \/ LookUp(r) \/ Replay(r) \/ Route(r) \/ InsertRow(r) \/ ReadExisting(r)
  \/ ClaimKey(r) \/ ClaimRefused(r) \/ Duplicate(r) \/ Reconcile(r)
  \/ BeginCore(r) \/ RunCore(r) \/ RecordFailure(r)
  \/ RecordCommitted(r) \/ RecordResponse(r) \/ RecordCompleted(r)

Next ==
  \/ \E r \in Request : Post(r) \/ HandlerStep(r) \/ Abort(r) \/ UpdateAnswerLost(r)
  \/ \E e \in Event : KeyExpires(e) \/ ResponseExpires(e)
  \/ \E o \in Operator : CreateReads(o) \/ CreateInserts(o) \/ Disable(o) \/ Reactivate(o)

Spec == Init /\ [][Next]_vars

------------------------------------------------------------------------------
Rowtype == [processing : {"absent", "processing", "completed", "failed"},
            core : {"not_started", "processing", "committed", "failed", "unknown"},
            completion : {"not_completed", "completed"}]

TypeOK ==
  /\ binding \in [Operator -> [status : {"absent", "reading", "active", "disabled", "refused"},
                              event : Event \cup {NoEvent}]]
  /\ Cardinality({o \in Operator : IsActive(o)}) <= 1
  /\ row \in [Event -> Rowtype]
  /\ \A r \in Request : req[r].event \in Event \cup {NoEvent} /\ req[r].seen \in Rowtype
  /\ acked \subseteq {"ok", "processing", "ignored"}

\* Whatever says that a message was handled - the ledger, the cached response, an
\* answer 200 with a payload - says so only after the transaction committed, through
\* every interleaving of posts and every lost answer.
SaidDoneIsStored ==
  /\ \A e \in Event : (row[e].core = "committed" \/ response[e]) => stored[e]
  /\ "ok" \in acked => \E e \in Event : stored[e]

\* A message's core is run a second time for an event only after the claim ran out.
\* The claim is all there is: the row is judged as it was read before the claim, so a
\* post that waited through the 300 s runs a committed message again.
SecondRunNeedsExpiry ==
  \A e \in Event : runs[e] > 1 => e \in expired

\* A message gets rows under two events, after which every post of it is refused as
\* ambiguous, only if the binding moved while a post was between its look-up and its
\* insert: a redelivery after a rebind finds the old row.
OneRowPerMessage ==
  \A e, f \in Event : row[e] # Absent /\ row[f] # Absent => e = f \/ rebound

\* A 202 tells the provider that somebody is at work on the message, and it will not be
\* sent again: then it is committed, or being worked on, or its handler died on it, or
\* the failure crossed with the 202 itself.
AcceptedIsWorkedOn ==
  "processing" \in acked =>
    \/ failedLate
    \/ \E e \in Event : stored[e] \/ Working(e) \/ e \in abandoned

\* A row in processing is somebody's work, or its handler ended on the way; and such
\* an abandoned row nothing ever takes up again: every post of it is answered 202.
ProcessingHasAWorker ==
  \A e \in Event :
    row[e].processing = "processing" => Working(e) \/ e \in abandoned

\* What a provider is told, or an operator reads, of a message is so: done means stored, in
\* progress means somebody is or was at work on it.
AnswersAreTrue == TypeOK /\ SaidDoneIsStored /\ AcceptedIsWorkedOn /\ ProcessingHasAWorker

==============================================================================
