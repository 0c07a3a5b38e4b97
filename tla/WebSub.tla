------------------------------- MODULE WebSub -------------------------------
(***************************************************************************)
(* The WebSub subscriptions of one YouTube channel: the operator's create, *)
(* renew and unsubscribe requests, the dispatch of each to the hub, the    *)
(* hub's verification callbacks that move the rows, and the creator's      *)
(* connection of the channel, which inserts a row that waits for the       *)
(* operator's dispatch (youtube-websub-operations.js,                      *)
(* youtube-websub-subscriptions.js, youtube-websub-callback.js and         *)
(* youtube-connection.js under src/verticals/codeclip).                    *)
(*                                                                         *)
(* Every statement on a row is one UPDATE and one action; between two of   *)
(* them anything may happen.  The hub is external: it takes or refuses a   *)
(* request, and verifies later what it took.  Notifications are the        *)
(* subject of YouTubeIngest.                                               *)
(***************************************************************************)
EXTENDS YouTubeBase, FiniteSets

CONSTANTS
  Requests,    \* operator requests of a behaviour, each made once
  Checks,      \* verification callbacks that may be in flight together
  Rows,        \* rows of codeclip_youtube_websub_subscriptions
  OAuthStates  \* rows of codeclip_youtube_oauth_states

\* None is no request and no row, and no word a row or a request may hold in its place.
ASSUME RequestAssumption ==
  /\ None \notin Requests \cup Rows
  /\ None \notin {"subscribe", "renew", "unsubscribe", "connected"}

VARIABLES
  rows,     \* row |-> status, pending_mode, dispatch, whether it has its first
            \* activated video, and rev for updated_at
  op,       \* request |-> what the process that serves it holds in memory
  chk,      \* callback |-> what its handler holds in memory
  consumed, \* the OAuth states that were used
  own,      \* the row whose callback_id is derived from the channel, once made
  owed,     \* hub: requests taken and not verified yet
  taken,    \* hub: every request it took
  hub,      \* hub: row |-> it sends notifications to that callback
  unleased,   \* rows whose lease_expires_at has passed
  stolen,   \* history: rows whose dispatch was claimed again when stale
  raced,    \* history: rows written on the strength of a reading since
            \* overtaken, or while the answer of another callback was on its
            \* way, or whose verification was answered in vain
  apart     \* history: rows whose last write the hub may not have heard of, or
            \* not in its order, until a callback writes and is answered alone

vars == <<rows, op, chk, consumed, own, owed, taken, hub, unleased, faults,
          stolen, raced, apart>>
hubVars == <<owed, taken, hub, unleased>>
history == <<stolen, raced, apart>>
connection == <<consumed, own>>

NoDispatch == [attempt |-> None, mode |-> None, status |-> "none",
               retry |-> FALSE, stale |-> FALSE]
IdleOp == [pc |-> "idle", kind |-> None, row |-> None, moved |-> FALSE,
           rev |-> 0, answer |-> None, state |-> None]
IdleChk == [pc |-> "idle", row |-> None, mode |-> None, saw |-> None]

Open == {"pending_subscribe", "active", "pending_renewal", "pending_unsubscribe"}

\* The open rows whose subscription the hub has verified.
Verified == Open \ {"pending_subscribe"}

\* DISPATCH_MODE_CONTRACTS.
PendingStatus(mode) ==
  CASE mode = "subscribe" -> "pending_subscribe"
    [] mode = "renew" -> "pending_renewal"
    [] mode = "unsubscribe" -> "pending_unsubscribe"

HubMode(mode) == IF mode = "unsubscribe" THEN "unsubscribe" ELSE "subscribe"

Init ==
  /\ rows = [w \in Rows |-> [status |-> "none", mode |-> None, first |-> FALSE,
                             dispatch |-> NoDispatch, rev |-> 0]]
  /\ op = [q \in Requests |-> IdleOp]
  /\ chk = [v \in Checks |-> IdleChk] 
  /\ consumed = {} /\ own = None
  /\ owed = {} /\ taken = {} /\ hub = [w \in Rows |-> FALSE] /\ unleased = {}
  /\ faults = 0 /\ stolen = {} /\ raced = {} /\ apart = {}

OthersOpen(w) == \E x \in Rows \ {w} : rows[x].status \in Open

\* The unique index over open rows refuses to open a second one.
IndexAllows(w) == rows[w].status \in Open \/ ~ OthersOpen(w)

Moved(w, status, mode) ==
  [rows EXCEPT ![w].status = status, ![w].mode = mode, ![w].rev = @ + 1]

-----------------------------------------------------------------------------
(* The operator's requests, up to the dispatch.                            *)

Ask(q, kind, w) ==
  /\ op[q].pc = "idle"
  /\ op' = [op EXCEPT ![q] =
       IF kind = "subscribe" THEN [IdleOp EXCEPT !.pc = "find", !.kind = kind]
       ELSE [IdleOp EXCEPT !.pc = "read", !.kind = kind, !.row = w]]
  /\ kind # "subscribe" => rows[w].status # "none"
  /\ UNCHANGED <<connection, rows, chk, hubVars, faults, history>>

\* An open row of the channel: one that waits for the hub is dispatched
\* again, any other is the answer.  "refind" follows a unique violation.
FindOpen(q) ==
  /\ op[q].pc \in {"find", "refind"}
  /\ \/ \E w \in Rows :
          /\ rows[w].status \in Open
          /\ op' = [op EXCEPT
               ![q].pc = IF rows[w].status = "pending_subscribe" THEN "claim" ELSE "done",
               ![q].row = w]
     \/ /\ \A w \in Rows : rows[w].status \notin Open
        /\ op' = [op EXCEPT ![q].pc = IF @ = "find" THEN "insert" ELSE "done"]
  /\ UNCHANGED <<connection, rows, chk, hubVars, faults, history>>

\* createPending: a new row, which waits for the hub's verification.
Pending(w) == Moved(w, "pending_subscribe", "subscribe")

CreatePending(q) ==
  /\ op[q].pc = "insert"
  /\ \E w \in Rows :
       /\ rows[w].status = "none"
       /\ IF IndexAllows(w)
            THEN /\ rows' = Pending(w)
                 /\ op' = [op EXCEPT ![q].pc = "claim", ![q].row = w]
            ELSE /\ op' = [op EXCEPT ![q].pc = "refind"]
                 /\ UNCHANGED rows
  /\ UNCHANGED <<connection, chk, hubVars, faults, history>>

\* The statuses `expired' and `disabled' are accepted here and there, but
\* nothing in the code writes them.
ReadRow(q) ==
  LET row == rows[op[q].row]
  IN /\ op[q].pc = "read"
     /\ op' = [op EXCEPT ![q].pc =
          CASE row.status = "active" -> "mark"
            [] row.status = PendingStatus(op[q].kind) -> "claim"
            [] OTHER -> "done"]
     /\ UNCHANGED <<connection, rows, chk, hubVars, faults, history>>

\* Mutant: the mark does not look at the row again.
AnyStatus(w) == rows[w].status # "none"

StillActive(w) == rows[w].status = "active" /\ rows[w].mode = None

MarkRenewalPending(q) ==
  LET w == op[q].row  still == StillActive(w)
  IN /\ op[q].pc = "mark" /\ op[q].kind = "renew"
     /\ rows' = IF still THEN Moved(w, "pending_renewal", "subscribe") ELSE rows
     /\ op' = [op EXCEPT ![q].pc = "claim", ![q].moved = still,
                         ![q].rev = rows'[w].rev]
     /\ UNCHANGED <<connection, chk, hubVars, faults, history>>

\* The mark for unsubscription does not look at the row again.
MarkUnsubscribePending(q) ==
  LET w == op[q].row
  IN /\ op[q].pc = "mark" /\ op[q].kind = "unsubscribe"
     /\ IF IndexAllows(w)
          THEN /\ rows' = Moved(w, "pending_unsubscribe", "unsubscribe")
               /\ op' = [op EXCEPT ![q].pc = "claim"]
               /\ raced' = IF rows[w].status = "active" THEN raced ELSE raced \cup {w}
               /\ apart' = IF rows[w].status \in Verified THEN apart ELSE apart \cup {w}
          ELSE /\ op' = [op EXCEPT ![q].pc = "done"]
               /\ UNCHANGED <<rows, raced, apart>>
     /\ UNCHANGED <<connection, chk, hubVars, faults, stolen>>

-----------------------------------------------------------------------------
(* The creator's connection of the channel.                                *)

\* The browser comes back with a state, for the first time or again.
ConnectionReturns(q, s) ==
  /\ op[q].pc = "idle"
  /\ op' = [op EXCEPT ![q] =
       [IdleOp EXCEPT !.pc = "consume", !.kind = "connect", !.state = s]]
  /\ UNCHANGED <<rows, chk, connection, hubVars, faults, history>>

\* Mutant: a state that was used may be used again.
UsableAgain(s) == s \in OAuthStates

Usable(s) == s \notin consumed

\* UPDATE ... WHERE consumed_at IS NULL.  Whatever fails from here on, a
\* creator who declines included, has used the state up.
ConsumeState(q) ==
  LET s == op[q].state
  IN /\ op[q].pc = "consume" /\ Usable(s)
     /\ op' = [op EXCEPT ![q].pc = "exchange"]
     /\ consumed' = consumed \cup {s}
     /\ UNCHANGED <<rows, own, chk, hubVars, faults, history>>

\* Used before, or expired.
StateRefused(q) ==
  /\ op[q].pc = "consume"
  /\ op' = [op EXCEPT ![q].pc = "done"]
  /\ UNCHANGED <<rows, chk, connection, hubVars, faults, history>>

\* The event, the tokens and the channel; or one of them is not to be had, or
\* the account belongs to another event.
ExchangeCode(q) ==
  /\ op[q].pc = "exchange"
  /\ \E next \in {"attach", "done"} : op' = [op EXCEPT ![q].pc = next]
  /\ UNCHANGED <<rows, chk, connection, hubVars, faults, history>>

\* In one transaction with the binding: a row that is open is taken as it is.
AttachReads(q) ==
  LET open == \E w \in Rows : rows[w].status \in Open
  IN /\ op[q].pc = "attach"
     /\ op' = [op EXCEPT ![q].pc = IF open THEN "done" ELSE "attach_insert",
                          ![q].answer = IF open THEN "connected" ELSE None]
     /\ UNCHANGED <<rows, chk, connection, hubVars, faults, history>>

\* The new row waits for an operator's create, which dispatches it.  Its
\* callback_id is the channel's own and unique: once that row has ended, a
\* connection fails here, and rolls back, for good.
AttachInserts(q) ==
  /\ op[q].pc = "attach_insert"
  /\ \E w \in Rows :
       /\ rows[w].status = "none"
       /\ LET inserts == own = None /\ IndexAllows(w)
          IN /\ rows' = IF inserts THEN Pending(w) ELSE rows
             /\ own' = IF inserts THEN w ELSE own
             /\ op' = [op EXCEPT ![q].pc = "done",
                         ![q].answer = IF inserts THEN "connected" ELSE "conflict"]
  /\ UNCHANGED <<chk, consumed, hubVars, faults, history>>

-----------------------------------------------------------------------------
(* The dispatch: claim, request to the hub, record.                        *)

\* Not dispatched, stale, to be tried again, or left over by the row's last operation.
Claimable(w, mode) ==
  /\ rows[w].status = PendingStatus(mode)
  /\ rows[w].mode = HubMode(mode)
  /\ LET d == rows[w].dispatch
     IN \/ d = NoDispatch
        \/ d.mode = mode /\ d.status = "started" /\ d.stale
        \/ d.mode = mode /\ d.status = "failed" /\ d.retry
        \/ /\ mode # "subscribe" /\ d.mode \in {"subscribe", "renew"}
           /\ d.status = "accepted" \/ (d.status = "failed" /\ ~ d.retry)

Claim(q) ==
  LET w == op[q].row  mode == op[q].kind
  IN /\ op[q].pc = "claim"
     /\ IF Claimable(w, mode)
          THEN /\ rows' = [rows EXCEPT ![w].rev = @ + 1, ![w].dispatch =
                     [attempt |-> q, mode |-> mode, status |-> "started",
                      retry |-> FALSE, stale |-> FALSE]]
               /\ op' = [op EXCEPT ![q].pc = "hub"]
               /\ stolen' = IF rows[w].dispatch.stale
                            THEN stolen \cup {w} ELSE stolen
          ELSE /\ op' = [op EXCEPT ![q].pc = IF op[q].moved THEN "recover" ELSE "done"]
               /\ UNCHANGED <<rows, stolen>>
     /\ UNCHANGED <<connection, chk, hubVars, faults, raced, apart>>

\* The dispatch of the marked row, as the recovery has it: the mapping has left
\* the metadata out, and what it then compares with is the JSON value null, which
\* is neither a dispatch nor the absence of one (toInternal...Subscription).
MappedDispatch == [NoDispatch EXCEPT !.status = "json_null"]

UnchangedSinceMark(q) ==
  LET row == rows[op[q].row]
  IN /\ row.status = "pending_renewal" /\ row.rev = op[q].rev
     /\ row.dispatch = MappedDispatch

\* recoverRenewalPendingConflict: the renewal could not be dispatched.  With the
\* mapping as it is the row stays pending_renewal whoever has it.
Recover(q) ==
  /\ op[q].pc = "recover"
  /\ rows' = IF UnchangedSinceMark(q) THEN Moved(op[q].row, "active", None) ELSE rows
  /\ op' = [op EXCEPT ![q].pc = "done"]
  /\ UNCHANGED <<connection, chk, hubVars, faults, history>>

HubAccepts(q) ==
  /\ op[q].pc = "hub"
  /\ owed' = owed \cup {q} /\ taken' = taken \cup {q}
  /\ op' = [op EXCEPT ![q].pc = "record", ![q].answer = "accepted"]
  /\ UNCHANGED <<connection, rows, chk, hub, unleased, faults, history>>

\* A refusal, final or for now; or no answer in time, whatever the hub did.
HubFails(q) ==
  /\ op[q].pc = "hub"
  /\ Fault
  /\ \/ /\ \E a \in {"refused", "retryable"} :
             op' = [op EXCEPT ![q].pc = "record", ![q].answer = a]
        /\ UNCHANGED <<owed, taken>>
     \/ /\ op' = [op EXCEPT ![q].pc = "record", ![q].answer = "retryable"]
        /\ owed' = owed \cup {q} /\ taken' = taken \cup {q}
  /\ UNCHANGED <<connection, rows, chk, hub, unleased, history>>

\* Mutant: any attempt's result is recorded.
RecordsForAny(q) ==
  LET row == rows[op[q].row]
  IN /\ row.dispatch.status = "started" /\ row.dispatch.mode = op[q].kind
     /\ row.status \in {PendingStatus(op[q].kind), "active", "unsubscribed"}

Records(q) ==
  LET row == rows[op[q].row]  kind == op[q].kind
      settled == IF kind = "unsubscribe" THEN "unsubscribed" ELSE "active"
  IN /\ row.dispatch.attempt = q /\ row.dispatch.status = "started"
     /\ row.status \in {PendingStatus(kind), settled}

RecordResult(q) ==
  LET w == op[q].row  answer == op[q].answer
  IN /\ op[q].pc = "record"
     /\ rows' = IF ~ Records(q) THEN rows
                ELSE [rows EXCEPT ![w].rev = @ + 1,
                       ![w].dispatch.status =
                          IF answer = "accepted" THEN "accepted" ELSE "failed",
                       ![w].dispatch.retry = answer = "retryable"]
     /\ op' = [op EXCEPT ![q].pc = "done"]
     /\ UNCHANGED <<connection, chk, hubVars, faults, history>>

\* The process dies, or a statement fails: nothing takes the request up.
RequestLost(q) ==
  /\ op[q].pc \notin {"idle", "done", "lost"}
  /\ Fault
  /\ op' = [op EXCEPT ![q].pc = "lost"]
  /\ UNCHANGED <<connection, rows, chk, hubVars, history>>

\* staleAfterEpochMs passes.
DispatchAges(w) ==
  /\ rows[w].dispatch.status = "started" /\ ~ rows[w].dispatch.stale
  /\ rows' = [rows EXCEPT ![w].dispatch.stale = TRUE]
  /\ UNCHANGED <<connection, op, chk, hubVars, faults, history>>

\* recordFirstActivatedVideo: a notification that found the row active once
\* writes it, whatever the row is by then, and updated_at moves.
FirstVideo(w) ==
  /\ rows[w].status \notin {"none", "pending_subscribe"} /\ ~ rows[w].first
  /\ rows' = [rows EXCEPT ![w].first = TRUE, ![w].rev = @ + 1]
  /\ UNCHANGED <<connection, op, chk, hubVars, faults, history>>

-----------------------------------------------------------------------------
(* The hub's verification and its callback.                                *)

HubVerifies(v, q) ==
  /\ chk[v].pc = "idle" /\ q \in owed
  /\ owed' = owed \ {q}
  /\ chk' = [chk EXCEPT ![v] = [IdleChk EXCEPT !.pc = "read", !.row = op[q].row,
                                             !.mode = HubMode(op[q].kind)]]
  /\ UNCHANGED <<connection, rows, op, taken, hub, unleased, faults, history>>

\* subscriptionAllowsMode: the pending mode determines the pending status.
AllowsMode(row, mode) ==
  /\ row.mode = mode
  /\ row.status \in IF mode = "subscribe"
                    THEN {"pending_subscribe", "pending_renewal"}
                    ELSE {"pending_unsubscribe"}

CheckReads(v) ==
  /\ chk[v].pc = "read"
  /\ chk' = [chk EXCEPT ![v] =
       IF AllowsMode(rows[@.row], @.mode)
         THEN [@ EXCEPT !.pc = "write", !.saw = rows[chk[v].row].status]
         ELSE IdleChk]
  /\ UNCHANGED <<connection, rows, op, hubVars, faults, history>>

Answering(w) == \E u \in Checks : chk[u].row = w /\ chk[u].pc = "answer"

\* markVerified, which gives the row its new lease, or markUnsubscribed: by
\* callback_id alone.
CheckWrites(v) ==
  LET w == chk[v].row  subscribe == chk[v].mode = "subscribe"
  IN /\ chk[v].pc = "write"
     /\ IF subscribe /\ ~ IndexAllows(w)
          THEN /\ chk' = [chk EXCEPT ![v] = IdleChk]
               /\ UNCHANGED <<rows, unleased, apart>>
          ELSE /\ rows' = Moved(w, IF subscribe THEN "active" ELSE "unsubscribed", None)
               /\ chk' = [chk EXCEPT ![v].pc = "answer"]
               /\ unleased' = IF subscribe THEN unleased \ {w} ELSE unleased
               /\ apart' = IF Answering(w) THEN apart \cup {w} ELSE apart \ {w}
     /\ raced' = IF rows[w].status = chk[v].saw /\ ~ Answering(w)
                 THEN raced ELSE raced \cup {w}
     /\ UNCHANGED <<connection, op, owed, taken, hub, faults, stolen>>

CheckAnswered(v) ==
  /\ chk[v].pc = "answer"
  /\ hub' = [hub EXCEPT ![chk[v].row] = chk[v].mode = "subscribe"]
  /\ chk' = [chk EXCEPT ![v] = IdleChk]
  /\ UNCHANGED <<connection, rows, op, owed, taken, unleased, faults, history>>

\* The handler dies or its answer is lost: the hub takes it for a refusal.
CheckLost(v) ==
  /\ chk[v].pc # "idle"
  /\ Fault
  /\ chk' = [chk EXCEPT ![v] = IdleChk]
  /\ IF chk[v].pc = "answer"
       THEN raced' = raced \cup {chk[v].row} /\ apart' = apart \cup {chk[v].row}
       ELSE UNCHANGED <<raced, apart>>
  /\ UNCHANGED <<connection, rows, op, hubVars, stolen>>

\* The lease that the hub was told of runs out: it sends no more, and the row's
\* lease_expires_at passes too, unless a callback has just written a new one.
LeaseEnds(w) ==
  /\ hub[w]
  /\ hub' = [hub EXCEPT ![w] = FALSE]
  /\ unleased' = IF Answering(w) THEN unleased ELSE unleased \cup {w}
  /\ UNCHANGED <<connection, rows, op, chk, owed, taken, faults, history>>

RequestStep(q) ==
  \/ \E kind \in {"subscribe", "renew", "unsubscribe"}, w \in Rows : Ask(q, kind, w)
  \/ \E s \in OAuthStates : ConnectionReturns(q, s)
  \/ FindOpen(q) \/ CreatePending(q) \/ ReadRow(q)
  \/ MarkRenewalPending(q) \/ MarkUnsubscribePending(q)
  \/ ConsumeState(q) \/ StateRefused(q) \/ ExchangeCode(q)
  \/ AttachReads(q) \/ AttachInserts(q)
  \/ Claim(q) \/ Recover(q) \/ HubAccepts(q) \/ HubFails(q)
  \/ RecordResult(q) \/ RequestLost(q)

CheckStep(v) ==
  \/ \E q \in Requests : HubVerifies(v, q)
  \/ CheckReads(v) \/ CheckWrites(v) \/ CheckAnswered(v) \/ CheckLost(v)

Next ==
  \/ \E q \in Requests : RequestStep(q)
  \/ \E v \in Checks : CheckStep(v)
  \/ \E w \in Rows : DispatchAges(w) \/ FirstVideo(w) \/ LeaseEnds(w)

Spec == Init /\ [][Next]_vars

-----------------------------------------------------------------------------
(* Properties.                                                             *)

\* Shape of the rows and of what requests and callbacks hold; at most one
\* row of the channel is open, and a row waits for the hub exactly when it
\* has a pending mode.
TypeOK ==
  /\ \A w \in Rows :
       LET row == rows[w]
       IN /\ row.status \in Open \cup {"none", "unsubscribed"}
          /\ row.mode \in {"subscribe", "unsubscribe", None} /\ row.first \in BOOLEAN
          /\ (row.mode = None) <=> row.status \in {"none", "active", "unsubscribed"}
          /\ row.dispatch.status \in {"none", "started", "accepted", "failed"}
          /\ row.status \in Open => ~ OthersOpen(w)
  /\ \A q \in Requests : op[q].pc \in {"idle", "find", "refind", "insert", "read",
       "mark", "claim", "hub", "record", "recover", "consume", "exchange",
       "attach", "attach_insert", "done", "lost"}
  /\ \A v \in Checks : chk[v].pc \in {"idle", "read", "write", "answer"}
  /\ owed \subseteq taken /\ taken \subseteq Requests
  /\ consumed \subseteq OAuthStates /\ own \in Rows \cup {None} /\ unleased \subseteq Rows

\* What a row says of the channel is what the hub does: a row that was verified,
\* and whose lease has not run out, is notified, any other is not, unless an
\* answer is on its way.  Two things set them apart, and only until the next
\* callback is answered alone: an answer that was lost or overtaken, and an
\* unsubscription marked on a row that had ended since it was read
\* (verifyCodeClipYouTubeWebSubCallback, isSubscriptionLeaseValid).
RowAgreesWithHub ==
  /\ TypeOK
  /\ \A w \in Rows \ apart :
       ~ Answering(w) => (hub[w] <=> rows[w].status \in Verified /\ w \notin unleased)

\* A creator's consent counts once: of the callbacks of one OAuth state, reloads
\* and a second browser included, one at most connects the channel
\* (completeCodeClipYouTubeConnection); and the channel's own
\* row was made by one that says so.
ConsentCountsOnce ==
  /\ \A q, r \in Requests :
       (op[q].answer = "connected" /\ op[r].answer = "connected" /\ q # r)
         => op[q].state # op[r].state
  /\ own # None => \E q \in Requests : op[q].answer = "connected"

\* The channel is consistent on both sides: its rows with the hub, its connection
\* with the creator's consent.
ChannelIsConsistent == RowAgreesWithHub /\ ConsentCountsOnce

\* A dispatch recorded as accepted was taken by the hub, and one recorded as
\* finally refused was not, whichever attempts ran beside it
\* (recordCodeClipYouTubeWebSubDispatchResult, the attempt id).
RecordedResultIsHubs ==
  \A w \in Rows :
    LET d == rows[w].dispatch
    IN /\ d.status = "accepted" => d.attempt \in taken
       /\ d.status = "failed" /\ ~ d.retry => d.attempt \notin taken

\* Two requests speak to the hub for one row only after a dispatch became
\* stale (claimCodeClipYouTubeWebSubDispatch).
OverlapNeedsStaleDispatch ==
  \A w \in Rows :
    Cardinality({q \in Requests : op[q].row = w /\ op[q].pc = "hub"}) > 1 => w \in stolen

\* A dispatch stays `started' only while its request runs, or because the
\* request died, or because another operation moved the row before the
\* answer could be recorded: the hub's own quick verification is not enough
\* (the result states of DISPATCH_MODE_CONTRACTS).
StartedNeedsACause ==
  \A w \in Rows :
    LET d == rows[w].dispatch
    IN d.status = "started" =>
         \/ op[d.attempt].pc \in {"hub", "record", "lost"}
         \/ w \in raced
         \/ \E q \in Requests \ {d.attempt} :
              /\ op[q].row = w /\ op[q].kind # d.mode
              /\ op[q].pc \in {"claim", "recover", "done", "lost"}

\* The dispatches of a row are accounted for: the recorded result is the hub's, requests run
\* beside each other only after a stale one, and `started' has its cause.
DispatchesAreAccountedFor ==
  RecordedResultIsHubs /\ OverlapNeedsStaleDispatch /\ StartedNeedsACause

=============================================================================
