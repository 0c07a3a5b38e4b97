---------------------------- MODULE DiagnosticProbe ----------------------------
(***************************************************************************)
(* The diagnostic WebSub probes of one topic: an operator creates a probe  *)
(* and asks to unsubscribe it, the hub verifies what it took, and its      *)
(* notifications are kept as observations                                  *)
(* (youtube-websub-diagnostic-operations.js, -callback.js,                 *)
(* -probe-repository.js and youtube-websub-diagnostic-probe.js).           *)
(*                                                                         *)
(* A lifecycle operation of the repository locks the row, checks it and    *)
(* writes it in one transaction: one action.  The request to the hub is    *)
(* made between two of them.  The hub is external.                         *)
(***************************************************************************)
EXTENDS YouTubeBase, FiniteSets

CONSTANTS
  Operations,  \* operator requests of a behaviour, each made once
  Probes,      \* probe ids, each drawn once
  Bodies,      \* notification bodies of the hub
  Entries      \* videos a body may name

\* None is no process, no probe and no body, and no word an operation may hold in its place.
ASSUME ProbeAssumption ==
  /\ None \notin Operations \cup Probes \cup Bodies
  /\ None \notin {"subscribe", "unsubscribe", "unsubscribe_pending", "cleanup_pending",
                  "cleanup_required", "unsubscribed"}

VARIABLES
  row,       \* probe |-> its row
  doing,     \* request |-> what the process that serves it holds in memory
  check,     \* request |-> how far the hub is with verifying it
  notifies,  \* hub: probe |-> it notifies that callback
  note,      \* body |-> its delivery
  obs,       \* probe |-> entry |-> the body it was first seen in
  replaced,  \* history: probes whose dispatch was replaced when stale
  untold     \* history: probes for which a verification's answer was lost,
             \* or crossed another one's

probeVars == <<row, doing, check, notifies, note, obs, faults, replaced, untold>>
noteVars == <<note, obs>>

Undispatched == [attempt |-> None, mode |-> None, status |-> "none", stale |-> FALSE]
NoRow == [status |-> "none", cleanup |-> FALSE, mayExist |-> FALSE,
          verification |-> None, dispatch |-> Undispatched]
IdleOperation == [pc |-> "idle", kind |-> None, probe |-> None, answer |-> None]
IdleNote == [pc |-> "idle", probe |-> None, entries |-> {}, accepted |-> {}]

ProbeInit ==
  /\ row = [p \in Probes |-> NoRow]
  /\ doing = [q \in Operations |-> IdleOperation]
  /\ check = [q \in Operations |-> "none"]
  /\ notifies = [p \in Probes |-> FALSE]
  /\ note = [n \in Bodies |-> IdleNote]
  /\ obs = [p \in Probes |-> [e \in Entries |-> None]]
  /\ faults = 0 /\ replaced = {} /\ untold = {}

\* assertProbeStateInvariants: every row is read and written through it.
ValidProbe(r) ==
  /\ r.status = "pending_subscribe" => r.verification = None
  /\ r.status = "active" => r.verification # None
  /\ r.status = "pending_unsubscribe" => r.verification # None \/ (r.cleanup /\ r.mayExist)
  /\ r.cleanup => r.mayExist /\ r.status \in {"failed", "pending_unsubscribe"}
  /\ r.status = "unsubscribed" => ~ r.mayExist

\* The two tables: a row for each probe, and one for each entry it was told of.
ProbeTable == [Probes ->
  {r \in [status : {"none", "pending_subscribe", "active", "pending_unsubscribe",
                    "unsubscribed", "failed"},
          cleanup : BOOLEAN, mayExist : BOOLEAN, verification : {None, "subscribe"},
          dispatch : [attempt : Operations \cup {None},
                      mode : {None, "subscribe", "unsubscribe"},
                      status : {"none", "started", "accepted"}, stale : BOOLEAN]] :
     ValidProbe(r)}]
ObservationTable == [Probes -> [Entries -> Bodies \cup {None}]]

CleanupEligible(p) == row[p].status = "failed" /\ row[p].cleanup /\ row[p].mayExist

\* The rows of the unique index on the topic.
IsOpen(p) ==
  \/ row[p].status \in {"pending_subscribe", "active", "pending_unsubscribe"}
  \/ CleanupEligible(p)

Closed(p) == row[p].status # "none" /\ ~ IsOpen(p)

\* isDispatchActive and isDispatchReplaceable.  Both operations pass the
\* attempt number 1 and an id of their own, so a dispatch of the same mode
\* is never replaced: "dispatch attempt identity conflicts".
Replaceable(p, mode) ==
  LET d == row[p].dispatch
  IN /\ d.mode # mode
     /\ ~ (d.status = "started" /\ ~ d.stale)

Started(q, mode) == [attempt |-> q, mode |-> mode, status |-> "started", stale |-> FALSE]

\* The row a create inserts, and the row after each lifecycle transition.
NewProbe(q) ==
  [status |-> "pending_subscribe", cleanup |-> FALSE, mayExist |-> TRUE,
   verification |-> None, dispatch |-> Started(q, "subscribe")]

AfterVerification(r) ==
  [r EXCEPT !.status = "active", !.mayExist = TRUE, !.verification = "subscribe"]

AfterConfirmation(r) ==
  [r EXCEPT !.status = "unsubscribed", !.cleanup = FALSE, !.mayExist = FALSE]

AfterFailure(r, cleanup) ==
  [r EXCEPT !.status = "failed", !.cleanup = cleanup, !.mayExist = cleanup]

Failed(p, cleanup) == [row EXCEPT ![p] = AfterFailure(@, cleanup)]

Answer(q, answer) == [doing EXCEPT ![q].pc = "done", ![q].answer = answer]

-----------------------------------------------------------------------------
(* The operator's requests, up to the hub.                                 *)

\* One transaction inserts the row and marks its dispatch started; the topic
\* has one open probe.
Create(q) ==
  /\ doing[q].pc = "idle"
  /\ \E p \in Probes :
       /\ row[p].status = "none"
       /\ IF \E x \in Probes : IsOpen(x)
            THEN /\ doing' = [Answer(q, "open_probe_conflict") EXCEPT ![q].kind = "subscribe"]
                 /\ UNCHANGED row
            ELSE /\ row' = [row EXCEPT ![p] = NewProbe(q)]
                 /\ doing' = [doing EXCEPT ![q] = [IdleOperation EXCEPT
                       !.pc = "hub", !.kind = "subscribe", !.probe = p]]
  /\ UNCHANGED <<check, notifies, noteVars, faults, replaced, untold>>

\* The reading before the transaction answers only for an unsubscribed row.
AskUnsubscribe(q, p) ==
  /\ doing[q].pc = "idle" /\ row[p].status # "none"
  /\ doing' = [doing EXCEPT ![q] = [IdleOperation EXCEPT
       !.pc = IF row[p].status = "unsubscribed" THEN "done" ELSE "mark",
       !.kind = "unsubscribe", !.probe = p,
       !.answer = IF row[p].status = "unsubscribed" THEN "unsubscribed" ELSE None]]
  /\ UNCHANGED <<row, check, notifies, noteVars, faults, replaced, untold>>

Unsubscribable(p) ==
  /\ row[p].status \in {"active", "pending_unsubscribe"} \/ CleanupEligible(p)
  /\ Replaceable(p, "unsubscribe")

MarkUnsubscribeDispatched(q) ==
  LET p == doing[q].probe
  IN /\ doing[q].pc = "mark"
     /\ IF Unsubscribable(p)
          THEN /\ row' = [row EXCEPT ![p].status = "pending_unsubscribe",
                                     ![p].dispatch = Started(q, "unsubscribe")]
               /\ doing' = [doing EXCEPT ![q].pc = "hub"]
               /\ replaced' = IF row[p].dispatch.status = "started"
                              THEN replaced \cup {p} ELSE replaced
          ELSE /\ doing' = Answer(q, "state_conflict")
               /\ UNCHANGED <<row, replaced>>
     /\ UNCHANGED <<check, notifies, noteVars, faults, untold>>

HubTakes(q) ==
  /\ doing[q].pc = "hub"
  /\ check' = [check EXCEPT ![q] = "owed"]
  /\ doing' = [doing EXCEPT ![q].pc = "accept"]
  /\ UNCHANGED <<row, notifies, noteVars, faults, replaced, untold>>

\* A refusal, or no answer in time, whatever the hub did with the request.
HubRefuses(q) ==
  /\ doing[q].pc = "hub"
  /\ Fault
  /\ \/ UNCHANGED check
     \/ check' = [check EXCEPT ![q] = "owed"]
  /\ doing' = [doing EXCEPT ![q].pc = "reject"]
  /\ UNCHANGED <<row, notifies, noteVars, replaced, untold>>

-----------------------------------------------------------------------------
(* What the operation records of the hub's answer.                         *)

Failable(p) == row[p].status = "pending_subscribe"

MarkSubscribeFailed(q) ==
  LET p == doing[q].probe
  IN /\ doing[q].pc = "reject" /\ doing[q].kind = "subscribe"
     /\ row' = IF Failable(p) THEN Failed(p, FALSE) ELSE row
     /\ doing' = Answer(q, IF Failable(p) THEN "failed" ELSE "error")
     /\ UNCHANGED <<check, notifies, noteVars, faults, replaced, untold>>

\* applyAcceptedMetadata.
IsOwnDispatch(q) ==
  LET d == row[doing[q].probe].dispatch
  IN d.mode = doing[q].kind /\ d.attempt = q /\ d.status = "started"

\* Mutant: the hub's verification may not arrive before its answer.
AcceptableWhilePending(q) ==
  /\ row[doing[q].probe].status =
       IF doing[q].kind = "subscribe" THEN "pending_subscribe" ELSE "pending_unsubscribe"
  /\ IsOwnDispatch(q)

\* markSubscribeAccepted and markUnsubscribeAccepted: the row still waits, or
\* the verification of the same mode came first.  Nothing records an
\* unsubscribe verification (AfterConfirmation), so an unsubscribed row is
\* never acceptable.
Acceptable(q) ==
  LET r == row[doing[q].probe]
  IN /\ IF doing[q].kind = "subscribe"
          THEN \/ r.status = "pending_subscribe"
               \/ r.status = "active" /\ r.verification = "subscribe"
          ELSE \/ r.status = "pending_unsubscribe"
               \/ r.status = "unsubscribed" /\ r.verification = "unsubscribe"
     /\ IsOwnDispatch(q)

Accept(p) == [row EXCEPT ![p].dispatch.status = "accepted"]

\* The re-reading after a conflict is left out: a row found in conflict is
\* pending_unsubscribe, failed or unsubscribed and never active again.
MarkSubscribeAccepted(q) ==
  /\ doing[q].pc = "accept" /\ doing[q].kind = "subscribe"
  /\ IF Acceptable(q)
       THEN /\ row' = Accept(doing[q].probe)
            /\ doing' = Answer(q, "subscribe_pending")
       ELSE /\ doing' = [doing EXCEPT ![q].pc = "cleanup"]
            /\ UNCHANGED row
  /\ UNCHANGED <<check, notifies, noteVars, faults, replaced, untold>>

MarkUnsubscribeAccepted(q) ==
  /\ doing[q].pc = "accept" /\ doing[q].kind = "unsubscribe"
  /\ IF Acceptable(q)
       THEN /\ row' = Accept(doing[q].probe)
            /\ doing' = Answer(q, "unsubscribe_pending")
       ELSE /\ doing' = Answer(q, "cleanup_pending")
            /\ UNCHANGED row
  /\ UNCHANGED <<check, notifies, noteVars, faults, replaced, untold>>

\* After a create whose acceptance could not be recorded, and after an
\* unsubscribe the hub did not take: "the subscription may exist".
MarkCleanupRequired(q) ==
  LET p == doing[q].probe
  IN /\ \/ doing[q].pc = "cleanup"
        \/ doing[q].pc = "reject" /\ doing[q].kind = "unsubscribe"
     /\ row' = IF row[p].status = "unsubscribed" THEN row ELSE Failed(p, TRUE)
     /\ doing' = Answer(q,
          IF row[p].status = "unsubscribed" /\ doing[q].pc = "reject"
          THEN "error" ELSE "cleanup_required")
     /\ UNCHANGED <<check, notifies, noteVars, faults, replaced, untold>>

\* A statement fails.  An acceptance that is not recorded leads to the
\* cleanup mark, or to an answer that only says so; anything else ends it.
StatementFails(q) ==
  /\ doing[q].pc \in {"mark", "reject", "accept", "cleanup"}
  /\ Fault
  /\ doing' = CASE doing[q].pc = "accept" /\ doing[q].kind = "subscribe" ->
                  [doing EXCEPT ![q].pc = "cleanup"]
             [] doing[q].pc = "accept" /\ doing[q].kind = "unsubscribe" ->
                  Answer(q, "cleanup_pending")
             [] doing[q].pc = "cleanup" -> Answer(q, "cleanup_required")
             [] OTHER -> Answer(q, "error")
  /\ UNCHANGED <<row, check, notifies, noteVars, replaced, untold>>

\* The process dies: nothing takes the request up.
ProcessDies(q) ==
  /\ doing[q].pc \notin {"idle", "done", "lost"}
  /\ Fault
  /\ doing' = [doing EXCEPT ![q].pc = "lost"]
  /\ UNCHANGED <<row, check, notifies, noteVars, replaced, untold>>

\* staleAfterAt passes.
ProbeDispatchAges(p) ==
  /\ row[p].dispatch.status = "started" /\ ~ row[p].dispatch.stale
  /\ row' = [row EXCEPT ![p].dispatch.stale = TRUE]
  /\ UNCHANGED <<doing, check, notifies, noteVars, faults, replaced, untold>>

-----------------------------------------------------------------------------
(* The hub's verification.                                                 *)

\* Mutant: a verification that comes late is believed as well.
VerifiableLate(p) ==
  row[p].status \in {"pending_subscribe", "active"} \/ Closed(p)

Verifiable(p) == row[p].status \in {"pending_subscribe", "active"}

Confirmable(p) == row[p].status \in {"pending_unsubscribe", "unsubscribed"}

\* markVerificationReceived and markCleanupCompleted; what they refuse is
\* answered 404, and the hub drops the request.
VerifyCallback(q) ==
  LET p == doing[q].probe
      subscribe == doing[q].kind = "subscribe"
      allowed == IF subscribe THEN Verifiable(p) ELSE Confirmable(p)
  IN /\ check[q] = "owed"
     /\ row' = IF ~ allowed THEN row
               ELSE [row EXCEPT ![p] = IF subscribe THEN AfterVerification(@)
                                       ELSE AfterConfirmation(@)]
     /\ check' = [check EXCEPT ![q] = IF allowed THEN "answered" ELSE "dropped"]
     /\ UNCHANGED <<doing, notifies, noteVars, faults, replaced, untold>>

HubHears(q) ==
  LET p == doing[q].probe
  IN /\ check[q] = "answered"
     /\ check' = [check EXCEPT ![q] = "dropped"]
     /\ notifies' = [notifies EXCEPT ![p] = doing[q].kind = "subscribe"]
     /\ untold' = IF \E r \in Operations \ {q} :
                       doing[r].probe = p /\ check[r] = "answered"
                  THEN untold \cup {p} ELSE untold
     /\ UNCHANGED <<row, doing, noteVars, faults, replaced>>

\* The answer is lost: the hub gives up, or verifies again.
AnswerLost(q) ==
  /\ check[q] = "answered"
  /\ Fault
  /\ \E c \in {"dropped", "owed"} : check' = [check EXCEPT ![q] = c]
  /\ untold' = untold \cup {doing[q].probe}
  /\ UNCHANGED <<row, doing, notifies, noteVars, replaced>>

-----------------------------------------------------------------------------
(* Notifications.                                                          *)

\* The hub posts a body, the same bytes every time.
HubNotifies(n, p) ==
  /\ note[n].pc = "idle" /\ notifies[p] /\ p \notin note[n].accepted
  /\ \E named \in (SUBSET Entries) \ {{}} :
       /\ note[n].entries \in {{}, named}
       /\ note' = [note EXCEPT ![n].pc = "read", ![n].probe = p, ![n].entries = named]
  /\ UNCHANGED <<row, doing, check, notifies, obs, faults, replaced, untold>>

ReadProbe(n) ==
  /\ note[n].pc = "read"
  /\ note' = [note EXCEPT ![n].pc =
       IF row[note[n].probe].status = "active" THEN "record" ELSE "idle"]
  /\ UNCHANGED <<row, doing, check, notifies, obs, faults, replaced, untold>>

\* Mutant: a known entry is counted whatever body it was seen in.
ObservableInAnyBody(n) == row[note[n].probe].status = "active"

\* recordNotificationObservation for each entry: the savepoints of the entries
\* are in one transaction, and an entry that was seen in another body, or whose
\* statement fails, rolls all of it back (recordParsedEntries).
Observable(n) ==
  /\ row[note[n].probe].status = "active"
  /\ \A e \in note[n].entries : obs[note[n].probe][e] \in {None, n}

\* A new entry is inserted under the body it came in; a known one is counted.
Observed(n) ==
  [obs EXCEPT ![note[n].probe] = [e \in Entries |->
     IF e \in note[n].entries /\ @[e] = None THEN n ELSE @[e]]]

RecordObservations(n) ==
  LET p == note[n].probe
  IN /\ note[n].pc = "record"
     /\ IF Observable(n)
          THEN /\ obs' = Observed(n)
               /\ note' = [note EXCEPT ![n].pc = "idle", ![n].accepted = @ \cup {p}]
          ELSE /\ note' = [note EXCEPT ![n].pc = "idle"]
               /\ UNCHANGED obs
     /\ UNCHANGED <<row, doing, check, notifies, faults, replaced, untold>>

\* A statement fails, or two entries of one body are observed in the same
\* millisecond ("summary conflicts at the same timestamp"): 503.
ObservationFails(n) ==
  /\ note[n].pc = "record"
  /\ note' = [note EXCEPT ![n].pc = "idle"]
  /\ UNCHANGED <<row, doing, check, notifies, obs, faults, replaced, untold>>

OperationStep(q) ==
  \/ Create(q)
  \/ \E p \in Probes : AskUnsubscribe(q, p)
  \/ MarkUnsubscribeDispatched(q)
  \/ HubTakes(q) \/ HubRefuses(q)
  \/ MarkSubscribeFailed(q) \/ MarkSubscribeAccepted(q)
  \/ MarkUnsubscribeAccepted(q) \/ MarkCleanupRequired(q)
  \/ StatementFails(q) \/ ProcessDies(q)

HubStep(q) == VerifyCallback(q) \/ HubHears(q) \/ AnswerLost(q)

NoteStep(n) ==
  \/ \E p \in Probes : HubNotifies(n, p)
  \/ ReadProbe(n) \/ RecordObservations(n) \/ ObservationFails(n)

ProbeNext ==
  \/ \E q \in Operations : OperationStep(q) \/ HubStep(q)
  \/ \E p \in Probes : ProbeDispatchAges(p)
  \/ \E n \in Bodies : NoteStep(n)

ProbeSpec == ProbeInit /\ [][ProbeNext]_probeVars

-----------------------------------------------------------------------------
(* Properties.                                                             *)

\* The shape of the tables, and one open probe.
ProbeTypeOK ==
  /\ row \in ProbeTable
  /\ obs \in ObservationTable
  /\ Cardinality({p \in Probes : IsOpen(p)}) <= 1
  /\ \A q \in Operations : check[q] \in {"none", "owed", "answered", "dropped"}

\* A callback the hub notifies belongs to a row that says a subscription may
\* exist, unless the answer that ended it was lost (markSubscribeFailed is
\* recorded only on a row not verified meanwhile).  That it can still be ended
\* is not said: once an unsubscribe was dispatched no other one is (Replaceable).
SubscriptionIsRemembered ==
  \A p \in Probes :
    notifies[p] => \/ row[p].mayExist
                   \/ p \in untold
                   \/ \E q \in Operations : doing[q].probe = p /\ check[q] = "answered"

\* A closed probe stays closed: no request, late answer or late verification
\* opens it again beside the topic's next probe.
ClosedStaysClosed == [][\A p \in Probes : Closed(p) => Closed(p)']_probeVars

\* A probe asks for cleanup, and an operator is told to, only when a statement,
\* an answer or the process failed, or the dispatch was replaced when stale: a
\* verification that overtakes the hub's own answer is no reason
\* (requireActiveSubscribeVerificationRace).  For an unsubscribe it is one,
\* without any fault: the row has ended, and the operator is told of a cleanup
\* that is pending (requireTerminalUnsubscribeVerificationRace never passes).
CleanupHasACause ==
  /\ \A p \in Probes : CleanupEligible(p) => faults > 0 \/ p \in replaced
  /\ \A q \in Operations :
       doing[q].answer \in {"cleanup_required", "cleanup_pending"} =>
         \/ faults > 0 \/ doing[q].probe \in replaced
         \/ doing[q].answer = "cleanup_pending" /\ row[doing[q].probe].status = "unsubscribed"

\* After the operator was told the probe is being unsubscribed, it takes no
\* observation any more, also not of a notification it was reading.
NothingObservedAfterUnsubscribe ==
  [][\A p \in Probes :
       (\E q \in Operations : doing[q].probe = p /\ doing[q].answer \in
            {"unsubscribe_pending", "cleanup_pending", "unsubscribed"})
       => obs'[p] = obs[p]]_probeVars

\* A notification answered 204 is recorded whole: each entry it named is
\* kept under that body (processCodeClipYouTubeWebSubDiagnosticNotification).
AcceptedBodyIsObserved ==
  \A n \in Bodies : \A p \in note[n].accepted :
    \A e \in note[n].entries : obs[p][e] = n

\* Cleanup is asked for when it is needed and only then: a subscription the hub may still
\* notify is remembered, and nothing is cleaned up that went well.
CleanupIsExact == ProbeTypeOK /\ SubscriptionIsRemembered /\ CleanupHasACause

\* A probe that ended stays quiet: it is not opened again and takes no observation.
EndedProbesStayQuiet == ClosedStaysClosed /\ NothingObservedAfterUnsubscribe

=============================================================================
