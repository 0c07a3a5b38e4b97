------------------------- MODULE ProviderIntakeProofs -------------------------
(***************************************************************************)
(* Theorems about ProviderIntake for any events, handlers and operators,   *)
(* and any number of posts, faults and changes of the binding.             *)
(***************************************************************************)
EXTENDS ProviderIntake, FiniteSetTheorems, TLAPS

-----------------------------------------------------------------------------
(***************************************************************************)
(* Types.                                                                  *)
(***************************************************************************)

\* Handlers that hold the claim; those with a row; those whose look-up found none.
HoldPC == {"begin", "core", "critical", "unconfirmed", "committed", "respond", "complete"}
RowPC == HoldPC \cup {"existing", "claim", "duplicate", "reconcile", "replay"}
UnseenPC == (RowPC \ {"replay"}) \cup {"route", "insert"}
StoredPC == {"replay", "reconcile", "committed", "respond", "complete"}
Pcs == RowPC \cup {"idle", "lookup", "route", "insert"}

BindingRow == [status : {"absent", "reading", "active", "disabled", "refused"},
               event : Event \cup {NoEvent}]
RequestRow == [pc : Pcs, event : Event \cup {NoEvent}, seen : Rowtype]

TypeInv ==
  /\ binding \in [Operator -> BindingRow]
  /\ \A o \in Operator : binding[o].status # "absent" => binding[o].event \in Event
  /\ row \in [Event -> Rowtype]
  /\ key \in [Event -> BOOLEAN] /\ response \in [Event -> BOOLEAN]
  /\ req \in [Request -> RequestRow]
  /\ stored \in [Event -> BOOLEAN] /\ runs \in [Event -> Nat]
  /\ acked \subseteq {"ok", "processing", "ignored"}
  /\ failedLate \in BOOLEAN /\ rebound \in BOOLEAN

-----------------------------------------------------------------------------
(***************************************************************************)
(* What a handler's program counter tells, and what an event's records say *)
(* of each other.                                                          *)
(***************************************************************************)

Knows(q) ==
  /\ q.pc \in RowPC \cup {"insert"} => q.event \in Event
  /\ q.pc \in RowPC => row[q.event].processing # "absent"
  /\ q.seen.core = "committed" => q.event \in Event /\ stored[q.event]
  /\ q.pc \in {"idle", "lookup", "route", "insert"} => q.seen.core # "committed"
  /\ q.pc \in StoredPC => stored[q.event]
  /\ q.pc \in HoldPC => key[q.event] \/ q.event \in expired
  /\ q.pc \in UnseenPC => failedLate \/ \A e \in Event : row[e].processing # "failed"

Requests == \A r \in Request : Knows(req[r])

\* The claim has been won, and the work has a holder.
Claimed(e) == key[e] \/ e \in expired
Holding(e) == \E r \in Request : req[r].pc \in HoldPC /\ req[r].event = e
Claiming(e) == \E r \in Request : req[r].pc = "claim" /\ req[r].event = e

Says(e) ==
  /\ row[e].processing = "absent" => row[e] = Absent /\ ~Claimed(e)
  /\ row[e].core = "committed" \/ row[e].processing = "completed" \/ response[e] => stored[e]
  /\ stored[e] => Claimed(e)

Records == \A e \in Event : Says(e)

\* A row in processing has a holder; until the claim is first won, somebody who goes for it.
Worked ==
  \A e \in Event : row[e].processing = "processing" =>
    e \in abandoned \/ Holding(e) \/ (~Claimed(e) /\ Claiming(e))

\* A post that lost the claim lost it to somebody.
Refused ==
  \A r \in Request : req[r].pc = "duplicate" =>
    \/ failedLate
    \/ stored[req[r].event] \/ req[r].event \in abandoned \/ Holding(req[r].event)

-----------------------------------------------------------------------------
(***************************************************************************)
(* Runs of the core, answers, and the binding.                             *)
(***************************************************************************)

About(r, e) == req[r].pc = "begin" /\ req[r].event = e

RunsOnce ==
  \A e \in Event : e \notin expired =>
    /\ runs[e] <= 1 /\ (runs[e] > 0 => key[e])
    /\ \A r \in Request : About(r, e) => key[e] /\ runs[e] = 0
    /\ \A q, r \in Request : About(q, e) /\ About(r, e) => q = r

Acks ==
  /\ "ok" \in acked => \E e \in Event : stored[e]
  /\ AcceptedIsWorkedOn

OneActive == \A o, p \in Operator : IsActive(o) /\ IsActive(p) => o = p

Routing(r) == req[r].pc \in {"route", "insert"}
Bindings ==
  /\ OneActive
  /\ ~rebound =>
       /\ \A e, f \in Event : row[e] # Absent /\ row[f] # Absent => e = f
       /\ \A r \in Request : Routing(r) =>
            /\ \A e \in Event : row[e] # Absent => e = Bound
            /\ req[r].pc = "insert" => req[r].event = Bound

Inv == Requests /\ Records /\ Worked /\ Refused /\ RunsOnce /\ Acks /\ Bindings

-----------------------------------------------------------------------------
(***************************************************************************)
(* Rows, and the move of one handler.                                      *)
(***************************************************************************)

LEMMA AbsentShape ==
  /\ Absent \in Rowtype /\ Absent.processing = "absent" /\ Absent.core = "not_started"
  /\ Created \in Rowtype /\ Created.processing = "processing" /\ Created.core = "not_started"
  /\ Created # Absent
BY DEF Absent, Created, Rowtype

LEMMA RowShape ==
  ASSUME NEW d \in Rowtype
  PROVE  /\ d.processing \in {"absent", "processing", "completed", "failed"}
         /\ d.core \in {"not_started", "processing", "committed", "failed", "unknown"}
         /\ d.processing # "absent" => d # Absent
BY DEF Rowtype, Absent

\* The handler r moves to the counter pc with event e and the row s it has seen; no other moves.
Becomes(r, pc, e, s) ==
  /\ req' \in [Request -> RequestRow]
  /\ \A q \in Request \ {r} : req'[q] = req[q]
  /\ req'[r].pc = pc /\ req'[r].event = e /\ req'[r].seen = s

LEMMA RequestShape ==
  ASSUME TypeInv, NEW r \in Request
  PROVE  /\ req[r] \in RequestRow /\ req[r].pc \in Pcs /\ req[r].event \in Event \cup {NoEvent}
         /\ req[r].seen \in Rowtype
BY DEF TypeInv, RequestRow

LEMMA Replaced ==
  ASSUME TypeInv, NEW r \in Request, NEW u \in RequestRow, req' = [req EXCEPT ![r] = u]
  PROVE  Becomes(r, u.pc, u.event, u.seen)
BY DEF TypeInv, Becomes

\* The forms of a handler's move.
LEMMA Moved ==
  ASSUME TypeInv, NEW r \in Request, NEW pc \in Pcs,
         NEW e \in Event \cup {NoEvent}, NEW s \in Rowtype,
         \/ req' = [req EXCEPT ![r] = [pc |-> pc, event |-> e, seen |-> s]]
         \/ req' = [req EXCEPT ![r].pc = pc, ![r].event = e] /\ s = req[r].seen
         \/ req' = [req EXCEPT ![r].pc = pc, ![r].seen = s] /\ e = req[r].event
  PROVE  Becomes(r, pc, e, s)
<1>0. req[r] \in RequestRow
  BY DEF TypeInv
<1>1. CASE req' = [req EXCEPT ![r] = [pc |-> pc, event |-> e, seen |-> s]]
  <2> DEFINE u == [pc |-> pc, event |-> e, seen |-> s]
  <2>1. u \in RequestRow /\ u.pc = pc /\ u.event = e /\ u.seen = s
    BY DEF RequestRow
  <2>2. req' = [req EXCEPT ![r] = u]
    BY <1>1
  <2> HIDE DEF u
  <2> QED
    BY <2>1, <2>2, Replaced
<1>2. CASE req' = [req EXCEPT ![r].pc = pc, ![r].event = e] /\ s = req[r].seen
  <2> DEFINE u == [req[r] EXCEPT !.pc = pc, !.event = e]
  <2>1. u \in RequestRow /\ u.pc = pc /\ u.event = e /\ u.seen = s
    BY <1>0, <1>2 DEF RequestRow
  <2>2. req' = [req EXCEPT ![r] = u]
    BY <1>2 DEF TypeInv
  <2> HIDE DEF u
  <2> QED
    BY <2>1, <2>2, Replaced
<1>3. CASE req' = [req EXCEPT ![r].pc = pc, ![r].seen = s] /\ e = req[r].event
  <2> DEFINE u == [req[r] EXCEPT !.pc = pc, !.seen = s]
  <2>1. u \in RequestRow /\ u.pc = pc /\ u.event = e /\ u.seen = s
    BY <1>0, <1>3 DEF RequestRow
  <2>2. req' = [req EXCEPT ![r] = u]
    BY <1>3 DEF TypeInv
  <2> HIDE DEF u
  <2> QED
    BY <2>1, <2>2, Replaced
<1> QED
  BY <1>1, <1>2, <1>3

LEMMA Gone ==
  ASSUME TypeInv, NEW r \in Request, NEW pc \in Pcs, Go(r, pc)
  PROVE  Becomes(r, pc, req[r].event, req[r].seen)
<1> DEFINE u == [req[r] EXCEPT !.pc = pc]
<1>0. req[r] \in RequestRow
  BY DEF TypeInv
<1>1. u \in RequestRow /\ u.pc = pc /\ u.event = req[r].event /\ u.seen = req[r].seen
  BY <1>0 DEF RequestRow
<1>2. req' = [req EXCEPT ![r] = u]
  BY DEF Go, TypeInv
<1> HIDE DEF u
<1> QED
  BY <1>1, <1>2, Replaced

LEMMA Answered ==
  ASSUME TypeInv, NEW r \in Request, Answer(r)
  PROVE  Becomes(r, "idle", NoEvent, Absent)
<1>1. Idle \in RequestRow /\ Idle.pc = "idle" /\ Idle.event = NoEvent /\ Idle.seen = Absent
  BY AbsentShape DEF Idle, RequestRow, Pcs
<1>2. Becomes(r, Idle.pc, Idle.event, Idle.seen)
  BY <1>1, Replaced DEF Answer
<1> QED
  BY <1>1, <1>2

LEMMA IdleKnows ==
  ASSUME NEW r \in Request, req'[r].pc = "idle", req'[r].seen = Absent
  PROVE  Knows(req[r])'
BY AbsentShape DEF Knows, RowPC, HoldPC, StoredPC, UnseenPC

-----------------------------------------------------------------------------
(***************************************************************************)
(* One handler moves: what has to be shown of its step, and what follows.  *)
(***************************************************************************)

\* What no step of a handler takes back.
Grows ==
  /\ binding' = binding /\ rebound' = rebound /\ expired' = expired
  /\ abandoned \subseteq abandoned'
  /\ failedLate => failedLate'
  /\ \A e \in Event : stored[e] => stored'[e]
  /\ \A e \in Event : key[e] => key'[e]
  /\ \A e \in Event : row[e].processing # "absent" => row'[e].processing # "absent"
  /\ \A e \in Event : row'[e].processing = "processing" => row[e].processing = "processing"

\* Nobody else can tell that a row failed.
FailureTold(r) ==
  \/ failedLate'
  \/ \A q \in Request \ {r} : req[q].pc = "idle"
  \/ \A e \in Event : row'[e].processing = "failed" => row[e].processing = "failed"

LEMMA KnowsKept ==
  ASSUME TypeInv, Grows, NEW r \in Request, FailureTold(r), NEW q \in Request \ {r},
         Knows(req[q]), req'[q] = req[q]
  PROVE  Knows(req[q])'
<1> DEFINE e == req[q].event
<1>1. /\ req[q].pc \in RowPC \cup {"insert"} => e \in Event
      /\ req[q].seen.core = "committed" => e \in Event /\ stored'[e]
  BY DEF Knows, Grows
<1>2. req[q].pc \in RowPC => row'[e].processing # "absent"
  BY <1>1 DEF Knows, Grows
<1>3. req[q].pc \in StoredPC => stored'[e]
  BY <1>1 DEF Knows, Grows, StoredPC, RowPC, HoldPC
<1>4. req[q].pc \in HoldPC => key'[e] \/ e \in expired'
  BY <1>1 DEF Knows, Grows, RowPC
<1>5. req[q].pc \in UnseenPC => failedLate' \/ \A f \in Event : row'[f].processing # "failed"
  <2>1. req[q].pc # "idle" \/ req[q].pc \notin UnseenPC
    BY DEF UnseenPC, RowPC, HoldPC
  <2> QED
    BY <2>1 DEF Knows, Grows, FailureTold
<1> QED
  BY <1>1, <1>2, <1>3, <1>4, <1>5 DEF Knows

LEMMA RequestsStep ==
  ASSUME TypeInv, Requests, Grows, NEW r \in Request, FailureTold(r),
         \A q \in Request \ {r} : req'[q] = req[q], Knows(req[r])'
  PROVE  Requests'
<1>1. ASSUME NEW q \in Request \ {r} PROVE Knows(req[q])'
  <2>1. Knows(req[q]) /\ req'[q] = req[q]
    BY DEF Requests
  <2> QED
    BY <2>1, KnowsKept
<1> QED
  BY <1>1 DEF Requests

\* A holder goes on with its event, or leaves it abandoned, stored and done, or failed.
LetsGo(r) ==
  LET e == req[r].event
  IN  req[r].pc \in HoldPC =>
        \/ req'[r].pc \in HoldPC /\ req'[r].event = e
        \/ e \in abandoned'
        \/ /\ row'[e].processing # "processing"
           /\ \/ stored'[e]
              \/ failedLate'
              \/ "processing" \notin acked' /\ \A q \in Request \ {r} : req[q].pc = "idle"

\* One that goes for the claim gets it, or is abandoned, or finds it won before.
GivesWay(r) ==
  LET e == req[r].event
  IN  req[r].pc = "claim" =>
        \/ req'[r].pc \in HoldPC /\ req'[r].event = e
        \/ e \in abandoned'
        \/ Claimed(e) /\ (stored'[e] \/ failedLate' \/ Holding(e))

LEMMA HoldersStay ==
  ASSUME NEW r \in Request, \A q \in Request \ {r} : req'[q] = req[q], NEW e
  PROVE  /\ Holding(e) => \/ Holding(e)'
                          \/ /\ req[r].pc \in HoldPC /\ req[r].event = e
                             /\ ~(req'[r].pc \in HoldPC /\ req'[r].event = e)
         /\ Claiming(e) => \/ Claiming(e)'
                           \/ req[r].pc = "claim" /\ req[r].event = e
<1>1. ASSUME NEW q \in Request, req[q].pc \in HoldPC, req[q].event = e
      PROVE  \/ Holding(e)'
             \/ /\ req[r].pc \in HoldPC /\ req[r].event = e
                /\ ~(req'[r].pc \in HoldPC /\ req'[r].event = e)
  <2>1. CASE q # r
    <3>1. req'[q] = req[q]
      BY <2>1
    <3> QED
      BY <1>1, <3>1 DEF Holding
  <2>2. CASE q = r
    BY <1>1, <2>2 DEF Holding
  <2> QED
    BY <2>1, <2>2
<1>2. ASSUME NEW q \in Request, req[q].pc = "claim", req[q].event = e
      PROVE  \/ Claiming(e)'
             \/ req[r].pc = "claim" /\ req[r].event = e
  <2>1. CASE q # r
    <3>1. req'[q] = req[q]
      BY <2>1
    <3> QED
      BY <1>2, <3>1 DEF Claiming
  <2> QED
    BY <1>2, <2>1
<1> QED
  BY <1>1, <1>2 DEF Holding, Claiming

LEMMA WorkedStep ==
  ASSUME Worked, Grows, NEW r \in Request, \A q \in Request \ {r} : req'[q] = req[q],
         LetsGo(r), GivesWay(r),
         \A e \in Event : Claimed(e)' => Claimed(e) \/ Holding(e)'
  PROVE  Worked'
<1> SUFFICES ASSUME NEW e \in Event, row'[e].processing = "processing", e \notin abandoned'
             PROVE  Holding(e)' \/ (~Claimed(e)' /\ Claiming(e)')
  BY DEF Worked
<1>1. Holding(e) \/ (~Claimed(e) /\ Claiming(e))
  BY DEF Worked, Grows
<1>2. CASE Holding(e)
  BY <1>2, HoldersStay DEF LetsGo
<1>3. CASE ~Claimed(e) /\ Claiming(e)
  <2>1. Claiming(e)' \/ Holding(e)'
    <3>1. CASE req[r].pc = "claim" /\ req[r].event = e
      BY <1>3, <3>1 DEF GivesWay, Holding
    <3> QED
      BY <1>3, <3>1, HoldersStay
  <2> QED
    BY <1>3, <2>1
<1> QED
  BY <1>1, <1>2, <1>3

LEMMA RefusedStep ==
  ASSUME TypeInv, Requests, Refused, Grows, NEW r \in Request,
         \A q \in Request \ {r} : req'[q] = req[q], LetsGo(r),
         \A e \in Event : req'[r].pc = "duplicate" /\ req'[r].event = e =>
           failedLate' \/ stored'[e] \/ e \in abandoned' \/ Holding(e)',
         req'[r].pc = "duplicate" => req'[r].event \in Event
  PROVE  Refused'
<1>1. ASSUME NEW q \in Request, q # r, req'[q].pc = "duplicate", ~failedLate', NEW e \in Event,
             req[q].event = e
      PROVE  stored'[e] \/ e \in abandoned' \/ Holding(e)'
  <2>1. req'[q] = req[q]
    BY <1>1
  <2>2. ~failedLate /\ (stored[e] \/ e \in abandoned \/ Holding(e))
    BY <1>1, <2>1 DEF Refused, Grows, Holding
  <2>3. CASE Holding(e)
    <3>1. req[q].pc # "idle"
      BY <1>1, <2>1
    <3>2. req[r].pc \in HoldPC /\ req[r].event = e =>
            (req'[r].pc \in HoldPC /\ req'[r].event = e) \/ stored'[e] \/ e \in abandoned'
      BY <1>1, <3>1 DEF LetsGo
    <3> QED
      BY <2>3, <3>2, HoldersStay
  <2>4. CASE stored[e] \/ e \in abandoned
    BY <2>4 DEF Grows
  <2> QED
    BY <2>2, <2>3, <2>4
<1>2. ASSUME NEW q \in Request, req'[q].pc = "duplicate"
      PROVE  /\ req'[q].event \in Event
             /\ \A e \in Event : req'[q].event = e =>
                  failedLate' \/ stored'[e] \/ e \in abandoned' \/ Holding(e)'
  <2>1. CASE q = r
    BY <1>2, <2>1
  <2>2. CASE q # r
    <3>1. req'[q] = req[q]
      BY <2>2
    <3>2. req[q].event \in Event
      BY <1>2, <3>1 DEF Requests, Knows, RowPC
    <3> QED
      BY <1>1, <1>2, <2>2, <3>1, <3>2
  <2> QED
    BY <2>1, <2>2
<1> QED
  BY <1>2 DEF Refused, Holding

LEMMA WorkingIsHolding ==
  ASSUME NEW e
  PROVE  Working(e) <=> Holding(e) \/ Claiming(e)
BY DEF Working, Holding, Claiming, WorkPC, HoldPC, EventOf

LEMMA AcksStep ==
  ASSUME TypeInv, Requests, Acks, Grows, NEW r \in Request,
         \A q \in Request \ {r} : req'[q] = req[q], LetsGo(r), GivesWay(r),
         "ok" \in acked' => "ok" \in acked \/ \E e \in Event : stored[e],
         "processing" \in acked' =>
           \/ "processing" \in acked \/ failedLate
           \/ \E e \in Event : stored[e] \/ e \in abandoned \/ Holding(e) \/ Claiming(e)
  PROVE  Acks'
<1>1. "ok" \in acked' => \E e \in Event : stored'[e]
  BY DEF Acks, Grows
<1>2. ASSUME "processing" \in acked', ~failedLate'
      PROVE  \E e \in Event : stored'[e] \/ Working(e)' \/ e \in abandoned'
  <2>1. PICK e \in Event : stored[e] \/ e \in abandoned \/ Holding(e) \/ Claiming(e)
    BY <1>2, WorkingIsHolding DEF Acks, AcceptedIsWorkedOn, Grows
  <2>2. CASE stored[e] \/ e \in abandoned
    BY <2>2 DEF Grows
  <2>3. CASE Holding(e)
    <3>1. Holding(e)' \/ e \in abandoned' \/ stored'[e]
      BY <1>2, <2>3, HoldersStay DEF LetsGo
    <3> QED
      BY <3>1 DEF Working, Holding, WorkPC, HoldPC, EventOf
  <2>4. CASE Claiming(e)
    <3>1. CASE Claiming(e)' \/ Holding(e)'
      BY <3>1 DEF Working, Holding, Claiming, WorkPC, HoldPC, EventOf
    <3>2. CASE ~Claiming(e)' /\ ~Holding(e)'
      <4>1. req[r].pc = "claim" /\ req[r].event = e
        BY <2>4, <3>2, HoldersStay
      <4>2. ~(req'[r].pc \in HoldPC /\ req'[r].event = e)
        BY <3>2 DEF Holding
      <4>3. e \in abandoned' \/ stored'[e] \/ Holding(e)
        BY <1>2, <4>1, <4>2 DEF GivesWay
      <4>4. req[r].pc \notin HoldPC
        BY <4>1 DEF HoldPC
      <4>5. ~Holding(e)
        BY <3>2, <4>4, HoldersStay
      <4> QED
        BY <4>3, <4>5
    <3> QED
      BY <3>1, <3>2
  <2> QED
    BY <2>1, <2>2, <2>3, <2>4
<1> QED
  BY <1>1, <1>2 DEF Acks, AcceptedIsWorkedOn

LEMMA BindingsStep ==
  ASSUME TypeInv, Bindings, Grows, NEW r \in Request, \A q \in Request \ {r} : req'[q] = req[q],
         \A e \in Event : row'[e] # Absent => row[e] # Absent,
         ~rebound /\ Routing(r)' => /\ \A e \in Event : row[e] # Absent => e = Bound
                                    /\ req'[r].pc = "insert" => req'[r].event = Bound
  PROVE  Bindings'
<1>1. Bound' = Bound /\ OneActive'
  BY DEF Bound, OneActive, IsActive, Grows, Bindings
<1>2. ASSUME ~rebound'
      PROVE  /\ \A e, f \in Event : row'[e] # Absent /\ row'[f] # Absent => e = f
             /\ \A q \in Request : Routing(q)' =>
                  /\ \A e \in Event : row'[e] # Absent => e = Bound
                  /\ req'[q].pc = "insert" => req'[q].event = Bound
  <2>1. ~rebound
    BY <1>2 DEF Grows
  <2>2. \A e, f \in Event : row'[e] # Absent /\ row'[f] # Absent => e = f
    BY <2>1 DEF Bindings
  <2>3. ASSUME NEW q \in Request, Routing(q)'
        PROVE  /\ \A e \in Event : row'[e] # Absent => e = Bound
               /\ req'[q].pc = "insert" => req'[q].event = Bound
    <3>1. CASE q = r
      BY <2>1, <2>3, <3>1
    <3>2. CASE q # r
      <4>1. req'[q] = req[q]
        BY <3>2
      <4> QED
        BY <2>1, <2>3, <4>1 DEF Bindings, Routing
    <3> QED
      BY <3>1, <3>2
  <2> QED
    BY <2>2, <2>3
<1>3. \A q : Routing(q)' <=> req'[q].pc \in {"route", "insert"}
  BY DEF Routing
<1> QED
  BY <1>1, <1>2, <1>3 DEF Bindings, Routing

LEMMA Step ==
  ASSUME TypeInv, Inv, NEW r \in Request, Grows, FailureTold(r),
         \A q \in Request \ {r} : req'[q] = req[q], Knows(req[r])', Records', RunsOnce',
         LetsGo(r), GivesWay(r),
         \A e \in Event : Claimed(e)' => Claimed(e) \/ Holding(e)',
         \A e \in Event : req'[r].pc = "duplicate" /\ req'[r].event = e =>
           failedLate' \/ stored'[e] \/ e \in abandoned' \/ Holding(e)',
         "ok" \in acked' => "ok" \in acked \/ \E e \in Event : stored[e],
         "processing" \in acked' =>
           \/ "processing" \in acked \/ failedLate
           \/ \E e \in Event : stored[e] \/ e \in abandoned \/ Holding(e) \/ Claiming(e),
         \A e \in Event : row'[e] # Absent => row[e] # Absent,
         ~rebound /\ Routing(r)' => /\ \A e \in Event : row[e] # Absent => e = Bound
                                    /\ req'[r].pc = "insert" => req'[r].event = Bound
  PROVE  Inv'
<1>1. Requests'
  BY RequestsStep DEF Inv
<1>2. Worked'
  BY WorkedStep DEF Inv
<1>3. req'[r].pc = "duplicate" => req'[r].event \in Event
  BY DEF Knows, RowPC
<1>4. Refused'
  BY <1>3, RefusedStep DEF Inv
<1>5. Acks'
  BY AcksStep DEF Inv
<1>6. Bindings'
  BY BindingsStep DEF Inv
<1> QED
  BY <1>1, <1>2, <1>4, <1>5, <1>6 DEF Inv

\* A step that leaves the records alone.
LEMMA QuietStep ==
  ASSUME TypeInv, Inv, NEW r \in Request, NEW pc, NEW e, NEW s, Becomes(r, pc, e, s),
         UNCHANGED <<binding, row, key, response, stored, runs, expired, failedLate, rebound>>,
         abandoned \subseteq abandoned', acked' \subseteq {"ok", "processing", "ignored"},
         pc # "begin", Knows(req[r])',
         LetsGo(r), GivesWay(r),
         \A f \in Event : pc = "duplicate" /\ e = f =>
           failedLate \/ stored[f] \/ f \in abandoned' \/ Holding(f)',
         "ok" \in acked' => "ok" \in acked \/ \E f \in Event : stored[f],
         "processing" \in acked' =>
           \/ "processing" \in acked \/ failedLate
           \/ \E f \in Event : stored[f] \/ f \in abandoned \/ Holding(f) \/ Claiming(f),
         ~rebound /\ pc \in {"route", "insert"} =>
           /\ \A f \in Event : row[f] # Absent => f = Bound
           /\ pc = "insert" => e = Bound
  PROVE  TypeInv' /\ Inv'
<1>1. /\ req' \in [Request -> RequestRow] /\ \A q \in Request \ {r} : req'[q] = req[q]
      /\ req'[r].pc = pc /\ req'[r].event = e
  BY DEF Becomes
<1>2. TypeInv'
  BY <1>1 DEF TypeInv
<1>3. Grows /\ FailureTold(r)
  BY DEF Grows, FailureTold
<1>4. Records'
  BY DEF Inv, Records, Says, Claimed
<1>5. RunsOnce'
  <2>1. \A q \in Request, f \in Event : About(q, f)' => About(q, f)
    <3> SUFFICES ASSUME NEW q \in Request, NEW f \in Event, About(q, f)' PROVE About(q, f)
      OBVIOUS
    <3>1. req'[q].pc = "begin" /\ req'[q].event = f
      BY DEF About
    <3>2. q # r
      BY <1>1, <3>1
    <3>3. req'[q] = req[q]
      BY <1>1, <3>2
    <3> QED
      BY <3>1, <3>3 DEF About
  <2> QED
    BY <2>1 DEF Inv, RunsOnce
<1>6. \A f \in Event : Claimed(f)' => Claimed(f)
  BY DEF Claimed
<1>7. Routing(r)' => pc \in {"route", "insert"}
  BY <1>1 DEF Routing
<1> QED
  BY <1>1, <1>2, <1>3, <1>4, <1>5, <1>6, <1>7, Step

\* A handler that ends without a trace and is not a holder, or is abandoned.
LEMMA AnswerStep ==
  ASSUME TypeInv, Inv, NEW r \in Request, Answer(r),
         UNCHANGED <<binding, row, key, response, stored, runs, expired, failedLate, rebound>>,
         abandoned \subseteq abandoned', acked' \subseteq {"ok", "processing", "ignored"},
         req[r].pc \in WorkPC => req[r].event \in abandoned',
         "ok" \in acked' => "ok" \in acked \/ \E f \in Event : stored[f],
         "processing" \in acked' =>
           \/ "processing" \in acked \/ failedLate
           \/ \E f \in Event : stored[f] \/ f \in abandoned \/ Holding(f) \/ Claiming(f)
  PROVE  TypeInv' /\ Inv'
<1>1. Becomes(r, "idle", NoEvent, Absent)
  BY Answered
<1>2. Knows(req[r])'
  BY <1>1, IdleKnows DEF Becomes
<1>3. LetsGo(r) /\ GivesWay(r)
  BY DEF LetsGo, GivesWay, WorkPC, HoldPC
<1> QED
  BY <1>1, <1>2, <1>3, QuietStep

-----------------------------------------------------------------------------
(***************************************************************************)
(* The look-up, the binding and the row.                                   *)
(***************************************************************************)

LEMMA PostStep ==
  ASSUME TypeInv, Inv, NEW r \in Request, Post(r)
  PROVE  TypeInv' /\ Inv'
<1>1. /\ req[r].pc = "idle" /\ Go(r, "lookup")
      /\ UNCHANGED <<binding, row, key, response, stored, runs, expired, failedLate, rebound>>
      /\ UNCHANGED <<abandoned, acked>>
  BY DEF Post, History
<1>2. Becomes(r, "lookup", req[r].event, req[r].seen)
  BY <1>1, Gone DEF Pcs
<1>3. Knows(req[r])'
  <2>1. req[r].seen.core # "committed"
    BY <1>1 DEF Inv, Requests, Knows
  <2> QED
    BY <1>2, <2>1 DEF Becomes, Knows, RowPC, HoldPC, StoredPC, UnseenPC
<1>4. LetsGo(r) /\ GivesWay(r)
  BY <1>1 DEF LetsGo, GivesWay, HoldPC
<1>5. acked \subseteq {"ok", "processing", "ignored"}
  BY DEF TypeInv
<1> QED
  BY <1>1, <1>2, <1>3, <1>4, <1>5, QuietStep

LEMMA LookUpStep ==
  ASSUME TypeInv, Inv, NEW r \in Request, LookUp(r)
  PROVE  TypeInv' /\ Inv'
<1>1. /\ req[r].pc = "lookup"
      /\ UNCHANGED <<binding, row, key, response, stored, runs, expired, failedLate, rebound>>
      /\ UNCHANGED abandoned
  BY DEF LookUp, History
<1>2. acked \subseteq {"ok", "processing", "ignored"} /\ req[r].pc \notin WorkPC
      /\ LetsGo(r) /\ GivesWay(r)
  BY <1>1 DEF TypeInv, WorkPC, LetsGo, GivesWay, HoldPC
<1>3. CASE Answer(r) /\ acked' = acked
  BY <1>1, <1>2, <1>3, AnswerStep
<1>4. ASSUME Rows = {}, Go(r, "route"), acked' = acked PROVE TypeInv' /\ Inv'
  <2>1. \A e \in Event : row[e] = Absent
    BY <1>4 DEF Rows
  <2>2. Becomes(r, "route", req[r].event, req[r].seen)
    BY <1>4, Gone DEF Pcs
  <2>3. req[r].seen.core # "committed"
    BY <1>1 DEF Inv, Requests, Knows
  <2>4. \A e \in Event : row'[e].processing # "failed"
    BY <1>1, <2>1, AbsentShape
  <2>5. Knows(req[r])'
    BY <2>2, <2>3, <2>4 DEF Becomes, Knows, RowPC, HoldPC, StoredPC, UnseenPC
  <2> QED
    BY <1>1, <1>2, <1>4, <2>1, <2>2, <2>5, QuietStep
<1>5. ASSUME NEW e \in Rows, Replayable(row[e]), acked' = acked,
             req' = [req EXCEPT ![r] = [pc |-> "replay", event |-> e, seen |-> row[e]]]
      PROVE  TypeInv' /\ Inv'
  <2>1. e \in Event /\ row[e] \in Rowtype
    BY DEF Rows, TypeInv
  <2>2. Becomes(r, "replay", e, row[e])
    BY <1>5, <2>1, Moved DEF Pcs, RowPC
  <2>3. stored[e] /\ row[e].processing = "completed"
    BY <1>5, <2>1 DEF Replayable, Inv, Records, Says
  <2>4. Knows(req[r])'
    BY <1>1, <2>1, <2>2, <2>3 DEF Becomes, Knows, RowPC, HoldPC, StoredPC, UnseenPC
  <2> QED
    BY <1>1, <1>2, <1>5, <2>2, <2>4, QuietStep
<1>6. ASSUME NEW e \in Rows, InProgress(row[e]), Ack(r, "processing")
      PROVE  TypeInv' /\ Inv'
  <2>1. e \in Event /\ row[e].processing = "processing"
    BY <1>6 DEF Rows, InProgress
  <2>2. e \in abandoned \/ Holding(e) \/ Claiming(e)
    BY <2>1 DEF Inv, Worked
  <2>3. acked' = acked \cup {"processing"} /\ Answer(r)
    BY <1>6 DEF Ack
  <2> QED
    BY <1>1, <1>2, <2>1, <2>2, <2>3, AnswerStep
<1> QED
  BY <1>3, <1>4, <1>5, <1>6 DEF LookUp

LEMMA BoundIsEvent ==
  ASSUME TypeInv, Bound # NoEvent
  PROVE  Bound \in Event
<1>1. \E o \in Operator : IsActive(o)
  BY DEF Bound
<1> DEFINE o == CHOOSE p \in Operator : IsActive(p)
<1>2. o \in Operator /\ IsActive(o)
  BY <1>1
<1>3. Bound = binding[o].event
  BY <1>1 DEF Bound
<1> HIDE DEF o
<1> QED
  BY <1>2, <1>3 DEF IsActive, TypeInv

LEMMA RouteStep ==
  ASSUME TypeInv, Inv, NEW r \in Request, Route(r)
  PROVE  TypeInv' /\ Inv'
<1>1. /\ req[r].pc = "route"
      /\ UNCHANGED <<binding, row, key, response, stored, runs, expired, failedLate, rebound>>
      /\ UNCHANGED abandoned
  BY DEF Route, History
<1>2. acked \subseteq {"ok", "processing", "ignored"} /\ req[r].pc \notin WorkPC
      /\ LetsGo(r) /\ GivesWay(r)
  BY <1>1 DEF TypeInv, WorkPC, LetsGo, GivesWay, HoldPC
<1>3. CASE Answer(r) /\ acked' = acked
  BY <1>1, <1>2, <1>3, AnswerStep
<1>4. CASE Ack(r, "ignored")
  <2>1. acked' = acked \cup {"ignored"} /\ Answer(r)
    BY <1>4 DEF Ack
  <2> QED
    BY <1>1, <1>2, <2>1, AnswerStep
<1>5. ASSUME Bound # NoEvent, req' = [req EXCEPT ![r].pc = "insert", ![r].event = Bound], acked' = acked
      PROVE  TypeInv' /\ Inv'
  <2>1. PICK e \in Event : e = Bound
    BY <1>5, BoundIsEvent
  <2>2. Becomes(r, "insert", e, req[r].seen)
    BY <1>5, <2>1, Moved, RequestShape DEF Pcs
  <2>3. /\ req[r].seen.core # "committed"
        /\ failedLate \/ \A f \in Event : row[f].processing # "failed"
    BY <1>1 DEF Inv, Requests, Knows, UnseenPC
  <2>4. Knows(req[r])'
    BY <1>1, <2>1, <2>2, <2>3 DEF Becomes, Knows, RowPC, HoldPC, StoredPC, UnseenPC
  <2>5. ~rebound => \A f \in Event : row[f] # Absent => f = Bound
    BY <1>1 DEF Inv, Bindings, Routing
  <2> QED
    <3>1. ~rebound => \A f \in Event : row[f] # Absent => f = Bound
      BY <2>5
    <3>2. UNCHANGED <<binding, row, key, response, stored, runs, expired, failedLate, rebound>> /\ abandoned \subseteq abandoned'
      BY <1>1
    <3>3. acked' \subseteq {"ok", "processing", "ignored"} /\ acked' = acked
      BY <1>2, <1>5
    <3> QED
      BY <1>2, <2>1, <2>2, <2>4, <3>1, <3>2, <3>3, QuietStep
<1> QED
  BY <1>3, <1>4, <1>5 DEF Route

\* ON CONFLICT DO NOTHING: the row is made, or one that is there is read.
LEMMA InsertStep ==
  ASSUME TypeInv, Inv, NEW r \in Request, InsertRow(r)
  PROVE  TypeInv' /\ Inv'
<1>0. PICK e \in Event : req[r].event = e
  BY DEF InsertRow, Inv, Requests, Knows
<1>1. /\ req[r].pc = "insert"
      /\ UNCHANGED <<binding, key, response, stored, runs, expired, failedLate, rebound>>
      /\ UNCHANGED <<abandoned, acked>>
  BY DEF InsertRow, History
<1>2. /\ acked \subseteq {"ok", "processing", "ignored"}
      /\ LetsGo(r) /\ GivesWay(r)
      /\ Knows(req[r])
  BY <1>1 DEF TypeInv, LetsGo, GivesWay, HoldPC, Inv, Requests, Knows
<1>3. CASE row[e] # Absent /\ Go(r, "existing") /\ row' = row
  <2>1. Becomes(r, "existing", e, req[r].seen)
    BY <1>0, <1>3, Gone DEF Pcs, RowPC
  <2>2. row[e].processing # "absent"
    BY <1>2, <1>3 DEF Inv, Records, Says
  <2>3. Knows(req[r])'
    BY <1>0, <1>1, <1>2, <1>3, <2>1, <2>2 DEF Becomes, Knows, RowPC, HoldPC, StoredPC, UnseenPC
  <2> QED
    BY <1>1, <1>2, <1>3, <2>1, <2>3, QuietStep
<1>4. CASE /\ row[e] = Absent /\ row' = [row EXCEPT ![e] = Created]
           /\ req' = [req EXCEPT ![r].pc = "claim", ![r].seen = Created]
  <2>1. Becomes(r, "claim", e, Created)
    BY <1>0, <1>4, Moved, AbsentShape, RequestShape DEF Pcs, RowPC
  <2>2. /\ req' \in [Request -> RequestRow] /\ \A q \in Request \ {r} : req'[q] = req[q]
        /\ req'[r].pc = "claim" /\ req'[r].event = e /\ req'[r].seen = Created
    BY <2>1 DEF Becomes
  <2>3. /\ row' \in [Event -> Rowtype] /\ row'[e] = Created
        /\ \A f \in Event : f # e => row'[f] = row[f]
    BY <1>2, <1>4, AbsentShape DEF TypeInv
  <2>4. TypeInv'
    BY <1>1, <2>2, <2>3 DEF TypeInv
  <2>5. req[r].event = e
    BY <1>0
  <2>6. \A f \in Event : row'[f].processing = "failed" => row[f].processing = "failed"
    BY <2>3, AbsentShape
  <2>7. Requests'
    <3>1. Knows(req[r])'
      BY <1>0, <1>1, <1>2, <2>2, <2>3, <2>6, AbsentShape
         DEF Knows, RowPC, HoldPC, StoredPC, UnseenPC
    <3>2. ASSUME NEW q \in Request, q # r PROVE Knows(req[q])'
      <4>1. Knows(req[q]) /\ req'[q] = req[q]
        BY <2>2, <3>2 DEF Inv, Requests
      <4>2. \A f \in Event : row[f].processing # "absent" => row'[f].processing # "absent"
        BY <2>3, AbsentShape
      <4>3. req[q].pc \in RowPC => req[q].event \in Event /\ row'[req[q].event].processing # "absent"
        BY <4>1, <4>2 DEF Knows
      <4>4. req[q].pc \in UnseenPC => failedLate \/ \A f \in Event : row'[f].processing # "failed"
        BY <2>6, <4>1 DEF Knows
      <4> QED
        BY <1>1, <4>1, <4>3, <4>4 DEF Knows
    <3> QED
      BY <3>1, <3>2 DEF Requests
  <2>8. Records'
    <3>1. Says(e) /\ ~Claimed(e)
      BY <1>2, <1>4, AbsentShape DEF Inv, Records, Says
    <3>2. Says(e)'
      BY <1>1, <2>3, <3>1, AbsentShape DEF Says, Claimed
    <3>3. ASSUME NEW f \in Event, f # e PROVE Says(f)'
      BY <1>1, <2>3, <3>3 DEF Inv, Records, Says, Claimed
    <3> QED
      BY <3>2, <3>3 DEF Records
  <2>9. Worked'
    <3>1. ASSUME NEW f \in Event, row'[f].processing = "processing"
          PROVE  f \in abandoned \/ Holding(f)' \/ (~Claimed(f)' /\ Claiming(f)')
      <4>1. CASE f = e
        <5>1. ~Claimed(e)
          BY <1>2, <1>4, AbsentShape DEF Inv, Records, Says
        <5>2. Claiming(e)'
          BY <2>2 DEF Claiming
        <5> QED
          BY <1>1, <4>1, <5>1, <5>2 DEF Claimed
      <4>2. CASE f # e
        <5>1. f \in abandoned \/ Holding(f) \/ (~Claimed(f) /\ Claiming(f))
          BY <2>3, <3>1, <4>2 DEF Inv, Worked
        <5>2. /\ Holding(f) => Holding(f)'
              /\ Claiming(f) => Claiming(f)'
          BY <1>1, <2>2, HoldersStay DEF HoldPC
        <5> QED
          BY <1>1, <5>1, <5>2 DEF Claimed
      <4> QED
        BY <4>1, <4>2
    <3> QED
      BY <1>1, <3>1 DEF Worked
  <2>10. \A f : Holding(f) => Holding(f)'
    <3> TAKE f
    <3> QED
      BY <1>1, <2>2, HoldersStay DEF HoldPC
  <2>11. Refused'
    <3>1. ASSUME NEW q \in Request, req'[q].pc = "duplicate"
          PROVE  \/ failedLate \/ stored[req'[q].event] \/ req'[q].event \in abandoned
                 \/ \E f : f = req'[q].event /\ Holding(f)'
      <4>1. q # r /\ req'[q] = req[q]
        BY <2>2, <3>1
      <4>2. failedLate \/ stored[req[q].event] \/ req[q].event \in abandoned \/ Holding(req[q].event)
        BY <3>1, <4>1 DEF Inv, Refused
      <4> QED
        BY <2>10, <4>1, <4>2
    <3> QED
      BY <1>1, <3>1 DEF Refused, Holding
  <2>12. RunsOnce'
    <3>1. \A q \in Request, f \in Event : About(q, f)' => About(q, f)
      <4> SUFFICES ASSUME NEW q \in Request, NEW f \in Event, About(q, f)' PROVE About(q, f)
        OBVIOUS
      <4>1. req'[q].pc = "begin" /\ req'[q].event = f
        BY DEF About
      <4>2. req'[q] = req[q]
        BY <2>2, <4>1
      <4> QED
        BY <4>1, <4>2 DEF About
    <3> QED
      BY <1>1, <3>1 DEF Inv, RunsOnce
  <2>13. Acks'
    <3>1. ASSUME NEW f, Working(f) PROVE Working(f)'
      <4>1. Holding(f)' \/ Claiming(f)'
        BY <1>1, <2>2, <3>1, HoldersStay, WorkingIsHolding DEF HoldPC
      <4> QED
        BY <4>1 DEF Working, Holding, Claiming, WorkPC, HoldPC, EventOf
    <3> QED
      BY <1>1, <3>1 DEF Inv, Acks, AcceptedIsWorkedOn
  <2>14. Bindings'
    <3>1. Bound' = Bound /\ OneActive'
      BY <1>1 DEF Bound, OneActive, IsActive, Inv, Bindings
    <3>2. ~rebound => e = Bound /\ \A f \in Event : row[f] # Absent => f = Bound
      BY <1>1, <2>5 DEF Inv, Bindings, Routing
    <3>3. ~rebound => \A f \in Event : row'[f] # Absent => f = Bound
      BY <2>3, <3>2
    <3>4. ASSUME ~rebound, NEW q \in Request, req'[q].pc = "insert" PROVE req'[q].event = Bound
      <4>1. req'[q] = req[q]
        BY <2>2, <3>4
      <4> QED
        BY <3>4, <4>1 DEF Inv, Bindings, Routing
    <3> QED
      BY <1>1, <3>1, <3>3, <3>4 DEF Bindings
  <2> QED
    BY <2>4, <2>7, <2>8, <2>9, <2>11, <2>12, <2>13, <2>14 DEF Inv
<1> QED
  BY <1>0, <1>1, <1>3, <1>4 DEF InsertRow, EventOf

LEMMA ReadExistingStep ==
  ASSUME TypeInv, Inv, NEW r \in Request, ReadExisting(r)
  PROVE  TypeInv' /\ Inv'
<1>0. PICK e \in Event : req[r].event = e
  BY DEF ReadExisting, Inv, Requests, Knows, RowPC
<1>1. /\ req[r].pc = "existing" /\ req' = [req EXCEPT ![r].pc = "claim", ![r].seen = row[e]]
      /\ UNCHANGED <<binding, row, key, response, stored, runs, expired, failedLate, rebound>>
      /\ UNCHANGED <<abandoned, acked>>
  BY <1>0 DEF ReadExisting, History, EventOf
<1>2. /\ acked \subseteq {"ok", "processing", "ignored"}
      /\ LetsGo(r) /\ GivesWay(r) /\ Knows(req[r])
  BY <1>1 DEF TypeInv, LetsGo, GivesWay, HoldPC, Inv, Requests, Knows, RowPC
<1>3. row[e] \in Rowtype /\ (row[e].core = "committed" => stored[e])
  BY <1>2 DEF TypeInv, Inv, Records, Says
<1>4. Becomes(r, "claim", e, row[e])
  BY <1>0, <1>1, <1>3, Moved DEF Pcs, RowPC
<1>5. Knows(req[r])'
  BY <1>0, <1>1, <1>2, <1>3, <1>4 DEF Becomes, Knows, RowPC, HoldPC, StoredPC, UnseenPC
<1>6. /\ UNCHANGED <<binding, row, key, response, stored, runs, expired, failedLate, rebound>>
      /\ UNCHANGED <<abandoned, acked>>
  BY <1>1
<1> QED
  BY <1>2, <1>4, <1>5, <1>6, QuietStep

-----------------------------------------------------------------------------
(***************************************************************************)
(* The claim.                                                              *)
(***************************************************************************)

\* A claim that has been won has been won by somebody.
LEMMA ClaimHasHolder ==
  ASSUME TypeInv, Inv, NEW e \in Event, key[e],
         failedLate \/ \A f \in Event : row[f].processing # "failed"
  PROVE  failedLate \/ stored[e] \/ e \in abandoned \/ Holding(e)
<1>1. Claimed(e) /\ row[e].processing \in {"absent", "processing", "completed", "failed"}
  BY RowShape DEF Claimed, TypeInv
<1>2. /\ row[e].processing # "absent"
      /\ row[e].processing = "completed" => stored[e]
      /\ row[e].processing = "processing" => e \in abandoned \/ Holding(e)
  BY <1>1 DEF Inv, Records, Says, Worked
<1> QED
  BY <1>1, <1>2

LEMMA RefusalStep ==
  ASSUME TypeInv, Inv, NEW r \in Request, ClaimRefused(r)
  PROVE  TypeInv' /\ Inv'
<1>0. PICK e \in Event : req[r].event = e
  BY DEF ClaimRefused, Inv, Requests, Knows, RowPC
<1>1. /\ req[r].pc = "claim" /\ key[e] = TRUE /\ Go(r, "duplicate")
      /\ UNCHANGED <<binding, row, key, response, stored, runs, expired, failedLate, rebound>>
      /\ UNCHANGED <<abandoned, acked>>
  BY <1>0 DEF ClaimRefused, Claimable, History, EventOf, TypeInv
<1>2. /\ acked \subseteq {"ok", "processing", "ignored"}
      /\ Knows(req[r])
      /\ failedLate \/ \A f \in Event : row[f].processing # "failed"
  BY <1>1 DEF TypeInv, Inv, Requests, Knows, RowPC, UnseenPC
<1>3. failedLate \/ stored[e] \/ e \in abandoned \/ Holding(e)
  BY <1>1, <1>2, ClaimHasHolder
<1>4. Becomes(r, "duplicate", e, req[r].seen)
  BY <1>0, <1>1, Gone DEF Pcs, RowPC
<1>5. LetsGo(r) /\ GivesWay(r)
  BY <1>0, <1>1, <1>3 DEF LetsGo, GivesWay, HoldPC, Claimed
<1>6. Knows(req[r])'
  BY <1>0, <1>1, <1>2, <1>4 DEF Becomes, Knows, RowPC, HoldPC, StoredPC, UnseenPC
<1>7. Holding(e) => Holding(e)'
  <2>1. \A q \in Request \ {r} : req'[q] = req[q]
    BY <1>4 DEF Becomes
  <2> QED
    BY <1>1, <2>1, HoldersStay DEF HoldPC
<1> QED
  BY <1>1, <1>2, <1>3, <1>4, <1>5, <1>6, <1>7, QuietStep

-----------------------------------------------------------------------------
(***************************************************************************)
(* Steps that change one record of one event.                              *)
(***************************************************************************)

LEMMA RecordsAt ==
  ASSUME Records, NEW e \in Event, Says(e)', expired' = expired,
         \A f \in Event : f # e => /\ row'[f] = row[f] /\ key'[f] = key[f]
                                   /\ response'[f] = response[f] /\ stored'[f] = stored[f]
  PROVE  Records'
<1>1. ASSUME NEW f \in Event, f # e PROVE Says(f)'
  BY <1>1 DEF Records, Says, Claimed
<1> QED
  BY <1>1 DEF Records

LEMMA RunsKept ==
  ASSUME RunsOnce, runs' = runs, expired' = expired, \A e \in Event : key[e] => key'[e],
         NEW r \in Request, \A q \in Request \ {r} : req'[q] = req[q], req'[r].pc # "begin"
  PROVE  RunsOnce'
<1>1. \A q \in Request, f \in Event : About(q, f)' => About(q, f)
  <2> SUFFICES ASSUME NEW q \in Request, NEW f \in Event, About(q, f)' PROVE About(q, f)
    OBVIOUS
  <2>1. req'[q].pc = "begin" /\ req'[q].event = f
    BY DEF About
  <2>2. req'[q] = req[q]
    BY <2>1
  <2> QED
    BY <2>1, <2>2 DEF About
<1> QED
  BY <1>1 DEF RunsOnce

\* The response is put in the cache, of an event whose transaction committed.
LEMMA ResponseStep ==
  ASSUME TypeInv, Inv, NEW r \in Request, NEW pc \in {"idle", "complete"}, NEW ev, NEW s,
         Becomes(r, pc, ev, s), NEW e \in Event, stored[e] = TRUE,
         response' = [response EXCEPT ![e] = TRUE],
         UNCHANGED <<binding, row, key, stored, runs, expired, abandoned, failedLate, rebound>>,
         acked' = acked \/ acked' = acked \cup {"ok"},
         Knows(req[r])', LetsGo(r), GivesWay(r)
  PROVE  TypeInv' /\ Inv'
<1>1. /\ req' \in [Request -> RequestRow] /\ \A q \in Request \ {r} : req'[q] = req[q]
      /\ req'[r].pc = pc /\ req'[r].event = ev
  BY DEF Becomes
<1>2. /\ response' \in [Event -> BOOLEAN]
      /\ \A f \in Event : f # e => response'[f] = response[f]
  BY DEF TypeInv
<1>3. TypeInv'
  BY <1>1, <1>2 DEF TypeInv
<1>4. Grows /\ FailureTold(r)
  BY DEF Grows, FailureTold
<1>5. Records'
  <2>1. Says(e)'
    BY DEF Inv, Records, Says, Claimed
  <2> QED
    BY <1>2, <2>1, RecordsAt DEF Inv
<1>6. RunsOnce'
  BY <1>1, RunsKept DEF Inv
<1>7. \A f \in Event : Claimed(f)' => Claimed(f)
  BY DEF Claimed
<1>8. ~Routing(r)' /\ req'[r].pc # "duplicate"
  BY <1>1 DEF Routing
<1>9. /\ "ok" \in acked' => \E f \in Event : stored[f]
      /\ "processing" \in acked' => "processing" \in acked
  BY DEF Inv, Acks
<1> QED
  BY <1>1, <1>3, <1>4, <1>5, <1>6, <1>7, <1>8, <1>9, Step

\* An UPDATE of a row that is there.
LEMMA RowStep ==
  ASSUME TypeInv, Inv, NEW r \in Request, NEW pc \in {"idle", "core", "respond"}, NEW ev, NEW s,
         Becomes(r, pc, ev, s), NEW e \in Event, NEW d \in Rowtype,
         row' = [row EXCEPT ![e] = d], row[e].processing # "absent", d.processing # "absent",
         d.processing = "processing" => row[e].processing = "processing",
         d.core = "committed" \/ d.processing = "completed" => stored[e],
         UNCHANGED <<binding, key, response, stored, expired, rebound>>,
         runs' \in [Event -> Nat], RunsOnce', abandoned \subseteq abandoned',
         failedLate' \in BOOLEAN, failedLate => failedLate', FailureTold(r),
         acked' = acked \/ (acked' = acked \cup {"ok"} /\ stored[e]),
         Knows(req[r])', LetsGo(r), GivesWay(r)
  PROVE  TypeInv' /\ Inv'
<1>1. /\ req' \in [Request -> RequestRow] /\ \A q \in Request \ {r} : req'[q] = req[q]
      /\ req'[r].pc = pc /\ req'[r].event = ev
  BY DEF Becomes
<1>2. /\ row' \in [Event -> Rowtype] /\ row'[e] = d
      /\ \A f \in Event : f # e => row'[f] = row[f]
  BY DEF TypeInv
<1>3. TypeInv'
  BY <1>1, <1>2 DEF TypeInv
<1>4. Grows
  BY <1>2 DEF Grows
<1>5. Records'
  <2>1. Says(e)'
    BY <1>2 DEF Inv, Records, Says, Claimed
  <2> QED
    BY <1>2, <2>1, RecordsAt DEF Inv
<1>6. \A f \in Event : row'[f] # Absent => row[f] # Absent
  BY <1>2, AbsentShape
<1>7. \A f \in Event : Claimed(f)' => Claimed(f)
  BY DEF Claimed
<1>8. ~Routing(r)' /\ req'[r].pc # "duplicate"
  BY <1>1 DEF Routing
<1>9. /\ "ok" \in acked' => "ok" \in acked \/ \E f \in Event : stored[f]
      /\ "processing" \in acked' => "processing" \in acked
  OBVIOUS
<1> QED
  BY <1>1, <1>3, <1>4, <1>5, <1>6, <1>7, <1>8, <1>9, Step

LEMMA RowForms ==
  ASSUME TypeInv, NEW e \in Event
  PROVE  /\ \A c \in {"processing", "committed"} :
              \E d \in Rowtype : /\ d.core = c /\ d.processing = row[e].processing
                                 /\ row' = [row EXCEPT ![e].core = c] => row' = [row EXCEPT ![e] = d]
         /\ \E d \in Rowtype :
              /\ d.core = row[e].core /\ d.processing = "completed"
              /\ row' = [row EXCEPT ![e].processing = "completed", ![e].completion = "completed"]
                   => row' = [row EXCEPT ![e] = d]
         /\ \A pc \in {"critical", "unconfirmed"} :
              /\ Failed(row[e], pc) \in Rowtype /\ Failed(row[e], pc).processing = "failed"
              /\ Failed(row[e], pc).core # "committed"
<1>0. row[e] \in Rowtype
  BY DEF TypeInv
<1>1. ASSUME NEW c \in {"processing", "committed"}
      PROVE  \E d \in Rowtype : /\ d.core = c /\ d.processing = row[e].processing
                                /\ row' = [row EXCEPT ![e].core = c] => row' = [row EXCEPT ![e] = d]
  <2> DEFINE d == [row[e] EXCEPT !.core = c]
  <2>1. d \in Rowtype /\ d.core = c /\ d.processing = row[e].processing
    BY <1>0 DEF Rowtype
  <2>2. row' = [row EXCEPT ![e].core = c] => row' = [row EXCEPT ![e] = d]
    BY DEF TypeInv
  <2> HIDE DEF d
  <2> QED
    BY <2>1, <2>2
<1>2. \E d \in Rowtype :
        /\ d.core = row[e].core /\ d.processing = "completed"
        /\ row' = [row EXCEPT ![e].processing = "completed", ![e].completion = "completed"]
             => row' = [row EXCEPT ![e] = d]
  <2> DEFINE d == [row[e] EXCEPT !.processing = "completed", !.completion = "completed"]
  <2>1. d \in Rowtype /\ d.core = row[e].core /\ d.processing = "completed"
    BY <1>0 DEF Rowtype
  <2>2. row' = [row EXCEPT ![e].processing = "completed", ![e].completion = "completed"]
          => row' = [row EXCEPT ![e] = d]
    BY DEF TypeInv
  <2> HIDE DEF d
  <2> QED
    BY <2>1, <2>2
<1>3. \A pc \in {"critical", "unconfirmed"} :
        /\ Failed(row[e], pc) \in Rowtype /\ Failed(row[e], pc).processing = "failed"
        /\ Failed(row[e], pc).core # "committed"
  BY DEF Failed, Rowtype
<1> QED
  BY <1>1, <1>2, <1>3

\* The event of a handler that has a row, and the row.
LEMMA RowThere ==
  ASSUME Inv, NEW r \in Request, req[r].pc \in RowPC
  PROVE  \E e \in Event : req[r].event = e /\ row[e].processing # "absent"
BY DEF Inv, Requests, Knows

LEMMA ReplaySteps ==
  ASSUME TypeInv, Inv, NEW r \in Request, Replay(r) \/ RecordResponse(r)
  PROVE  TypeInv' /\ Inv'
<1>1. req[r].pc \in {"replay", "respond"}
  BY DEF Replay, RecordResponse
<1>2. PICK e \in Event : req[r].event = e /\ row[e].processing # "absent"
  BY <1>1, RowThere DEF RowPC, HoldPC
<1>3. Knows(req[r]) /\ stored[e] = TRUE
  BY <1>1, <1>2 DEF Inv, Requests, Knows, StoredPC, TypeInv
<1>4. /\ response' = [response EXCEPT ![e] = TRUE]
      /\ UNCHANGED <<binding, row, key, stored, runs, expired, abandoned, failedLate, rebound>>
  BY <1>2 DEF Replay, RecordResponse, EventOf, History
<1>5. CASE Replay(r)
  <2>1. Answer(r) /\ acked' = acked \cup {"ok"} /\ req[r].pc = "replay"
    BY <1>5 DEF Replay, Ack
  <2>2. Becomes(r, "idle", NoEvent, Absent)
    BY <2>1, Answered
  <2>3. Knows(req[r])'
    BY <2>2, IdleKnows DEF Becomes
  <2>4. LetsGo(r) /\ GivesWay(r)
    BY <2>1 DEF LetsGo, GivesWay, HoldPC
  <2> QED
    BY <1>3, <1>4, <2>1, <2>2, <2>3, <2>4, ResponseStep
<1>6. CASE RecordResponse(r)
  <2>1. Go(r, "complete") /\ acked' = acked /\ req[r].pc = "respond"
    BY <1>6 DEF RecordResponse
  <2>2. Becomes(r, "complete", e, req[r].seen)
    BY <1>2, <2>1, Gone DEF Pcs, RowPC, HoldPC
  <2>3. Knows(req[r])'
    BY <1>2, <1>3, <1>4, <2>1, <2>2 DEF Becomes, Knows, RowPC, HoldPC, StoredPC, UnseenPC
  <2>4. LetsGo(r) /\ GivesWay(r)
    BY <1>2, <2>1, <2>2 DEF LetsGo, GivesWay, HoldPC, Becomes
  <2> QED
    BY <1>3, <1>4, <2>1, <2>2, <2>3, <2>4, ResponseStep
<1> QED
  BY <1>5, <1>6

LEMMA DuplicateStep ==
  ASSUME TypeInv, Inv, NEW r \in Request, Duplicate(r)
  PROVE  TypeInv' /\ Inv'
<1>1. /\ req[r].pc = "duplicate"
      /\ UNCHANGED <<binding, row, key, stored, runs, expired, failedLate, rebound>>
      /\ UNCHANGED abandoned
  BY DEF Duplicate, History
<1>2. PICK e \in Event : req[r].event = e /\ row[e].processing # "absent"
  BY <1>1, RowThere DEF RowPC
<1>3. /\ acked \subseteq {"ok", "processing", "ignored"} /\ Knows(req[r])
      /\ LetsGo(r) /\ GivesWay(r) /\ req[r].pc \notin WorkPC
  BY <1>1 DEF TypeInv, LetsGo, GivesWay, HoldPC, WorkPC, Inv, Requests
<1>4. /\ response[e] => stored[e]
      /\ req[r].seen.core = "committed" => stored[e]
  BY <1>2, <1>3 DEF Inv, Records, Says, Knows
<1>5. CASE Answer(r) /\ response' = response /\ acked' = acked
  BY <1>1, <1>3, <1>5, AnswerStep
<1>6. CASE Ack(r, "processing") /\ response' = response
  <2>1. Answer(r) /\ acked' = acked \cup {"processing"}
    BY <1>6 DEF Ack
  <2>2. failedLate \/ stored[e] \/ e \in abandoned \/ Holding(e)
    BY <1>1, <1>2 DEF Inv, Refused, Holding
  <2> QED
    BY <1>1, <1>3, <1>6, <2>1, <2>2, AnswerStep
<1>7. CASE Go(r, "reconcile") /\ response' = response /\ acked' = acked /\ response[e]
  <2>1. Becomes(r, "reconcile", e, req[r].seen)
    BY <1>2, <1>7, Gone DEF Pcs, RowPC
  <2>2. Knows(req[r])'
    BY <1>1, <1>2, <1>3, <1>4, <1>7, <2>1 DEF Becomes, Knows, RowPC, HoldPC, StoredPC, UnseenPC
  <2> QED
    BY <1>1, <1>3, <1>7, <2>1, <2>2, QuietStep
<1>8. CASE Ack(r, "ok") /\ response' = [response EXCEPT ![e] = TRUE] /\ Replayable(req[r].seen)
  <2>1. Answer(r) /\ acked' = acked \cup {"ok"}
    BY <1>8 DEF Ack
  <2>2. Becomes(r, "idle", NoEvent, Absent)
    BY <2>1, Answered
  <2>3. Knows(req[r])'
    BY <2>2, IdleKnows DEF Becomes
  <2>4. stored[e] = TRUE
    BY <1>4, <1>8 DEF Replayable, TypeInv
  <2> QED
    BY <1>1, <1>3, <1>8, <2>1, <2>2, <2>3, <2>4, ResponseStep
<1> QED
  BY <1>2, <1>5, <1>6, <1>7, <1>8 DEF Duplicate, EventOf

\* SET NX: the claim is won by one, the first time on a row that nobody has run.
LEMMA ClaimKeyStep ==
  ASSUME TypeInv, Inv, NEW r \in Request, ClaimKey(r)
  PROVE  TypeInv' /\ Inv'
<1>1. /\ req[r].pc = "claim"
      /\ UNCHANGED <<binding, row, response, stored, runs, expired, failedLate, rebound>>
      /\ UNCHANGED <<abandoned, acked>>
  BY DEF ClaimKey, History
<1>2. PICK e \in Event : req[r].event = e /\ row[e].processing # "absent"
  BY <1>1, RowThere DEF RowPC
<1>3. /\ key[e] = FALSE /\ key' = [key EXCEPT ![e] = TRUE] /\ Knows(req[r])
      /\ IF req[r].seen.core = "committed" THEN Answer(r) ELSE Go(r, "begin")
  BY <1>2 DEF ClaimKey, Claimable, EventOf, TypeInv, Inv, Requests
<1>4. PICK pc \in {"idle", "begin"}, ev \in Event \cup {NoEvent}, s \in Rowtype :
        /\ Becomes(r, pc, ev, s)
        /\ pc = "begin" => ev = e /\ s = req[r].seen
        /\ pc = "idle" => s = Absent /\ req[r].seen.core = "committed"
  <2>1. CASE req[r].seen.core = "committed"
    BY <1>3, <2>1, Answered, AbsentShape
  <2>2. CASE req[r].seen.core # "committed"
    BY <1>2, <1>3, <2>2, Gone, RequestShape DEF Pcs, RowPC, HoldPC
  <2> QED
    BY <2>1, <2>2
<1>5. /\ req' \in [Request -> RequestRow] /\ \A q \in Request \ {r} : req'[q] = req[q]
      /\ req'[r].pc = pc /\ req'[r].event = ev /\ req'[r].seen = s
  BY <1>4 DEF Becomes
<1>6. /\ key' \in [Event -> BOOLEAN] /\ key'[e] = TRUE
      /\ \A f \in Event : f # e => key'[f] = key[f]
  BY <1>3 DEF TypeInv
<1>7. TypeInv'
  BY <1>1, <1>5, <1>6 DEF TypeInv
<1>8. Grows /\ FailureTold(r)
  BY <1>1, <1>6 DEF Grows, FailureTold
<1>9. Knows(req[r])'
  <2>1. CASE pc = "idle"
    BY <1>4, <1>5, <2>1, IdleKnows
  <2>2. CASE pc = "begin"
    BY <1>1, <1>2, <1>3, <1>4, <1>5, <1>6, <2>2 DEF Knows, RowPC, HoldPC, StoredPC, UnseenPC
  <2> QED
    BY <2>1, <2>2
<1>10. Records'
  <2>1. Says(e)'
    BY <1>1, <1>2, <1>6 DEF Inv, Records, Says, Claimed
  <2> QED
    BY <1>1, <1>6, <2>1, RecordsAt DEF Inv
<1>11. RunsOnce'
  <2>1. ASSUME NEW f \in Event, NEW q \in Request, About(q, f)'
        PROVE  About(q, f) \/ (q = r /\ f = e)
    <3>1. req'[q].pc = "begin" /\ req'[q].event = f
      BY <2>1 DEF About
    <3>2. CASE q = r
      BY <1>4, <1>5, <3>1, <3>2
    <3>3. CASE q # r
      <4>1. req'[q] = req[q]
        BY <1>5, <3>3
      <4> QED
        BY <3>1, <4>1 DEF About
    <3> QED
      BY <3>2, <3>3
  <2>2. ASSUME NEW f \in Event, f \notin expired
        PROVE  /\ runs[f] <= 1 /\ (runs[f] > 0 => key'[f])
               /\ \A q \in Request : About(q, f)' => key'[f] /\ runs[f] = 0
               /\ \A p, q \in Request : About(p, f)' /\ About(q, f)' => p = q
    <3>1. /\ runs[f] <= 1 /\ (runs[f] > 0 => key[f]) /\ runs[f] \in Nat
          /\ \A q \in Request : About(q, f) => key[f] /\ runs[f] = 0
          /\ \A p, q \in Request : About(p, f) /\ About(q, f) => p = q
      BY <2>2 DEF Inv, RunsOnce, TypeInv
    <3>2. CASE f = e
      <4>1. runs[f] = 0 /\ \A q \in Request : ~About(q, f)
        BY <1>3, <3>1, <3>2
      <4> QED
        BY <1>6, <2>1, <3>1, <3>2, <4>1
    <3>3. CASE f # e
      BY <1>6, <2>1, <3>1, <3>3
    <3> QED
      BY <3>2, <3>3
  <2> QED
    BY <1>1, <2>2 DEF RunsOnce
<1>12. LetsGo(r) /\ GivesWay(r)
  <2>1. req[r].seen.core = "committed" => stored[e] /\ Claimed(e)
    BY <1>2, <1>3 DEF Knows, Inv, Records, Says
  <2> QED
    BY <1>1, <1>2, <1>4, <1>5, <2>1 DEF LetsGo, GivesWay, HoldPC
<1>13. \A f \in Event : Claimed(f)' => Claimed(f) \/ Holding(f)'
  <2> SUFFICES ASSUME NEW f \in Event, Claimed(f)', ~Claimed(f) PROVE Holding(f)'
    OBVIOUS
  <2>1. f = e
    BY <1>1, <1>6 DEF Claimed
  <2>2. req[r].seen.core # "committed"
    BY <1>2, <1>3, <2>1 DEF Knows, Inv, Records, Says
  <2>3. pc = "begin"
    BY <1>4, <2>2
  <2> QED
    BY <1>4, <1>5, <2>1, <2>3 DEF Holding, HoldPC
<1>14. ~Routing(r)' /\ req'[r].pc # "duplicate"
  BY <1>5 DEF Routing
<1> QED
  BY <1>1, <1>5, <1>7, <1>8, <1>9, <1>10, <1>11, <1>12, <1>13, <1>14, Step

-----------------------------------------------------------------------------
(***************************************************************************)
(* The core.                                                               *)
(***************************************************************************)

LEMMA BeginStep ==
  ASSUME TypeInv, Inv, NEW r \in Request, BeginCore(r)
  PROVE  TypeInv' /\ Inv'
<1>1. /\ req[r].pc = "begin" /\ Go(r, "core")
      /\ UNCHANGED <<binding, key, response, stored, expired, rebound>>
      /\ UNCHANGED <<abandoned, acked, failedLate>>
  BY DEF BeginCore
<1>2. PICK e \in Event : req[r].event = e /\ row[e].processing # "absent"
  BY <1>1, RowThere DEF RowPC, HoldPC
<1>3. row' = [row EXCEPT ![e].core = "processing"] /\ runs' = [runs EXCEPT ![e] = @ + 1]
  BY <1>2 DEF BeginCore, EventOf
<1>4. PICK d \in Rowtype : /\ d.core = "processing" /\ d.processing = row[e].processing
                           /\ row' = [row EXCEPT ![e] = d]
  BY <1>3, RowForms
<1>5. row[e].processing = "completed" => stored[e]
  BY DEF Inv, Records, Says
<1>6. Becomes(r, "core", e, req[r].seen)
  BY <1>1, <1>2, Gone DEF Pcs, RowPC, HoldPC
<1>7. /\ req' \in [Request -> RequestRow] /\ \A q \in Request \ {r} : req'[q] = req[q]
      /\ req'[r].pc = "core" /\ req'[r].event = e /\ req'[r].seen = req[r].seen
  BY <1>6 DEF Becomes
<1>8. /\ row'[e].processing # "absent"
      /\ \A f \in Event : row'[f].processing = "failed" => row[f].processing = "failed"
  BY <1>2, <1>4 DEF TypeInv
<1>9. Knows(req[r])'
  BY <1>1, <1>2, <1>7, <1>8 DEF Inv, Requests, Knows, RowPC, HoldPC, StoredPC, UnseenPC
<1>10. runs' \in [Event -> Nat] /\ runs'[e] = runs[e] + 1 /\ runs[e] \in Nat
       /\ \A f \in Event : f # e => runs'[f] = runs[f]
  BY <1>3 DEF TypeInv
<1>11. RunsOnce'
  <2>1. ASSUME NEW f \in Event, NEW q \in Request, About(q, f)'
        PROVE  About(q, f) /\ q # r
    <3>1. req'[q].pc = "begin" /\ req'[q].event = f
      BY <2>1 DEF About
    <3>2. q # r /\ req'[q] = req[q]
      BY <1>7, <3>1
    <3> QED
      BY <3>1, <3>2 DEF About
  <2>2. About(r, e)
    BY <1>1, <1>2 DEF About
  <2>3. ASSUME NEW f \in Event, f \notin expired
        PROVE  /\ runs'[f] <= 1 /\ (runs'[f] > 0 => key[f])
               /\ \A q \in Request : About(q, f)' => key[f] /\ runs'[f] = 0
               /\ \A p, q \in Request : About(p, f)' /\ About(q, f)' => p = q
    <3>1. /\ runs[f] <= 1 /\ (runs[f] > 0 => key[f])
          /\ \A q \in Request : About(q, f) => key[f] /\ runs[f] = 0
          /\ \A p, q \in Request : About(p, f) /\ About(q, f) => p = q
      BY <2>3 DEF Inv, RunsOnce
    <3>2. CASE f = e
      <4>1. runs[e] = 0 /\ key[e] /\ \A q \in Request : ~About(q, e)'
        BY <2>1, <2>2, <3>1, <3>2
      <4> QED
        BY <1>10, <3>2, <4>1
    <3>3. CASE f # e
      BY <1>10, <2>1, <3>1, <3>3
    <3> QED
      BY <3>2, <3>3
  <2> QED
    BY <1>1, <2>3 DEF RunsOnce
<1>12. LetsGo(r) /\ GivesWay(r)
  BY <1>1, <1>2, <1>7 DEF LetsGo, GivesWay, HoldPC
<1>13. FailureTold(r)
  BY <1>8 DEF FailureTold
<1>14. failedLate' \in BOOLEAN
  BY <1>1 DEF TypeInv
<1>15. /\ row' = [row EXCEPT ![e] = d] /\ d.processing # "absent"
       /\ d.processing = "processing" => row[e].processing = "processing"
       /\ d.core = "committed" \/ d.processing = "completed" => stored[e]
  BY <1>2, <1>4, <1>5
<1>16. /\ UNCHANGED <<binding, key, response, stored, expired, rebound>>
       /\ abandoned \subseteq abandoned' /\ acked' = acked /\ (failedLate => failedLate')
       /\ runs' \in [Event -> Nat]
  BY <1>1, <1>10
<1> QED
  BY <1>2, <1>6, <1>9, <1>11, <1>12, <1>13, <1>14, <1>15, <1>16, RowStep

\* COMMIT: with its answer, or without it, or not at all.
LEMMA CoreStep ==
  ASSUME TypeInv, Inv, NEW r \in Request, RunCore(r)
  PROVE  TypeInv' /\ Inv'
<1>1. /\ req[r].pc = "core"
      /\ UNCHANGED <<binding, row, key, response, runs, expired, failedLate, rebound>>
      /\ UNCHANGED <<abandoned, acked>>
  BY DEF RunCore
<1>2. PICK e \in Event : req[r].event = e /\ row[e].processing # "absent"
  BY <1>1, RowThere DEF RowPC, HoldPC
<1>3. PICK pc \in {"committed", "critical", "unconfirmed"} :
        /\ Go(r, pc)
        /\ stored' = [stored EXCEPT ![e] = TRUE] \/ (stored' = stored /\ pc # "committed")
  BY <1>2 DEF RunCore, EventOf
<1>4. Becomes(r, pc, e, req[r].seen)
  BY <1>2, <1>3, Gone DEF Pcs, RowPC, HoldPC
<1>5. /\ req' \in [Request -> RequestRow] /\ \A q \in Request \ {r} : req'[q] = req[q]
      /\ req'[r].pc = pc /\ req'[r].event = e /\ req'[r].seen = req[r].seen
  BY <1>4 DEF Becomes
<1>6. /\ stored' \in [Event -> BOOLEAN] /\ (pc = "committed" => stored'[e])
      /\ \A f \in Event : (f # e => stored'[f] = stored[f]) /\ (stored[f] => stored'[f])
  BY <1>3 DEF TypeInv
<1>7. TypeInv'
  BY <1>1, <1>5, <1>6 DEF TypeInv
<1>8. Knows(req[r]) /\ Claimed(e)
  BY <1>1, <1>2 DEF Inv, Requests, Knows, HoldPC, Claimed
<1>9. Grows /\ FailureTold(r)
  BY <1>1, <1>6 DEF Grows, FailureTold
<1>10. Knows(req[r])'
  BY <1>1, <1>2, <1>5, <1>6, <1>8 DEF Knows, RowPC, HoldPC, StoredPC, UnseenPC
<1>11. Records'
  <2>1. Says(e)'
    BY <1>1, <1>6, <1>8 DEF Inv, Records, Says, Claimed
  <2> QED
    BY <1>1, <1>6, <2>1, RecordsAt DEF Inv
<1>12. RunsOnce'
  BY <1>1, <1>5, RunsKept DEF Inv
<1>13. LetsGo(r) /\ GivesWay(r)
  BY <1>1, <1>2, <1>5 DEF LetsGo, GivesWay, HoldPC
<1>14. \A f \in Event : Claimed(f)' => Claimed(f)
  BY <1>1 DEF Claimed
<1>15. ~Routing(r)' /\ req'[r].pc # "duplicate"
  BY <1>5 DEF Routing
<1> QED
  BY <1>1, <1>5, <1>7, <1>9, <1>10, <1>11, <1>12, <1>13, <1>14, <1>15, Step

LEMMA FailureStep ==
  ASSUME TypeInv, Inv, NEW r \in Request, RecordFailure(r)
  PROVE  TypeInv' /\ Inv'
<1>1. /\ req[r].pc \in {"critical", "unconfirmed"} /\ Answer(r)
      /\ UNCHANGED <<binding, key, response, stored, runs, expired, rebound, abandoned, acked>>
      /\ failedLate' = (failedLate \/ "processing" \in acked
                        \/ \E s \in Request \ {r} : req[s].pc # "idle")
  BY DEF RecordFailure
<1>2. PICK e \in Event : req[r].event = e /\ row[e].processing # "absent"
  BY <1>1, RowThere DEF RowPC, HoldPC
<1>3. PICK d \in Rowtype : /\ d.core # "committed" /\ d.processing = "failed"
                           /\ row' = [row EXCEPT ![e] = d]
  BY <1>1, <1>2, RowForms DEF RecordFailure, EventOf
<1>4. Becomes(r, "idle", NoEvent, Absent)
  BY <1>1, Answered
<1>5. Knows(req[r])'
  BY <1>4, IdleKnows DEF Becomes
<1>6. FailureTold(r)
  BY <1>1 DEF FailureTold
<1>7. row'[e].processing = "failed"
  BY <1>3 DEF TypeInv
<1>8. LetsGo(r) /\ GivesWay(r)
  BY <1>1, <1>2, <1>7 DEF LetsGo, GivesWay, HoldPC
<1>9. failedLate' \in BOOLEAN /\ (failedLate => failedLate')
  BY <1>1 DEF TypeInv
<1>10. RunsOnce' /\ runs' \in [Event -> Nat]
  BY <1>1, <1>4, RunsKept DEF Inv, TypeInv, Becomes
<1> QED
  BY <1>1, <1>2, <1>3, <1>4, <1>5, <1>6, <1>8, <1>9, <1>10, RowStep

\* The rows that say committed, or completed; the statement's own answer may be lost.
LEMMA RecordSteps ==
  ASSUME TypeInv, Inv, NEW r \in Request,
         RecordCommitted(r) \/ Reconcile(r) \/ RecordCompleted(r) \/ UpdateAnswerLost(r)
  PROVE  TypeInv' /\ Inv'
<1>1. /\ req[r].pc \in {"begin", "committed", "reconcile", "complete"}
      /\ UNCHANGED <<binding, key, response, stored, runs, expired, rebound, failedLate>>
  BY DEF RecordCommitted, Reconcile, RecordCompleted, UpdateAnswerLost, History
<1>2. PICK e \in Event : req[r].event = e /\ row[e].processing # "absent"
  BY <1>1, RowThere DEF RowPC, HoldPC
<1>3. /\ Knows(req[r]) /\ (req[r].pc # "begin" => stored[e])
      /\ row[e].core = "committed" => stored[e]
      /\ row[e].processing = "completed" => stored[e]
  BY <1>1, <1>2 DEF Inv, Requests, Knows, StoredPC, Records, Says
<1>4. \/ row' = [row EXCEPT ![e].core = "processing"] /\ req[r].pc = "begin"
      \/ row' = [row EXCEPT ![e].core = "committed"] /\ req[r].pc = "committed"
      \/ /\ row' = [row EXCEPT ![e].processing = "completed", ![e].completion = "completed"]
         /\ req[r].pc \in {"reconcile", "complete"}
  BY <1>2 DEF RecordCommitted, Reconcile, RecordCompleted, UpdateAnswerLost, EventOf
<1>5. PICK d \in Rowtype :
        /\ row' = [row EXCEPT ![e] = d] /\ d.processing # "absent"
        /\ d.core = "committed" \/ d.processing = "completed" => stored[e]
        /\ \/ d.processing = row[e].processing
           \/ d.processing = "completed" /\ req[r].pc \in {"reconcile", "complete"}
        /\ req[r].pc \in {"reconcile", "complete"} => d.processing = "completed"
  <2>1. ASSUME NEW c \in {"processing", "committed"}, row' = [row EXCEPT ![e].core = c]
        PROVE  \E d \in Rowtype : /\ row' = [row EXCEPT ![e] = d]
                                  /\ d.core = c /\ d.processing = row[e].processing
    BY <2>1, RowForms
  <2>2. ASSUME row' = [row EXCEPT ![e].processing = "completed", ![e].completion = "completed"]
        PROVE  \E d \in Rowtype : /\ row' = [row EXCEPT ![e] = d]
                                  /\ d.core = row[e].core /\ d.processing = "completed"
    BY <2>2, RowForms
  <2> QED
    BY <1>2, <1>3, <1>4, <2>1, <2>2
<1>6. /\ row'[e] = d /\ \A f \in Event : f # e => row'[f] = row[f]
  BY <1>5 DEF TypeInv
<1>7. FailureTold(r)
  BY <1>5, <1>6 DEF FailureTold
<1>8. failedLate' \in BOOLEAN /\ runs' \in [Event -> Nat]
  BY <1>1 DEF TypeInv
<1>9. CASE RecordCommitted(r)
  <2>1. Go(r, "respond") /\ req[r].pc = "committed" /\ UNCHANGED <<abandoned, acked>>
    BY <1>9 DEF RecordCommitted, History
  <2>2. Becomes(r, "respond", e, req[r].seen)
    BY <1>2, <2>1, Gone DEF Pcs, RowPC, HoldPC
  <2>3. Knows(req[r])'
    BY <1>1, <1>2, <1>3, <1>5, <1>6, <2>1, <2>2
       DEF Becomes, Knows, RowPC, HoldPC, StoredPC, UnseenPC
  <2>4. LetsGo(r) /\ GivesWay(r)
    BY <1>2, <2>1, <2>2 DEF LetsGo, GivesWay, HoldPC, Becomes
  <2>5. RunsOnce'
    BY <1>1, <2>2, RunsKept DEF Inv, Becomes
  <2> QED
    BY <1>1, <1>2, <1>5, <1>7, <1>8, <2>1, <2>2, <2>3, <2>4, <2>5, RowStep
<1>10. CASE Reconcile(r) \/ RecordCompleted(r) \/ UpdateAnswerLost(r)
  <2>1. /\ Answer(r) /\ abandoned \subseteq abandoned'
        /\ acked' = acked \/ (acked' = acked \cup {"ok"} /\ stored[e])
        /\ \/ e \in abandoned'
           \/ req[r].pc = "reconcile"
           \/ req[r].pc = "complete" /\ stored'[e] /\ row'[e].processing # "processing"
    BY <1>1, <1>2, <1>3, <1>5, <1>6, <1>10
       DEF Reconcile, RecordCompleted, UpdateAnswerLost, Ack, History, EventOf
  <2>2. Becomes(r, "idle", NoEvent, Absent)
    BY <2>1, Answered
  <2>3. Knows(req[r])'
    BY <2>2, IdleKnows DEF Becomes
  <2>4. LetsGo(r) /\ GivesWay(r)
    BY <1>1, <1>2, <2>1 DEF LetsGo, GivesWay, HoldPC
  <2>5. RunsOnce'
    BY <1>1, <2>2, RunsKept DEF Inv, Becomes
  <2> QED
    BY <1>1, <1>2, <1>5, <1>7, <1>8, <2>1, <2>2, <2>3, <2>4, <2>5, RowStep
<1> QED
  BY <1>9, <1>10

LEMMA AbortStep ==
  ASSUME TypeInv, Inv, NEW r \in Request, Abort(r)
  PROVE  TypeInv' /\ Inv'
<1>1. /\ Answer(r)
      /\ UNCHANGED <<binding, row, key, response, stored, runs, expired, failedLate, rebound>>
      /\ acked' = acked /\ abandoned \subseteq abandoned'
      /\ req[r].pc \in WorkPC => req[r].event \in abandoned'
  BY DEF Abort, EventOf
<1>2. acked \subseteq {"ok", "processing", "ignored"}
  BY DEF TypeInv
<1> QED
  BY <1>1, <1>2, AnswerStep

-----------------------------------------------------------------------------
(***************************************************************************)
(* Time, and the operators' bindings.                                      *)
(***************************************************************************)

LEMMA KeyExpiryStep ==
  ASSUME TypeInv, Inv, NEW e \in Event, KeyExpires(e)
  PROVE  TypeInv' /\ Inv'
<1>1. /\ key[e] /\ key' = [key EXCEPT ![e] = FALSE] /\ expired' = expired \cup {e}
      /\ UNCHANGED <<binding, row, response, req, acked, stored, runs, abandoned, failedLate, rebound>>
  BY DEF KeyExpires
<1>2. /\ key' \in [Event -> BOOLEAN] /\ \A f \in Event : f # e => key'[f] = key[f]
  BY <1>1 DEF TypeInv
<1>3. TypeInv'
  BY <1>1, <1>2 DEF TypeInv
<1>4. \A f \in Event : Claimed(f)' <=> Claimed(f)
  BY <1>1, <1>2 DEF Claimed
<1>5. Requests'
  <2>1. \A f \in Event : key[f] \/ f \in expired => key'[f] \/ f \in expired'
    BY <1>1, <1>2
  <2>2. ASSUME NEW r \in Request PROVE Knows(req[r])'
    <3>1. Knows(req[r]) /\ req'[r] = req[r]
      BY <1>1 DEF Inv, Requests
    <3>2. req[r].pc \in HoldPC => key'[req[r].event] \/ req[r].event \in expired'
      BY <2>1, <3>1 DEF Knows, RowPC
    <3> QED
      BY <1>1, <3>1, <3>2 DEF Knows
  <2> QED
    BY <2>2 DEF Requests
<1>6. Records'
  BY <1>1, <1>4 DEF Inv, Records, Says
<1>7. Worked'
  BY <1>1, <1>4 DEF Inv, Worked, Holding, Claiming
<1>8. Refused'
  BY <1>1 DEF Inv, Refused, Holding
<1>9. RunsOnce'
  <2>1. \A q \in Request, f \in Event : About(q, f)' <=> About(q, f)
    BY <1>1 DEF About
  <2>2. \A f \in Event : f \notin expired' => f # e /\ f \notin expired
    BY <1>1
  <2> QED
    BY <1>1, <1>2, <2>1, <2>2 DEF Inv, RunsOnce
<1>10. Acks'
  BY <1>1 DEF Inv, Acks, AcceptedIsWorkedOn, Working, EventOf
<1>11. Bindings'
  BY <1>1 DEF Inv, Bindings, OneActive, IsActive, Bound, Routing
<1> QED
  BY <1>3, <1>5, <1>6, <1>7, <1>8, <1>9, <1>10, <1>11 DEF Inv

LEMMA ResponseExpiryStep ==
  ASSUME TypeInv, Inv, NEW e \in Event, ResponseExpires(e)
  PROVE  TypeInv' /\ Inv'
<1>1. /\ response' = [response EXCEPT ![e] = FALSE]
      /\ UNCHANGED <<binding, row, key, req, acked, stored, runs, expired, abandoned, failedLate, rebound>>
  BY DEF ResponseExpires, History
<1>2. /\ response' \in [Event -> BOOLEAN] /\ \A f \in Event : response'[f] => response[f]
  BY <1>1 DEF TypeInv
<1>3. TypeInv'
  BY <1>1, <1>2 DEF TypeInv
<1>4. Requests' /\ Refused'
  BY <1>1 DEF Inv, Requests, Knows, Refused, Holding
<1>5. Records'
  BY <1>1, <1>2 DEF Inv, Records, Says, Claimed
<1>6. Worked' /\ RunsOnce'
  BY <1>1 DEF Inv, Worked, Claimed, Holding, Claiming, RunsOnce, About
<1>7. Acks'
  BY <1>1 DEF Inv, Acks, AcceptedIsWorkedOn, Working, EventOf
<1>8. Bindings'
  BY <1>1 DEF Inv, Bindings, OneActive, IsActive, Bound, Routing
<1> QED
  BY <1>3, <1>4, <1>5, <1>6, <1>7, <1>8 DEF Inv

\* Steps that leave the handlers, the records and the answers alone.
LEMMA RecordsStill ==
  ASSUME Inv, UNCHANGED <<row, key, response, req, acked, stored, runs, expired, abandoned, failedLate>>
  PROVE  Requests' /\ Records' /\ Worked' /\ Refused' /\ RunsOnce' /\ Acks'
<1>1. Requests' /\ Refused'
  BY DEF Inv, Requests, Knows, Refused, Holding
<1>2. Records'
  BY DEF Inv, Records, Says, Claimed
<1>3. Worked' /\ RunsOnce'
  BY DEF Inv, Worked, Claimed, Holding, Claiming, RunsOnce, About
<1>4. Acks'
  BY DEF Inv, Acks, AcceptedIsWorkedOn, Working, EventOf
<1> QED
  BY <1>1, <1>2, <1>3, <1>4

LEMMA NoneActive ==
  ASSUME TypeInv
  PROVE  Bound = NoEvent <=> \A o \in Operator : ~IsActive(o)
<1>1. CASE \E o \in Operator : IsActive(o)
  <2> DEFINE o == CHOOSE p \in Operator : IsActive(p)
  <2>1. o \in Operator /\ IsActive(o)
    BY <1>1
  <2>2. Bound = binding[o].event
    BY <1>1 DEF Bound
  <2> HIDE DEF o
  <2>3. binding[o].event \in Event
    BY <2>1 DEF IsActive, TypeInv
  <2> QED
    BY <1>1, <2>2, <2>3, NoEventAssumption
<1>2. CASE \A o \in Operator : ~IsActive(o)
  BY <1>2 DEF Bound
<1> QED
  BY <1>1, <1>2

\* A binding is active alone; what a change of it means to a post on its way is recorded.
LEMMA BindingStep ==
  ASSUME TypeInv, Inv, NEW o \in Operator,
         CreateReads(o) \/ CreateInserts(o) \/ Disable(o) \/ Reactivate(o)
  PROVE  TypeInv' /\ Inv'
<1>1. UNCHANGED <<row, key, response, req, acked, stored, runs, expired, abandoned, failedLate>>
  BY DEF CreateReads, CreateInserts, Disable, Reactivate, BindingOnly
<1>2. PICK b \in BindingRow :
        /\ binding' = [binding EXCEPT ![o] = b]
        /\ b.status # "absent" => b.event \in Event
        /\ b.status = "active" => Bound = NoEvent
        /\ \/ Rebinds
           \/ /\ rebound' = rebound /\ b.status # "active"
              /\ \A p \in Operator : ~IsActive(p)
  <2>0. binding[o] \in BindingRow /\ (binding[o].status # "absent" => binding[o].event \in Event)
    BY DEF TypeInv
  <2>1. CASE CreateReads(o)
    <3>1. PICK e \in Event : binding' = [binding EXCEPT ![o] = [status |-> "reading", event |-> e]]
      BY <2>1 DEF CreateReads
    <3>2. /\ [status |-> "reading", event |-> e] \in BindingRow
          /\ [status |-> "reading", event |-> e].status = "reading"
          /\ [status |-> "reading", event |-> e].event = e
      BY DEF BindingRow
    <3>3. rebound' = rebound /\ \A p \in Operator : ~IsActive(p)
      BY <2>1 DEF CreateReads, IsActive
    <3> QED
      BY <3>1, <3>2, <3>3
  <2>2. ASSUME NEW s \in {"active", "refused", "disabled"}, binding[o].status # "absent",
               binding' = [binding EXCEPT ![o].status = s], s = "active" => Bound = NoEvent, Rebinds
        PROVE  \E b \in BindingRow :
                 /\ binding' = [binding EXCEPT ![o] = b]
                 /\ b.status # "absent" => b.event \in Event
                 /\ b.status = "active" => Bound = NoEvent
                 /\ Rebinds
    <3> DEFINE b == [binding[o] EXCEPT !.status = s]
    <3>1. b \in BindingRow /\ b.status = s /\ b.event = binding[o].event
      BY <2>0 DEF BindingRow
    <3>2. binding' = [binding EXCEPT ![o] = b]
      BY <2>2 DEF TypeInv
    <3> HIDE DEF b
    <3> QED
      BY <2>0, <2>2, <3>1, <3>2
  <2>3. CASE CreateInserts(o)
    BY <2>2, <2>3 DEF CreateInserts
  <2>4. CASE Disable(o)
    BY <2>2, <2>4 DEF Disable, IsActive
  <2>5. CASE Reactivate(o)
    BY <2>2, <2>5 DEF Reactivate
  <2> QED
    BY <2>1, <2>3, <2>4, <2>5
<1>3. /\ binding' \in [Operator -> BindingRow] /\ binding'[o] = b
      /\ \A p \in Operator : p # o => binding'[p] = binding[p]
  BY <1>2 DEF TypeInv
<1>4. rebound' \in BOOLEAN
  BY <1>2 DEF Rebinds, TypeInv
<1>5. TypeInv'
  BY <1>1, <1>2, <1>3, <1>4 DEF TypeInv
<1>6. OneActive'
  <2>1. b.status = "active" => \A p \in Operator : ~IsActive(p)
    BY <1>2, NoneActive
  <2> QED
    BY <1>3, <2>1 DEF Inv, Bindings, OneActive, IsActive
<1>7. Bindings'
  <2>1. CASE Rebinds
    BY <1>1, <1>6, <2>1 DEF Inv, Bindings, Rebinds, Routing
  <2>2. CASE rebound' = rebound /\ b.status # "active" /\ \A p \in Operator : ~IsActive(p)
    <3>1. \A p \in Operator : ~IsActive(p)'
      BY <1>3, <2>2 DEF IsActive
    <3>2. Bound = NoEvent /\ Bound' = NoEvent
      BY <2>2, <3>1 DEF Bound
    <3> QED
      BY <1>1, <1>6, <2>2, <3>2 DEF Inv, Bindings, Routing
  <2> QED
    BY <1>2, <2>1, <2>2
<1> QED
  BY <1>1, <1>5, <1>7, RecordsStill DEF Inv

-----------------------------------------------------------------------------
(***************************************************************************)
(* The invariant.                                                          *)
(***************************************************************************)

LEMMA InvInit == Init => TypeInv /\ Inv
<1> SUFFICES ASSUME Init PROVE TypeInv /\ Inv
  OBVIOUS
<1>1. TypeInv
  <2>1. Idle \in RequestRow /\ Unmade \in BindingRow /\ Unmade.status = "absent"
    BY AbsentShape DEF Idle, RequestRow, Pcs, Unmade, BindingRow
  <2> QED
    BY <2>1, AbsentShape DEF Init, TypeInv
<1>2. \A r \in Request : req[r].pc = "idle" /\ req[r].seen = Absent
  BY DEF Init, Idle
<1>3. Requests
  BY <1>2, AbsentShape DEF Requests, Knows, RowPC, HoldPC, StoredPC, UnseenPC
<1>4. Records /\ Worked
  BY AbsentShape DEF Init, Records, Says, Claimed, Worked
<1>5. Refused /\ RunsOnce /\ Acks
  BY <1>2 DEF Init, Refused, RunsOnce, About, Acks, AcceptedIsWorkedOn
<1>6. Bindings
  BY <1>2 DEF Init, Bindings, OneActive, IsActive, Unmade, Routing
<1> QED
  BY <1>1, <1>3, <1>4, <1>5, <1>6 DEF Inv

LEMMA InvNext == TypeInv /\ Inv /\ [Next]_vars => TypeInv' /\ Inv'
<1> SUFFICES ASSUME TypeInv, Inv, [Next]_vars PROVE TypeInv' /\ Inv'
  OBVIOUS
<1>1. ASSUME NEW r \in Request, HandlerStep(r) PROVE TypeInv' /\ Inv'
  <2>1. CASE LookUp(r) \/ Replay(r) \/ Route(r) \/ InsertRow(r) \/ ReadExisting(r)
    BY <2>1, LookUpStep, ReplaySteps, RouteStep, InsertStep, ReadExistingStep
  <2>2. CASE ClaimKey(r) \/ ClaimRefused(r) \/ Duplicate(r)
    BY <2>2, ClaimKeyStep, RefusalStep, DuplicateStep
  <2>3. CASE BeginCore(r) \/ RunCore(r) \/ RecordFailure(r)
    BY <2>3, BeginStep, CoreStep, FailureStep
  <2>4. CASE Reconcile(r) \/ RecordCommitted(r) \/ RecordResponse(r) \/ RecordCompleted(r)
    BY <2>4, RecordSteps, ReplaySteps
  <2> QED
    BY <1>1, <2>1, <2>2, <2>3, <2>4 DEF HandlerStep
<1>2. ASSUME NEW r \in Request, Post(r) \/ Abort(r) \/ UpdateAnswerLost(r) PROVE TypeInv' /\ Inv'
  BY <1>2, PostStep, AbortStep, RecordSteps
<1>3. ASSUME NEW e \in Event, KeyExpires(e) \/ ResponseExpires(e) PROVE TypeInv' /\ Inv'
  BY <1>3, KeyExpiryStep, ResponseExpiryStep
<1>4. ASSUME NEW o \in Operator, CreateReads(o) \/ CreateInserts(o) \/ Disable(o) \/ Reactivate(o)
      PROVE  TypeInv' /\ Inv'
  BY <1>4, BindingStep
<1>5. CASE UNCHANGED vars
  <2>1. UNCHANGED <<row, key, response, req, acked, stored, runs, expired, abandoned, failedLate>>
    BY <1>5 DEF vars
  <2>2. TypeInv'
    BY <1>5 DEF vars, TypeInv
  <2>3. Bindings'
    BY <1>5 DEF vars, Inv, Bindings, OneActive, IsActive, Bound, Routing
  <2> QED
    BY <2>1, <2>2, <2>3, RecordsStill DEF Inv
<1> QED
  BY <1>1, <1>2, <1>3, <1>4, <1>5 DEF Next

THEOREM InvHolds == Spec => [](TypeInv /\ Inv)
BY InvInit, InvNext, PTL DEF Spec

-----------------------------------------------------------------------------
(***************************************************************************)
(* What follows.                                                           *)
(***************************************************************************)

LEMMA TypesHold == TypeInv /\ Inv => TypeOK
<1> SUFFICES ASSUME TypeInv, Inv PROVE TypeOK
  OBVIOUS
<1> DEFINE A == {o \in Operator : IsActive(o)}
<1>1. Cardinality(A) <= 1
  <2>1. CASE A = {}
    BY <2>1, FS_EmptySet
  <2>2. CASE A # {}
    <3>1. PICK o \in Operator : IsActive(o)
      BY <2>2
    <3>2. A = {o}
      BY <3>1 DEF Inv, Bindings, OneActive
    <3>3. Cardinality({o}) = 1
      BY FS_Singleton
    <3> QED
      BY <3>2, <3>3
  <2> QED
    BY <2>1, <2>2
<1>2. \A r \in Request : req[r].event \in Event \cup {NoEvent} /\ req[r].seen \in Rowtype
  BY RequestShape
<1> QED
  BY <1>1, <1>2 DEF TypeInv, TypeOK, BindingRow

LEMMA SaidIsSo == TypeInv /\ Inv => AnswersAreTrue
<1> SUFFICES ASSUME TypeInv, Inv PROVE AnswersAreTrue
  OBVIOUS
<1>1. SaidDoneIsStored
  BY DEF Inv, Records, Says, Acks, SaidDoneIsStored
<1>2. ProcessingHasAWorker
  <2>1. ASSUME NEW e \in Event, row[e].processing = "processing"
        PROVE  Working(e) \/ e \in abandoned
    BY <2>1, WorkingIsHolding DEF Inv, Worked
  <2> QED
    BY <2>1 DEF ProcessingHasAWorker
<1> QED
  BY <1>1, <1>2, TypesHold DEF AnswersAreTrue, Inv, Acks

-----------------------------------------------------------------------------
(***************************************************************************)
(* Theorems.                                                               *)
(***************************************************************************)

\* What the provider is told, and what the ledger and the cache say of a message, is so: done
\* only after the commit, in progress only with a worker or one that ended on the way.
THEOREM AnswersStayTrue == Spec => []AnswersAreTrue
<1>1. TypeInv /\ Inv => AnswersAreTrue
  BY SaidIsSo
<1> QED
  BY <1>1, InvHolds, PTL

\* The core runs a second time for an event only after its claim has run out.
THEOREM SecondRunsNeedExpiry == Spec => []SecondRunNeedsExpiry
<1>1. TypeInv /\ Inv => SecondRunNeedsExpiry
  <2> SUFFICES ASSUME Inv, TypeInv, NEW e \in Event, runs[e] > 1 PROVE e \in expired
    BY DEF SecondRunNeedsExpiry
  <2>1. runs[e] \in Nat /\ (e \notin expired => runs[e] <= 1)
    BY DEF Inv, RunsOnce, TypeInv
  <2> QED
    BY <2>1
<1> QED
  BY <1>1, InvHolds, PTL

\* Two rows of one message need a binding that moved between a look-up and its insert.
THEOREM MessagesHaveOneRow == Spec => []OneRowPerMessage
<1>1. TypeInv /\ Inv => OneRowPerMessage
  BY DEF Inv, Bindings, OneRowPerMessage
<1> QED
  BY <1>1, InvHolds, PTL

=============================================================================
