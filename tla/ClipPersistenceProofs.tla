------------------------ MODULE ClipPersistenceProofs ------------------------
(***************************************************************************)
(* Theorems about ClipPersistence for every set of ids, handlers and       *)
(* workers, every batch limit and any number of scans and faults.          *)
(***************************************************************************)
EXTENDS ClipPersistence, FiniteSetTheorems, TLAPS

-----------------------------------------------------------------------------
(***************************************************************************)
(* Types.  The outbox is a prefix: the events up to queued are rows, the   *)
(* others do not exist.                                                    *)
(***************************************************************************)

\* The scan of a row that is not there means nothing.
AnyScan == Scan \cup {CHOOSE s \in Scan : TRUE}

EventRow == [status : Statuses, scan : AnyScan, version : Nat, failed : SUBSET StepName,
             attempts : Nat, due : BOOLEAN]
RequestRow == [pc : {"idle", "persist", "queue"}, scan : AnyScan, version : Nat,
               wants : SUBSET StepName, failed : SUBSET StepName]
WorkerRow == [pc : {"idle", "pick", "recover", "retry"}, batch : SUBSET Event,
              event : Event \cup {0}, todo : SUBSET StepName]
Key == Scan \X StepName

TypeInv ==
  /\ saved \in [Key -> Nat]
  /\ req \in [Request -> RequestRow]
  /\ outbox \in [Event -> EventRow]
  /\ worker \in [Worker -> WorkerRow]
  /\ scans \in 0 .. MaxScans /\ queued \in Nat
  /\ wanted \in [Event -> SUBSET Key]
  /\ missed \cup unqueued \cup late \subseteq Event \X Key
  /\ overlapped \cup stranded \subseteq Event
  /\ \A r \in Request : req[r].pc # "idle" => req[r].scan \in Scan /\ req[r].version \in Event
  /\ \A e \in Event : IF e > queued THEN outbox[e] = NoEvent
                                    ELSE outbox[e].status # "none" /\ outbox[e].scan \in Scan

LEMMA NoEventType == NoEvent \in EventRow
BY DEF NoEvent, EventRow, AnyScan, Statuses

LEMMA NoRequestType == NoRequest \in RequestRow /\ NoRequest.pc = "idle"
BY DEF NoRequest, RequestRow, AnyScan

LEMMA RestingType ==
  Resting \in WorkerRow /\ Resting.pc = "idle" /\ Resting.batch = {} /\ Resting.event = 0
BY DEF Resting, WorkerRow

LEMMA TypeInit == Init => TypeInv
<1> SUFFICES ASSUME Init PROVE TypeInv
  OBVIOUS
<1>1. /\ req \in [Request -> RequestRow] /\ outbox \in [Event -> EventRow]
      /\ worker \in [Worker -> WorkerRow]
  BY NoEventType, NoRequestType, RestingType DEF Init
<1>2. \A e \in Event : IF e > queued THEN outbox[e] = NoEvent
                       ELSE outbox[e].status # "none" /\ outbox[e].scan \in Scan
  BY DEF Init, Event
<1> QED
  BY <1>1, <1>2, BoundAssumption, NoRequestType DEF Init, TypeInv, Key

LEMMA ArrivesType ==
  ASSUME TypeInv, NEW r \in Request, NEW s \in Scan, NEW wants \in SUBSET StepName, Arrives(r, s, wants)
  PROVE  TypeInv'
<1> DEFINE u == [pc |-> "persist", scan |-> s, version |-> scans + 1, wants |-> wants, failed |-> {}]
<1>0. scans + 1 \in Event
  BY BoundAssumption DEF Arrives, TypeInv, Event
<1>1. u \in RequestRow /\ u.scan \in Scan /\ u.version \in Event
  BY <1>0 DEF RequestRow, AnyScan, TypeInv
<1>2. req' = [req EXCEPT ![r] = u]
  BY DEF Arrives
<1> HIDE DEF u
<1>3. /\ req' \in [Request -> RequestRow]
      /\ \A x \in Request : req'[x].pc # "idle" => req'[x].scan \in Scan /\ req'[x].version \in Event
  BY <1>1, <1>2 DEF TypeInv
<1>4. {s} \X wants \in SUBSET Key
  BY DEF Key
<1>5. wanted' \in [Event -> SUBSET Key]
  BY <1>4 DEF TypeInv, Arrives
<1>6. scans' \in 0 .. MaxScans
  BY BoundAssumption DEF TypeInv, Arrives
<1>7. overlapped' \subseteq Event
  BY <1>0 DEF TypeInv, Arrives
<1> QED
  BY <1>3, <1>5, <1>6, <1>7 DEF TypeInv, Arrives, Rows, Lost

LEMMA WantsAreSteps ==
  ASSUME NEW extra \in SUBSET Optional
  PROVE  {"interaction"} \cup extra \in SUBSET StepName
<1>1. "interaction" \in StepName
  <2>1. Step[1] = "interaction" /\ 1 \in 1 .. 4
    BY DEF Step
  <2> QED
    BY <2>1 DEF StepName
<1> QED
  BY <1>1, OptionalAreSteps

\* A request that arrives, with its id and the writes it will make.
LEMMA ArrivalShape ==
  ASSUME NEW r \in Request, NEW s \in Scan, ScanArrives(r, s) \/ KeywordArrives(r, s)
  PROVE  \E wants \in SUBSET StepName : Arrives(r, s, wants)
<1>1. PICK extra \in SUBSET Optional : Arrives(r, s, {"interaction"} \cup extra)
  BY DEF ScanArrives, KeywordArrives
<1> QED
  BY <1>1, WantsAreSteps

\* What a transaction or a recovery leaves in Postgres: on the keys it writes its own version,
\* or an outbound row that was there.
LEMMA SaveShape ==
  ASSUME TypeInv, NEW K \in SUBSET Key, NEW version \in Nat, Save(K, version)
  PROVE  /\ saved' \in [Key -> Nat]
         /\ \A k \in Key : saved'[k] = IF k \in K THEN Stored(k, version) ELSE saved[k]
         /\ late' = late \cup Replaced(K, version)
         /\ late' \subseteq Event \X Key
<1>1. saved' = [k \in Key |-> IF k \in K THEN Stored(k, version) ELSE saved[k]]
  BY DEF Save, TypeInv
<1>2. \A k \in Key : Stored(k, version) \in Nat
  BY DEF Stored, TypeInv
<1>3. Replaced(K, version) \subseteq Event \X Key
  BY DEF Replaced
<1> QED
  BY <1>1, <1>2, <1>3 DEF Save, TypeInv

LEMMA CommitSaves ==
  ASSUME TypeInv, NEW r \in Request, req[r].pc # "idle", Commit(r)
  PROVE  /\ {req[r].scan} \X req[r].wants \in SUBSET Key /\ req[r].version \in Nat
         /\ Save({req[r].scan} \X req[r].wants, req[r].version)
<1>1. req[r] \in RequestRow /\ req[r].scan \in Scan
  BY DEF TypeInv
<1>2. req[r].wants \subseteq StepName /\ req[r].version \in Nat
  BY <1>1 DEF RequestRow
<1> QED
  BY <1>1, <1>2 DEF Commit, Key

LEMMA CommitType ==
  ASSUME TypeInv, NEW r \in Request, req[r].pc # "idle", Commit(r) \/ UNCHANGED Rows
  PROVE  saved' \in [Key -> Nat] /\ late' \subseteq Event \X Key
<1>1. CASE Commit(r)
  BY <1>1, CommitSaves, SaveShape
<1>2. CASE UNCHANGED Rows
  BY <1>2 DEF Rows, TypeInv
<1> QED
  BY <1>1, <1>2

LEMMA HandlerType ==
  ASSUME TypeInv, NEW r \in Request,
         \/ PersistAll(r) \/ QueueAction(r) \/ PersistFails(r) \/ CommitFails(r)
         \/ QueueFails(r) \/ HandlerDies(r)
  PROVE  TypeInv'
<1>0. req[r] \in RequestRow /\ req[r].wants \subseteq StepName
  BY DEF TypeInv, RequestRow
<1>1. ASSUME NEW u \in RequestRow, u.pc # "idle" => u.scan \in Scan /\ u.version \in Event,
             req' = [req EXCEPT ![r] = u]
      PROVE  /\ req' \in [Request -> RequestRow]
             /\ \A x \in Request : req'[x].pc # "idle" => req'[x].scan \in Scan /\ req'[x].version \in Event
  BY <1>1 DEF TypeInv
<1>2. req[r].pc # "idle" => \A T \in SUBSET req[r].wants : Writing(r, T) \subseteq Event \X Key
  BY <1>0 DEF TypeInv, Key, Writing
<1>3. CASE PersistAll(r)
  <2>1. saved' \in [Key -> Nat] /\ late' \subseteq Event \X Key
    BY <1>3, CommitType DEF PersistAll
  <2>2. req' = [req EXCEPT ![r] = NoRequest]
    BY <1>3 DEF PersistAll
  <2> QED
    BY <1>1, <1>3, <2>1, <2>2, NoRequestType DEF PersistAll, TypeInv, Lost
<1>4. CASE QueueFails(r) \/ HandlerDies(r)
  <2>1. unqueued' \subseteq Event \X Key
    BY <1>2, <1>4 DEF QueueFails, HandlerDies, Lose, TypeInv
  <2>2. req' = [req EXCEPT ![r] = NoRequest]
    BY <1>4 DEF QueueFails, HandlerDies
  <2> QED
    BY <1>1, <1>4, <2>1, <2>2, NoRequestType DEF QueueFails, HandlerDies, TypeInv, Rows
<1>5. ASSUME NEW failed \in SUBSET StepName, req[r].pc # "idle",
             req' = [req EXCEPT ![r].pc = "queue", ![r].failed = failed]
      PROVE  /\ req' \in [Request -> RequestRow]
             /\ \A x \in Request : req'[x].pc # "idle" => req'[x].scan \in Scan /\ req'[x].version \in Event
  <2> DEFINE u == [req[r] EXCEPT !.pc = "queue", !.failed = failed]
  <2>1. u \in RequestRow /\ u.scan = req[r].scan /\ u.version = req[r].version
    BY <1>0 DEF RequestRow
  <2>2. req' = [req EXCEPT ![r] = u]
    BY <1>5 DEF TypeInv
  <2>3. u.scan \in Scan /\ u.version \in Event
    BY <1>5, <2>1 DEF TypeInv
  <2> HIDE DEF u
  <2> QED
    BY <1>1, <2>1, <2>2, <2>3
<1>6. CASE PersistFails(r)
  <2>1. PICK cause \in req[r].wants :
          /\ req' = [req EXCEPT ![r].pc = "queue", ![r].failed = RolledBack(r, cause)]
          /\ missed' = missed \cup Writing(r, {t \in req[r].wants : Before(cause, t)})
    BY <1>6 DEF PersistFails
  <2>2. RolledBack(r, cause) \in SUBSET StepName
    BY <1>0 DEF RolledBack
  <2>3. missed' \subseteq Event \X Key
    <3> DEFINE T == {t \in req[r].wants : Before(cause, t)}
    <3>1. T \in SUBSET req[r].wants
      OBVIOUS
    <3> HIDE DEF T
    <3>2. Writing(r, T) \subseteq Event \X Key
      BY <1>2, <1>6, <3>1 DEF PersistFails
    <3> QED
      BY <2>1, <3>2 DEF TypeInv, T
  <2>4. req[r].pc # "idle"
    BY <1>6 DEF PersistFails
  <2> QED
    BY <1>5, <1>6, <2>1, <2>2, <2>3, <2>4 DEF PersistFails, TypeInv, Rows
<1>7. CASE CommitFails(r)
  <2>1. saved' \in [Key -> Nat] /\ late' \subseteq Event \X Key
    BY <1>7, CommitType DEF CommitFails
  <2>2. req[r].pc # "idle" /\ req' = [req EXCEPT ![r].pc = "queue", ![r].failed = req[r].wants]
    BY <1>7 DEF CommitFails
  <2> QED
    BY <1>0, <1>5, <1>7, <2>1, <2>2 DEF CommitFails, TypeInv, Lost
<1>8. CASE QueueAction(r)
  <2> DEFINE u == QueuedEvent(r)
  <2>1. u \in EventRow /\ u.status = "pending" /\ u.scan \in Scan
    BY <1>0, <1>8 DEF QueuedEvent, EventRow, RequestRow, Statuses, QueueAction, TypeInv
  <2>2. outbox' = [outbox EXCEPT ![queued + 1] = u] /\ queued' = queued + 1
    BY <1>8 DEF QueueAction
  <2> HIDE DEF u
  <2>3. outbox' \in [Event -> EventRow]
    BY <2>1, <2>2 DEF TypeInv
  <2>4. \A e \in Event : IF e > queued' THEN outbox'[e] = NoEvent
                         ELSE outbox'[e].status # "none" /\ outbox'[e].scan \in Scan
    <3> SUFFICES ASSUME NEW e \in Event
                 PROVE  IF e > queued' THEN outbox'[e] = NoEvent
                        ELSE outbox'[e].status # "none" /\ outbox'[e].scan \in Scan
      OBVIOUS
    <3>1. e \in Nat /\ queued \in Nat
      BY DEF TypeInv, Event
    <3>2. outbox'[e] = IF e = queued + 1 THEN u ELSE outbox[e]
      BY <2>2 DEF TypeInv
    <3> QED
      BY <2>1, <2>2, <3>1, <3>2 DEF TypeInv
  <2> QED
    BY <1>1, <1>8, <2>2, <2>3, <2>4, NoRequestType DEF QueueAction, TypeInv, Rows, Lost
<1> QED
  BY <1>3, <1>4, <1>6, <1>7, <1>8

-----------------------------------------------------------------------------
(***************************************************************************)
(* Hands.  An event in processing is in one pair of hands or was left      *)
(* there; the two exclude each other, so a worker that lets go of an event *)
(* leaves nobody behind who still works on it.                             *)
(***************************************************************************)

Busy == {"recover", "retry"}

Hands ==
  /\ \A w \in Worker : /\ worker[w].pc \in Busy <=> worker[w].event # 0
                       /\ worker[w].event \notin worker[w].batch
                       /\ worker[w].pc = "idle" => worker[w].batch = {}
  /\ \A v, w \in Worker, e \in Event : Holds(v, e) /\ Holds(w, e) => v = w
  /\ \A w \in Worker, e \in Event : Holds(w, e) => e \notin stranded
  /\ \A e \in Event : (\E w \in Worker : Holds(w, e)) \/ e \in stranded
                        <=> outbox[e].status = "processing"

LEMMA HandsInit == Init => Hands
BY RestingType DEF Init, Hands, Holds, NoEvent, Event, Busy

\* An event in a worker's hands is a row.
LEMMA HeldIsRow ==
  ASSUME TypeInv, Hands, NEW w \in Worker, NEW e \in Event, Holds(w, e)
  PROVE  /\ outbox[e] \in EventRow /\ outbox[e].status = "processing"
         /\ e <= queued /\ outbox[e].scan \in Scan
<1>1. outbox[e].status = "processing"
  BY DEF Hands
<1>2. ~(e > queued)
  BY <1>1 DEF TypeInv, NoEvent
<1> QED
  BY <1>1, <1>2 DEF TypeInv, Event

\* The event a worker is busy with.
LEMMA BusyWith ==
  ASSUME TypeInv, Hands, NEW w \in Worker, worker[w].pc \in Busy
  PROVE  /\ worker[w].event \in Event /\ Holds(w, worker[w].event)
         /\ worker[w].event \notin worker[w].batch /\ worker[w].batch \subseteq Event
BY DEF TypeInv, WorkerRow, Hands, Holds

\* What a row records of its scan never changes; steps of a worker change its status and when
\* it is due.
SameRow(e) ==
  /\ outbox'[e].scan = outbox[e].scan /\ outbox'[e].version = outbox[e].version
  /\ outbox'[e].failed = outbox[e].failed

LEMMA ClaimShape ==
  ASSUME TypeInv, NEW b \in Batches, outbox' = Claimed(b)
  PROVE  /\ b \subseteq Event /\ outbox' \in [Event -> EventRow]
         /\ \A e \in Event : /\ SameRow(e)
                             /\ e \in b => outbox[e].status = "pending" /\ outbox'[e].status = "processing"
                             /\ e \notin b => outbox'[e] = outbox[e]
<1>1. b \subseteq Event /\ \A e \in b : outbox[e].status = "pending"
  BY DEF Batches, Due
<1>2. ASSUME NEW e \in b
      PROVE  LET u == [outbox[e] EXCEPT !.status = "processing", !.attempts = @ + 1]
             IN  /\ u \in EventRow /\ u.status = "processing" /\ u.scan = outbox[e].scan
                 /\ u.version = outbox[e].version /\ u.failed = outbox[e].failed
  <2> DEFINE o == outbox[e]
             n == outbox[e].attempts + 1
  <2>1. o \in EventRow
    BY <1>1, <1>2 DEF TypeInv
  <2>2. n \in Nat
    BY <2>1 DEF EventRow
  <2> HIDE DEF o, n
  <2>3. LET u == [o EXCEPT !.status = "processing", !.attempts = n]
        IN  /\ u \in EventRow /\ u.status = "processing" /\ u.scan = o.scan
            /\ u.version = o.version /\ u.failed = o.failed
    BY <2>1, <2>2 DEF EventRow, Statuses
  <2> QED
    BY <2>3 DEF o, n
<1>3. outbox' \in [Event -> EventRow]
  BY <1>2 DEF Claimed, TypeInv
<1>4. ASSUME NEW e \in Event
      PROVE  /\ SameRow(e)
             /\ e \in b => outbox'[e].status = "processing"
             /\ e \notin b => outbox'[e] = outbox[e]
  BY <1>2 DEF Claimed, SameRow
<1> QED
  BY <1>1, <1>3, <1>4

LEMMA MarkShape ==
  ASSUME TypeInv, Hands, NEW w \in Worker, NEW status \in Statuses \ {"none"}, NEW due \in BOOLEAN,
         Mark(w, status, due), worker[w].pc \in Busy
  PROVE  LET e == worker[w].event
         IN  /\ outbox' \in [Event -> EventRow] /\ outbox'[e].status = status
             /\ \A x \in Event : SameRow(x) /\ (x # e => outbox'[x] = outbox[x])
<1> DEFINE e == worker[w].event
           u == [outbox[e] EXCEPT !.status = status, !.due = due]
<1>1. e \in Event /\ outbox[e] \in EventRow
  BY BusyWith DEF TypeInv
<1>2. outbox' = [outbox EXCEPT ![e] = u]
  BY <1>1 DEF Mark, TypeInv
<1>3. /\ u \in EventRow /\ u.status = status /\ u.scan = outbox[e].scan
      /\ u.version = outbox[e].version /\ u.failed = outbox[e].failed
  BY <1>1 DEF EventRow
<1> HIDE DEF u
<1>4. \A x \in Event : outbox'[x] = IF x = e THEN u ELSE outbox[x]
  BY <1>2 DEF TypeInv
<1> QED
  BY <1>1, <1>2, <1>3, <1>4 DEF TypeInv, SameRow

LEMMA DelayShape ==
  ASSUME TypeInv, NEW e \in Event, DelayPasses(e)
  PROVE  /\ outbox' \in [Event -> EventRow]
         /\ \A x \in Event : SameRow(x) /\ outbox'[x].status = outbox[x].status
                             /\ (x # e => outbox'[x] = outbox[x])
         /\ outbox[e].status = "pending"
<1> DEFINE u == [outbox[e] EXCEPT !.due = TRUE]
<1>1. u \in EventRow /\ u.scan = outbox[e].scan /\ u.version = outbox[e].version
      /\ u.failed = outbox[e].failed /\ u.status = outbox[e].status
  BY DEF TypeInv, EventRow
<1>2. outbox' = [outbox EXCEPT ![e] = u]
  BY DEF DelayPasses, TypeInv
<1> HIDE DEF u
<1>3. \A x \in Event : outbox'[x] = IF x = e THEN u ELSE outbox[x]
  BY <1>2 DEF TypeInv
<1> QED
  BY <1>1, <1>2, <1>3 DEF TypeInv, SameRow, DelayPasses

\* What a worker becomes when it lets go of its event.
LEMMA LetGo ==
  ASSUME TypeInv, NEW w \in Worker,
         worker' = [worker EXCEPT ![w].pc = "pick", ![w].event = 0, ![w].todo = {}]
  PROVE  /\ worker' \in [Worker -> WorkerRow]
         /\ worker'[w].pc = "pick" /\ worker'[w].event = 0 /\ worker'[w].batch = worker[w].batch
         /\ \A x \in Worker \ {w} : worker'[x] = worker[x]
<1> DEFINE u == [worker[w] EXCEPT !.pc = "pick", !.event = 0, !.todo = {}]
<1>1. u \in WorkerRow /\ u.pc = "pick" /\ u.event = 0 /\ u.batch = worker[w].batch
  BY DEF TypeInv, WorkerRow
<1>2. worker' = [worker EXCEPT ![w] = u]
  BY DEF TypeInv
<1> HIDE DEF u
<1> QED
  BY <1>1, <1>2 DEF TypeInv

LEMMA PickShape ==
  ASSUME TypeInv, NEW w \in Worker, PickEvent(w)
  PROVE  /\ worker' \in [Worker -> WorkerRow] /\ \A x \in Worker \ {w} : worker'[x] = worker[x]
         /\ worker[w].pc = "pick"
         /\ \/ worker[w].batch = {} /\ worker'[w] = Resting
            \/ \E e \in worker[w].batch :
                 /\ worker'[w].pc = "recover" /\ worker'[w].event = e /\ e \in Event
                 /\ worker'[w].batch = worker[w].batch \ {e} /\ worker'[w].todo = outbox[e].failed
<1>1. worker[w] \in WorkerRow /\ worker[w].pc = "pick"
  BY DEF TypeInv, PickEvent
<1>2. CASE worker[w].batch = {}
  <2>1. worker' = [worker EXCEPT ![w] = Resting]
    BY <1>2 DEF PickEvent
  <2> QED
    BY <1>1, <1>2, <2>1, RestingType DEF TypeInv
<1>3. CASE worker[w].batch # {}
  <2> DEFINE u(e) == [pc |-> "recover", batch |-> worker[w].batch \ {e}, event |-> e,
                      todo |-> outbox[e].failed]
  <2>1. PICK e \in worker[w].batch : worker' = [worker EXCEPT ![w] = u(e)]
    BY <1>3 DEF PickEvent, TypeInv
  <2>2. e \in Event /\ outbox[e].failed \subseteq StepName
    BY <1>1 DEF WorkerRow, TypeInv, EventRow
  <2>3. /\ u(e) \in WorkerRow /\ u(e).pc = "recover" /\ u(e).event = e
        /\ u(e).batch = worker[w].batch \ {e} /\ u(e).todo = outbox[e].failed
    BY <1>1, <2>2 DEF WorkerRow
  <2> HIDE DEF u
  <2> QED
    BY <1>1, <2>1, <2>2, <2>3 DEF TypeInv
<1> QED
  BY <1>2, <1>3

\* A busy worker that goes on with its event.
LEMMA GoOnShape ==
  ASSUME TypeInv, Hands, NEW w \in Worker,
         RecoverStep(w) \/ OutboundUnsupported(w) \/ RecoverFails(w)
  PROVE  /\ worker' \in [Worker -> WorkerRow] /\ \A x \in Worker \ {w} : worker'[x] = worker[x]
         /\ worker[w].pc = "recover" /\ worker'[w].pc \in Busy
         /\ worker'[w].event = worker[w].event /\ worker'[w].batch = worker[w].batch
         /\ worker'[w].pc = "recover" =>
              RecoverStep(w) /\ worker'[w].todo = worker[w].todo \ {NextStep(w)}
         /\ outbox' = outbox /\ queued' = queued /\ stranded' = stranded
<1>1. worker[w] \in WorkerRow /\ worker[w].pc = "recover"
  BY DEF TypeInv, RecoverStep, OutboundUnsupported, RecoverFails
<1> DEFINE u == [worker[w] EXCEPT !.todo = @ \ {NextStep(w)}]
           v == [worker[w] EXCEPT !.pc = "retry"]
<1>2. /\ u \in WorkerRow /\ u.pc = "recover" /\ u.event = worker[w].event
      /\ u.batch = worker[w].batch /\ u.todo = worker[w].todo \ {NextStep(w)}
  BY <1>1 DEF WorkerRow
<1>3. v \in WorkerRow /\ v.pc = "retry" /\ v.event = worker[w].event /\ v.batch = worker[w].batch
  BY <1>1 DEF WorkerRow
<1>4. \/ RecoverStep(w) /\ worker' = [worker EXCEPT ![w] = u]
      \/ worker' = [worker EXCEPT ![w] = v]
  BY DEF RecoverStep, OutboundUnsupported, RecoverFails, TypeInv
<1>5. outbox' = outbox /\ queued' = queued /\ stranded' = stranded
  BY DEF RecoverStep, OutboundUnsupported, RecoverFails
<1> HIDE DEF u, v
<1> QED
  BY <1>1, <1>2, <1>3, <1>4, <1>5 DEF TypeInv, Busy

\* The order of the steps tells any two apart.
LEMMA StepsAreOrdered ==
  ASSUME NEW s \in StepName, NEW t \in StepName
  PROVE  s = t \/ Before(s, t) \/ Before(t, s)
<1>1. \A x \in StepName : Index(x) \in 1 .. 4 /\ Step[Index(x)] = x
  BY DEF StepName, Index
<1>2. Index(s) = Index(t) => s = t
  BY <1>1
<1> DEFINE i == Index(s)
           j == Index(t)
<1>3. i \in 1 .. 4 /\ j \in 1 .. 4
  BY <1>1
<1> HIDE DEF i, j
<1>4. i = j \/ i < j \/ j < i
  BY <1>3
<1> QED
  BY <1>2, <1>4 DEF i, j, Before

\* The step a worker makes next is on its list.
LEMMA NextIsListed ==
  ASSUME NEW w \in Worker, worker[w].todo # {}, worker[w].todo \subseteq StepName
  PROVE  NextStep(w) \in worker[w].todo
<1> DEFINE T == worker[w].todo
<1>1. \A t \in T : Index(t) \in 1 .. 4
  BY DEF StepName, Index
<1>2. \E s \in T : \A t \in T : Index(s) <= Index(t)
  <2>1. CASE \E s \in T : Index(s) = 1
    BY <1>1, <2>1
  <2>2. CASE ~(\E s \in T : Index(s) = 1) /\ \E s \in T : Index(s) = 2
    BY <1>1, <2>2
  <2>3. CASE ~(\E s \in T : Index(s) \in {1, 2}) /\ \E s \in T : Index(s) = 3
    BY <1>1, <2>3
  <2>4. CASE ~(\E s \in T : Index(s) \in {1, 2, 3})
    BY <1>1, <2>4
  <2> QED
    BY <2>1, <2>2, <2>3, <2>4
<1>3. PICK s \in T : \A t \in T : Index(s) <= Index(t)
  BY <1>2
<1>4. \A t \in T : s = t \/ Before(s, t)
  <2> SUFFICES ASSUME NEW t \in T PROVE s = t \/ Before(s, t)
    OBVIOUS
  <2>1. s = t \/ Before(s, t) \/ Before(t, s)
    BY StepsAreOrdered
  <2>2. ~Before(t, s)
    BY <1>1, <1>3 DEF Before
  <2> QED
    BY <2>1, <2>2
<1> QED
  BY <1>4 DEF NextStep

LEMMA RecoverSaves ==
  ASSUME TypeInv, Hands, NEW w \in Worker, RecoverStep(w)
  PROVE  LET o == outbox[worker[w].event]
             K == {<<o.scan, NextStep(w)>>}
         IN  /\ K \in SUBSET Key /\ o.version \in Nat /\ Save(K, o.version)
             /\ NextStep(w) \in worker[w].todo
             /\ saved' \in [Key -> Nat] /\ late' \subseteq Event \X Key
<1>1. worker[w].event \in Event /\ outbox[worker[w].event].scan \in Scan
  BY BusyWith, HeldIsRow DEF RecoverStep, Busy
<1>2. outbox[worker[w].event].version \in Nat
  BY <1>1 DEF TypeInv, EventRow
<1>3. NextStep(w) \in worker[w].todo /\ worker[w].todo \subseteq StepName
  BY NextIsListed DEF RecoverStep, TypeInv, WorkerRow
<1>4. {<<outbox[worker[w].event].scan, NextStep(w)>>} \in SUBSET Key
  BY <1>1, <1>3 DEF Key
<1> QED
  BY <1>2, <1>3, <1>4, SaveShape DEF RecoverStep

\* The ways a worker, or the clock, moves on.
Marking(w) ==
  \E status \in {"succeeded", "pending", "dead_letter"}, due \in BOOLEAN :
    /\ Mark(w, status, due) /\ worker[w].pc \in Busy
    /\ status = "succeeded" => worker[w].pc = "recover" /\ worker[w].todo = {}

GoingOn(w) == RecoverStep(w) \/ OutboundUnsupported(w) \/ RecoverFails(w)

Moves(w) ==
  \/ ClaimBatch(w) \/ ClaimAnswerLost(w) \/ PickEvent(w) \/ GoingOn(w)
  \/ Marking(w) \/ MarkRaises(w) \/ WorkerDies(w)

HandlerMoves(r) ==
  \/ PersistAll(r) \/ QueueAction(r) \/ PersistFails(r) \/ CommitFails(r)
  \/ QueueFails(r) \/ HandlerDies(r)

LEMMA NextShape ==
  ASSUME [Next]_vars
  PROVE  \/ UNCHANGED vars
         \/ \E r \in Request : \E s \in Scan : \E wants \in SUBSET StepName : Arrives(r, s, wants)
         \/ \E r \in Request : HandlerMoves(r)
         \/ \E w \in Worker : Moves(w)
         \/ \E e \in Event : DelayPasses(e)
<1>1. ASSUME NEW w \in Worker, MarkSucceeded(w) \/ MarkFailed(w) \/ MarkDeadLetter(w)
      PROVE  Marking(w)
  BY <1>1 DEF MarkSucceeded, MarkFailed, MarkDeadLetter, Marking, Busy
<1>2. ASSUME NEW w \in Worker, \/ WorkerStep(w) \/ ClaimAnswerLost(w) \/ RecoverFails(w)
                               \/ MarkRaises(w) \/ WorkerDies(w)
      PROVE  Moves(w)
  BY <1>1, <1>2 DEF WorkerStep, Moves, GoingOn
<1>3. ASSUME NEW r \in Request, NEW s \in Scan, ScanArrives(r, s) \/ KeywordArrives(r, s)
      PROVE  \E wants \in SUBSET StepName : Arrives(r, s, wants)
  BY <1>3, ArrivalShape
<1> QED
  BY <1>2, <1>3 DEF Next, HandlerStep, HandlerMoves

\* A row that keeps its scan and existence keeps the outbox a prefix.
LEMMA PrefixKept ==
  ASSUME TypeInv, queued' = queued,
         \A e \in Event : \/ outbox'[e] = outbox[e]
                          \/ SameRow(e) /\ e <= queued /\ outbox'[e].status # "none"
  PROVE  \A e \in Event : IF e > queued' THEN outbox'[e] = NoEvent
                          ELSE outbox'[e].status # "none" /\ outbox'[e].scan \in Scan
BY DEF TypeInv, SameRow, Event

LEMMA PendingIsRow ==
  ASSUME TypeInv, NEW e \in Event, outbox[e].status # "none"
  PROVE  e <= queued
BY DEF TypeInv, NoEvent, Event

LEMMA MovesType ==
  ASSUME TypeInv, Hands, NEW w \in Worker, Moves(w)
  PROVE  TypeInv'
<1>0. worker \in [Worker -> WorkerRow] /\ worker[w] \in WorkerRow
  BY DEF TypeInv
<1>1. ASSUME NEW b \in Batches, outbox' = Claimed(b), queued' = queued
      PROVE  /\ outbox' \in [Event -> EventRow]
             /\ \A e \in Event : IF e > queued' THEN outbox'[e] = NoEvent
                                 ELSE outbox'[e].status # "none" /\ outbox'[e].scan \in Scan
  <2>1. \A e \in Event : \/ outbox'[e] = outbox[e]
                         \/ SameRow(e) /\ e <= queued /\ outbox'[e].status # "none"
    BY <1>1, ClaimShape, PendingIsRow
  <2> QED
    BY <1>1, <2>1, ClaimShape, PrefixKept
<1>2. CASE ClaimBatch(w)
  <2>1. PICK b \in Batches : /\ outbox' = Claimed(b)
                             /\ worker' = [worker EXCEPT ![w] = [Resting EXCEPT !.pc = "pick", !.batch = b]]
    BY <1>2 DEF ClaimBatch
  <2>2. b \subseteq Event
    BY DEF Batches, Due
  <2>3. [Resting EXCEPT !.pc = "pick", !.batch = b] \in WorkerRow
    BY <2>2 DEF Resting, WorkerRow
  <2> QED
    BY <1>0, <1>1, <1>2, <2>1, <2>3 DEF ClaimBatch, TypeInv, Rows, Lost
<1>3. CASE ClaimAnswerLost(w)
  <2>1. PICK b \in Batches : outbox' = Claimed(b) /\ stranded' = stranded \cup b
    BY <1>3 DEF ClaimAnswerLost
  <2>2. b \subseteq Event
    BY DEF Batches, Due
  <2> QED
    BY <1>1, <1>3, <2>1, <2>2 DEF ClaimAnswerLost, TypeInv, Rows, Lost
<1>4. CASE PickEvent(w)
  BY <1>4, PickShape DEF PickEvent, TypeInv, Rows, Lost
<1>5. CASE GoingOn(w)
  <2>1. worker' \in [Worker -> WorkerRow]
    BY <1>5, GoOnShape DEF GoingOn
  <2>2. saved' \in [Key -> Nat] /\ late' \subseteq Event \X Key
    BY <1>5, RecoverSaves DEF GoingOn, OutboundUnsupported, RecoverFails, TypeInv, Rows
  <2> QED
    BY <1>5, <2>1, <2>2 DEF GoingOn, RecoverStep, OutboundUnsupported, RecoverFails, TypeInv, Lost
<1>6. CASE Marking(w)
  <2>1. PICK status \in {"succeeded", "pending", "dead_letter"}, due \in BOOLEAN :
          Mark(w, status, due) /\ worker[w].pc \in Busy
    BY <1>6 DEF Marking
  <2>2. status \in Statuses \ {"none"}
    BY DEF Statuses
  <2>3. worker[w].event \in Event /\ worker[w].event <= queued
    BY <2>1, BusyWith, HeldIsRow
  <2>4. /\ outbox' \in [Event -> EventRow]
        /\ \A e \in Event : \/ outbox'[e] = outbox[e]
                            \/ SameRow(e) /\ e <= queued /\ outbox'[e].status # "none"
    BY <2>1, <2>2, <2>3, MarkShape
  <2>5. worker' \in [Worker -> WorkerRow]
    BY <2>1, LetGo DEF Mark
  <2>6. \A e \in Event : IF e > queued' THEN outbox'[e] = NoEvent
                         ELSE outbox'[e].status # "none" /\ outbox'[e].scan \in Scan
    BY <2>1, <2>4, PrefixKept DEF Mark
  <2> QED
    BY <2>1, <2>4, <2>5, <2>6 DEF Mark, TypeInv, Rows, Lost
<1>7. CASE MarkRaises(w)
  <2>1. worker' \in [Worker -> WorkerRow]
    BY <1>7, LetGo DEF MarkRaises
  <2>2. stranded' \subseteq Event
    BY <1>7, BusyWith DEF MarkRaises, Busy, TypeInv
  <2> QED
    BY <1>7, <2>1, <2>2 DEF MarkRaises, TypeInv, Rows, Lost
<1>8. CASE WorkerDies(w)
  <2>1. stranded' \subseteq Event
    BY <1>0, <1>8 DEF WorkerDies, WorkerRow, TypeInv
  <2>2. worker' \in [Worker -> WorkerRow]
    BY <1>0, <1>8, RestingType DEF WorkerDies
  <2> QED
    BY <1>8, <2>1, <2>2 DEF WorkerDies, TypeInv, Rows, Lost
<1> QED
  BY <1>2, <1>3, <1>4, <1>5, <1>6, <1>7, <1>8 DEF Moves

LEMMA TypeNext == TypeInv /\ Hands /\ [Next]_vars => TypeInv'
<1> SUFFICES ASSUME TypeInv, Hands, [Next]_vars PROVE TypeInv'
  OBVIOUS
<1>1. ASSUME NEW e \in Event, DelayPasses(e) PROVE TypeInv'
  <2>1. /\ outbox' \in [Event -> EventRow]
        /\ \A x \in Event : \/ outbox'[x] = outbox[x]
                            \/ SameRow(x) /\ x <= queued /\ outbox'[x].status # "none"
    BY <1>1, DelayShape, PendingIsRow
  <2>2. \A x \in Event : IF x > queued' THEN outbox'[x] = NoEvent
                         ELSE outbox'[x].status # "none" /\ outbox'[x].scan \in Scan
    BY <1>1, <2>1, PrefixKept DEF DelayPasses
  <2> QED
    BY <1>1, <2>1, <2>2 DEF DelayPasses, TypeInv, Rows, Lost
<1>2. CASE UNCHANGED vars
  BY <1>2 DEF vars, TypeInv
<1> QED
  BY <1>1, <1>2, NextShape, ArrivesType, HandlerType, MovesType DEF HandlerMoves

-----------------------------------------------------------------------------
(***************************************************************************)
(* Each step keeps the hands.                                              *)
(***************************************************************************)

\* A handler that queues its event adds a row and touches no other.
LEMMA QueueShape ==
  ASSUME TypeInv, NEW r \in Request, QueueAction(r)
  PROVE  /\ queued' = queued + 1
         /\ \A e \in Event : outbox'[e] = IF e = queued + 1 THEN QueuedEvent(r) ELSE outbox[e]
         /\ queued + 1 \in Event => outbox[queued + 1] = NoEvent
         /\ req'[r] = NoRequest /\ \A x \in Request \ {r} : req'[x] = req[x]
BY DEF TypeInv, QueueAction, Event

\* Steps that change no worker and take no event in or out of processing.
LEMMA HandsUntouched ==
  ASSUME Hands, worker' = worker, stranded' = stranded,
         \A e \in Event : outbox'[e].status = "processing" <=> outbox[e].status = "processing"
  PROVE  Hands'
BY DEF Hands, Holds

LEMMA HandsHandler ==
  ASSUME TypeInv, Hands, NEW r \in Request, HandlerMoves(r)
  PROVE  Hands'
<1>1. worker' = worker /\ stranded' = stranded
  BY DEF HandlerMoves, PersistAll, QueueAction, PersistFails, CommitFails, QueueFails, HandlerDies
<1>2. CASE QueueAction(r)
  <2>1. QueuedEvent(r).status = "pending" /\ NoEvent.status = "none"
    BY DEF QueuedEvent, NoEvent
  <2>2. \A e \in Event : outbox'[e].status = "processing" <=> outbox[e].status = "processing"
    BY <1>2, <2>1, QueueShape
  <2> QED
    BY <1>1, <2>2, HandsUntouched
<1>3. CASE ~QueueAction(r)
  <2>1. outbox' = outbox
    BY <1>3 DEF HandlerMoves, PersistAll, PersistFails, CommitFails, QueueFails, HandlerDies
  <2> QED
    BY <1>1, <2>1, HandsUntouched
<1> QED
  BY <1>2, <1>3

\* A worker that keeps what it holds.
LEMMA HandsSame ==
  ASSUME Hands, stranded' = stranded, outbox' = outbox, NEW w \in Worker,
         \A x \in Worker \ {w} : worker'[x] = worker[x],
         worker'[w].pc \in Busy <=> worker[w].pc \in Busy, worker[w].pc # "idle", worker'[w].pc # "idle",
         worker'[w].event = worker[w].event, worker'[w].batch = worker[w].batch
  PROVE  Hands'
<1>1. \A x \in Worker : worker'[x].event = worker[x].event /\ worker'[x].batch = worker[x].batch
  OBVIOUS
<1>2. \A x \in Worker, e \in Event : Holds(x, e)' <=> Holds(x, e)
  BY <1>1 DEF Holds
<1>3. \A x \in Worker : /\ worker'[x].pc \in Busy <=> worker'[x].event # 0
                        /\ worker'[x].event \notin worker'[x].batch
                        /\ worker'[x].pc = "idle" => worker'[x].batch = {}
  BY <1>1 DEF Hands
<1> QED
  BY <1>2, <1>3 DEF Hands

LEMMA HandsPick ==
  ASSUME TypeInv, Hands, NEW w \in Worker, PickEvent(w)
  PROVE  Hands'
<1>1. /\ worker[w].pc = "pick" /\ \A x \in Worker \ {w} : worker'[x] = worker[x]
      /\ \/ worker[w].batch = {} /\ worker'[w] = Resting
         \/ \E e \in worker[w].batch :
              /\ worker'[w].pc = "recover" /\ worker'[w].event = e /\ e \in Event
              /\ worker'[w].batch = worker[w].batch \ {e}
  BY PickShape
<1>2. worker[w].event = 0
  BY <1>1 DEF Hands, Busy
<1>3. \A x \in Worker, e \in Event : Holds(x, e)' <=> Holds(x, e)
  <2>0. 0 \notin Event
    BY DEF Event
  <2>1. \A e \in Event : Holds(w, e)' <=> Holds(w, e)
    BY <1>1, <1>2, <2>0, RestingType DEF Holds
  <2> QED
    BY <1>1, <2>1 DEF Holds
<1>4. \A x \in Worker : /\ worker'[x].pc \in Busy <=> worker'[x].event # 0
                        /\ worker'[x].event \notin worker'[x].batch
                        /\ worker'[x].pc = "idle" => worker'[x].batch = {}
  <2>1. /\ worker'[w].pc \in Busy <=> worker'[w].event # 0
        /\ worker'[w].event \notin worker'[w].batch
        /\ worker'[w].pc = "idle" => worker'[w].batch = {}
    BY <1>1, RestingType DEF Busy, Event
  <2> QED
    BY <1>1, <2>1 DEF Hands
<1>5. outbox' = outbox /\ stranded' = stranded
  BY DEF PickEvent
<1> QED
  BY <1>3, <1>4, <1>5 DEF Hands

LEMMA HandsClaim ==
  ASSUME TypeInv, Hands, NEW w \in Worker, ClaimBatch(w) \/ ClaimAnswerLost(w)
  PROVE  Hands'
<1>1. worker[w].pc = "idle" /\ worker[w].batch = {} /\ worker[w].event = 0
  BY DEF Hands, Busy, ClaimBatch, ClaimAnswerLost
<1>2. PICK b \in Batches :
        /\ outbox' = Claimed(b)
        /\ \/ stranded' = stranded \cup b /\ worker' = worker
           \/ /\ stranded' = stranded
              /\ worker' = [worker EXCEPT ![w] = [Resting EXCEPT !.pc = "pick", !.batch = b]]
  BY DEF ClaimBatch, ClaimAnswerLost
<1>3. /\ b \subseteq Event
      /\ \A e \in Event : /\ e \in b => outbox[e].status = "pending" /\ outbox'[e].status = "processing"
                          /\ e \notin b => outbox'[e] = outbox[e]
  BY <1>2, ClaimShape
<1>4. \A e \in b : e \notin stranded /\ \A x \in Worker : ~Holds(x, e)
  BY <1>3 DEF Hands
<1>5. CASE stranded' = stranded \cup b /\ worker' = worker
  BY <1>3, <1>4, <1>5 DEF Hands, Holds
<1>6. CASE /\ stranded' = stranded
           /\ worker' = [worker EXCEPT ![w] = [Resting EXCEPT !.pc = "pick", !.batch = b]]
  <2>1. /\ worker'[w].pc = "pick" /\ worker'[w].batch = b /\ worker'[w].event = 0
        /\ \A x \in Worker \ {w} : worker'[x] = worker[x]
    BY <1>6 DEF Resting, TypeInv
  <2>2. 0 \notin Event
    BY DEF Event
  <2>3. \A x \in Worker, e \in Event : Holds(x, e)' <=> Holds(x, e) \/ (x = w /\ e \in b)
    BY <1>1, <2>1, <2>2 DEF Holds
  <2>4. \A x \in Worker : /\ worker'[x].pc \in Busy <=> worker'[x].event # 0
                          /\ worker'[x].event \notin worker'[x].batch
                          /\ worker'[x].pc = "idle" => worker'[x].batch = {}
    BY <1>3, <2>1, <2>2 DEF Hands, Busy
  <2>5. \A v, x \in Worker, e \in Event : Holds(v, e)' /\ Holds(x, e)' => v = x
    BY <1>4, <2>3 DEF Hands
  <2>6. \A e \in Event : (\E x \in Worker : Holds(x, e)') \/ e \in stranded'
                            <=> outbox'[e].status = "processing"
    BY <1>3, <1>6, <2>3 DEF Hands
  <2>7. \A x \in Worker, e \in Event : Holds(x, e)' => e \notin stranded'
    BY <1>4, <1>6, <2>3 DEF Hands
  <2> QED
    BY <2>4, <2>5, <2>6, <2>7 DEF Hands
<1> QED
  BY <1>2, <1>5, <1>6

\* A worker lets go of its event: the event leaves processing, or is stranded in it.
LEMMA HandsLetGo ==
  ASSUME TypeInv, Hands, NEW w \in Worker, Marking(w) \/ MarkRaises(w)
  PROVE  Hands'
<1> DEFINE o == worker[w].event
<1>1. worker[w].pc \in Busy
  BY DEF Marking, MarkRaises, Busy
<1>2. o \in Event /\ Holds(w, o) /\ o \notin worker[w].batch /\ 0 \notin Event
  BY <1>1, BusyWith DEF Event
<1>3. /\ worker'[w].pc = "pick" /\ worker'[w].event = 0 /\ worker'[w].batch = worker[w].batch
      /\ \A x \in Worker \ {w} : worker'[x] = worker[x]
  BY LetGo DEF Marking, Mark, MarkRaises
<1>4. \A x \in Worker, e \in Event : Holds(x, e)' <=> Holds(x, e) /\ e # o
  <2> SUFFICES ASSUME NEW x \in Worker, NEW e \in Event
               PROVE  Holds(x, e)' <=> Holds(x, e) /\ e # o
    OBVIOUS
  <2>1. CASE x = w
    BY <1>2, <1>3, <2>1 DEF Holds
  <2>2. CASE x # w
    <3>1. Holds(x, e)' <=> Holds(x, e)
      BY <1>3, <2>2 DEF Holds
    <3>2. Holds(x, e) => e # o
      BY <1>2, <2>2 DEF Hands
    <3> QED
      BY <3>1, <3>2
  <2> QED
    BY <2>1, <2>2
<1>5. \A x \in Worker : /\ worker'[x].pc \in Busy <=> worker'[x].event # 0
                        /\ worker'[x].event \notin worker'[x].batch
                        /\ worker'[x].pc = "idle" => worker'[x].batch = {}
  <2>1. 0 \notin worker[w].batch
    BY <1>1, <1>2, BusyWith
  <2> QED
    BY <1>3, <2>1 DEF Hands, Busy
<1>6. \/ /\ stranded' = stranded /\ outbox'[o].status # "processing"
         /\ \A e \in Event : e # o => outbox'[e] = outbox[e]
      \/ stranded' = stranded \cup {o} /\ outbox' = outbox
  <2>1. CASE Marking(w)
    <3>1. PICK status \in {"succeeded", "pending", "dead_letter"}, due \in BOOLEAN :
            Mark(w, status, due)
      BY <2>1 DEF Marking
    <3>2. status \in Statuses \ {"none"} /\ status # "processing"
      BY DEF Statuses
    <3> QED
      BY <1>1, <3>1, <3>2, MarkShape DEF Mark
  <2>2. CASE MarkRaises(w)
    BY <2>2 DEF MarkRaises
  <2> QED
    BY <2>1, <2>2
<1>7. o \notin stranded
  BY <1>2 DEF Hands
<1>8. outbox[o].status = "processing"
  BY <1>2 DEF Hands
<1> HIDE DEF o
<1>9. \A v, x \in Worker, e \in Event : Holds(v, e)' /\ Holds(x, e)' => v = x
  BY <1>4 DEF Hands
<1>10. \A x \in Worker, e \in Event : Holds(x, e)' => e \notin stranded'
  BY <1>4, <1>6 DEF Hands
<1>11. \A e \in Event : (\E x \in Worker : Holds(x, e)') \/ e \in stranded'
                           <=> outbox'[e].status = "processing"
  <2> SUFFICES ASSUME NEW e \in Event
               PROVE  (\E x \in Worker : Holds(x, e)') \/ e \in stranded'
                        <=> outbox'[e].status = "processing"
    OBVIOUS
  <2>1. CASE e = o
    BY <1>4, <1>6, <1>7, <1>8, <2>1
  <2>2. CASE e # o
    BY <1>4, <1>6, <2>2 DEF Hands
  <2> QED
    BY <2>1, <2>2
<1> QED
  BY <1>5, <1>9, <1>10, <1>11 DEF Hands

LEMMA HandsDies ==
  ASSUME TypeInv, Hands, NEW w \in Worker, WorkerDies(w)
  PROVE  Hands'
<1>1. /\ worker'[w] = Resting /\ \A x \in Worker \ {w} : worker'[x] = worker[x]
      /\ stranded' = stranded \cup worker[w].batch \cup ({worker[w].event} \ {0}) /\ outbox' = outbox
  BY DEF WorkerDies, TypeInv
<1>2. 0 \notin Event
  BY DEF Event
<1>3. \A x \in Worker, e \in Event : Holds(x, e)' <=> Holds(x, e) /\ x # w
  BY <1>1, <1>2, RestingType DEF Holds
<1>4. \A e \in Event : e \in stranded' <=> e \in stranded \/ Holds(w, e)
  BY <1>1, <1>2 DEF Holds
<1>5. \A x \in Worker : /\ worker'[x].pc \in Busy <=> worker'[x].event # 0
                        /\ worker'[x].event \notin worker'[x].batch
                        /\ worker'[x].pc = "idle" => worker'[x].batch = {}
  BY <1>1, RestingType DEF Hands, Busy
<1>6. \A v, x \in Worker, e \in Event : Holds(v, e)' /\ Holds(x, e)' => v = x
  BY <1>3 DEF Hands
<1>7. \A x \in Worker, e \in Event : Holds(x, e)' => e \notin stranded'
  BY <1>3, <1>4 DEF Hands
<1>8. \A e \in Event : (\E x \in Worker : Holds(x, e)') \/ e \in stranded'
                          <=> outbox'[e].status = "processing"
  BY <1>1, <1>3, <1>4 DEF Hands
<1> QED
  BY <1>5, <1>6, <1>7, <1>8 DEF Hands

LEMMA HandsNext == TypeInv /\ Hands /\ [Next]_vars => Hands'
<1> SUFFICES ASSUME TypeInv, Hands, [Next]_vars PROVE Hands'
  OBVIOUS
<1>1. CASE UNCHANGED vars
  BY <1>1, HandsUntouched DEF vars
<1>2. ASSUME NEW r \in Request, NEW s \in Scan, NEW wants \in SUBSET StepName, Arrives(r, s, wants)
      PROVE  Hands'
  BY <1>2, HandsUntouched DEF Arrives
<1>3. ASSUME NEW e \in Event, DelayPasses(e) PROVE Hands'
  BY <1>3, DelayShape, HandsUntouched DEF DelayPasses
<1>4. ASSUME NEW w \in Worker, GoingOn(w) PROVE Hands'
  BY <1>4, GoOnShape, HandsSame DEF GoingOn, Busy
<1> QED
  BY <1>1, <1>2, <1>3, <1>4, NextShape, HandsHandler, HandsPick, HandsClaim, HandsLetGo, HandsDies
     DEF Moves

-----------------------------------------------------------------------------
(***************************************************************************)
(* Versions.  Every scan has its own: the requests in progress and the     *)
(* rows of the outbox have different ones, so the outbox has room for the  *)
(* event of every request.                                                 *)
(***************************************************************************)

Versions ==
  /\ queued <= scans /\ \A k \in Key : saved[k] <= scans
  /\ \A r \in Request : req[r].pc # "idle" => req[r].version \in 1 .. scans
  /\ \A e \in Event : e <= queued => outbox[e].version \in 1 .. scans
  /\ \A p, r \in Request : /\ p # r /\ req[p].pc # "idle" /\ req[r].pc # "idle"
                           => req[p].version # req[r].version
  /\ \A d, e \in Event : d # e /\ d <= queued /\ e <= queued => outbox[d].version # outbox[e].version
  /\ \A r \in Request, e \in Event :
       req[r].pc # "idle" /\ e <= queued => req[r].version # outbox[e].version

LEMMA VersionsInit == Init => Versions
BY NoRequestType DEF Init, Versions, Key, Event

LEMMA RoomInOutbox ==
  ASSUME TypeInv, Versions, NEW r \in Request, req[r].pc # "idle"
  PROVE  queued + 1 <= scans /\ queued + 1 \in Event
<1>1. scans \in Nat /\ queued \in Nat /\ scans <= MaxScans /\ queued <= scans /\ MaxScans \in Nat
  BY BoundAssumption DEF TypeInv, Versions
<1>2. CASE queued + 1 <= scans
  BY <1>1, <1>2 DEF Event
<1>3. CASE scans < queued + 1
  <2> DEFINE f == [i \in 1 .. queued + 1 |->
                     IF i = queued + 1 THEN req[r].version ELSE outbox[i].version]
  <2>1. \A i \in 1 .. queued + 1 : i # queued + 1 => i \in Event /\ i <= queued
    BY <1>1 DEF Event
  <2>2. f \in [1 .. queued + 1 -> 1 .. scans]
    BY <2>1 DEF Versions
  <2>3. /\ IsFiniteSet(1 .. queued + 1) /\ Cardinality(1 .. queued + 1) = queued + 1
        /\ IsFiniteSet(1 .. scans) /\ Cardinality(1 .. scans) = scans
    <3>1. 1 \in Int /\ queued + 1 \in Int /\ scans \in Int /\ ~(1 > queued + 1)
      BY <1>1
    <3>2. (queued + 1) - 1 + 1 = queued + 1 /\ scans - 1 + 1 = scans /\ (1 > scans => scans = 0)
      BY <1>1
    <3> QED
      BY <3>1, <3>2, FS_Interval
  <2> HIDE DEF f
  <2>4. \E x, y \in 1 .. queued + 1 : x # y /\ f[x] = f[y]
    <3> DEFINE S == 1 .. queued + 1
               T == 1 .. scans
    <3>1. IsFiniteSet(S) /\ IsFiniteSet(T) /\ Cardinality(T) < Cardinality(S) /\ f \in [S -> T]
      BY <1>3, <2>2, <2>3
    <3> HIDE DEF S, T
    <3>2. \E x, y \in S : x # y /\ f[x] = f[y]
      BY <3>1, FS_PigeonHole
    <3> QED
      BY <3>2 DEF S
  <2>5. \A x, y \in 1 .. queued + 1 : x # y => f[x] # f[y]
    BY <2>1 DEF Versions, f
  <2> QED
    BY <2>4, <2>5
<1> QED
  BY <1>1, <1>2, <1>3

\* What a handler does to its request and to the rows it saves.
LEMMA HandlerShape ==
  ASSUME TypeInv, NEW r \in Request, HandlerMoves(r)
  PROVE  /\ scans' = scans /\ wanted' = wanted /\ worker' = worker /\ req[r].pc # "idle"
         /\ \A x \in Request \ {r} : req'[x] = req[x]
         /\ \/ req'[r] = NoRequest
            \/ /\ req[r].pc = "persist" /\ req'[r].pc = "queue" /\ req'[r].version = req[r].version
               /\ req'[r].scan = req[r].scan /\ req'[r].wants = req[r].wants
               /\ PersistFails(r) \/ CommitFails(r)
         /\ \/ saved' = saved /\ late' = late
            \/ Commit(r) /\ req[r].pc = "persist"
         /\ overlapped' = overlapped
         /\ ~QueueAction(r) => outbox' = outbox /\ queued' = queued
         /\ missed \subseteq missed' /\ unqueued \subseteq unqueued'
<1>0. req[r] \in RequestRow /\ DOMAIN saved = Key
  BY DEF TypeInv
<1>1. scans' = scans /\ wanted' = wanted /\ worker' = worker /\ req[r].pc # "idle"
  BY DEF HandlerMoves, PersistAll, QueueAction, PersistFails, CommitFails, QueueFails, HandlerDies
<1>2. /\ ~QueueAction(r) => outbox' = outbox /\ queued' = queued
      /\ missed \subseteq missed' /\ unqueued \subseteq unqueued' /\ overlapped' = overlapped
  BY DEF HandlerMoves, PersistAll, QueueAction, PersistFails, CommitFails, QueueFails, HandlerDies,
     Lose, Lost
<1>4. \/ saved' = saved /\ late' = late
      \/ Commit(r) /\ req[r].pc = "persist"
  BY DEF HandlerMoves, PersistAll, QueueAction, PersistFails, CommitFails, QueueFails, HandlerDies, Rows
<1>5. CASE req' = [req EXCEPT ![r] = NoRequest]
  <2>1. req'[r] = NoRequest /\ \A x \in Request \ {r} : req'[x] = req[x]
    BY <1>5 DEF TypeInv
  <2> QED
    BY <1>1, <1>2, <1>4, <2>1
<1>6. CASE PersistFails(r) \/ CommitFails(r)
  <2>1. PICK failed \in SUBSET StepName : req' = [req EXCEPT ![r].pc = "queue", ![r].failed = failed]
    BY <1>0, <1>6 DEF PersistFails, CommitFails, RolledBack, RequestRow
  <2> DEFINE u == [req[r] EXCEPT !.pc = "queue", !.failed = failed]
  <2>2. /\ u.pc = "queue" /\ u.version = req[r].version /\ u.scan = req[r].scan
        /\ u.wants = req[r].wants
    BY <1>0 DEF RequestRow
  <2>3. req' = [req EXCEPT ![r] = u]
    BY <2>1 DEF TypeInv
  <2> HIDE DEF u
  <2>4. req'[r] = u /\ (\A x \in Request \ {r} : req'[x] = req[x]) /\ req[r].pc = "persist"
    BY <1>6, <2>3 DEF TypeInv, PersistFails, CommitFails
  <2> QED
    BY <1>1, <1>2, <1>4, <1>6, <2>2, <2>4
<1> QED
  BY <1>5, <1>6 DEF HandlerMoves, PersistAll, QueueAction, QueueFails, HandlerDies

\* What a worker or the clock leaves alone.
LEMMA MovesShape ==
  ASSUME TypeInv, Hands, (\E w \in Worker : Moves(w)) \/ (\E e \in Event : DelayPasses(e))
  PROVE  /\ req' = req /\ scans' = scans /\ queued' = queued /\ wanted' = wanted
         /\ missed' = missed /\ unqueued' = unqueued
         /\ \A e \in Event : SameRow(e)
         /\ overlapped' = overlapped
         /\ (saved' = saved /\ late' = late) \/ \E w \in Worker : RecoverStep(w)
         /\ \A e \in Event : outbox'[e].status # "succeeded" \/ outbox[e].status = "succeeded"
              \/ \E w \in Worker : worker[w].pc = "recover" /\ worker[w].event = e /\ worker[w].todo = {}
<1>1. ASSUME NEW w \in Worker, Marking(w)
      PROVE  /\ req' = req /\ scans' = scans /\ queued' = queued /\ wanted' = wanted
             /\ missed' = missed /\ unqueued' = unqueued /\ overlapped' = overlapped
             /\ saved' = saved /\ late' = late
             /\ \A e \in Event : SameRow(e)
             /\ \A e \in Event : outbox'[e].status # "succeeded" \/ outbox[e].status = "succeeded"
                  \/ (worker[w].pc = "recover" /\ worker[w].event = e /\ worker[w].todo = {})
  <2>1. PICK status \in {"succeeded", "pending", "dead_letter"}, due \in BOOLEAN :
          /\ Mark(w, status, due) /\ worker[w].pc \in Busy
          /\ status = "succeeded" => worker[w].pc = "recover" /\ worker[w].todo = {}
    BY <1>1 DEF Marking
  <2>2. status \in Statuses \ {"none"}
    BY DEF Statuses
  <2>3. /\ outbox'[worker[w].event].status = status
        /\ \A x \in Event : SameRow(x) /\ (x # worker[w].event => outbox'[x] = outbox[x])
    BY <2>1, <2>2, MarkShape
  <2> QED
    BY <2>1, <2>3 DEF Mark, Rows, Lost
<1>2. ASSUME NEW w \in Worker, ClaimBatch(w) \/ ClaimAnswerLost(w)
      PROVE  \A e \in Event : SameRow(e) /\ (outbox'[e].status # "succeeded" \/ outbox'[e] = outbox[e])
  <2>1. PICK b \in Batches : outbox' = Claimed(b)
    BY <1>2 DEF ClaimBatch, ClaimAnswerLost
  <2> QED
    BY <2>1, ClaimShape
<1>3. ASSUME NEW w \in Worker, PickEvent(w) \/ GoingOn(w) \/ MarkRaises(w) \/ WorkerDies(w)
      PROVE  \A e \in Event : SameRow(e) /\ outbox'[e] = outbox[e]
  BY <1>3 DEF PickEvent, GoingOn, RecoverStep, OutboundUnsupported, RecoverFails, MarkRaises,
     WorkerDies, SameRow
<1>4. ASSUME NEW w \in Worker, Moves(w), ~Marking(w)
      PROVE  /\ req' = req /\ scans' = scans /\ queued' = queued /\ wanted' = wanted
             /\ missed' = missed /\ unqueued' = unqueued /\ overlapped' = overlapped
             /\ (saved' = saved /\ late' = late) \/ RecoverStep(w)
  BY <1>4 DEF Moves, ClaimBatch, ClaimAnswerLost, PickEvent, GoingOn, RecoverStep,
     OutboundUnsupported, RecoverFails, MarkRaises, WorkerDies, Rows, Lost
<1>5. ASSUME NEW w \in Worker, Moves(w), ~Marking(w)
      PROVE  \A e \in Event : SameRow(e) /\ (outbox'[e].status # "succeeded" \/ outbox'[e] = outbox[e])
  BY <1>2, <1>3, <1>5 DEF Moves
<1>6. ASSUME NEW w \in Worker, Moves(w)
      PROVE  /\ req' = req /\ scans' = scans /\ queued' = queued /\ wanted' = wanted
             /\ missed' = missed /\ unqueued' = unqueued
             /\ \A e \in Event : SameRow(e)
             /\ overlapped' = overlapped
             /\ (saved' = saved /\ late' = late) \/ RecoverStep(w)
             /\ \A e \in Event : outbox'[e].status # "succeeded" \/ outbox[e].status = "succeeded"
                  \/ (worker[w].pc = "recover" /\ worker[w].event = e /\ worker[w].todo = {})
  BY <1>1, <1>4, <1>5, <1>6
<1>7. ASSUME NEW d \in Event, DelayPasses(d)
      PROVE  /\ req' = req /\ scans' = scans /\ queued' = queued /\ wanted' = wanted
             /\ missed' = missed /\ unqueued' = unqueued /\ overlapped' = overlapped
             /\ saved' = saved /\ late' = late
             /\ \A e \in Event : SameRow(e) /\ outbox'[e].status = outbox[e].status
  BY <1>7, DelayShape DEF DelayPasses, Rows, Lost
<1> QED
  BY <1>6, <1>7

\* A step that saves anything saves it for one version that has arrived.
LEMMA SavesShape ==
  ASSUME TypeInv, Hands, Versions,
         \/ \E r \in Request : HandlerMoves(r)
         \/ \E w \in Worker : Moves(w)
         \/ \E e \in Event : DelayPasses(e)
  PROVE  \/ saved' = saved /\ late' = late
         \/ \E K \in SUBSET Key, version \in 1 .. scans : Save(K, version)
<1>1. ASSUME NEW r \in Request, HandlerMoves(r)
      PROVE  \/ saved' = saved /\ late' = late
             \/ \E K \in SUBSET Key, version \in 1 .. scans : Save(K, version)
  <2>1. req[r].pc # "idle" /\ req[r].version \in 1 .. scans
    BY <1>1, HandlerShape DEF Versions
  <2> QED
    BY <1>1, <2>1, HandlerShape, CommitSaves
<1>2. ASSUME NEW w \in Worker, RecoverStep(w)
      PROVE  \E K \in SUBSET Key, version \in 1 .. scans : Save(K, version)
  <2>1. worker[w].event \in Event /\ worker[w].event <= queued
    BY <1>2, BusyWith, HeldIsRow DEF RecoverStep, Busy
  <2>2. outbox[worker[w].event].version \in 1 .. scans
    BY <2>1 DEF Versions
  <2> QED
    BY <1>2, <2>2, RecoverSaves
<1> QED
  BY <1>1, <1>2, MovesShape

\* Nothing Postgres holds is from a scan that has not come.
LEMMA SavedHaveArrived ==
  ASSUME TypeInv, Hands, Versions,
         \/ \E r \in Request : HandlerMoves(r)
         \/ \E w \in Worker : Moves(w)
         \/ \E e \in Event : DelayPasses(e)
  PROVE  \A k \in Key : saved'[k] <= scans
<1>1. ASSUME NEW K \in SUBSET Key, NEW version \in 1 .. scans, Save(K, version)
      PROVE  \A k \in Key : saved'[k] <= scans
  <2>1. version \in Nat /\ version <= scans
    BY DEF TypeInv
  <2>2. \A k \in Key : saved'[k] = IF k \in K THEN Stored(k, version) ELSE saved[k]
    BY <1>1, <2>1, SaveShape
  <2> QED
    BY <2>1, <2>2 DEF Stored, Versions
<1> QED
  BY <1>1, SavesShape DEF Versions

LEMMA VersionsArrive ==
  ASSUME TypeInv, Versions, NEW r \in Request, NEW s \in Scan, NEW wants \in SUBSET StepName,
         Arrives(r, s, wants)
  PROVE  Versions'
<1>1. /\ req[r].pc = "idle" /\ scans' = scans + 1 /\ scans \in Nat
      /\ saved' = saved /\ outbox' = outbox /\ queued' = queued /\ queued \in Nat
  BY DEF Arrives, TypeInv, Rows
<1> DEFINE u == [pc |-> "persist", scan |-> s, version |-> scans + 1, wants |-> wants, failed |-> {}]
<1>2. u.version = scans + 1
  OBVIOUS
<1>3. req' = [req EXCEPT ![r] = u]
  BY DEF Arrives
<1> HIDE DEF u
<1>4. req'[r].version = scans + 1 /\ \A x \in Request \ {r} : req'[x] = req[x]
  BY <1>2, <1>3 DEF TypeInv
<1>5. /\ queued' <= scans' /\ \A k \in Key : saved'[k] <= scans'
  BY <1>1 DEF Versions, TypeInv
<1>6. \A x \in Request : req'[x].pc # "idle" => req'[x].version \in 1 .. scans'
  BY <1>1, <1>4 DEF Versions
<1>7. \A e \in Event : e <= queued' => outbox'[e].version \in 1 .. scans'
  BY <1>1 DEF Versions
<1>8. \A p, x \in Request : p # x /\ req'[p].pc # "idle" /\ req'[x].pc # "idle"
                              => req'[p].version # req'[x].version
  <2>1. \A x \in Request : x # r /\ req'[x].pc # "idle" => req'[x].version \in 1 .. scans
    BY <1>4 DEF Versions
  <2>2. \A p, x \in Request : p # r /\ x # r /\ p # x /\ req'[p].pc # "idle" /\ req'[x].pc # "idle"
                                => req'[p].version # req'[x].version
    BY <1>4 DEF Versions
  <2> QED
    BY <1>1, <1>4, <2>1, <2>2
<1>9. \A x \in Request, e \in Event :
        req'[x].pc # "idle" /\ e <= queued' => req'[x].version # outbox'[e].version
  <2>1. \A e \in Event : e <= queued => outbox[e].version \in 1 .. scans
    BY DEF Versions
  <2>2. \A x \in Request, e \in Event :
          x # r /\ req'[x].pc # "idle" /\ e <= queued => req'[x].version # outbox[e].version
    BY <1>4 DEF Versions
  <2> QED
    BY <1>1, <1>4, <2>1, <2>2
<1> QED
  BY <1>1, <1>5, <1>6, <1>7, <1>8, <1>9 DEF Versions

\* Nobody's version changes, and requests only end.
LEMMA VersionsKept ==
  ASSUME TypeInv, Versions, scans' = scans, queued' = queued, \A k \in Key : saved'[k] <= scans,
         \A r \in Request : req'[r].pc # "idle" =>
           req[r].pc # "idle" /\ req'[r].version = req[r].version,
         \A e \in Event : outbox'[e].version = outbox[e].version
  PROVE  Versions'
BY DEF Versions

LEMMA VersionsHandler ==
  ASSUME TypeInv, Hands, Versions, NEW r \in Request, HandlerMoves(r)
  PROVE  Versions'
<1>1. req[r].version \in 1 .. scans /\ req[r].pc # "idle"
  BY HandlerShape DEF Versions
<1>2. \A k \in Key : saved'[k] <= scans
  BY SavedHaveArrived
<1>3. \A x \in Request : req'[x].pc # "idle" =>
        req[x].pc # "idle" /\ req'[x].version = req[x].version
  BY HandlerShape, NoRequestType
<1>4. CASE ~QueueAction(r)
  BY <1>2, <1>3, <1>4, HandlerShape, VersionsKept
<1>5. CASE QueueAction(r)
  <2> DEFINE n == queued + 1
             v == req[r].version
  <2>1. n \in Event /\ n <= scans /\ queued \in Nat /\ queued' = n /\ scans' = scans
    BY <1>1, <1>5, RoomInOutbox, QueueShape, HandlerShape DEF TypeInv
  <2>2. /\ outbox'[n].version = v
        /\ \A e \in Event : e # n => outbox'[e] = outbox[e]
        /\ \A e \in Event : e <= n /\ e # n => e <= queued
    <3>1. QueuedEvent(r).version = v
      BY DEF QueuedEvent
    <3>2. \A e \in Event : e \in Nat
      BY DEF Event
    <3> QED
      BY <1>5, <2>1, <3>1, <3>2, QueueShape
  <2>3. req'[r].pc = "idle" /\ \A x \in Request \ {r} : req'[x] = req[x]
    BY <1>5, QueueShape, NoRequestType
  <2> HIDE DEF n, v
  <2>4. v = req[r].version
    BY DEF v
  <2>5. \A e \in Event : e <= n => outbox'[e].version \in 1 .. scans
    BY <1>1, <2>2, <2>4 DEF Versions
  <2>6. \A d, e \in Event : d # e /\ d <= n /\ e <= n => outbox'[d].version # outbox'[e].version
    <3>1. \A e \in Event : e <= queued => outbox[e].version # v
      BY <1>1, <2>4 DEF Versions
    <3> QED
      BY <2>2, <3>1 DEF Versions
  <2>7. \A x \in Request, e \in Event :
          req'[x].pc # "idle" /\ e <= n => req'[x].version # outbox'[e].version
    <3>1. \A x \in Request : req'[x].pc # "idle" => x # r /\ req[x].pc # "idle" /\ req'[x] = req[x]
      BY <2>3
    <3>2. \A x \in Request : req'[x].pc # "idle" => req'[x].version # v
      BY <1>1, <2>4, <3>1 DEF Versions
    <3> QED
      BY <2>2, <3>1, <3>2 DEF Versions
  <2>8. /\ \A x \in Request : req'[x].pc # "idle" => req'[x].version \in 1 .. scans
        /\ \A p, x \in Request : p # x /\ req'[p].pc # "idle" /\ req'[x].pc # "idle"
                                   => req'[p].version # req'[x].version
    BY <1>3 DEF Versions
  <2> QED
    BY <1>2, <2>1, <2>5, <2>6, <2>7, <2>8 DEF Versions
<1> QED
  BY <1>4, <1>5

LEMMA VersionsNext == TypeInv /\ Hands /\ Versions /\ [Next]_vars => Versions'
<1> SUFFICES ASSUME TypeInv, Hands, Versions, [Next]_vars PROVE Versions'
  OBVIOUS
<1>1. CASE UNCHANGED vars
  BY <1>1 DEF vars, Versions
<1>2. CASE (\E w \in Worker : Moves(w)) \/ (\E e \in Event : DelayPasses(e))
  <2>1. \A k \in Key : saved'[k] <= scans
    BY <1>2, SavedHaveArrived
  <2> QED
    BY <1>2, <2>1, MovesShape, VersionsKept DEF SameRow
<1> QED
  BY <1>1, <1>2, NextShape, VersionsArrive, VersionsHandler

\* No event is ever in the hands of two workers, and what is in processing is in somebody's
\* hands or was stranded by a death or a statement that failed, for any number of workers,
\* batches and faults.
THEOREM EventsHaveOneWorker == Spec => []OneWorkerPerEvent
<1>1. TypeInv /\ Hands /\ Versions => OneWorkerPerEvent
  <2> SUFFICES ASSUME TypeInv, Hands, Versions PROVE TypeOK
    BY DEF OneWorkerPerEvent, Hands
  <2>1. \A e \in Event : outbox[e].status \in Statuses /\ (outbox[e].status = "none" <=> e > queued)
    BY DEF TypeInv, EventRow, NoEvent
  <2>2. \A k \in Key : saved[k] \in 0 .. MaxScans
    BY BoundAssumption DEF TypeInv, Versions
  <2>3. saved \in [Key -> 0 .. MaxScans]
    BY <2>2 DEF TypeInv
  <2>4. \A w \in Worker : worker[w].pc \in {"idle", "pick", "recover", "retry"}
    BY DEF TypeInv, WorkerRow
  <2> QED
    BY <2>1, <2>3, <2>4 DEF TypeInv, TypeOK, Key
<1> QED
  BY <1>1, TypeInit, TypeNext, HandsInit, HandsNext, VersionsInit, VersionsNext, PTL DEF Spec


-----------------------------------------------------------------------------
(***************************************************************************)
(* Writes.  A request knows the writes its version wants; once its         *)
(* transaction has failed, each of them is in the copy that failed or was   *)
(* missed.  A worker that has taken a step off its list has saved it.      *)
(* A write that was saved stands: its row holds its version or a later     *)
(* one, or an older write has replaced it, and then the cause is on record: *)
(* the older handler was still saving when the newer scan came, or an event *)
(* of the older scan lists the step.                                        *)
(***************************************************************************)

Standing(v, k) == Kept(v, k) \/ <<v, k>> \in late

RequestKnows ==
  \A r \in Request : req[r].pc # "idle" =>
    /\ wanted[req[r].version] = {req[r].scan} \X req[r].wants
    /\ req[r].pc = "queue" =>
         \A s \in req[r].wants :
           s \in req[r].failed \/ <<req[r].version, <<req[r].scan, s>>>> \in missed

RowKnows ==
  \A e \in Event : e <= queued => \A k \in wanted[outbox[e].version] : k[1] = outbox[e].scan

DoneIsSaved ==
  \A w \in Worker : worker[w].pc = "recover" =>
    \A s \in outbox[worker[w].event].failed \ worker[w].todo :
      Standing(outbox[worker[w].event].version, <<outbox[worker[w].event].scan, s>>)

\* Where a write is, as NoWriteVanishes lists it.
Requested(v) == \E r \in Request : req[r].pc # "idle" /\ req[r].version = v
Listed(v, s) ==
  \E e \in Event : /\ outbox[e].version = v /\ s \in outbox[e].failed
                   /\ outbox[e].status # "succeeded"
Accounted(v, k) ==
  Standing(v, k) \/ Requested(v) \/ Listed(v, k[2]) \/ <<v, k>> \in missed \cup unqueued
AllAccounted == \A v \in Event : \A k \in wanted[v] : Accounted(v, k)

Writes == RequestKnows /\ RowKnows /\ DoneIsSaved /\ AllAccounted

LEMMA WritesInit == Init => Writes
BY NoRequestType, RestingType DEF Init, Writes, RequestKnows, RowKnows, DoneIsSaved, AllAccounted, Event

\* A listed event is a row: the events that are none list nothing.
LEMMA ListedIsRow ==
  ASSUME TypeInv, NEW e \in Event, outbox[e].failed # {}
  PROVE  e <= queued
<1>1. NoEvent.failed = {}
  BY DEF NoEvent
<1> QED
  BY <1>1 DEF TypeInv, Event

\* What Save writes stands, and what stood stands still or is recorded as replaced.
LEMMA SavedStands ==
  ASSUME TypeInv, NEW K \in SUBSET Key, NEW version \in Nat \ {0}, Save(K, version)
  PROVE  /\ \A k \in K : Standing(version, k)'
         /\ \A v \in Event, k \in Key : Standing(v, k) => Standing(v, k)'
<1>1. /\ \A k \in Key : saved'[k] = IF k \in K THEN Stored(k, version) ELSE saved[k]
      /\ \A k \in Key : saved[k] \in Nat
      /\ late' = late \cup Replaced(K, version)
  BY SaveShape DEF TypeInv
<1>2. ASSUME NEW k \in K PROVE Kept(version, k)'
  <2>1. saved'[k] = (IF Upserted(k) \/ saved[k] = 0 THEN version ELSE saved[k]) /\ saved[k] \in Nat
    BY <1>1 DEF Stored
  <2> QED
    BY <2>1 DEF Kept, Upserted
<1>3. ASSUME NEW v \in Event, NEW k \in Key, Standing(v, k) PROVE Standing(v, k)'
  <2>1. CASE <<v, k>> \in late
    BY <1>1, <2>1 DEF Standing
  <2>2. CASE Kept(v, k) /\ k \notin K
    BY <1>1, <2>2 DEF Standing, Kept, Upserted
  <2>3. CASE Kept(v, k) /\ k \in K /\ ~Upserted(k)
    BY <1>1, <2>3 DEF Standing, Kept, Upserted, Stored
  <2>4. CASE Kept(v, k) /\ k \in K /\ Upserted(k)
    <3>1. saved'[k] = version /\ saved[k] >= v /\ saved[k] \in Nat /\ v \in Nat
      BY <1>1, <2>4 DEF Kept, Stored, Event
    <3>2. CASE version >= v
      BY <2>4, <3>1, <3>2 DEF Standing, Kept, Upserted
    <3>3. CASE version < v
      <4> DEFINE p == <<v, k>>
      <4>1. p \in Event \X K /\ p[1] = v /\ p[2] = k
        BY <2>4
      <4> HIDE DEF p
      <4>2. Upserted(p[2]) /\ version < p[1] /\ p[1] <= saved[p[2]]
        BY <2>4, <3>1, <3>3, <4>1
      <4>3. p \in Replaced(K, version)
        BY <4>1, <4>2 DEF Replaced
      <4> QED
        BY <1>1, <4>3 DEF Standing, p
    <3> QED
      BY <3>1, <3>2, <3>3
  <2> QED
    BY <1>3, <2>1, <2>2, <2>3, <2>4 DEF Standing
<1> QED
  BY <1>2, <1>3 DEF Standing

\* A write that stands is never taken away unseen.
LEMMA StandingStays ==
  ASSUME TypeInv, Hands, Versions,
         \/ \E r \in Request : HandlerMoves(r)
         \/ \E w \in Worker : Moves(w)
         \/ \E e \in Event : DelayPasses(e)
  PROVE  \A v \in Event, k \in Key : Standing(v, k) => Standing(v, k)'
<1>1. ASSUME NEW K \in SUBSET Key, NEW version \in 1 .. scans, Save(K, version)
      PROVE  \A v \in Event, k \in Key : Standing(v, k) => Standing(v, k)'
  <2>1. version \in Nat \ {0}
    BY DEF TypeInv
  <2> QED
    BY <1>1, <2>1, SavedStands
<1>2. CASE saved' = saved /\ late' = late
  BY <1>2 DEF Standing, Kept, Upserted
<1> QED
  BY <1>1, <1>2, SavesShape

LEMMA WritesArrive ==
  ASSUME TypeInv, Versions, Writes, NEW r \in Request, NEW s \in Scan, NEW wants \in SUBSET StepName,
         Arrives(r, s, wants)
  PROVE  Writes'
<1> DEFINE n == scans + 1
           u == [pc |-> "persist", scan |-> s, version |-> n, wants |-> wants, failed |-> {}]
<1>1. /\ req[r].pc = "idle" /\ saved' = saved /\ late' = late /\ outbox' = outbox
      /\ queued' = queued /\ worker' = worker /\ missed' = missed /\ unqueued' = unqueued
  BY DEF Arrives, Rows, Lost
<1>0. \A v, k : Standing(v, k) => Standing(v, k)'
  BY <1>1 DEF Standing, Kept, Upserted
<1>2. n \in Event /\ n \notin 1 .. scans
  BY BoundAssumption DEF Arrives, TypeInv, Event
<1>3. /\ u.version = n /\ u.scan = s /\ u.wants = wants /\ u.pc = "persist"
  OBVIOUS
<1>4. req' = [req EXCEPT ![r] = u] /\ wanted' = [wanted EXCEPT ![n] = {s} \X wants]
  BY DEF Arrives
<1> HIDE DEF u, n
<1>5. req'[r] = u /\ \A x \in Request \ {r} : req'[x] = req[x]
  BY <1>4 DEF TypeInv
<1>6. wanted'[n] = {s} \X wants /\ \A v : v # n => wanted'[v] = wanted[v]
  BY <1>2, <1>4 DEF TypeInv
<1>7. RequestKnows'
  <2>1. \A x \in Request : x # r /\ req[x].pc # "idle" => req[x].version # n
    BY <1>2 DEF Versions
  <2> QED
    BY <1>1, <1>3, <1>5, <1>6, <2>1 DEF Writes, RequestKnows
<1>8. RowKnows'
  <2>1. \A e \in Event : e <= queued => outbox[e].version # n
    BY <1>2 DEF Versions
  <2> QED
    BY <1>1, <1>6, <2>1 DEF Writes, RowKnows
<1>9. DoneIsSaved'
  BY <1>0, <1>1 DEF Writes, DoneIsSaved
<1>10. AllAccounted'
  <2> SUFFICES ASSUME NEW v \in Event, NEW k \in wanted'[v] PROVE Accounted(v, k)'
    BY DEF AllAccounted
  <2>1. CASE v = n
    BY <1>3, <1>5, <2>1 DEF Accounted, Requested
  <2>2. CASE v # n
    <3>1. Accounted(v, k)
      BY <1>6, <2>2 DEF Writes, AllAccounted
    <3>2. Requested(v) => Requested(v)'
      BY <1>1, <1>5 DEF Requested
    <3>3. Listed(v, k[2]) => Listed(v, k[2])'
      BY <1>1 DEF Listed
    <3> QED
      BY <1>0, <1>1, <3>1, <3>2, <3>3 DEF Accounted
  <2> QED
    BY <2>1, <2>2
<1> QED
  BY <1>7, <1>8, <1>9, <1>10 DEF Writes

LEMMA RowVersions ==
  ASSUME TypeInv, Versions, NEW e \in Event, e <= queued
  PROVE  outbox[e].version \in Event
BY BoundAssumption DEF TypeInv, Versions, Event

\* What a worker has done stays done while rows keep what they list and what stands stays.
LEMMA DoneIsKept ==
  ASSUME TypeInv, Hands, Versions, Writes, worker' = worker, outbox' = outbox,
         \A v \in Event, k \in Key : Standing(v, k) => Standing(v, k)'
  PROVE  DoneIsSaved'
<1> SUFFICES ASSUME NEW w \in Worker, worker[w].pc = "recover",
                    NEW s \in outbox[worker[w].event].failed \ worker[w].todo
             PROVE  Standing(outbox[worker[w].event].version, <<outbox[worker[w].event].scan, s>>)'
  BY DEF DoneIsSaved
<1>1. /\ worker[w].event \in Event /\ outbox[worker[w].event].scan \in Scan
      /\ outbox[worker[w].event].version \in Event
  BY BusyWith, HeldIsRow, RowVersions DEF Busy
<1>2. s \in StepName
  BY <1>1 DEF TypeInv, EventRow
<1>3. <<outbox[worker[w].event].scan, s>> \in Key
  BY <1>1, <1>2 DEF Key
<1>4. Standing(outbox[worker[w].event].version, <<outbox[worker[w].event].scan, s>>)
  BY DEF Writes, DoneIsSaved
<1>5. outbox'[worker[w].event] = outbox[worker[w].event]
  OBVIOUS
<1> QED
  BY <1>1, <1>3, <1>4, <1>5

\* A handler whose request stays: its transaction failed.
LEMMA WritesFail ==
  ASSUME TypeInv, Hands, Versions, Writes, NEW r \in Request, PersistFails(r) \/ CommitFails(r)
  PROVE  Writes'
<1>1. /\ req[r] \in RequestRow /\ HandlerMoves(r) /\ req[r].pc = "persist"
  BY DEF TypeInv, HandlerMoves, PersistFails, CommitFails
<1>2. PICK failed \in SUBSET StepName :
        /\ req' = [req EXCEPT ![r].pc = "queue", ![r].failed = failed]
        /\ \A s \in req[r].wants :
             s \in failed \/ <<req[r].version, <<req[r].scan, s>>>> \in missed'
  <2>1. CASE PersistFails(r)
    <3>1. PICK cause \in req[r].wants :
            /\ req' = [req EXCEPT ![r].pc = "queue", ![r].failed = RolledBack(r, cause)]
            /\ missed' = missed \cup Writing(r, {t \in req[r].wants : Before(cause, t)})
      BY <2>1 DEF PersistFails
    <3>2. RolledBack(r, cause) \in SUBSET StepName
      BY <1>1 DEF RolledBack, RequestRow
    <3>3. \A s \in req[r].wants :
            s \in RolledBack(r, cause) \/ <<req[r].version, <<req[r].scan, s>>>> \in missed'
      BY <1>1, <3>1, StepsAreOrdered DEF RolledBack, RequestRow, Writing
    <3> QED
      BY <3>1, <3>2, <3>3
  <2>2. CASE CommitFails(r)
    BY <1>1, <2>2 DEF CommitFails, RequestRow
  <2> QED
    BY <2>1, <2>2
<1> DEFINE u == [req[r] EXCEPT !.pc = "queue", !.failed = failed]
<1>3. /\ u.pc = "queue" /\ u.version = req[r].version /\ u.scan = req[r].scan
      /\ u.wants = req[r].wants /\ u.failed = failed
  BY <1>1 DEF RequestRow
<1>4. req' = [req EXCEPT ![r] = u]
  BY <1>2 DEF TypeInv
<1> HIDE DEF u
<1>5. req'[r] = u /\ \A x \in Request \ {r} : req'[x] = req[x]
  BY <1>4 DEF TypeInv
<1>6. /\ wanted' = wanted /\ outbox' = outbox /\ queued' = queued /\ worker' = worker
      /\ missed \subseteq missed' /\ unqueued \subseteq unqueued'
  BY <1>1, HandlerShape DEF PersistFails, CommitFails
<1>7. \A v \in Event, k \in Key : Standing(v, k) => Standing(v, k)'
  BY <1>1, StandingStays
<1>8. RequestKnows'
  <2>1. wanted[req[r].version] = {req[r].scan} \X req[r].wants
    BY <1>1 DEF Writes, RequestKnows
  <2>2. ASSUME NEW x \in Request, x # r, req'[x].pc # "idle"
        PROVE  /\ wanted'[req'[x].version] = {req'[x].scan} \X req'[x].wants
               /\ req'[x].pc = "queue" =>
                    \A s \in req'[x].wants :
                      s \in req'[x].failed \/ <<req'[x].version, <<req'[x].scan, s>>>> \in missed'
    <3>1. req'[x] = req[x]
      BY <1>5, <2>2
    <3>2. /\ wanted[req[x].version] = {req[x].scan} \X req[x].wants
          /\ req[x].pc = "queue" =>
               \A s \in req[x].wants :
                 s \in req[x].failed \/ <<req[x].version, <<req[x].scan, s>>>> \in missed
      BY <2>2, <3>1 DEF Writes, RequestKnows
    <3> QED
      BY <1>6, <3>1, <3>2
  <2>3. /\ wanted'[req'[r].version] = {req'[r].scan} \X req'[r].wants
        /\ \A s \in req'[r].wants :
             s \in req'[r].failed \/ <<req'[r].version, <<req'[r].scan, s>>>> \in missed'
    BY <1>2, <1>3, <1>5, <1>6, <2>1
  <2> QED
    BY <2>2, <2>3 DEF RequestKnows
<1>9. RowKnows'
  BY <1>6 DEF Writes, RowKnows
<1>10. DoneIsSaved'
  BY <1>6, <1>7, DoneIsKept
<1>11. AllAccounted'
  <2> SUFFICES ASSUME NEW v \in Event, NEW k \in wanted'[v] PROVE Accounted(v, k)'
    BY DEF AllAccounted
  <2>1. Accounted(v, k) /\ k \in Key
    BY <1>6 DEF Writes, TypeInv, AllAccounted
  <2>2. Requested(v) => Requested(v)'
    BY <1>3, <1>5 DEF Requested
  <2>3. Listed(v, k[2]) => Listed(v, k[2])'
    BY <1>6 DEF Listed
  <2> QED
    BY <1>6, <1>7, <2>1, <2>2, <2>3 DEF Accounted
<1> QED
  BY <1>8, <1>9, <1>10, <1>11 DEF Writes

\* A handler whose request ends: each of its writes is in Postgres, in the event it has queued,
\* or lost, and everything else is where it was.
LEMMA WritesEnd ==
  ASSUME TypeInv, Hands, Versions, Writes, NEW r \in Request, HandlerMoves(r), req'[r] = NoRequest,
         queued' = queued \/ QueueAction(r), ~QueueAction(r) => outbox' = outbox,
         \A v \in Event, k \in {req[r].scan} \X req[r].wants : v = req[r].version =>
           Standing(v, k)' \/ Listed(v, k[2])' \/ <<v, k>> \in missed' \cup unqueued',
         \A v \in Event, s \in StepName : Listed(v, s) => Listed(v, s)',
         RowKnows', DoneIsSaved'
  PROVE  Writes'
<1>1. /\ wanted' = wanted /\ missed \subseteq missed' /\ unqueued \subseteq unqueued'
      /\ req[r].pc # "idle" /\ \A x \in Request \ {r} : req'[x] = req[x]
  BY HandlerShape
<1>2. \A v \in Event, k \in Key : Standing(v, k) => Standing(v, k)'
  BY StandingStays
<1>3. RequestKnows'
  BY <1>1, NoRequestType DEF Writes, RequestKnows
<1>4. AllAccounted'
  <2> SUFFICES ASSUME NEW v \in Event, NEW k \in wanted'[v] PROVE Accounted(v, k)'
    BY DEF AllAccounted
  <2>1. Accounted(v, k) /\ k \in Key /\ k[2] \in StepName
    BY <1>1 DEF Writes, TypeInv, Key, AllAccounted
  <2>2. CASE v = req[r].version
    <3>1. k \in {req[r].scan} \X req[r].wants
      BY <1>1, <2>2 DEF Writes, RequestKnows
    <3> QED
      BY <2>2, <3>1 DEF Accounted
  <2>3. CASE v # req[r].version
    <3>1. Requested(v) => Requested(v)'
      BY <1>1, <2>3 DEF Requested
    <3> QED
      BY <1>1, <1>2, <2>1, <3>1 DEF Accounted
  <2> QED
    BY <2>2, <2>3
<1> QED
  BY <1>3, <1>4 DEF Writes

LEMMA WritesHandler ==
  ASSUME TypeInv, Hands, Versions, Writes, NEW r \in Request, HandlerMoves(r)
  PROVE  Writes'
<1>0. req[r] \in RequestRow /\ req[r].pc # "idle" /\ req[r].scan \in Scan /\ req[r].version \in 1 .. scans
  BY HandlerShape DEF TypeInv, Versions
<1>1. CASE PersistFails(r) \/ CommitFails(r)
  BY <1>1, WritesFail
<1>2. ASSUME ~QueueAction(r)
      PROVE  /\ RowKnows' /\ DoneIsSaved' /\ queued' = queued /\ outbox' = outbox
             /\ \A v \in Event, s \in StepName : Listed(v, s) => Listed(v, s)'
  <2>1. outbox' = outbox /\ queued' = queued /\ wanted' = wanted /\ worker' = worker
    BY <1>2, HandlerShape
  <2>2. RowKnows'
    BY <2>1 DEF Writes, RowKnows
  <2>3. DoneIsSaved'
    BY <2>1, DoneIsKept, StandingStays
  <2> QED
    BY <2>1, <2>2, <2>3 DEF Listed
<1>3. CASE PersistAll(r)
  <2>1. req'[r] = NoRequest /\ ~QueueAction(r)
    BY <1>3 DEF PersistAll, QueueAction, TypeInv
  <2>2. Commit(r) /\ req[r].version \in Nat \ {0}
    BY <1>0, <1>3 DEF PersistAll
  <2>3. ASSUME NEW v \in Event, v = req[r].version
        PROVE  \A k \in {req[r].scan} \X req[r].wants : Standing(v, k)'
    <3> DEFINE K == {req[r].scan} \X req[r].wants
    <3>1. K \in SUBSET Key /\ Save(K, v) /\ v \in Nat \ {0}
      BY <1>0, <2>2, <2>3, CommitSaves
    <3> HIDE DEF K
    <3>2. \A k \in K : Standing(v, k)'
      BY <3>1, SavedStands
    <3> QED
      BY <3>2 DEF K
  <2> QED
    BY <1>2, <2>1, <2>3, WritesEnd
<1>4. CASE QueueFails(r) \/ HandlerDies(r)
  <2>1. req' = [req EXCEPT ![r] = NoRequest] /\ Lose(r) /\ queued' = queued
    BY <1>4 DEF QueueFails, HandlerDies
  <2>2. ~QueueAction(r)
    BY <2>1 DEF QueueAction, TypeInv
  <2>3. req'[r] = NoRequest
    BY <2>1 DEF TypeInv
  <2>4. \A k \in {req[r].scan} \X req[r].wants : <<req[r].version, k>> \in missed' \cup unqueued'
    <3> SUFFICES ASSUME NEW k \in {req[r].scan} \X req[r].wants PROVE <<req[r].version, k>> \in unqueued'
      OBVIOUS
    <3>1. k = <<req[r].scan, k[2]>> /\ k[2] \in req[r].wants
      OBVIOUS
    <3>2. <<req[r].version, <<req[r].scan, k[2]>>>> \in unqueued'
      BY <2>1, <3>1 DEF Lose, Writing
    <3> QED
      BY <3>1, <3>2
  <2> QED
    BY <1>2, <2>2, <2>3, <2>4, WritesEnd
<1>5. CASE QueueAction(r)
  <2> DEFINE n == queued + 1
             q == QueuedEvent(r)
  <2>1. /\ n \in Event /\ n <= scans /\ queued \in Nat /\ queued' = n
    BY <1>0, <1>5, RoomInOutbox, QueueShape DEF TypeInv
  <2>2. /\ q.version = req[r].version /\ q.scan = req[r].scan /\ q.failed = req[r].failed
        /\ q.status = "pending" /\ NoEvent.failed = {}
    BY DEF QueuedEvent, NoEvent
  <2>3. /\ outbox'[n] = q /\ outbox[n] = NoEvent
        /\ \A e \in Event : e # n => outbox'[e] = outbox[e]
        /\ \A e \in Event : e <= n /\ e # n => e <= queued
    <3>1. \A e \in Event : e \in Nat
      BY DEF Event
    <3> QED
      BY <1>5, <2>1, <3>1, QueueShape
  <2>4. /\ wanted' = wanted /\ worker' = worker /\ missed' = missed /\ unqueued' = unqueued
        /\ req'[r] = NoRequest /\ req[r].pc = "queue"
    BY <1>5, QueueShape DEF QueueAction, Lost
  <2> HIDE DEF n, q
  <2>5. RowKnows'
    <3>1. \A k \in wanted[req[r].version] : k[1] = req[r].scan
      BY <1>0 DEF Writes, RequestKnows
    <3> QED
      BY <2>1, <2>2, <2>3, <2>4, <3>1 DEF Writes, RowKnows
  <2>6. \A v \in Event, s \in StepName : Listed(v, s) => Listed(v, s)'
    BY <2>2, <2>3 DEF Listed
  <2>7. \A v \in Event, k \in {req[r].scan} \X req[r].wants : v = req[r].version =>
          Listed(v, k[2])' \/ <<v, k>> \in missed'
    <3> SUFFICES ASSUME NEW v \in Event, NEW k \in {req[r].scan} \X req[r].wants, v = req[r].version
                 PROVE  Listed(v, k[2])' \/ <<v, k>> \in missed'
      OBVIOUS
    <3> DEFINE s == k[2]
    <3>0. k = <<req[r].scan, s>> /\ s \in req[r].wants
      OBVIOUS
    <3> HIDE DEF s
    <3>1. s \in req[r].failed \/ <<v, <<req[r].scan, s>>>> \in missed
      BY <1>0, <2>4, <3>0 DEF Writes, RequestKnows
    <3>2. CASE <<v, <<req[r].scan, s>>>> \in missed
      BY <2>4, <3>0, <3>2
    <3>3. CASE s \in req[r].failed
      <4>1. outbox'[n].version = v /\ s \in outbox'[n].failed /\ outbox'[n].status # "succeeded"
        BY <2>2, <2>3, <3>3
      <4>2. Listed(v, s)'
        BY <2>1, <4>1 DEF Listed
      <4> QED
        BY <4>2 DEF s
    <3> QED
      BY <3>1, <3>2, <3>3
  <2>8. DoneIsSaved'
    <3>1. \A w \in Worker : worker[w].pc = "recover" =>
            worker[w].event # n /\ worker[w].event \in Event
      <4>1. \A e \in Event : e <= queued => e # n
        BY <2>1 DEF n, Event
      <4> QED
        BY <4>1, BusyWith, HeldIsRow DEF Busy
    <3>2. saved' = saved /\ late' = late
      BY <1>5 DEF QueueAction, Rows
    <3>3. \A v, k : Standing(v, k) => Standing(v, k)'
      BY <3>2 DEF Standing, Kept, Upserted
    <3> QED
      BY <2>3, <2>4, <3>1, <3>3 DEF Writes, DoneIsSaved
  <2> QED
    BY <1>5, <2>4, <2>5, <2>6, <2>7, <2>8, WritesEnd
<1> QED
  BY <1>1, <1>3, <1>4, <1>5 DEF HandlerMoves

\* What becomes of the list of a worker that recovers an event.
LEMMA RecoverShape ==
  ASSUME TypeInv, Hands, (\E w \in Worker : Moves(w)) \/ (\E e \in Event : DelayPasses(e)),
         NEW x \in Worker, worker'[x].pc = "recover"
  PROVE  \/ worker'[x] = worker[x]
         \/ worker'[x].event \in Event /\ worker'[x].todo = outbox[worker'[x].event].failed
         \/ /\ RecoverStep(x) /\ worker[x].pc = "recover" /\ worker'[x].event = worker[x].event
            /\ worker'[x].todo = worker[x].todo \ {NextStep(x)}
<1>1. ASSUME NEW e \in Event, DelayPasses(e) PROVE worker'[x] = worker[x]
  BY <1>1 DEF DelayPasses
<1>2. ASSUME NEW w \in Worker, Moves(w), w # x PROVE worker'[x] = worker[x]
  <2>2. CASE PickEvent(w) \/ GoingOn(w)
    BY <1>2, <2>2, PickShape, GoOnShape DEF GoingOn
  <2>3. CASE Marking(w) \/ MarkRaises(w)
    BY <1>2, <2>3, LetGo DEF Marking, Mark, MarkRaises
  <2>4. CASE ClaimBatch(w) \/ ClaimAnswerLost(w) \/ WorkerDies(w)
    BY <1>2, <2>4 DEF ClaimBatch, ClaimAnswerLost, WorkerDies, TypeInv
  <2> QED
    BY <1>2, <2>2, <2>3, <2>4 DEF Moves
<1>3. CASE Moves(x)
  <2>1. CASE ClaimBatch(x)
    <3>1. PICK b \in Batches : worker' = [worker EXCEPT ![x] = [Resting EXCEPT !.pc = "pick", !.batch = b]]
      BY <2>1 DEF ClaimBatch
    <3>2. worker'[x].pc = "pick"
      BY <3>1 DEF Resting, TypeInv
    <3> QED
      BY <3>2
  <2>2. CASE ClaimAnswerLost(x)
    BY <2>2 DEF ClaimAnswerLost
  <2>3. CASE PickEvent(x)
    BY <2>3, PickShape, RestingType
  <2>4. CASE GoingOn(x)
    BY <2>4, GoOnShape DEF GoingOn
  <2>5. CASE Marking(x) \/ MarkRaises(x)
    BY <2>5, LetGo DEF Marking, Mark, MarkRaises
  <2>6. CASE WorkerDies(x)
    <3>1. worker'[x] = Resting
      BY <2>6 DEF WorkerDies, TypeInv
    <3> QED
      BY <3>1, RestingType
  <2> QED
    BY <1>3, <2>1, <2>2, <2>3, <2>4, <2>5, <2>6 DEF Moves
<1> QED
  BY <1>1, <1>2, <1>3

LEMMA DoneGrows ==
  ASSUME TypeInv, Hands, Versions, Writes,
         (\E w \in Worker : Moves(w)) \/ (\E e \in Event : DelayPasses(e))
  PROVE  DoneIsSaved'
<1>0. /\ \A v \in Event, k \in Key : Standing(v, k) => Standing(v, k)'
      /\ \A e \in Event : SameRow(e)
  BY StandingStays, MovesShape
<1> SUFFICES ASSUME NEW w \in Worker, worker'[w].pc = "recover",
                    NEW s \in outbox'[worker'[w].event].failed \ worker'[w].todo
             PROVE  Standing(outbox[worker[w].event].version, <<outbox[worker[w].event].scan, s>>)'
  BY DEF DoneIsSaved
<1>1. ASSUME NEW o \in Event, worker'[w].event = o, o <= queued, outbox[o].scan \in Scan,
             s \in StepName, Standing(outbox[o].version, <<outbox[o].scan, s>>)
      PROVE  Standing(outbox[worker[w].event].version, <<outbox[worker[w].event].scan, s>>)'
  <2>1. outbox[o].version \in Event /\ <<outbox[o].scan, s>> \in Key
    BY <1>1, RowVersions DEF Key
  <2>2. Standing(outbox[o].version, <<outbox[o].scan, s>>)'
    <3>1. \A v \in Event, k \in Key : v = outbox[o].version /\ k = <<outbox[o].scan, s>>
                                        => Standing(v, k)'
      BY <1>0, <1>1
    <3>2. outbox'[o].version = outbox[o].version /\ outbox'[o].scan = outbox[o].scan
      BY <1>0 DEF SameRow
    <3> QED
      BY <2>1, <3>1, <3>2
  <2> QED
    BY <1>1, <2>2
<1>2. CASE worker'[w] = worker[w]
  <2>1. /\ worker[w].event \in Event /\ outbox[worker[w].event].scan \in Scan
        /\ outbox[worker[w].event].failed \subseteq StepName /\ worker[w].event <= queued
    BY <1>2, BusyWith, HeldIsRow DEF Busy, TypeInv, EventRow
  <2>2. s \in outbox[worker[w].event].failed \ worker[w].todo
    BY <1>0, <1>2, <2>1 DEF SameRow
  <2>3. Standing(outbox[worker[w].event].version, <<outbox[worker[w].event].scan, s>>)
    BY <1>2, <2>2 DEF Writes, DoneIsSaved
  <2> QED
    BY <1>1, <1>2, <2>1, <2>2, <2>3
<1>3. CASE worker'[w].event \in Event /\ worker'[w].todo = outbox[worker'[w].event].failed
  BY <1>0, <1>3 DEF SameRow
<1>4. CASE /\ RecoverStep(w) /\ worker[w].pc = "recover" /\ worker'[w].event = worker[w].event
           /\ worker'[w].todo = worker[w].todo \ {NextStep(w)}
  <2> DEFINE o == worker[w].event
  <2>1. /\ o \in Event /\ outbox[o].scan \in Scan /\ outbox[o].failed \subseteq StepName
        /\ o <= queued
    BY <1>4, BusyWith, HeldIsRow DEF Busy, TypeInv, EventRow
  <2>2. s \in outbox[o].failed
    BY <1>0, <1>4, <2>1 DEF SameRow
  <2>3. CASE s = NextStep(w)
    <3> DEFINE K == {<<outbox[o].scan, s>>}
    <3>1. K \in SUBSET Key /\ Save(K, outbox[o].version)
      BY <1>4, <2>3, RecoverSaves
    <3>2. outbox[o].version \in Nat \ {0}
      BY <2>1, RowVersions DEF Event
    <3> HIDE DEF K
    <3>3. ASSUME NEW v \in Nat \ {0}, v = outbox[o].version
          PROVE  \A k \in K : Standing(v, k)'
      BY <3>1, <3>3, SavedStands
    <3>4. outbox'[o].version = outbox[o].version /\ outbox'[o].scan = outbox[o].scan
      BY <1>0, <2>1 DEF SameRow
    <3>5. \A k \in K : k = <<outbox[o].scan, s>>
      BY DEF K
    <3>6. <<outbox[o].scan, s>> \in K
      BY DEF K
    <3> QED
      BY <1>4, <3>2, <3>3, <3>4, <3>6
  <2>4. CASE s # NextStep(w)
    <3>1. Standing(outbox[o].version, <<outbox[o].scan, s>>)
      BY <1>4, <2>2, <2>4 DEF Writes, DoneIsSaved
    <3> QED
      BY <1>1, <1>4, <2>1, <2>2, <3>1
  <2> QED
    BY <2>3, <2>4
<1> QED
  BY <1>2, <1>3, <1>4, RecoverShape

LEMMA WritesMove ==
  ASSUME TypeInv, Hands, Versions, Writes,
         (\E w \in Worker : Moves(w)) \/ (\E e \in Event : DelayPasses(e))
  PROVE  Writes'
<1>1. /\ req' = req /\ queued' = queued /\ wanted' = wanted
      /\ missed' = missed /\ unqueued' = unqueued
      /\ \A e \in Event : SameRow(e)
      /\ \A e \in Event : outbox'[e].status # "succeeded" \/ outbox[e].status = "succeeded"
           \/ \E w \in Worker : worker[w].pc = "recover" /\ worker[w].event = e /\ worker[w].todo = {}
  BY MovesShape
<1>2. \A v \in Event, k \in Key : Standing(v, k) => Standing(v, k)'
  BY StandingStays
<1>3. RequestKnows' /\ RowKnows'
  BY <1>1 DEF Writes, RequestKnows, RowKnows, SameRow
<1>4. AllAccounted'
  <2> SUFFICES ASSUME NEW v \in Event, NEW k \in wanted'[v] PROVE Accounted(v, k)'
    BY DEF AllAccounted
  <2>1. Accounted(v, k) /\ k \in Key /\ k = <<k[1], k[2]>>
    BY <1>1 DEF Writes, TypeInv, Key, AllAccounted
  <2>2. ASSUME Listed(v, k[2]) PROVE Listed(v, k[2])' \/ Standing(v, k)'
    <3>1. PICK e \in Event : /\ outbox[e].version = v /\ k[2] \in outbox[e].failed
                             /\ outbox[e].status # "succeeded"
      BY <2>2 DEF Listed
    <3>2. CASE outbox'[e].status # "succeeded"
      BY <1>1, <3>1, <3>2 DEF Listed, SameRow
    <3>3. CASE outbox'[e].status = "succeeded"
      <4>1. PICK w \in Worker : worker[w].pc = "recover" /\ worker[w].event = e /\ worker[w].todo = {}
        BY <1>1, <3>1, <3>3
      <4>2. Standing(v, <<outbox[e].scan, k[2]>>)
        BY <3>1, <4>1 DEF Writes, DoneIsSaved
      <4>3. e <= queued
        BY <3>1, ListedIsRow
      <4>4. k[1] = outbox[e].scan
        BY <1>1, <3>1, <4>3 DEF Writes, RowKnows
      <4>5. Standing(v, k)
        BY <2>1, <4>2, <4>4
      <4> QED
        BY <1>2, <2>1, <4>5
    <3> QED
      BY <3>2, <3>3
  <2>3. Requested(v) => Requested(v)'
    BY <1>1 DEF Requested
  <2> QED
    BY <1>1, <1>2, <2>1, <2>2, <2>3 DEF Accounted
<1> QED
  BY <1>3, <1>4, DoneGrows DEF Writes

LEMMA WritesNext == TypeInv /\ Hands /\ Versions /\ Writes /\ [Next]_vars => Writes'
<1> SUFFICES ASSUME TypeInv, Hands, Versions, Writes, [Next]_vars PROVE Writes'
  OBVIOUS
<1>1. CASE UNCHANGED vars
  <2>1. AllAccounted'
    BY <1>1 DEF vars, Writes, AllAccounted, Accounted, Standing, Kept, Upserted, Requested, Listed
  <2>2. RequestKnows' /\ RowKnows' /\ DoneIsSaved'
    BY <1>1 DEF vars, Writes, RequestKnows, RowKnows, DoneIsSaved, Standing, Kept, Upserted
  <2> QED
    BY <2>1, <2>2 DEF Writes
<1> QED
  BY <1>1, NextShape, WritesArrive, WritesHandler, WritesMove

-----------------------------------------------------------------------------
(***************************************************************************)
(* Overtaking.  A newer scan of an id that an older one is still saving is *)
(* known to have come meanwhile; so every row that an older write replaced *)
(* was replaced for a cause on record.                                     *)
(***************************************************************************)

Overlaps ==
  \A r \in Request, v \in Event :
    /\ req[r].pc = "persist" /\ req[r].version < v /\ v <= scans
    /\ \E k \in wanted[v] : k[1] = req[r].scan
    => v \in overlapped

LateHasCause ==
  \A v \in Event, k \in Key :
    <<v, k>> \in late => v <= scans /\ (k \in wanted[v] => Overtaken(v, k))

TodoIsListed ==
  \A w \in Worker : worker[w].pc = "recover" =>
    worker[w].todo \subseteq outbox[worker[w].event].failed

Overtaking == Overlaps /\ LateHasCause /\ TodoIsListed

LEMMA OvertakingInit == Init => Overtaking
BY NoRequestType, RestingType DEF Init, Overtaking, Overlaps, LateHasCause, TodoIsListed

\* A cause on record stays on record.
LEMMA OvertakenStays ==
  ASSUME TypeInv, overlapped \subseteq overlapped',
         \A e \in Event : outbox[e].failed # {} => SameRow(e)
  PROVE  \A v \in Event, k \in Key : Overtaken(v, k) => Overtaken(v, k)'
BY DEF Overtaken, SameRow

LEMMA OvertakingArrive ==
  ASSUME TypeInv, Hands, Versions, Overtaking, NEW r \in Request, NEW s \in Scan,
         NEW wants \in SUBSET StepName, Arrives(r, s, wants)
  PROVE  Overtaking'
<1> DEFINE n == scans + 1
           u == [pc |-> "persist", scan |-> s, version |-> n, wants |-> wants, failed |-> {}]
<1>1. /\ req[r].pc = "idle" /\ scans' = n /\ scans \in Nat /\ n \in Event
      /\ late' = late /\ outbox' = outbox /\ worker' = worker
      /\ overlapped \subseteq overlapped'
      /\ (\E q \in Request : req[q].pc = "persist" /\ req[q].scan = s) => n \in overlapped'
  BY BoundAssumption DEF Arrives, TypeInv, Rows, Event
<1>2. u.version = n /\ u.scan = s /\ u.pc = "persist"
  OBVIOUS
<1>3. req' = [req EXCEPT ![r] = u] /\ wanted' = [wanted EXCEPT ![n] = {s} \X wants]
  BY DEF Arrives
<1> HIDE DEF u
<1>4. req'[r] = u /\ \A x \in Request \ {r} : req'[x] = req[x]
  BY <1>3 DEF TypeInv
<1>5. wanted'[n] = {s} \X wants /\ \A v \in Event : v # n => wanted'[v] = wanted[v]
  BY <1>1, <1>3 DEF TypeInv
<1>6. Overlaps'
  <2> SUFFICES ASSUME NEW x \in Request, NEW v \in Event, req'[x].pc = "persist",
                      req'[x].version < v, v <= scans', NEW k \in wanted'[v], k[1] = req'[x].scan
               PROVE  v \in overlapped'
    BY DEF Overlaps
  <2>1. v \in Nat /\ v <= n
    BY <1>1 DEF Event
  <2>2. x # r /\ req'[x] = req[x]
    BY <1>1, <1>2, <1>4, <2>1
  <2>3. CASE v = n
    BY <1>1, <1>5, <2>2, <2>3
  <2>4. CASE v # n
    BY <1>1, <1>5, <2>1, <2>2, <2>4 DEF Overtaking, Overlaps
  <2> QED
    BY <2>3, <2>4
<1>7. LateHasCause'
  <2>1. \A v \in Event, k \in Key : Overtaken(v, k) => Overtaken(v, k)'
    BY <1>1, OvertakenStays DEF SameRow
  <2>2. ASSUME NEW v \in Event, NEW k \in Key, <<v, k>> \in late
        PROVE  v <= scans' /\ (k \in wanted'[v] => Overtaken(v, k)')
    <3>1. v <= scans /\ (k \in wanted[v] => Overtaken(v, k)) /\ v \in Nat
      BY <2>2 DEF Overtaking, LateHasCause, Event
    <3>2. v # n /\ v <= scans'
      BY <1>1, <3>1
    <3> QED
      BY <1>5, <2>1, <3>1, <3>2
  <2> QED
    BY <1>1, <2>2 DEF LateHasCause
<1>8. TodoIsListed'
  BY <1>1 DEF Overtaking, TodoIsListed
<1> QED
  BY <1>6, <1>7, <1>8 DEF Overtaking

\* An older write that replaces newer ones: each of them has its cause.
LEMMA ReplacedHasCause ==
  ASSUME TypeInv, Versions, NEW K \in SUBSET Key, NEW version \in Nat, Save(K, version),
         NEW v \in Event, NEW k \in Key, <<v, k>> \in late'
  PROVE  <<v, k>> \in late \/ (k \in K /\ version < v /\ v <= scans)
<1> DEFINE p == <<v, k>>
<1>1. p[1] = v /\ p[2] = k
  OBVIOUS
<1>2. p \in late \/ p \in Replaced(K, version)
  BY SaveShape
<1> HIDE DEF p
<1>3. p \in Replaced(K, version) => p[2] \in K /\ version < p[1] /\ p[1] <= saved[p[2]]
  BY DEF Replaced
<1>4. v <= saved[k] => v <= scans
  BY DEF Versions, TypeInv, Event
<1> QED
  BY <1>1, <1>2, <1>3, <1>4 DEF p

LEMMA OvertakingHandler ==
  ASSUME TypeInv, Hands, Versions, Writes, Overtaking, NEW r \in Request, HandlerMoves(r)
  PROVE  Overtaking'
<1>1. /\ scans' = scans /\ wanted' = wanted /\ worker' = worker /\ req[r].pc # "idle"
      /\ overlapped' = overlapped /\ \A x \in Request \ {r} : req'[x] = req[x]
      /\ req'[r].pc # "persist"
      /\ \/ saved' = saved /\ late' = late
         \/ Commit(r) /\ req[r].pc = "persist"
  BY HandlerShape, NoRequestType
<1>2. \A e \in Event : outbox[e].failed # {} => outbox'[e] = outbox[e]
  <2>1. CASE ~QueueAction(r)
    BY <2>1, HandlerShape
  <2>2. CASE QueueAction(r)
    <3>1. NoEvent.failed = {}
      BY DEF NoEvent
    <3>2. \A e \in Event : outbox[e].failed # {} => e # queued + 1
      BY <2>2, <3>1, QueueShape
    <3> QED
      BY <2>2, <3>2, QueueShape
  <2> QED
    BY <2>1, <2>2
<1>3. \A v \in Event, k \in Key : Overtaken(v, k) => Overtaken(v, k)'
  BY <1>1, <1>2, OvertakenStays DEF SameRow
<1>4. Overlaps'
  BY <1>1 DEF Overtaking, Overlaps
<1>5. ASSUME Commit(r), req[r].pc = "persist", NEW v \in Event, NEW k \in Key, <<v, k>> \in late'
      PROVE  v <= scans /\ (k \in wanted[v] => Overtaken(v, k))
  <2>1. CASE <<v, k>> \in late
    BY <2>1 DEF Overtaking, LateHasCause
  <2>2. CASE k \in {req[r].scan} \X req[r].wants /\ req[r].version < v /\ v <= scans
    <3>1. k[1] = req[r].scan
      BY <2>2
    <3> QED
      BY <1>5, <2>2, <3>1 DEF Overtaking, Overlaps, Overtaken
  <2> QED
    BY <1>5, <2>1, <2>2, CommitSaves, ReplacedHasCause
<1>6. LateHasCause'
  <2>1. CASE late' = late
    BY <1>1, <1>3, <2>1 DEF Overtaking, LateHasCause
  <2>2. CASE Commit(r) /\ req[r].pc = "persist"
    BY <1>1, <1>3, <1>5, <2>2 DEF LateHasCause
  <2> QED
    BY <1>1, <2>1, <2>2
<1>7. TodoIsListed'
  <2> SUFFICES ASSUME NEW w \in Worker, worker[w].pc = "recover"
               PROVE  worker[w].todo \subseteq outbox'[worker[w].event].failed
    BY <1>1 DEF TodoIsListed
  <2>1. worker[w].event \in Event /\ worker[w].todo \subseteq outbox[worker[w].event].failed
    BY BusyWith DEF Busy, Overtaking, TodoIsListed
  <2> QED
    BY <1>2, <2>1
<1> QED
  BY <1>4, <1>6, <1>7 DEF Overtaking

LEMMA OvertakingMove ==
  ASSUME TypeInv, Hands, Versions, Overtaking,
         (\E w \in Worker : Moves(w)) \/ (\E e \in Event : DelayPasses(e))
  PROVE  Overtaking'
<1>1. /\ req' = req /\ scans' = scans /\ wanted' = wanted /\ overlapped' = overlapped
      /\ \A e \in Event : SameRow(e)
      /\ (saved' = saved /\ late' = late) \/ \E w \in Worker : RecoverStep(w)
  BY MovesShape
<1>2. \A v \in Event, k \in Key : Overtaken(v, k) => Overtaken(v, k)'
  BY <1>1, OvertakenStays
<1>3. Overlaps'
  BY <1>1 DEF Overtaking, Overlaps
<1>4. ASSUME NEW w \in Worker, RecoverStep(w), NEW v \in Event, NEW k \in Key, <<v, k>> \in late'
      PROVE  v <= scans /\ (k \in wanted[v] => Overtaken(v, k))
  <2> DEFINE o == worker[w].event
             K == {<<outbox[o].scan, NextStep(w)>>}
  <2>1. /\ K \in SUBSET Key /\ outbox[o].version \in Nat /\ Save(K, outbox[o].version)
        /\ NextStep(w) \in worker[w].todo
    BY <1>4, RecoverSaves
  <2>2. o \in Event /\ NextStep(w) \in outbox[o].failed
    BY <1>4, <2>1, BusyWith DEF RecoverStep, Busy, Overtaking, TodoIsListed
  <2>3. \A x \in K : x[1] = outbox[o].scan /\ x[2] = NextStep(w)
    OBVIOUS
  <2> HIDE DEF o, K
  <2>4. CASE <<v, k>> \in late
    BY <2>4 DEF Overtaking, LateHasCause
  <2>5. CASE k \in K /\ outbox[o].version < v /\ v <= scans
    BY <2>2, <2>3, <2>5 DEF Overtaken
  <2> QED
    BY <1>4, <2>1, <2>4, <2>5, ReplacedHasCause
<1>5. LateHasCause'
  <2>1. CASE late' = late
    BY <1>1, <1>2, <2>1 DEF Overtaking, LateHasCause
  <2>2. CASE \E w \in Worker : RecoverStep(w)
    BY <1>1, <1>2, <1>4, <2>2 DEF LateHasCause
  <2> QED
    BY <1>1, <2>1, <2>2
<1>6. TodoIsListed'
  <2> SUFFICES ASSUME NEW w \in Worker, worker'[w].pc = "recover"
               PROVE  worker'[w].todo \subseteq outbox'[worker'[w].event].failed
    BY DEF TodoIsListed
  <2>1. CASE worker'[w] = worker[w]
    <3>1. worker[w].event \in Event /\ worker[w].todo \subseteq outbox[worker[w].event].failed
      BY <2>1, BusyWith DEF Busy, Overtaking, TodoIsListed
    <3> QED
      BY <1>1, <2>1, <3>1 DEF SameRow
  <2>2. CASE worker'[w].event \in Event /\ worker'[w].todo = outbox[worker'[w].event].failed
    BY <1>1, <2>2 DEF SameRow
  <2>3. CASE /\ worker[w].pc = "recover" /\ worker'[w].event = worker[w].event
             /\ worker'[w].todo = worker[w].todo \ {NextStep(w)}
    <3>1. worker[w].event \in Event /\ worker[w].todo \subseteq outbox[worker[w].event].failed
      BY <2>3, BusyWith DEF Busy, Overtaking, TodoIsListed
    <3> QED
      BY <1>1, <2>3, <3>1 DEF SameRow
  <2> QED
    BY <2>1, <2>2, <2>3, RecoverShape
<1> QED
  BY <1>3, <1>5, <1>6 DEF Overtaking

LEMMA OvertakingNext ==
  TypeInv /\ Hands /\ Versions /\ Writes /\ Overtaking /\ [Next]_vars => Overtaking'
<1> SUFFICES ASSUME TypeInv, Hands, Versions, Writes, Overtaking, [Next]_vars PROVE Overtaking'
  OBVIOUS
<1>1. CASE UNCHANGED vars
  BY <1>1 DEF vars, Overtaking, Overlaps, LateHasCause, TodoIsListed, Overtaken
<1> QED
  BY <1>1, NextShape, OvertakingArrive, OvertakingHandler, OvertakingMove

\* However handlers die, transactions fail and workers recover, no write of a scan is ever
\* without a place: Postgres, a request in progress, an event that has not succeeded, or one of
\* the recorded ways of losing it.  A row that an older scan's write has replaced is such a loss
\* too, and comes only of two handlers of the id at once or of the older scan's recovery.
THEOREM WritesAreAccountedFor == Spec => []NoWriteVanishes
<1>1. TypeInv /\ Writes /\ Overtaking => NoWriteVanishes
  <2> SUFFICES ASSUME TypeInv, Writes, Overtaking, NEW v \in Event, NEW k \in wanted[v]
               PROVE  \/ Kept(v, k)
                      \/ Requested(v)
                      \/ Listed(v, k[2])
                      \/ <<v, k>> \in missed \cup unqueued
                      \/ <<v, k>> \in late /\ Overtaken(v, k)
    BY DEF NoWriteVanishes, Requested, Listed
  <2>1. Accounted(v, k) /\ k \in Key
    BY DEF Writes, AllAccounted, TypeInv
  <2>2. <<v, k>> \in late => Overtaken(v, k)
    BY <2>1 DEF Overtaking, LateHasCause
  <2> QED
    BY <2>1, <2>2 DEF Accounted, Standing
<1> QED
  BY <1>1, TypeInit, TypeNext, HandsInit, HandsNext, VersionsInit, VersionsNext,
     WritesInit, WritesNext, OvertakingInit, OvertakingNext, PTL DEF Spec

=============================================================================
