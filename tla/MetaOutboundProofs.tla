------------------------- MODULE MetaOutboundProofs -------------------------
(***************************************************************************)
(* Theorems about MetaOutbound for every set of rows, workers and attempt  *)
(* ids and every bound, and that it implements OutboundLedger.             *)
(***************************************************************************)
EXTENDS MetaOutbound, SequenceTheorems, TLAPS

-----------------------------------------------------------------------------
(***************************************************************************)
(* Types.  TypeOK is not inductive: the UPDATE of a claim adds one to the  *)
(* count its SELECT saw, so the bound on the count is the guard that was   *)
(* tested at the SELECT, and a result can be stored only once an outcome   *)
(* has been chosen.                                                        *)
(***************************************************************************)

RecordPC == {"record_read", "record_write", "hold_read", "hold_write"}

Shape(t) ==
  /\ t.pc = "claim_write" => AttemptFits(t.seen)
  /\ t.pc \in OwningPC => t.number >= 1
  /\ t.pc \in RecordPC => t.outcome # "none"

TaskShape == \A a \in Attempt : task[a] # Idle => Shape(task[a])

CycleShape == \A w \in Worker : worker[w].mode = "cycle" => worker[w].now \in Nat

TypeInv == TypeOK /\ TaskShape /\ CycleShape

LEMMA AbsentRowType == AbsentRow \in Row
BY BoundAssumption DEF AbsentRow, Row, Token, Time

LEMMA TypeInit == Init => TypeInv
<1> SUFFICES ASSUME Init PROVE TypeInv
  OBVIOUS
<1>1. StoppedWorker \in WorkerState
  <2>1. <<>> \in Seq(Outbound)
    OBVIOUS
  <2> QED
    BY <2>1 DEF StoppedWorker, Resting, WorkerState, Mode, Time
<1>2. TypeOK
  BY BoundAssumption, AbsentRowType, <1>1 DEF Init, TypeOK
<1>3. TaskShape /\ CycleShape
  BY DEF Init, TaskShape, CycleShape, StoppedWorker, Resting, Idle
<1> QED
  BY <1>2, <1>3 DEF TypeInv

\* What the two UPDATEs write is a row.
LEMMA ClaimedType ==
  ASSUME NEW seen \in Row, NEW a \in Attempt, NEW now \in Nat, AttemptFits(seen)
  PROVE  Claimed(seen, a, now) \in Row
BY DEF Claimed, Row, Status, Token, Time, AttemptFits

LEMMA RecordedType ==
  ASSUME NEW seen \in Row, NEW t \in TaskState, NEW a \in Attempt, t.outcome # "none"
  PROVE  Recorded(seen, t, a) \in Row
BY DEF Recorded, Row, Status, Token, Time, TaskState, Outcome, TerminalStatus

\* A dispatch that is not idle has the full record.
LEMMA ActiveTask ==
  ASSUME TypeOK, NEW a \in Attempt, task[a].pc # "idle"
  PROVE  task[a] \in TaskState /\ task[a] # Idle
BY DEF TypeOK, Idle

LEMMA RestingType ==
  ASSUME NEW mode \in {"sleeping", "stopped"}
  PROVE  Resting(mode) \in WorkerState /\ Resting(mode).mode = mode
<1>1. <<>> \in Seq(Outbound)
  OBVIOUS
<1> QED
  BY <1>1 DEF Resting, WorkerState, Mode, Time

\* A worker whose record is replaced by one of the right type.
LEMMA WorkerType ==
  ASSUME TypeOK, CycleShape, NEW w \in Worker, NEW u \in WorkerState,
         u.mode = "cycle" => u.now \in Nat, worker' = [worker EXCEPT ![w] = u]
  PROVE  worker' \in [Worker -> WorkerState] /\ CycleShape'
BY DEF TypeOK, CycleShape

\* A dispatch step replaces one record by another that has the shape.
LEMMA StepType ==
  ASSUME TypeOK, TaskShape, NEW a \in Attempt, NEW t,
         t = Idle \/ (t \in TaskState /\ Shape(t)), Step(a, t)
  PROVE  task' \in [Attempt -> TaskState \cup {Idle}] /\ TaskShape'
<1>1. task' \in [Attempt -> TaskState \cup {Idle}]
  BY DEF TypeOK, Step
<1>2. \A b \in Attempt : task'[b] = IF b = a THEN t ELSE task[b]
  BY DEF TypeOK, Step
<1>3. TaskShape'
  BY <1>2 DEF TaskShape, Shape, AttemptFits
<1> QED
  BY <1>1, <1>3

LEMMA ReturnType ==
  ASSUME TypeOK, TaskShape, NEW a \in Attempt, Return(a)
  PROVE  task' \in [Attempt -> TaskState \cup {Idle}] /\ TaskShape'
BY StepType DEF Return

LEMMA UnrecordedType ==
  ASSUME TypeOK, TaskShape, NEW a \in Attempt, task[a].pc \in RecordPC, Unrecorded(a)
  PROVE  task' \in [Attempt -> TaskState \cup {Idle}] /\ TaskShape'
<1> DEFINE t == task[a]
           u == [t EXCEPT !.pc = "hold_read", !.seen = AbsentRow,
                          !.outcome = "provider_sent_unconfirmed"]
<1>1. t \in TaskState /\ t # Idle
  BY ActiveTask DEF RecordPC
<1>2. t.number >= 1
  BY <1>1 DEF TaskShape, Shape, RecordPC, OwningPC
<1>3. u \in TaskState /\ Shape(u)
  BY <1>1, <1>2, AbsentRowType DEF TaskState, PC, Outcome, Shape, OwningPC, RecordPC
<1> QED
  BY <1>3, StepType, ReturnType DEF Unrecorded

LEMMA VerdictType ==
  ASSUME TypeOK, TaskShape, NEW a \in Attempt, task[a].pc \in {"prepare", "sending"},
         NEW out \in {"sent", "retryable_failed", "terminal_failed"}, NEW after \in Nat
  PROVE  Verdict(a, out, after) \in TaskState /\ Shape(Verdict(a, out, after))
<1> DEFINE t == task[a]
<1>1. t \in TaskState /\ t # Idle
  BY ActiveTask
<1>2. t.number \in 1..MaxAttempt
  BY <1>1 DEF TaskShape, Shape, OwningPC, TaskState
<1>3. Longer(Backoff[t.number], after) \in Nat
  BY DelayAssumption, <1>2 DEF Longer
<1> QED
  BY <1>1, <1>2, <1>3 DEF Verdict, TaskState, PC, Outcome, Shape, OwningPC, RecordPC

-----------------------------------------------------------------------------
LEMMA TypeNext == TypeInv /\ [Next]_vars => TypeInv'
<1> SUFFICES ASSUME TypeInv, [Next]_vars PROVE TypeInv'
  OBVIOUS
<1> USE DEF TypeInv
<1>1. ASSUME NEW o \in Outbound, CreateOrGet(o) PROVE TypeInv'
  <2>1. PendingRow(clock) \in Row
    BY BoundAssumption DEF PendingRow, Row, Status, Token, Time, TypeOK
  <2> QED
    BY <1>1, <2>1 DEF CreateOrGet, TypeOK, TaskShape, CycleShape
<1>2. ASSUME NEW w \in Worker, StartWorker(w) PROVE TypeInv'
  BY <1>2, RestingType, WorkerType DEF StartWorker, TypeOK, TaskShape
<1>3. ASSUME NEW w \in Worker, Shutdown(w) PROVE TypeInv'
  <2> DEFINE u == [worker[w] EXCEPT !.shuttingDown = TRUE]
  <2>1. worker' = [worker EXCEPT ![w] = u]
    BY <1>3 DEF Shutdown
  <2>2. worker[w] \in WorkerState
    BY DEF TypeOK
  <2>3. u \in WorkerState /\ u.mode = worker[w].mode /\ u.now = worker[w].now
    BY <2>2 DEF WorkerState
  <2>4. u.mode = "cycle" => u.now \in Nat
    BY <2>3 DEF CycleShape
  <2>5. worker' \in [Worker -> WorkerState] /\ CycleShape'
    BY <2>1, <2>3, <2>4, WorkerType
  <2> QED
    BY BoundAssumption, <1>3, <2>5 DEF Shutdown, TypeOK, TaskShape
<1>4. ASSUME NEW w \in Worker, Crash(w) PROVE TypeInv'
  <2>1. worker' \in [Worker -> WorkerState] /\ CycleShape'
    BY <1>4, RestingType, WorkerType DEF Crash, StoppedWorker
  <2> QED
    BY BoundAssumption, <1>4, <2>1 DEF Crash, TypeOK, TaskShape
<1>5. ASSUME NEW w \in Worker, BeginCycle(w) PROVE TypeInv'
  <2> DEFINE u(q) == [mode |-> "cycle", shuttingDown |-> FALSE, now |-> clock, queue |-> q]
  <2>1. PICK n \in 0..Limit : \E q \in [1..n -> Outbound] : worker' = [worker EXCEPT ![w] = u(q)]
    BY <1>5 DEF BeginCycle
  <2>2. PICK q \in [1..n -> Outbound] : worker' = [worker EXCEPT ![w] = u(q)]
    BY <2>1
  <2>3. q \in Seq(Outbound)
    OBVIOUS
  <2>4. u(q) \in WorkerState /\ u(q).now \in Nat
    BY <2>3 DEF WorkerState, Mode, Time, TypeOK
  <2>5. worker' \in [Worker -> WorkerState] /\ CycleShape'
    BY <2>2, <2>4, WorkerType
  <2> QED
    BY <1>5, <2>5 DEF BeginCycle, TypeOK, TaskShape
<1>6. ASSUME NEW w \in Worker, StartDispatch(w) PROVE TypeInv'
  <2> DEFINE t == [pc |-> "claim_read", by |-> w, of |-> Head(worker[w].queue),
                   now |-> worker[w].now, seen |-> AbsentRow, number |-> 0,
                   outcome |-> "none", delay |-> 0, providerAccepted |-> FALSE]
  <2>1. worker[w].queue \in Seq(Outbound) /\ worker[w].queue # <<>> /\ worker[w].now \in Nat
    BY <1>6 DEF StartDispatch, TypeOK, WorkerState, CycleShape
  <2>2. Head(worker[w].queue) \in Outbound /\ Tail(worker[w].queue) \in Seq(Outbound)
    BY <2>1
  <2>3. t \in TaskState /\ Shape(t)
    BY BoundAssumption, <2>1, <2>2, AbsentRowType DEF TaskState, PC, Outcome, Shape, OwningPC, RecordPC
  <2>4. PICK a \in Attempt : Step(a, t)
    BY <1>6 DEF StartDispatch, Step
  <2>5. task' \in [Attempt -> TaskState \cup {Idle}] /\ TaskShape'
    BY <2>3, <2>4, StepType
  <2> DEFINE u == [worker[w] EXCEPT !.queue = Tail(@)]
  <2>6. worker[w] \in WorkerState /\ worker' = [worker EXCEPT ![w] = u]
    BY <1>6 DEF StartDispatch, TypeOK
  <2>7. u \in WorkerState /\ u.now \in Nat
    BY <2>1, <2>2, <2>6 DEF WorkerState
  <2>8. worker' \in [Worker -> WorkerState] /\ CycleShape'
    BY <2>6, <2>7, WorkerType
  <2> QED
    BY <1>6, <2>5, <2>8 DEF StartDispatch, TypeOK
<1>7. ASSUME NEW w \in Worker, EndCycle(w) \/ EndSleep(w) PROVE TypeInv'
  <2>1. PICK mode \in {"sleeping", "stopped"} : worker' = [worker EXCEPT ![w] = Resting(mode)]
    BY <1>7 DEF EndCycle, EndSleep, StoppedWorker
  <2>2. worker' \in [Worker -> WorkerState] /\ CycleShape'
    BY <2>1, RestingType, WorkerType
  <2> QED
    BY <1>7, <2>2 DEF EndCycle, EndSleep, TypeOK, TaskShape
<1>8. ASSUME NEW a \in Attempt, ClaimRead(a) PROVE TypeInv'
  <2> DEFINE t == task[a]
             r == rows[t.of]
             p == [t EXCEPT !.pc = "prepare", !.number = r.attemptCount]
             c == [t EXCEPT !.pc = "claim_write", !.seen = r]
  <2>1. t \in TaskState /\ r \in Row
    <3>1. t \in TaskState
      BY <1>8, ActiveTask DEF ClaimRead
    <3> QED
      BY <3>1 DEF TypeOK, TaskState
  <2>2. Authoritative(r) /\ r.status = "claimed" => p \in TaskState /\ Shape(p)
    BY <2>1 DEF Authoritative, TaskState, Row, PC, Shape, OwningPC, RecordPC
  <2>3. AttemptFits(r) => c \in TaskState /\ Shape(c)
    BY <2>1 DEF TaskState, PC, Shape, OwningPC, RecordPC
  <2>4. task' \in [Attempt -> TaskState \cup {Idle}] /\ TaskShape'
    BY <1>8, <2>2, <2>3, StepType, ReturnType DEF ClaimRead
  <2> QED
    BY <1>8, <2>4 DEF ClaimRead, TypeOK, CycleShape
<1>9. ASSUME NEW a \in Attempt, ClaimWrite(a) PROVE TypeInv'
  <2> DEFINE t == task[a]
             p == [t EXCEPT !.pc = "prepare", !.seen = AbsentRow,
                            !.number = t.seen.attemptCount + 1]
  <2>1. t \in TaskState /\ t # Idle /\ AttemptFits(t.seen)
    BY <1>9, ActiveTask DEF ClaimWrite, TaskShape, Shape
  <2>2. Claimed(t.seen, a, t.now) \in Row
    BY <2>1, ClaimedType DEF TaskState
  <2> DEFINE p1 == [t EXCEPT !.pc = "prepare"]
             p2 == [p1 EXCEPT !.seen = AbsentRow]
  <2>a. p1 \in TaskState /\ p1.pc = "prepare" /\ p1.seen = t.seen
    BY <2>1 DEF TaskState, PC
  <2>b. p2 \in TaskState /\ p2.pc = "prepare"
    BY <2>a, AbsentRowType DEF TaskState
  <2>c. t.seen.attemptCount + 1 \in 1..MaxAttempt
    BY <2>1 DEF TaskState, Row, AttemptFits
  <2>d. p = [p2 EXCEPT !.number = t.seen.attemptCount + 1]
    OBVIOUS
  <2> HIDE DEF p, p2
  <2>e. p \in TaskState /\ p.pc = "prepare" /\ p.number >= 1
    <3>1. p.pc = "prepare" /\ p.number >= 1
      BY <2>b, <2>c, <2>d DEF TaskState
    <3>2. p \in TaskState
      BY <2>b, <2>c, <2>d DEF TaskState
    <3> QED
      BY <3>1, <3>2
  <2> USE DEF p
  <2>3. p \in TaskState /\ Shape(p)
    BY <2>e DEF Shape, OwningPC, RecordPC
  <2>4. task' \in [Attempt -> TaskState \cup {Idle}] /\ TaskShape'
    BY <1>9, <2>3, StepType, ReturnType DEF ClaimWrite
  <2>5. rows' \in [Outbound -> Row]
    BY <1>9, <2>1, <2>2 DEF ClaimWrite, TypeOK, TaskState
  <2> QED
    BY <1>9, <2>4, <2>5 DEF ClaimWrite, TypeOK, CycleShape
<1>10. ASSUME NEW a \in Attempt, SendRequest(a) PROVE TypeInv'
  <2> DEFINE t == task[a]
             u == [t EXCEPT !.pc = "sending"]
  <2>1. t \in TaskState /\ t # Idle /\ t.number >= 1
    BY <1>10, ActiveTask DEF SendRequest, TaskShape, Shape, OwningPC
  <2>2. u \in TaskState /\ Shape(u)
    BY <2>1 DEF TaskState, PC, Shape, OwningPC, RecordPC
  <2>3. task' \in [Attempt -> TaskState \cup {Idle}] /\ TaskShape'
    BY <1>10, <2>2, StepType DEF SendRequest
  <2>4. wire' \in [Attempt -> Request \cup {NoRequest}]
    BY <1>10, <2>1 DEF SendRequest, TypeOK, Request, TaskState
  <2> QED
    BY <1>10, <2>3, <2>4 DEF SendRequest, TypeOK, CycleShape
<1>11. ASSUME NEW a \in Attempt, PrepareFails(a) PROVE TypeInv'
  <2>1. PICK out \in {"retryable_failed", "terminal_failed"} : Step(a, Verdict(a, out, 0))
    BY <1>11 DEF PrepareFails
  <2>2. Verdict(a, out, 0) \in TaskState /\ Shape(Verdict(a, out, 0))
    BY <1>11, VerdictType DEF PrepareFails
  <2>3. task' \in [Attempt -> TaskState \cup {Idle}] /\ TaskShape'
    BY <2>1, <2>2, StepType
  <2> QED
    BY <1>11, <2>3 DEF PrepareFails, TypeOK, CycleShape
<1>12. ASSUME NEW a \in Attempt, GraphStep(a) PROVE TypeInv'
  <2>1. wire[a] \in Request
    BY <1>12 DEF GraphStep, GraphAccepts, GraphRefuses, RequestLost, TypeOK, NoRequest
  <2>2. \A state \in {"accepted", "refused"} : [wire[a] EXCEPT !.state = state] \in Request
    BY <2>1 DEF Request
  <2>3. wire' \in [Attempt -> Request \cup {NoRequest}]
    BY <1>12, <2>2 DEF GraphStep, GraphAccepts, GraphRefuses, RequestLost, TypeOK
  <2>4. accepted' \in [Outbound -> SUBSET (0..MaxAttempt)]
    <3>1. wire[a].of \in Outbound /\ wire[a].number \in 0..MaxAttempt
      BY <2>1 DEF Request
    <3>2. accepted \in [Outbound -> SUBSET (0..MaxAttempt)]
      BY DEF TypeOK
    <3> QED
      BY <1>12, <3>1, <3>2 DEF GraphStep, GraphAccepts, GraphRefuses, RequestLost
  <2> QED
    BY <1>12, <2>3, <2>4 DEF GraphStep, GraphAccepts, GraphRefuses, RequestLost,
       TypeOK, TaskShape, CycleShape
<1>13. ASSUME NEW a \in Attempt,
              AnswerSuccess(a) \/ AnswerUnconfirmed(a) \/ AnswerFailure(a) \/ NoAnswer(a)
       PROVE TypeInv'
  <2>1. task[a].pc = "sending" /\ task[a] \in TaskState
    BY <1>13, ActiveTask DEF AnswerSuccess, AnswerUnconfirmed, AnswerFailure, NoAnswer, Waiting
  <2>2. PICK out \in {"sent", "retryable_failed", "terminal_failed"}, after \in Nat :
          Step(a, Verdict(a, out, after))
    BY DelayAssumption, <1>13 DEF AnswerSuccess, AnswerUnconfirmed, AnswerFailure, NoAnswer
  <2>3. task' \in [Attempt -> TaskState \cup {Idle}] /\ TaskShape'
    BY <2>1, <2>2, VerdictType, StepType
  <2>4. wire' \in [Attempt -> Request \cup {NoRequest}]
    BY <1>13 DEF AnswerSuccess, AnswerUnconfirmed, AnswerFailure, NoAnswer, TypeOK
  <2>5. confirmed' \in [Outbound -> SUBSET ((0..MaxAttempt) \X Worker)]
    BY <1>13, <2>1 DEF AnswerSuccess, AnswerUnconfirmed, AnswerFailure, NoAnswer, TypeOK, TaskState
  <2> QED
    BY <1>13, <2>3, <2>4, <2>5 DEF AnswerSuccess, AnswerUnconfirmed, AnswerFailure, NoAnswer,
       TypeOK, CycleShape
<1>14. ASSUME NEW a \in Attempt, RecordRead(a) PROVE TypeInv'
  <2> DEFINE t == task[a]
             r == rows[t.of]
             u == [t EXCEPT !.seen = r, !.pc =
                     IF @ = "record_read" THEN "record_write" ELSE "hold_write"]
  <2>1. t.pc \in RecordPC /\ t \in TaskState /\ t # Idle /\ Shape(t)
    BY <1>14, ActiveTask DEF RecordRead, RecordPC, TaskShape
  <2>2. r \in Row
    BY <2>1 DEF TypeOK, TaskState
  <2>3. u \in TaskState /\ Shape(u)
    BY <2>1, <2>2 DEF TaskState, PC, Shape, OwningPC, RecordPC
  <2>4. Return(a) \/ Step(a, u) \/ Unrecorded(a)
    BY <1>14 DEF RecordRead
  <2>5. task' \in [Attempt -> TaskState \cup {Idle}] /\ TaskShape'
    BY <2>1, <2>3, <2>4, StepType, ReturnType, UnrecordedType
  <2> QED
    BY <1>14, <2>5 DEF RecordRead, TypeOK, CycleShape
<1>15. ASSUME NEW a \in Attempt, RecordWrite(a) PROVE TypeInv'
  <2> DEFINE t == task[a]
  <2>1. t.pc \in RecordPC /\ t \in TaskState /\ t.outcome # "none"
    BY <1>15, ActiveTask DEF RecordWrite, RecordPC, TaskShape, Shape
  <2>2. Recorded(t.seen, t, a) \in Row
    BY <2>1, RecordedType DEF TaskState
  <2>3. task' \in [Attempt -> TaskState \cup {Idle}] /\ TaskShape'
    BY <1>15, <2>1, ReturnType, UnrecordedType DEF RecordWrite
  <2>4. rows' \in [Outbound -> Row]
    BY <1>15, <2>1, <2>2 DEF RecordWrite, TypeOK, TaskState
  <2> QED
    BY <1>15, <2>3, <2>4 DEF RecordWrite, TypeOK, CycleShape
<1>16. ASSUME NEW a \in Attempt, StatementFails(a) PROVE TypeInv'
  <2>1. task' \in [Attempt -> TaskState \cup {Idle}] /\ TaskShape'
    BY <1>16, ReturnType, UnrecordedType DEF StatementFails, RecordPC
  <2> QED
    BY BoundAssumption, <1>16, <2>1 DEF StatementFails, TypeOK, CycleShape
<1>17. ASSUME NEW a \in Attempt, AnswerLost(a) PROVE TypeInv'
  <2> DEFINE t == task[a]
  <2>1. t \in TaskState /\ t # Idle /\ Shape(t)
    BY <1>17, ActiveTask DEF AnswerLost, TaskShape
  <2>2. CASE t.pc = "claim_write" /\ rows' = [rows EXCEPT ![t.of] = Claimed(t.seen, a, t.now)] /\ Return(a)
    <3>1. Claimed(t.seen, a, t.now) \in Row
      BY <2>1, <2>2, ClaimedType DEF TaskState, Shape
    <3>2. task' \in [Attempt -> TaskState \cup {Idle}] /\ TaskShape'
      BY <2>2, ReturnType
    <3> QED
      BY BoundAssumption, <1>17, <2>1, <2>2, <3>1, <3>2 DEF AnswerLost, TypeOK, CycleShape, TaskState
  <2>3. CASE /\ t.pc \in {"record_write", "hold_write"}
             /\ rows' = [rows EXCEPT ![t.of] = Recorded(t.seen, t, a)]
             /\ Unrecorded(a)
    <3>1. Recorded(t.seen, t, a) \in Row
      BY <2>1, <2>3, RecordedType DEF TaskState, Shape, RecordPC
    <3>2. task' \in [Attempt -> TaskState \cup {Idle}] /\ TaskShape'
      BY <2>3, UnrecordedType DEF RecordPC
    <3> QED
      BY BoundAssumption, <1>17, <2>1, <2>3, <3>1, <3>2 DEF AnswerLost, TypeOK, CycleShape, TaskState
  <2> QED
    BY <1>17, <2>2, <2>3 DEF AnswerLost
<1>18. CASE Tick
  BY BoundAssumption, <1>18 DEF Tick, TypeOK, TaskShape, CycleShape
<1>19. CASE UNCHANGED vars
  BY <1>19 DEF vars, TypeOK, TaskShape, CycleShape
<1> QED
  BY <1>1, <1>2, <1>3, <1>4, <1>5, <1>6, <1>7, <1>8, <1>9, <1>10, <1>11, <1>12, <1>13,
     <1>14, <1>15, <1>16, <1>17, <1>18, <1>19
     DEF Next, WorkerStep, DispatchStep, FaultStep

\* Every value the table, the workers, the dispatches and the requests take is of its type;
\* in particular no attempt count passes DISPATCH_MAX_ATTEMPT_COUNT.
THEOREM TypeCorrect == Spec => []TypeOK
<1>1. TypeInv => TypeOK
  BY DEF TypeInv
<1> QED
  BY <1>1, TypeInit, TypeNext, PTL DEF Spec

-----------------------------------------------------------------------------
(***************************************************************************)
(* Fencing.  A dispatch acts on what its SELECT saw.  The invariant says   *)
(* that this is enough: a row that still has the status and the count that *)
(* were seen is a row the dispatch may write.                              *)
(***************************************************************************)

\* What a dispatch remembers between its SELECT and its UPDATE.
SeenFence(t) ==
  /\ t.pc = "claim_write" =>
       Authoritative(t.seen) /\ t.seen.status \in {"pending", "claimed", "retryable_failed"}
  /\ t.pc \in {"record_write", "hold_write"} =>
       Authoritative(t.seen) /\ t.seen.status = "claimed" /\ t.seen.attemptCount = t.number

\* An attempt id is in no row before its own claim is written.
ClaimPC == {"claim_read", "claim_write"}
Unclaimed(a) == task[a].pc \in ClaimPC => \A o \in Outbound : rows[o].token # a

Fence ==
  /\ RowsStayAuthoritative
  /\ AttemptHasOneOwner
  /\ \A a \in Attempt : SeenFence(task[a]) /\ Unclaimed(a)

\* The shape RowsStayAuthoritative asks of each row.
GoodRow(r) ==
  /\ Authoritative(r)
  /\ r.token = NoToken <=> r.status = "pending"
  /\ r.status = "retryable_failed" => r.nextAttemptAt # NoTime

LEMMA FenceInit == Init => Fence
BY DEF Init, Fence, RowsStayAuthoritative, AttemptHasOneOwner, SeenFence, Unclaimed,
   Owns, OwningPC, ClaimPC, Idle

LEMMA ClaimedGood ==
  ASSUME NEW seen \in Row, NEW a \in Attempt, NEW now \in Nat
  PROVE  GoodRow(Claimed(seen, a, now))
<1> DEFINE r == Claimed(seen, a, now)
<1>1. /\ r.status = "claimed" /\ r.attemptCount = seen.attemptCount + 1 /\ r.token = a
      /\ r.terminal = FALSE /\ r.retryEligible = FALSE /\ r.claimedAt = now
  BY DEF Claimed
<1>2. seen.attemptCount + 1 >= 1
  BY SMT DEF Row
<1> HIDE DEF r
<1>3. Authoritative(r)
  BY NullAssumption, <1>1, <1>2 DEF Authoritative, Status, TerminalStatus, RetryStatus
<1>4. GoodRow(r)
  BY NullAssumption, <1>1, <1>3 DEF GoodRow
<1> QED
  BY <1>4 DEF r

LEMMA RecordedGood ==
  ASSUME NEW seen \in Row, Authoritative(seen), seen.status = "claimed",
         NEW t \in TaskState, t.outcome # "none", NEW a \in Attempt
  PROVE  GoodRow(Recorded(seen, t, a))
<1> DEFINE r == Recorded(seen, t, a)
<1>1. /\ r.status = t.outcome /\ r.attemptCount = seen.attemptCount /\ r.token = a
      /\ r.terminal = (t.outcome \in TerminalStatus)
      /\ r.retryEligible = (t.outcome = "retryable_failed")
      /\ r.claimedAt = seen.claimedAt
  BY DEF Recorded
<1>2. t.outcome = "sent" => r.sentAt = t.now
  BY DEF Recorded
<1>3. t.outcome \in {"retryable_failed", "terminal_failed"} => r.failedAt = t.now
  BY DEF Recorded
<1>4. t.outcome = "retryable_failed" => r.nextAttemptAt = t.now + t.delay
  BY DEF Recorded
<1>5. t.now \in Nat /\ t.now + t.delay \in Nat /\ t.outcome \in Outcome
  BY DEF TaskState
<1>6. seen.claimedAt # NoTime /\ seen.attemptCount >= 1
  BY DEF Authoritative
<1> HIDE DEF r
<1>7. Authoritative(r)
  BY NullAssumption, <1>1, <1>2, <1>3, <1>5, <1>6 DEF Authoritative, Outcome, Status, TerminalStatus, RetryStatus
<1>8. GoodRow(r)
  BY NullAssumption, <1>1, <1>4, <1>5, <1>7 DEF GoodRow, Outcome
<1> QED
  BY <1>8 DEF r

\* The dispatch that holds the latest number of a row is the one the row names.
LEMMA OwnerNamed ==
  ASSUME AttemptHasOneOwner, NEW o \in Outbound, NEW a \in Attempt,
         Owns(a, o), task[a].number = rows[o].attemptCount
  PROVE  rows[o].token = a
BY DEF AttemptHasOneOwner

\* Numbers keep their owners when no claim is gained and no row gets another count or token.
LEMMA OwnersKept ==
  ASSUME AttemptHasOneOwner,
         \A o \in Outbound : rows'[o].attemptCount = rows[o].attemptCount
                             /\ rows'[o].token = rows[o].token,
         \A a \in Attempt, o \in Outbound :
           Owns(a, o)' => Owns(a, o) /\ task'[a].number = task[a].number
  PROVE  AttemptHasOneOwner'
<1> SUFFICES ASSUME NEW o \in Outbound, NEW a \in Attempt, Owns(a, o)'
             PROVE  /\ task'[a].number \in 1..rows'[o].attemptCount
                    /\ task'[a].number = rows'[o].attemptCount => rows'[o].token = a
                    /\ \A b \in Attempt \ {a} : Owns(b, o)' => task'[a].number # task'[b].number
  BY DEF AttemptHasOneOwner
<1>1. Owns(a, o) /\ task'[a].number = task[a].number
  OBVIOUS
<1>2. /\ task[a].number \in 1..rows[o].attemptCount
      /\ task[a].number = rows[o].attemptCount => rows[o].token = a
      /\ \A b \in Attempt \ {a} : Owns(b, o) => task[a].number # task[b].number
  BY <1>1 DEF AttemptHasOneOwner
<1> QED
  BY <1>1, <1>2

\* A step of one dispatch that writes no row keeps the fence when it neither gains a claim
\* nor goes back to claiming.
LEMMA FenceTaskStep ==
  ASSUME TypeOK, Fence, NEW a \in Attempt, NEW t, Step(a, t), rows' = rows,
         t.pc \in OwningPC =>
           task[a].pc \in OwningPC /\ t.of = task[a].of /\ t.number = task[a].number,
         t.pc \in ClaimPC => task[a].pc \in ClaimPC,
         SeenFence(t)
  PROVE  Fence'
<1>1. \A b \in Attempt : task'[b] = IF b = a THEN t ELSE task[b]
  BY DEF TypeOK, Step
<1>2. RowsStayAuthoritative'
  BY DEF Fence, RowsStayAuthoritative, Authoritative
<1>3. AttemptHasOneOwner'
  <2>1. \A b \in Attempt, o \in Outbound :
          Owns(b, o)' => Owns(b, o) /\ task'[b].number = task[b].number
    BY <1>1 DEF Owns
  <2> QED
    BY <2>1, OwnersKept DEF Fence
<1>4. \A b \in Attempt : SeenFence(task[b])'
  BY <1>1 DEF Fence, SeenFence, Authoritative
<1>5. \A b \in Attempt : Unclaimed(b)'
  BY <1>1 DEF Fence, Unclaimed
<1> QED
  BY <1>2, <1>3, <1>4, <1>5 DEF Fence

LEMMA FenceReturn ==
  ASSUME TypeOK, Fence, NEW a \in Attempt, Return(a), rows' = rows
  PROVE  Fence'
<1>1. Idle.pc \notin OwningPC /\ Idle.pc \notin ClaimPC /\ SeenFence(Idle)
  BY DEF Idle, OwningPC, ClaimPC, SeenFence
<1> QED
  BY <1>1, FenceTaskStep DEF Return

\* The record a dispatch goes on with when its result was not stored.
LEMMA UnrecordedShape ==
  ASSUME TypeOK, NEW a \in Attempt, task[a].pc \in RecordPC, Unrecorded(a)
  PROVE  \E t : /\ Step(a, t)
                /\ t.pc \in {"idle", "hold_read"}
                /\ t.pc = "hold_read" => t.of = task[a].of /\ t.number = task[a].number
<1> DEFINE u == [task[a] EXCEPT !.pc = "hold_read", !.seen = AbsentRow,
                                !.outcome = "provider_sent_unconfirmed"]
<1>1. task[a] \in TaskState
  BY ActiveTask DEF RecordPC
<1>2. u.pc = "hold_read" /\ u.of = task[a].of /\ u.number = task[a].number
  BY <1>1 DEF TaskState
<1> HIDE DEF u
<1>3. Step(a, u) \/ Step(a, Idle)
  BY DEF Unrecorded, Return, u
<1> QED
  BY <1>2, <1>3 DEF Idle

LEMMA FenceUnrecorded ==
  ASSUME TypeOK, Fence, NEW a \in Attempt, task[a].pc \in RecordPC, Unrecorded(a), rows' = rows
  PROVE  Fence'
<1>1. PICK t : /\ Step(a, t)
               /\ t.pc \in {"idle", "hold_read"}
               /\ t.pc = "hold_read" => t.of = task[a].of /\ t.number = task[a].number
  BY UnrecordedShape
<1> QED
  BY <1>1, FenceTaskStep DEF SeenFence, OwningPC, ClaimPC, RecordPC

\* The UPDATE of a claim that found the row as the SELECT saw it, whether or not its answer
\* arrives: the new number is above every number a dispatch still holds.
LEMMA FenceClaim ==
  ASSUME TypeInv, Fence, NEW a \in Attempt, NEW t, task[a].pc = "claim_write",
         SameAuthority(rows[task[a].of], task[a].seen),
         rows' = [rows EXCEPT ![task[a].of] = Claimed(task[a].seen, a, task[a].now)],
         Step(a, t),
         t = Idle \/ /\ t.pc = "prepare" /\ t.of = task[a].of
                     /\ t.number = task[a].seen.attemptCount + 1
  PROVE  Fence'
<1> DEFINE o == task[a].of
           r == Claimed(task[a].seen, a, task[a].now)
<1>1. task[a] \in TaskState /\ o \in Outbound /\ task[a].seen \in Row /\ task[a].now \in Nat
  BY ActiveTask DEF TypeInv, TaskState
<1>2. \A b \in Attempt : task'[b] = IF b = a THEN t ELSE task[b]
  BY DEF TypeInv, TypeOK, Step
<1>3. \A p \in Outbound : rows'[p] = IF p = o THEN r ELSE rows[p]
  BY DEF TypeInv, TypeOK
<1>4. r.token = a /\ r.attemptCount = rows[o].attemptCount + 1 /\ GoodRow(r)
  BY <1>1, ClaimedGood DEF Claimed, SameAuthority
<1>5. rows[o].attemptCount \in Nat
  <2>1. rows[o] \in Row
    BY <1>1 DEF TypeInv, TypeOK
  <2> QED
    BY <2>1 DEF Row
<1> HIDE DEF r
<1>6. RowsStayAuthoritative'
  BY <1>3, <1>4 DEF Fence, RowsStayAuthoritative, GoodRow, Authoritative
<1>7. AttemptHasOneOwner'
  <2> SUFFICES ASSUME NEW p \in Outbound, NEW b \in Attempt, Owns(b, p)'
               PROVE  /\ task'[b].number \in 1..rows'[p].attemptCount
                      /\ task'[b].number = rows'[p].attemptCount => rows'[p].token = b
                      /\ \A c \in Attempt \ {b} : Owns(c, p)' => task'[b].number # task'[c].number
    BY DEF AttemptHasOneOwner
  <2>1. b = a => p = o /\ task'[b].number = rows'[p].attemptCount
    BY <1>1, <1>2, <1>3, <1>4, <1>5 DEF Owns, OwningPC, Idle, SameAuthority
  <2>2. \A c \in Attempt \ {a} : Owns(c, p)' => Owns(c, p) /\ task'[c].number = task[c].number
    BY <1>2 DEF Owns
  <2>3. \A c \in Attempt \ {a} : Owns(c, p)' => task'[c].number \in 1..rows[p].attemptCount
    BY <2>2 DEF Fence, AttemptHasOneOwner
  <2>4. CASE b = a
    BY <1>3, <1>4, <1>5, <2>1, <2>3, <2>4
  <2>5. CASE b # a /\ p = o
    <3>1. task'[b].number \in 1..rows[o].attemptCount
      BY <2>3, <2>5
    <3>2. rows'[p].attemptCount = rows[o].attemptCount + 1
      BY <1>3, <1>4, <2>5
    <3>3. \A c \in Attempt \ {b} : Owns(c, p)' => task'[b].number # task'[c].number
      <4> SUFFICES ASSUME NEW c \in Attempt \ {b}, Owns(c, p)'
                   PROVE  task'[b].number # task'[c].number
        OBVIOUS
      <4>1. CASE c = a
        BY <1>1, <1>2, <1>5, <3>1, <4>1 DEF Owns, OwningPC, Idle, SameAuthority
      <4>2. CASE c # a
        BY <2>2, <2>5, <4>2 DEF Fence, AttemptHasOneOwner
      <4> QED
        BY <4>1, <4>2
    <3> QED
      BY <1>5, <3>1, <3>2, <3>3
  <2>6. CASE b # a /\ p # o
    BY <1>2, <1>3, <2>1, <2>2, <2>6 DEF Fence, AttemptHasOneOwner, Owns, OwningPC, Idle
  <2> QED
    BY <2>4, <2>5, <2>6
<1>8. \A b \in Attempt : SeenFence(task[b])'
  BY <1>2 DEF Fence, SeenFence, Authoritative, Idle
<1>9. \A b \in Attempt : Unclaimed(b)'
  BY <1>2, <1>3, <1>4 DEF Fence, Unclaimed, ClaimPC, Idle
<1> QED
  BY <1>6, <1>7, <1>8, <1>9 DEF Fence

\* The UPDATE of a record that found the row still claimed with the count that was seen: the
\* row is then the dispatch's own, and only its outcome changes.
LEMMA FenceRecord ==
  ASSUME TypeInv, Fence, NEW a \in Attempt,
         task[a].pc \in {"record_write", "hold_write"},
         SameAuthority(rows[task[a].of], task[a].seen),
         rows' = [rows EXCEPT ![task[a].of] = Recorded(task[a].seen, task[a], a)],
         Return(a) \/ Unrecorded(a)
  PROVE  Fence'
<1>0. PICK t : /\ Step(a, t)
               /\ t.pc \in {"idle", "hold_read"}
               /\ t.pc = "hold_read" => t.of = task[a].of /\ t.number = task[a].number
  <2>1. CASE Return(a)
    BY <2>1 DEF Return, Idle
  <2>2. CASE Unrecorded(a)
    BY <2>2, UnrecordedShape DEF TypeInv, RecordPC
  <2> QED
    BY <2>1, <2>2
<1> DEFINE o == task[a].of
           r == Recorded(task[a].seen, task[a], a)
<1>1. /\ task[a] \in TaskState /\ task[a] # Idle /\ o \in Outbound
      /\ task[a].seen \in Row /\ task[a].outcome # "none"
  BY ActiveTask DEF TypeInv, TaskState, TaskShape, Shape, RecordPC
<1>2. \A b \in Attempt : task'[b] = IF b = a THEN t ELSE task[b]
  BY <1>0 DEF TypeInv, TypeOK, Step
<1>3. \A p \in Outbound : rows'[p] = IF p = o THEN r ELSE rows[p]
  BY DEF TypeInv, TypeOK
<1>4. Authoritative(task[a].seen) /\ task[a].seen.status = "claimed"
  BY DEF Fence, SeenFence
<1>5. r.token = a /\ r.attemptCount = rows[o].attemptCount
  BY DEF Recorded, SameAuthority
<1>6. GoodRow(r)
  BY <1>1, <1>4, RecordedGood
<1>7. rows[o].token = a
  <2>1. SeenFence(task[a]) /\ AttemptHasOneOwner
    BY DEF Fence
  <2>2. Owns(a, o) /\ task[a].number = rows[o].attemptCount
    BY <2>1 DEF Owns, OwningPC, SeenFence, SameAuthority
  <2> QED
    BY <1>1, <2>1, <2>2, OwnerNamed
<1> HIDE DEF r
<1>8. RowsStayAuthoritative'
  BY <1>3, <1>6 DEF Fence, RowsStayAuthoritative, GoodRow, Authoritative
<1>9. AttemptHasOneOwner'
  <2>1. \A b \in Attempt, p \in Outbound :
          Owns(b, p)' => Owns(b, p) /\ task'[b].number = task[b].number
    BY <1>0, <1>2 DEF Owns, OwningPC
  <2>2. \A p \in Outbound : rows'[p].attemptCount = rows[p].attemptCount
                            /\ rows'[p].token = rows[p].token
    BY <1>3, <1>5, <1>7
  <2> QED
    BY <2>1, <2>2, OwnersKept DEF Fence
<1>10. \A b \in Attempt : SeenFence(task[b])'
  BY <1>0, <1>2 DEF Fence, SeenFence, Authoritative
<1>11. \A b \in Attempt : Unclaimed(b)'
  <2>1. \A b \in Attempt : task'[b].pc \in ClaimPC => task[b].pc \in ClaimPC
    BY <1>0, <1>2 DEF ClaimPC
  <2>2. \A p \in Outbound : rows'[p].token = rows[p].token
    BY <1>3, <1>5, <1>7
  <2> QED
    BY <2>1, <2>2 DEF Fence, Unclaimed
<1> QED
  BY <1>8, <1>9, <1>10, <1>11 DEF Fence

LEMMA FenceNext == TypeInv /\ Fence /\ [Next]_vars => Fence'
<1> SUFFICES ASSUME TypeInv, Fence, [Next]_vars PROVE Fence'
  OBVIOUS
<1>0. TypeOK /\ \A a \in Attempt : task[a].pc # "idle" => task[a] \in TaskState
  BY ActiveTask DEF TypeInv
\* Steps that touch neither the table nor a dispatch.
<1>1. ASSUME rows' = rows, task' = task PROVE Fence'
  BY <1>1 DEF Fence, RowsStayAuthoritative, AttemptHasOneOwner, Authoritative, Owns,
     SeenFence, Unclaimed
<1>2. ASSUME NEW o \in Outbound, CreateOrGet(o) PROVE Fence'
  <2> DEFINE r == PendingRow(clock)
  <2>0. /\ r.status = "pending" /\ r.attemptCount = 0 /\ r.token = NoToken
        /\ r.terminal = FALSE /\ r.retryEligible = TRUE
    BY DEF PendingRow
  <2>2. \A p \in Outbound : rows'[p] = IF p = o THEN r ELSE rows[p]
    BY <1>2 DEF CreateOrGet, TypeInv, TypeOK
  <2>3. task' = task /\ rows[o].attemptCount = 0
    BY <1>2 DEF CreateOrGet, AbsentRow
  <2> HIDE DEF r
  <2>1. GoodRow(r)
    <3>1. Authoritative(r)
      BY <2>0 DEF Authoritative, Status, TerminalStatus, RetryStatus
    <3> QED
      BY <2>0, <3>1 DEF GoodRow
  <2>4. RowsStayAuthoritative'
    BY <2>1, <2>2 DEF Fence, RowsStayAuthoritative, GoodRow, Authoritative
  <2>5. \A a \in Attempt : ~Owns(a, o)
    <3>1. 1..0 = {}
      BY SMT
    <3> QED
      BY <2>3, <3>1 DEF Fence, AttemptHasOneOwner
  <2>6. AttemptHasOneOwner'
    <3>1. \A p \in Outbound, a \in Attempt : Owns(a, p)' => Owns(a, p) /\ p # o
      BY <2>3, <2>5 DEF Owns
    <3>2. \A p \in Outbound : p # o => rows'[p] = rows[p]
      BY <2>2
    <3> QED
      BY <2>3, <3>1, <3>2 DEF Fence, AttemptHasOneOwner
  <2>7. \A a \in Attempt : (SeenFence(task[a]) /\ Unclaimed(a))'
    BY <2>0, <2>2, <2>3, NullAssumption DEF Fence, SeenFence, Unclaimed, Authoritative
  <2> QED
    BY <2>4, <2>6, <2>7 DEF Fence
<1>3. ASSUME NEW w \in Worker, WorkerStep(w) PROVE Fence'
  <2>1. CASE StartWorker(w) \/ BeginCycle(w) \/ EndCycle(w) \/ EndSleep(w)
    BY <1>1, <2>1 DEF StartWorker, BeginCycle, EndCycle, EndSleep
  <2>2. CASE StartDispatch(w)
    <3> DEFINE t == [pc |-> "claim_read", by |-> w, of |-> Head(worker[w].queue),
                     now |-> worker[w].now, seen |-> AbsentRow, number |-> 0,
                     outcome |-> "none", delay |-> 0, providerAccepted |-> FALSE]
    <3>1. PICK a \in Attempt : Fresh(a) /\ task' = [task EXCEPT ![a] = t]
      BY <2>2 DEF StartDispatch
    <3>2. t.pc = "claim_read"
      OBVIOUS
    <3> HIDE DEF t
    <3>3. \A b \in Attempt : task'[b] = IF b = a THEN t ELSE task[b]
      BY <1>0, <3>1 DEF TypeOK
    <3>4. rows' = rows
      BY <2>2 DEF StartDispatch
    <3>5. RowsStayAuthoritative' /\ AttemptHasOneOwner'
      BY <3>2, <3>3, <3>4 DEF Fence, RowsStayAuthoritative, Authoritative, AttemptHasOneOwner,
         Owns, OwningPC
    <3>6. \A b \in Attempt : SeenFence(task[b])'
      BY <3>2, <3>3 DEF Fence, SeenFence, Authoritative
    <3>7. \A b \in Attempt : Unclaimed(b)'
      BY <3>1, <3>3, <3>4 DEF Fence, Unclaimed, Fresh
    <3> QED
      BY <3>5, <3>6, <3>7 DEF Fence
  <2> QED
    BY <1>3, <2>1, <2>2 DEF WorkerStep
<1>4. ASSUME NEW a \in Attempt, ClaimRead(a) PROVE Fence'
  <2> DEFINE t == task[a]
             r == rows[t.of]
             u == [t EXCEPT !.pc = "claim_write", !.seen = r]
  <2>1. t \in TaskState /\ t.of \in Outbound /\ t.pc = "claim_read" /\ rows' = rows
    BY <1>0, <1>4 DEF ClaimRead, TaskState
  <2>2. r.token # a
    BY <2>1 DEF Fence, Unclaimed, ClaimPC
  <2>3. \/ Return(a)
        \/ Authoritative(r) /\ Claimable(r, t.now) /\ Step(a, u)
    BY <1>4, <2>2 DEF ClaimRead
  <2>4. u.pc = "claim_write" /\ u.seen = r
    BY <2>1 DEF TaskState
  <2>5. ASSUME Authoritative(r), Claimable(r, t.now), Step(a, u) PROVE Fence'
    <3> HIDE DEF u
    <3>1. SeenFence(u)
      BY <2>4, <2>5 DEF SeenFence, Claimable
    <3> QED
      BY <1>0, <2>1, <2>4, <2>5, <3>1, FenceTaskStep DEF OwningPC, ClaimPC
  <2> QED
    BY <1>0, <2>1, <2>3, <2>5, FenceReturn
<1>5. ASSUME NEW a \in Attempt, ClaimWrite(a) PROVE Fence'
  <2> DEFINE t == task[a]
             u == [t EXCEPT !.pc = "prepare", !.seen = AbsentRow,
                            !.number = t.seen.attemptCount + 1]
  <2>1. t \in TaskState /\ t.pc = "claim_write"
    BY <1>0, <1>5 DEF ClaimWrite
  <2>2. u.pc = "prepare" /\ u.of = t.of /\ u.number = t.seen.attemptCount + 1
    BY <2>1 DEF TaskState
  <2>3. CASE SameAuthority(rows[t.of], t.seen)
    <3>1. rows' = [rows EXCEPT ![t.of] = Claimed(t.seen, a, t.now)] /\ Step(a, u)
      BY <1>5, <2>3 DEF ClaimWrite
    <3> HIDE DEF u
    <3> QED
      BY <2>1, <2>2, <2>3, <3>1, FenceClaim
  <2>4. CASE ~SameAuthority(rows[t.of], t.seen)
    BY <1>0, <1>5, <2>4, FenceReturn DEF ClaimWrite
  <2> QED
    BY <2>3, <2>4
<1>6. ASSUME NEW a \in Attempt, SendRequest(a) PROVE Fence'
  <2> DEFINE u == [task[a] EXCEPT !.pc = "sending"]
  <2>1. task[a] \in TaskState /\ task[a].pc = "prepare" /\ rows' = rows /\ Step(a, u)
    BY <1>0, <1>6 DEF SendRequest
  <2>2. u.pc = "sending" /\ u.of = task[a].of /\ u.number = task[a].number
    BY <2>1 DEF TaskState
  <2> HIDE DEF u
  <2>3. SeenFence(u)
    BY <2>2 DEF SeenFence
  <2> QED
    BY <1>0, <2>1, <2>2, <2>3, FenceTaskStep DEF OwningPC, ClaimPC
\* From a claim in hand to the record of its outcome.
<1>7. ASSUME NEW a \in Attempt, task[a].pc \in {"prepare", "sending"}, rows' = rows,
             NEW out, NEW after, Step(a, Verdict(a, out, after))
      PROVE  Fence'
  <2> DEFINE u == Verdict(a, out, after)
  <2>1. u.pc = "record_read" /\ u.of = task[a].of /\ u.number = task[a].number
    BY DEF Verdict
  <2>2. Step(a, u)
    BY <1>7
  <2> HIDE DEF u
  <2>3. SeenFence(u)
    BY <2>1 DEF SeenFence
  <2> QED
    BY <1>0, <1>7, <2>1, <2>2, <2>3, FenceTaskStep DEF OwningPC, ClaimPC
<1>8. ASSUME NEW a \in Attempt,
             \/ PrepareFails(a) \/ AnswerSuccess(a) \/ AnswerUnconfirmed(a)
             \/ AnswerFailure(a) \/ NoAnswer(a)
      PROVE  Fence'
  <2>1. task[a].pc \in {"prepare", "sending"} /\ rows' = rows
    BY <1>8 DEF PrepareFails, AnswerSuccess, AnswerUnconfirmed, AnswerFailure, NoAnswer, Waiting
  <2>2. \E out, after : Step(a, Verdict(a, out, after))
    BY <1>8 DEF PrepareFails, AnswerSuccess, AnswerUnconfirmed, AnswerFailure, NoAnswer
  <2> QED
    BY <1>7, <2>1, <2>2
<1>9. ASSUME NEW a \in Attempt, GraphStep(a) PROVE Fence'
  BY <1>1, <1>9 DEF GraphStep, GraphAccepts, GraphRefuses, RequestLost
<1>10. ASSUME NEW a \in Attempt, RecordRead(a) PROVE Fence'
  <2> DEFINE t == task[a]
             r == rows[t.of]
             u == [t EXCEPT !.seen = r, !.pc =
                     IF @ = "record_read" THEN "record_write" ELSE "hold_write"]
  <2>1. /\ t \in TaskState /\ t.pc \in {"record_read", "hold_read"} /\ t.pc \in RecordPC
        /\ rows' = rows
    BY <1>0, <1>10 DEF RecordRead, RecordPC
  <2>2. \/ Return(a)
        \/ Unrecorded(a)
        \/ /\ Authoritative(r) /\ r.status = "claimed" /\ r.attemptCount = t.number
           /\ Step(a, u)
    BY <1>10 DEF RecordRead
  <2>3. /\ u.pc \in {"record_write", "hold_write"} /\ u.seen = r
        /\ u.of = t.of /\ u.number = t.number
    BY <2>1 DEF TaskState
  <2>4. ASSUME Authoritative(r), r.status = "claimed", r.attemptCount = t.number, Step(a, u)
        PROVE  Fence'
    <3> HIDE DEF u
    <3>1. SeenFence(u)
      BY <2>3, <2>4 DEF SeenFence
    <3> QED
      BY <1>0, <2>1, <2>3, <2>4, <3>1, FenceTaskStep DEF OwningPC, ClaimPC
  <2> QED
    BY <1>0, <2>1, <2>2, <2>4, FenceReturn, FenceUnrecorded
<1>11. ASSUME NEW a \in Attempt, task[a].pc \in {"record_write", "hold_write"},
              SameAuthority(rows[task[a].of], task[a].seen),
              rows' = [rows EXCEPT ![task[a].of] = Recorded(task[a].seen, task[a], a)],
              Return(a) \/ Unrecorded(a)
       PROVE  Fence'
  BY <1>11, FenceRecord
<1>12. ASSUME NEW a \in Attempt, RecordWrite(a) PROVE Fence'
  <2>1. CASE SameAuthority(rows[task[a].of], task[a].seen)
    BY <1>11, <1>12, <2>1 DEF RecordWrite
  <2>2. CASE ~SameAuthority(rows[task[a].of], task[a].seen)
    BY <1>0, <1>12, <2>2, FenceUnrecorded DEF RecordWrite, RecordPC
  <2> QED
    BY <2>1, <2>2
<1>13. ASSUME NEW w \in Worker, Crash(w) PROVE Fence'
  <2>1. rows' = rows /\ \A a \in Attempt : task'[a] = task[a] \/ task'[a] = Idle
    BY <1>13 DEF Crash
  <2>2. RowsStayAuthoritative'
    BY <2>1 DEF Fence, RowsStayAuthoritative, Authoritative
  <2>3. AttemptHasOneOwner'
    <3>1. \A a \in Attempt, o \in Outbound :
            Owns(a, o)' => Owns(a, o) /\ task'[a].number = task[a].number
      BY <2>1 DEF Owns, OwningPC, Idle
    <3>2. rows' = rows /\ AttemptHasOneOwner
      BY <2>1 DEF Fence
    <3> QED
      BY <3>1, <3>2, OwnersKept
  <2>4. \A a \in Attempt : (SeenFence(task[a]) /\ Unclaimed(a))'
    BY <2>1 DEF Fence, SeenFence, Unclaimed, Authoritative, ClaimPC, Idle
  <2> QED
    BY <2>2, <2>3, <2>4 DEF Fence
<1>14. ASSUME NEW w \in Worker, Shutdown(w) PROVE Fence'
  BY <1>1, <1>14 DEF Shutdown
<1>15. ASSUME NEW a \in Attempt, StatementFails(a) PROVE Fence'
  BY <1>0, <1>15, FenceReturn, FenceUnrecorded DEF StatementFails, RecordPC
<1>16. ASSUME NEW a \in Attempt, AnswerLost(a) PROVE Fence'
  <2>1. CASE task[a].pc = "claim_write"
    <3>1. /\ SameAuthority(rows[task[a].of], task[a].seen)
          /\ rows' = [rows EXCEPT ![task[a].of] = Claimed(task[a].seen, a, task[a].now)]
          /\ Step(a, Idle)
      BY <1>16, <2>1 DEF AnswerLost, Return
    <3> QED
      BY <2>1, <3>1, FenceClaim
  <2>2. CASE task[a].pc # "claim_write"
    BY <1>11, <1>16, <2>2 DEF AnswerLost
  <2> QED
    BY <2>1, <2>2
<1>17. CASE Tick
  BY <1>1, <1>17 DEF Tick
<1>18. CASE UNCHANGED vars
  BY <1>1, <1>18 DEF vars
<1> QED
  BY <1>2, <1>3, <1>4, <1>5, <1>6, <1>8, <1>9, <1>10, <1>12, <1>13, <1>14, <1>15, <1>16,
     <1>17, <1>18 DEF Next, DispatchStep, FaultStep

-----------------------------------------------------------------------------
\* No interleaving, crash or lost answer leaves a row the repository refuses to work on.
THEOREM RowsRemainAuthoritative == Spec => []RowsStayAuthoritative
<1>1. Fence => RowsStayAuthoritative
  BY DEF Fence
<1> QED
  BY <1>1, TypeInit, TypeNext, FenceInit, FenceNext, PTL DEF Spec

\* An attempt number of a row belongs to one dispatch at most, for any number of workers,
\* attempts and rows, and the row names the owner of its latest number.
THEOREM AttemptIsFenced == Spec => []AttemptHasOneOwner
<1>1. Fence => AttemptHasOneOwner
  BY DEF Fence
<1> QED
  BY <1>1, TypeInit, TypeNext, FenceInit, FenceNext, PTL DEF Spec

-----------------------------------------------------------------------------
(***************************************************************************)
(* What a step does to a row.  The optimistic lock compares four columns   *)
(* with what a SELECT saw; the fence turns that comparison into a fact     *)
(* about the row as it is when the UPDATE is made.                         *)
(***************************************************************************)

\* A claim by an attempt id that is new to the row, and a record by the id that owns it.
ClaimOf(r, s) ==
  /\ r.status \in {"pending", "claimed", "retryable_failed"}
  /\ s.status = "claimed" /\ s.attemptCount = r.attemptCount + 1 /\ s.token # r.token
RecordOf(r, s) ==
  /\ r.status = "claimed" /\ s.status \in Outcome \ {"none"}
  /\ s.attemptCount = r.attemptCount /\ s.token = r.token

LEMMA ClaimChange ==
  ASSUME TypeInv, Fence, NEW a \in Attempt, task[a].pc = "claim_write",
         SameAuthority(rows[task[a].of], task[a].seen)
  PROVE  ClaimOf(rows[task[a].of], Claimed(task[a].seen, a, task[a].now))
<1> DEFINE r == Claimed(task[a].seen, a, task[a].now)
<1>1. r.status = "claimed" /\ r.attemptCount = task[a].seen.attemptCount + 1 /\ r.token = a
  BY DEF Claimed
<1>2. task[a].of \in Outbound
  BY ActiveTask DEF TypeInv, TaskState
<1> HIDE DEF r
<1>3. rows[task[a].of].token # a
  BY <1>2 DEF Fence, Unclaimed, ClaimPC
<1>4. ClaimOf(rows[task[a].of], r)
  BY <1>1, <1>3 DEF ClaimOf, SameAuthority, Fence, SeenFence
<1> QED
  BY <1>4 DEF r

LEMMA RecordChange ==
  ASSUME TypeInv, Fence, NEW a \in Attempt, task[a].pc \in {"record_write", "hold_write"},
         SameAuthority(rows[task[a].of], task[a].seen)
  PROVE  RecordOf(rows[task[a].of], Recorded(task[a].seen, task[a], a))
<1> DEFINE o == task[a].of
           r == Recorded(task[a].seen, task[a], a)
<1>1. r.status = task[a].outcome /\ r.attemptCount = task[a].seen.attemptCount /\ r.token = a
  BY DEF Recorded
<1>2. o \in Outbound /\ task[a].outcome \in Outcome \ {"none"}
  BY ActiveTask DEF TypeInv, TaskState, TaskShape, Shape, RecordPC
<1> HIDE DEF r
<1>3. Owns(a, o) /\ task[a].number = rows[o].attemptCount
  <2>1. SeenFence(task[a])
    BY DEF Fence
  <2> QED
    BY <2>1 DEF Owns, OwningPC, SeenFence, SameAuthority
<1>4. rows[o].token = a
  BY <1>2, <1>3, OwnerNamed DEF Fence
<1>5. RecordOf(rows[o], r)
  BY <1>1, <1>2, <1>4 DEF RecordOf, SameAuthority, Fence, SeenFence
<1> QED
  BY <1>5 DEF r

LEMMA RowChange ==
  ASSUME TypeInv, Fence, [Next]_vars, NEW o \in Outbound, rows'[o] # rows[o]
  PROVE  \/ rows[o] = AbsentRow
         \/ ClaimOf(rows[o], rows'[o])
         \/ RecordOf(rows[o], rows'[o])
<1>0. \A p \in Outbound : \A r : rows' = [rows EXCEPT ![p] = r] => p = o /\ rows'[o] = r
  BY DEF TypeInv, TypeOK
<1>1. ASSUME NEW p \in Outbound, CreateOrGet(p) PROVE rows[o] = AbsentRow
  BY <1>0, <1>1 DEF CreateOrGet
<1>2. ASSUME NEW a \in Attempt, task[a].pc = "claim_write",
             SameAuthority(rows[task[a].of], task[a].seen),
             rows' = [rows EXCEPT ![task[a].of] = Claimed(task[a].seen, a, task[a].now)]
      PROVE  ClaimOf(rows[o], rows'[o])
  <2>1. task[a].of \in Outbound
    BY <1>2, ActiveTask DEF TypeInv, TaskState
  <2>2. task[a].of = o /\ rows'[o] = Claimed(task[a].seen, a, task[a].now)
    BY <1>0, <1>2, <2>1
  <2> QED
    BY <1>2, <2>2, ClaimChange
<1>3. ASSUME NEW a \in Attempt, task[a].pc \in {"record_write", "hold_write"},
             SameAuthority(rows[task[a].of], task[a].seen),
             rows' = [rows EXCEPT ![task[a].of] = Recorded(task[a].seen, task[a], a)]
      PROVE  RecordOf(rows[o], rows'[o])
  <2>1. task[a].of \in Outbound
    BY <1>3, ActiveTask DEF TypeInv, TaskState
  <2>2. task[a].of = o /\ rows'[o] = Recorded(task[a].seen, task[a], a)
    BY <1>0, <1>3, <2>1
  <2> QED
    BY <1>3, <2>2, RecordChange
<1>4. ASSUME NEW a \in Attempt, ClaimWrite(a) PROVE ClaimOf(rows[o], rows'[o])
  BY <1>2, <1>4 DEF ClaimWrite
<1>5. ASSUME NEW a \in Attempt, RecordWrite(a) PROVE RecordOf(rows[o], rows'[o])
  BY <1>3, <1>5 DEF RecordWrite
<1>6. ASSUME NEW a \in Attempt, AnswerLost(a)
      PROVE  ClaimOf(rows[o], rows'[o]) \/ RecordOf(rows[o], rows'[o])
  BY <1>2, <1>3, <1>6 DEF AnswerLost
<1>7. ASSUME NEW w \in Worker, WorkerStep(w) PROVE FALSE
  BY <1>7 DEF WorkerStep, StartWorker, BeginCycle, StartDispatch, EndCycle, EndSleep
<1>8. ASSUME NEW a \in Attempt, DispatchStep(a), ~ClaimWrite(a), ~RecordWrite(a) PROVE FALSE
  BY <1>8 DEF DispatchStep, ClaimRead, SendRequest, PrepareFails, AnswerSuccess,
     AnswerUnconfirmed, AnswerFailure, NoAnswer, RecordRead
<1>9. ASSUME NEW a \in Attempt, GraphStep(a) PROVE FALSE
  BY <1>9 DEF GraphStep, GraphAccepts, GraphRefuses, RequestLost
<1>10. ASSUME NEW w \in Worker, Shutdown(w) \/ Crash(w) PROVE FALSE
  BY <1>10 DEF Shutdown, Crash
<1>11. ASSUME NEW a \in Attempt, StatementFails(a) PROVE FALSE
  BY <1>11 DEF StatementFails
<1>12. ASSUME Tick \/ UNCHANGED vars PROVE FALSE
  BY <1>12 DEF Tick, vars
<1> QED
  BY <1>1, <1>4, <1>5, <1>6, <1>7, <1>8, <1>9, <1>10, <1>11, <1>12 DEF Next, FaultStep

\* A row that is sent, failed for good or held is never written again.
THEOREM FinalRowsStayFrozen == Spec => FinalRowsFrozen
<1> DEFINE Frozen == \A o \in Outbound : rows[o].status \in FinalStatus => rows'[o] = rows[o]
<1>1. TypeInv /\ Fence /\ [Next]_vars => Frozen
  <2> SUFFICES ASSUME TypeInv, Fence, [Next]_vars, NEW o \in Outbound,
                      rows[o].status \in FinalStatus, rows'[o] # rows[o]
               PROVE  FALSE
    OBVIOUS
  <2>1. \/ rows[o] = AbsentRow
        \/ ClaimOf(rows[o], rows'[o])
        \/ RecordOf(rows[o], rows'[o])
    BY RowChange
  <2> QED
    BY <2>1 DEF ClaimOf, RecordOf, AbsentRow, FinalStatus, TerminalStatus
<1> QED
  BY <1>1, TypeInit, TypeNext, FenceInit, FenceNext, PTL DEF Spec, FinalRowsFrozen

\* The SQL statements stay within VALID_STATUS_TRANSITIONS although they never consult it,
\* and a count moves exactly when a new owner is written.
THEOREM TableIsFollowed == Spec => RepositoryFollowsTable
<1> DEFINE Allowed(r, s) ==
      r.status \in Status /\ s # r =>
        /\ s.status = r.status \/ s.status \in Ledger!ValidTransition[r.status]
        /\ IF s.token # r.token
             THEN s.status = "claimed" /\ s.attemptCount = r.attemptCount + 1
             ELSE r.status = "claimed" /\ s.status # "claimed" /\ s.attemptCount = r.attemptCount
    Follows == \A o \in Outbound : Allowed(rows[o], rows'[o])
<1>1. TypeInv /\ Fence /\ [Next]_vars => Follows
  <2> SUFFICES ASSUME TypeInv, Fence, [Next]_vars, NEW o \in Outbound,
                      rows[o].status \in Status, rows'[o] # rows[o]
               PROVE  Allowed(rows[o], rows'[o])
    OBVIOUS
  <2>1. CASE rows[o] = AbsentRow
    BY <2>1 DEF AbsentRow, Status
  <2>2. CASE ClaimOf(rows[o], rows'[o])
    BY <2>2 DEF ClaimOf, Ledger!ValidTransition
  <2>3. CASE RecordOf(rows[o], rows'[o])
    BY <2>3 DEF RecordOf, Ledger!ValidTransition, Outcome
  <2> QED
    BY <2>1, <2>2, <2>3, RowChange
<1> QED
  BY <1>1, TypeInit, TypeNext, FenceInit, FenceNext, PTL DEF Spec, RepositoryFollowsTable

-----------------------------------------------------------------------------
(***************************************************************************)
(* What one step does to a row, to the answers and to a dispatch.  The     *)
(* fence above says who may write a row; from here on follow what a        *)
(* dispatch knows of Graph's answer and of the schedule when it writes,    *)
(* the refinement of OutboundLedger, what overlapping claims have to do    *)
(* with staleness, that each number is sent once, and that no process      *)
(* sends again what it was told Graph took.                                *)
(***************************************************************************)

WritePC == {"record_write", "hold_write"}
SendPC == {"prepare", "sending"}

ClaimedBy(a, o) ==
  /\ task[a].pc = "claim_write" /\ task[a].of = o
  /\ SameAuthority(rows[o], task[a].seen)
  /\ rows'[o] = Claimed(task[a].seen, a, task[a].now)
RecordedBy(a, o) ==
  /\ task[a].pc \in WritePC /\ task[a].of = o
  /\ SameAuthority(rows[o], task[a].seen)
  /\ rows'[o] = Recorded(task[a].seen, task[a], a)
  /\ task'[a].pc = "idle" \/ task[a].providerAccepted

\* A row is created, claimed or recorded, and nothing else.
LEMMA RowWritten ==
  ASSUME TypeInv, [Next]_vars, NEW o \in Outbound, rows'[o] # rows[o]
  PROVE  \/ rows[o] = AbsentRow /\ rows'[o] = PendingRow(clock)
         \/ \E a \in Attempt : ClaimedBy(a, o) \/ RecordedBy(a, o)
<1>0. \A p \in Outbound : \A r : rows' = [rows EXCEPT ![p] = r] => p = o /\ rows'[o] = r
  BY DEF TypeInv, TypeOK
<1>1. ASSUME NEW p \in Outbound, CreateOrGet(p)
      PROVE rows[o] = AbsentRow /\ rows'[o] = PendingRow(clock)
  BY <1>0, <1>1 DEF CreateOrGet
<1>2. ASSUME NEW a \in Attempt, task[a].pc = "claim_write",
             SameAuthority(rows[task[a].of], task[a].seen),
             rows' = [rows EXCEPT ![task[a].of] = Claimed(task[a].seen, a, task[a].now)]
      PROVE  ClaimedBy(a, o)
  <2>1. task[a].of \in Outbound
    BY <1>2, ActiveTask DEF TypeInv, TaskState
  <2> QED
    BY <1>0, <1>2, <2>1 DEF ClaimedBy
<1>3. ASSUME NEW a \in Attempt, task[a].pc \in WritePC,
             SameAuthority(rows[task[a].of], task[a].seen),
             rows' = [rows EXCEPT ![task[a].of] = Recorded(task[a].seen, task[a], a)],
             Return(a) \/ Unrecorded(a)
      PROVE  RecordedBy(a, o)
  <2>1. task[a].of \in Outbound
    BY <1>3, ActiveTask DEF TypeInv, TaskState, WritePC
  <2>2. task'[a].pc = "idle" \/ task[a].providerAccepted
    BY <1>3 DEF Return, Unrecorded, Step, Idle, TypeInv, TypeOK
  <2> QED
    BY <1>0, <1>3, <2>1, <2>2 DEF RecordedBy
<1>4. ASSUME NEW a \in Attempt, ClaimWrite(a) PROVE ClaimedBy(a, o)
  BY <1>2, <1>4 DEF ClaimWrite
<1>5. ASSUME NEW a \in Attempt, RecordWrite(a) PROVE RecordedBy(a, o)
  BY <1>3, <1>5 DEF RecordWrite, WritePC
<1>6. ASSUME NEW a \in Attempt, AnswerLost(a) PROVE ClaimedBy(a, o) \/ RecordedBy(a, o)
  BY <1>2, <1>3, <1>6 DEF AnswerLost, WritePC
<1>7. ASSUME NEW w \in Worker, WorkerStep(w) PROVE FALSE
  BY <1>7 DEF WorkerStep, StartWorker, BeginCycle, StartDispatch, EndCycle, EndSleep
<1>8. ASSUME NEW a \in Attempt, DispatchStep(a), ~ClaimWrite(a), ~RecordWrite(a) PROVE FALSE
  BY <1>8 DEF DispatchStep, ClaimRead, SendRequest, PrepareFails, AnswerSuccess,
     AnswerUnconfirmed, AnswerFailure, NoAnswer, RecordRead
<1>9. ASSUME NEW a \in Attempt, GraphStep(a) PROVE FALSE
  BY <1>9 DEF GraphStep, GraphAccepts, GraphRefuses, RequestLost
<1>10. ASSUME NEW w \in Worker, Shutdown(w) \/ Crash(w) PROVE FALSE
  BY <1>10 DEF Shutdown, Crash
<1>11. ASSUME NEW a \in Attempt, StatementFails(a) PROVE FALSE
  BY <1>11 DEF StatementFails
<1>12. ASSUME Tick \/ UNCHANGED vars PROVE FALSE
  BY <1>12 DEF Tick, vars
<1> QED
  BY <1>1, <1>4, <1>5, <1>6, <1>7, <1>8, <1>9, <1>10, <1>11, <1>12 DEF Next, FaultStep

\* The row a claim finds, and what it makes of it.
LEMMA ClaimFound ==
  ASSUME TypeInv, Fence, NEW a \in Attempt, NEW o \in Outbound, ClaimedBy(a, o)
  PROVE  /\ rows[o].status \in {"pending", "claimed", "retryable_failed"}
         /\ rows[o].status = task[a].seen.status
         /\ rows[o].attemptCount = task[a].seen.attemptCount
         /\ rows'[o].status = "claimed"
         /\ rows'[o].attemptCount = rows[o].attemptCount + 1
<1>1. SeenFence(task[a])
  BY DEF Fence
<1> QED
  BY <1>1 DEF ClaimedBy, SeenFence, SameAuthority, Claimed

\* The row a record finds is the dispatch's own.
LEMMA RecordFound ==
  ASSUME TypeInv, Fence, NEW a \in Attempt, NEW o \in Outbound, RecordedBy(a, o)
  PROVE  /\ rows[o].status = "claimed" /\ rows[o].token = a
         /\ rows[o].attemptCount = task[a].number
         /\ rows'[o].status = task[a].outcome
         /\ rows'[o].attemptCount = rows[o].attemptCount
<1>1. SeenFence(task[a])
  BY DEF Fence
<1>2. /\ rows[o].status = "claimed" /\ rows[o].attemptCount = task[a].number
      /\ task[a].seen.attemptCount = rows[o].attemptCount
  BY <1>1 DEF RecordedBy, SeenFence, SameAuthority, WritePC
<1>3. rows[o].token = a
  BY <1>2, OwnerNamed DEF Fence, Owns, OwningPC, RecordedBy, WritePC
<1> QED
  BY <1>2, <1>3 DEF RecordedBy, Recorded

\* Only a success answer tells us anything.
LEMMA ToldStep ==
  ASSUME [Next]_vars
  PROVE  confirmed' = confirmed \/ \E a \in Attempt : AnswerSuccess(a)
BY DEF Next, WorkerStep, DispatchStep, GraphStep, FaultStep, Tick, vars, CreateOrGet,
   StartWorker, BeginCycle, StartDispatch, EndCycle, EndSleep, ClaimRead, ClaimWrite, SendRequest,
   PrepareFails, AnswerUnconfirmed, AnswerFailure, NoAnswer, RecordRead, RecordWrite,
   GraphAccepts, GraphRefuses, RequestLost, Shutdown, Crash, StatementFails, AnswerLost

-----------------------------------------------------------------------------
(***************************************************************************)
(* Where the state of a dispatch comes from.                               *)
(***************************************************************************)

SameCycle(b) == task'[b].by = task[b].by /\ task'[b].now = task[b].now
SameJob(b) == SameCycle(b) /\ task'[b].of = task[b].of /\ task'[b].number = task[b].number

\* It starts with the clock of its cycle; it finds a row it may claim; it has claimed it; it goes
\* on to its request; it has its outcome, which is a success exactly when Graph said so; or it is
\* still recording that outcome, or the hold for a success.
Starting(b) ==
  /\ task'[b].pc = "claim_read"
  /\ \E w \in Worker :
       /\ worker[w].mode = "cycle" /\ worker[w].queue # <<>> /\ rows' = rows
       /\ worker' = [worker EXCEPT ![w].queue = Tail(@)]
       /\ task'[b].now = worker[w].now /\ task'[b].by = w /\ task'[b].of = Head(worker[w].queue)
Finding(b) ==
  /\ task[b].pc = "claim_read" /\ task'[b].pc = "claim_write" /\ SameJob(b)
  /\ task[b].of \in Outbound /\ rows' = rows
  /\ task'[b].seen = rows[task[b].of] /\ Claimable(rows[task[b].of], task[b].now)
Sending(b) ==
  task[b].pc = "prepare" /\ task'[b].pc = "sending" /\ SameJob(b) /\ SendRequest(b)
Claiming(b) ==
  /\ task[b].pc = "claim_write" /\ task'[b].pc = "prepare"
  /\ task'[b].of = task[b].of /\ task'[b].of \in Outbound /\ SameCycle(b)
  /\ ClaimedBy(b, task[b].of)
  /\ task'[b].number = rows'[task[b].of].attemptCount
  /\ rows'[task[b].of].status = "claimed"
  /\ rows'[task[b].of].attemptCount = rows[task[b].of].attemptCount + 1
Deciding(b) ==
  /\ task[b].pc \in SendPC /\ task'[b].pc = "record_read" /\ SameJob(b)
  /\ task'[b].providerAccepted => task'[b].outcome = "sent"
  /\ \/ task'[b].outcome = "sent" /\ AnswerSuccess(b)
     \/ task'[b].outcome \in {"retryable_failed", "terminal_failed"} /\ confirmed' = confirmed
Recording(b) ==
  /\ task[b].pc \in RecordPC /\ task'[b].pc \in RecordPC /\ SameJob(b)
  /\ task'[b].providerAccepted => task[b].providerAccepted
  /\ task'[b].pc \in WritePC =>
       task'[b].seen = rows[task[b].of] /\ task[b].of \in Outbound /\ rows' = rows
  /\ \/ task'[b].outcome = task[b].outcome
     \/ task'[b].outcome = "provider_sent_unconfirmed" /\ task[b].providerAccepted

Origin(b) ==
  \/ task'[b] = task[b]
  \/ task'[b].pc = "idle"
  \/ Starting(b) \/ Finding(b)
  \/ Sending(b) \/ Claiming(b) \/ Deciding(b) \/ Recording(b)

LEMMA UnrecordedOrigin ==
  ASSUME TypeOK, NEW a \in Attempt, task[a].pc \in RecordPC, Unrecorded(a)
  PROVE  task'[a].pc = "idle" \/ Recording(a)
<1> DEFINE u == [task[a] EXCEPT !.pc = "hold_read", !.seen = AbsentRow,
                                !.outcome = "provider_sent_unconfirmed"]
<1>1. task[a] \in TaskState
  BY ActiveTask DEF RecordPC
<1>2. /\ u.pc = "hold_read" /\ u.of = task[a].of /\ u.number = task[a].number
      /\ u.outcome = "provider_sent_unconfirmed"
      /\ u.providerAccepted = task[a].providerAccepted /\ u.now = task[a].now
      /\ u.by = task[a].by
  BY <1>1 DEF TaskState
<1> HIDE DEF u
<1>3. (Step(a, u) /\ task[a].providerAccepted) \/ Step(a, Idle)
  BY DEF Unrecorded, Return, u
<1>4. (task'[a] = u /\ task[a].providerAccepted) \/ task'[a] = Idle
  BY <1>3 DEF Step, TypeOK
<1> QED
  BY <1>2, <1>4 DEF Idle, Recording, SameJob, SameCycle, RecordPC, WritePC

LEMMA StepOrigin ==
  ASSUME TypeInv, Fence, [Next]_vars, NEW b \in Attempt
  PROVE  Origin(b)
<1>0. TypeOK /\ \A a \in Attempt : \A t : Step(a, t) => task'[b] = IF b = a THEN t ELSE task[b]
  BY DEF TypeInv, TypeOK, Step
<1>1. ASSUME NEW a \in Attempt, Return(a) PROVE Origin(b)
  BY <1>0, <1>1 DEF Return, Idle, Origin
<1>2. ASSUME NEW a \in Attempt, ClaimRead(a) PROVE Origin(b)
  <2> DEFINE u == [task[a] EXCEPT !.pc = "claim_write", !.seen = rows[task[a].of]]
  <2>1. task[a] \in TaskState /\ task[a].pc = "claim_read" /\ task[a].of \in Outbound
    BY <1>0, <1>2, ActiveTask DEF ClaimRead, TaskState
  <2>2. rows[task[a].of].token # a
    BY <2>1 DEF Fence, Unclaimed, ClaimPC
  <2>3. rows' = rows
    BY <1>2 DEF ClaimRead
  <2>6. Return(a) \/ (Step(a, u) /\ Claimable(rows[task[a].of], task[a].now))
    <3> HIDE DEF Step, Return
    <3> QED
      BY <1>2, <2>2, Zenon DEF ClaimRead
  <2>4. /\ u.pc = "claim_write" /\ u.of = task[a].of /\ u.number = task[a].number
        /\ u.now = task[a].now /\ u.by = task[a].by /\ u.seen = rows[task[a].of]
    BY <2>1 DEF TaskState
  <2> HIDE DEF u
  <2>5. CASE Step(a, u) /\ Claimable(rows[task[a].of], task[a].now)
    <3>1. CASE b = a
      <4>1. task'[b] = u
        BY <1>0, <2>5, <3>1
      <4> QED
        BY <2>1, <2>3, <2>4, <2>5, <3>1, <4>1 DEF Origin, Finding, SameJob, SameCycle
    <3>2. CASE b # a
      BY <1>0, <2>5, <3>2 DEF Origin
    <3> QED
      BY <3>1, <3>2
  <2> QED
    BY <1>1, <2>5, <2>6
<1>3. ASSUME NEW a \in Attempt, ClaimWrite(a) PROVE Origin(b)
  <2> DEFINE t == task[a]
             u == [t EXCEPT !.pc = "prepare", !.seen = AbsentRow,
                            !.number = t.seen.attemptCount + 1]
  <2>1. t \in TaskState /\ t.pc = "claim_write" /\ t.of \in Outbound
    BY <1>0, <1>3, ActiveTask DEF ClaimWrite, TaskState
  <2>2. /\ u.pc = "prepare" /\ u.of = t.of /\ u.number = t.seen.attemptCount + 1
        /\ u.now = t.now /\ u.by = t.by
    BY <2>1 DEF TaskState
  <2>3. CASE SameAuthority(rows[t.of], t.seen)
    <3>1. rows' = [rows EXCEPT ![t.of] = Claimed(t.seen, a, t.now)] /\ Step(a, u)
      BY <1>3, <2>3 DEF ClaimWrite
    <3>2. rows'[t.of] = Claimed(t.seen, a, t.now)
      BY <1>0, <2>1, <3>1 DEF TypeOK
    <3>3. /\ rows'[t.of].status = "claimed"
          /\ rows'[t.of].attemptCount = t.seen.attemptCount + 1
          /\ t.seen.attemptCount = rows[t.of].attemptCount
      BY <2>3, <3>2 DEF Claimed, SameAuthority
    <3> HIDE DEF u
    <3>4. b = a => task'[b] = u
      BY <1>0, <3>1
    <3>5. CASE b = a
      BY <2>1, <2>2, <2>3, <3>2, <3>3, <3>4, <3>5 DEF Origin, Claiming, SameCycle, ClaimedBy
    <3>6. CASE b # a
      BY <1>0, <3>1, <3>6 DEF Origin
    <3> QED
      BY <3>5, <3>6
  <2>4. CASE ~SameAuthority(rows[t.of], t.seen)
    BY <1>1, <1>3, <2>4 DEF ClaimWrite
  <2> QED
    BY <2>3, <2>4
<1>4. ASSUME NEW a \in Attempt, SendRequest(a) PROVE Origin(b)
  <2> DEFINE u == [task[a] EXCEPT !.pc = "sending"]
  <2>1. task[a] \in TaskState /\ task[a].pc = "prepare" /\ Step(a, u)
    BY <1>0, <1>4, ActiveTask DEF SendRequest
  <2>2. /\ u.pc = "sending" /\ u.of = task[a].of /\ u.number = task[a].number /\ u.now = task[a].now
        /\ u.by = task[a].by
    BY <2>1 DEF TaskState
  <2> HIDE DEF u
  <2> QED
    BY <1>0, <1>4, <2>1, <2>2 DEF Origin, Sending, SameJob, SameCycle
<1>5. ASSUME NEW a \in Attempt, NEW out, NEW after, Step(a, Verdict(a, out, after)),
             task[a].pc \in SendPC,
             \/ out = "sent" /\ AnswerSuccess(a)
             \/ out \in {"retryable_failed", "terminal_failed"} /\ confirmed' = confirmed
      PROVE  Origin(b)
  <2> DEFINE u == Verdict(a, out, after)
  <2>1. /\ u.pc = "record_read" /\ u.of = task[a].of /\ u.number = task[a].number
        /\ u.now = task[a].now /\ u.by = task[a].by /\ u.outcome = out /\ u.providerAccepted = (out = "sent")
    BY DEF Verdict
  <2>2. Step(a, u)
    BY <1>5
  <2> HIDE DEF u
  <2>3. CASE b = a
    <3>1. task'[b] = u
      BY <1>0, <2>2, <2>3
    <3> QED
      BY <1>5, <2>1, <2>3, <3>1 DEF Origin, Deciding, SameJob, SameCycle
  <2>4. CASE b # a
    BY <1>0, <2>2, <2>4 DEF Origin
  <2> QED
    BY <2>3, <2>4
<1>6. ASSUME NEW a \in Attempt, AnswerSuccess(a) PROVE Origin(b)
  BY <1>5, <1>6 DEF AnswerSuccess, Waiting, SendPC
<1>7. ASSUME NEW a \in Attempt,
             PrepareFails(a) \/ AnswerUnconfirmed(a) \/ AnswerFailure(a) \/ NoAnswer(a)
      PROVE Origin(b)
  <2>1. task[a].pc \in SendPC /\ confirmed' = confirmed
    BY <1>7 DEF PrepareFails, AnswerUnconfirmed, AnswerFailure, NoAnswer, Waiting, SendPC
  <2>2. \E out \in {"retryable_failed", "terminal_failed"} : \E after : Step(a, Verdict(a, out, after))
    BY <1>7 DEF PrepareFails, AnswerUnconfirmed, AnswerFailure, NoAnswer
  <2> QED
    BY <1>5, <2>1, <2>2
<1>8. ASSUME NEW a \in Attempt, task[a].pc \in RecordPC, Unrecorded(a) PROVE Origin(b)
  <2>1. \E t : Step(a, t)
    BY <1>8 DEF Unrecorded, Return
  <2>2. b # a => task'[b] = task[b]
    BY <1>0, <2>1
  <2> QED
    BY <1>0, <1>8, <2>2, UnrecordedOrigin DEF Origin
<1>9. ASSUME NEW a \in Attempt, RecordRead(a) PROVE Origin(b)
  <2> DEFINE t == task[a]
             u == [t EXCEPT !.seen = rows[t.of], !.pc =
                     IF @ = "record_read" THEN "record_write" ELSE "hold_write"]
  <2>1. /\ t \in TaskState /\ t.pc \in {"record_read", "hold_read"}
        /\ t.of \in Outbound /\ rows' = rows
    BY <1>0, <1>9, ActiveTask DEF RecordRead, TaskState
  <2>2. Return(a) \/ Unrecorded(a) \/ Step(a, u)
    BY <1>9 DEF RecordRead
  <2>3. /\ u.pc \in WritePC /\ u.of = t.of /\ u.number = t.number /\ u.now = t.now
        /\ u.outcome = t.outcome /\ u.providerAccepted = t.providerAccepted
        /\ u.by = t.by /\ u.seen = rows[t.of]
    BY <2>1 DEF TaskState, WritePC
  <2> HIDE DEF u
  <2>4. CASE Step(a, u)
    BY <1>0, <2>1, <2>3, <2>4 DEF Origin, Recording, SameJob, SameCycle, RecordPC, WritePC
  <2> QED
    BY <1>1, <1>8, <2>1, <2>2, <2>4 DEF RecordPC
<1>10. ASSUME NEW a \in Attempt, RecordWrite(a) PROVE Origin(b)
  BY <1>1, <1>8, <1>10 DEF RecordWrite, RecordPC
<1>11. ASSUME NEW a \in Attempt, StatementFails(a) \/ AnswerLost(a) PROVE Origin(b)
  BY <1>1, <1>8, <1>11 DEF StatementFails, AnswerLost, RecordPC
<1>12. ASSUME NEW w \in Worker, WorkerStep(w) \/ Shutdown(w) \/ Crash(w) PROVE Origin(b)
  <2>1. CASE StartDispatch(w)
    <3>1. PICK a \in Attempt :
            task' = [task EXCEPT ![a] =
              [pc |-> "claim_read", by |-> w, of |-> Head(worker[w].queue),
               now |-> worker[w].now, seen |-> AbsentRow, number |-> 0, outcome |-> "none",
               delay |-> 0, providerAccepted |-> FALSE]]
      BY <2>1 DEF StartDispatch
    <3>2. /\ worker[w].mode = "cycle" /\ worker[w].queue # <<>> /\ rows' = rows
          /\ worker' = [worker EXCEPT ![w].queue = Tail(@)]
      BY <2>1 DEF StartDispatch
    <3>3. b = a => /\ task'[b].pc = "claim_read" /\ task'[b].now = worker[w].now
                   /\ task'[b].by = w /\ task'[b].of = Head(worker[w].queue)
      BY <1>0, <3>1 DEF Step
    <3>4. b # a => task'[b] = task[b]
      BY <1>0, <3>1 DEF Step
    <3> QED
      BY <3>2, <3>3, <3>4 DEF Origin, Starting
  <2>2. CASE Crash(w)
    BY <1>0, <2>2 DEF Crash, Idle, Origin
  <2>3. CASE ~StartDispatch(w) /\ ~Crash(w)
    BY <1>12, <2>3 DEF WorkerStep, StartWorker, BeginCycle, EndCycle, EndSleep, Shutdown, Origin
  <2> QED
    BY <2>1, <2>2, <2>3
<1>13. ASSUME \/ \E o \in Outbound : CreateOrGet(o)
              \/ \E a \in Attempt : GraphStep(a)
              \/ Tick \/ UNCHANGED vars
       PROVE Origin(b)
  BY <1>13 DEF CreateOrGet, GraphStep, GraphAccepts, GraphRefuses, RequestLost, Tick, vars, Origin
<1> QED
  BY <1>2, <1>3, <1>4, <1>6, <1>7, <1>9, <1>10, <1>11, <1>12, <1>13 DEF Next, DispatchStep, FaultStep

-----------------------------------------------------------------------------
(***************************************************************************)
(* What we were told.  Only the dispatch that holds a number hears of it,  *)
(* so what it carries to its record is what Graph answered, whatever other *)
(* dispatches do to the row meanwhile.                                     *)
(***************************************************************************)

Good == {"sent", "provider_sent_unconfirmed"}

Answered(t) ==
  /\ t.pc \in SendPC =>
       /\ ~Told(t.of, t.number)
       /\ t.number = rows[t.of].attemptCount => rows[t.of].status = "claimed"
  /\ t.pc \in RecordPC =>
       /\ t.outcome \in Good <=> Told(t.of, t.number)
       /\ t.providerAccepted => t.outcome \in Good

Answers ==
  /\ \A o \in Outbound : \A n \in 0..MaxAttempt : Told(o, n) => n \in 1..rows[o].attemptCount
  /\ \A a \in Attempt : Answered(task[a])
  /\ OutcomeMatchesAnswer

LEMMA AnswersInit == Init => Answers
BY DEF Init, Answers, Answered, Told, OutcomeMatchesAnswer, Idle, SendPC, RecordPC, AbsentRow

\* A dispatch that holds a claim: its row and its number.
LEMMA Holder ==
  ASSUME TypeInv, Fence, NEW a \in Attempt, task[a].pc \in SendPC \cup RecordPC
  PROVE  /\ task[a] \in TaskState /\ task[a].of \in Outbound /\ task[a].by \in Worker
         /\ task[a].number \in 0..MaxAttempt
         /\ Owns(a, task[a].of)
         /\ task[a].number \in 1..rows[task[a].of].attemptCount
<1>1. task[a] \in TaskState /\ task[a].of \in Outbound
  BY ActiveTask DEF TypeInv, SendPC, RecordPC, TaskState
<1>2. Owns(a, task[a].of)
  BY DEF Owns, OwningPC, SendPC, RecordPC
<1>3. AttemptHasOneOwner
  BY DEF Fence
<1> QED
  BY <1>1, <1>2, <1>3 DEF AttemptHasOneOwner, TaskState

\* Told after the step, of a row and a number as they were before it.
ToldAfter(o, n) == \E w \in Worker : <<n, w>> \in confirmed'[o]

\* A success answer tells us of its own attempt and of no other.
LEMMA ToldOnly ==
  ASSUME TypeInv, Fence, NEW a \in Attempt, AnswerSuccess(a), NEW o \in Outbound, NEW n
  PROVE  ToldAfter(o, n) <=> (Told(o, n) \/ (o = task[a].of /\ n = task[a].number))
<1>1. /\ task[a].of \in Outbound /\ task[a].by \in Worker
  BY Holder DEF AnswerSuccess, Waiting, SendPC
<1>2. \A p \in Outbound : confirmed'[p] =
        IF p = task[a].of THEN confirmed[p] \cup {<<task[a].number, task[a].by>>} ELSE confirmed[p]
  BY <1>1 DEF AnswerSuccess, TypeInv, TypeOK
<1>3. CASE o = task[a].of
  <2>1. confirmed'[o] = confirmed[o] \cup {<<task[a].number, task[a].by>>}
    BY <1>2, <1>3
  <2>2. \A w : <<n, w>> = <<task[a].number, task[a].by>> <=> n = task[a].number /\ w = task[a].by
    OBVIOUS
  <2> QED
    BY <1>1, <1>3, <2>1, <2>2 DEF Told, ToldAfter
<1>4. CASE o # task[a].of
  BY <1>2, <1>4 DEF Told, ToldAfter
<1> QED
  BY <1>3, <1>4

\* Counts never fall, and a row that is stored has been tried no time.
LEMMA CountGrows ==
  ASSUME TypeInv, Fence, [Next]_vars, NEW o \in Outbound
  PROVE  /\ rows[o].attemptCount \in Nat /\ rows'[o].attemptCount \in Nat
         /\ rows[o].attemptCount <= rows'[o].attemptCount
<1>1. rows[o].attemptCount \in Nat
  <2>1. rows[o] \in Row
    BY DEF TypeInv, TypeOK
  <2> QED
    BY <2>1 DEF Row
<1>2. CASE rows'[o] = rows[o]
  BY <1>1, <1>2
<1>3. CASE rows[o] = AbsentRow /\ rows'[o] = PendingRow(clock)
  BY <1>3 DEF AbsentRow, PendingRow
<1>4. CASE \E a \in Attempt : ClaimedBy(a, o)
  BY <1>1, <1>4, ClaimFound
<1>5. CASE \E a \in Attempt : RecordedBy(a, o)
  BY <1>1, <1>5, RecordFound
<1> QED
  BY <1>2, <1>3, <1>4, <1>5, RowWritten

\* Nobody else speaks for a number: what a step tells us of a number that is held, its holder
\* was told.
LEMMA ToldToHolder ==
  ASSUME TypeInv, Fence, [Next]_vars, NEW b \in Attempt, task[b].pc \in SendPC \cup RecordPC,
         ~AnswerSuccess(b)
  PROVE  ToldAfter(task[b].of, task[b].number) <=> Told(task[b].of, task[b].number)
<1>1. task[b].of \in Outbound /\ Owns(b, task[b].of)
  BY Holder
<1>2. CASE confirmed' = confirmed
  BY <1>2 DEF Told, ToldAfter
<1>3. ASSUME NEW a \in Attempt, AnswerSuccess(a)
      PROVE  ToldAfter(task[b].of, task[b].number) <=> Told(task[b].of, task[b].number)
  <2>1. a # b
    BY <1>3
  <2>2. Owns(a, task[a].of)
    BY <1>3, Holder DEF AnswerSuccess, Waiting, SendPC
  <2>3. ~(task[b].of = task[a].of /\ task[b].number = task[a].number)
    BY <1>1, <2>1, <2>2 DEF Fence, AttemptHasOneOwner
  <2> QED
    BY <1>1, <1>3, <2>3, ToldOnly
<1> QED
  BY <1>2, <1>3, ToldStep

LEMMA AnswersNext == TypeInv /\ Fence /\ Answers /\ [Next]_vars => Answers'
<1> SUFFICES ASSUME TypeInv, Fence, Answers, [Next]_vars PROVE Answers'
  OBVIOUS
<1>1. \A o \in Outbound : \A n \in 0..MaxAttempt : ToldAfter(o, n) => n \in 1..rows'[o].attemptCount
  <2> SUFFICES ASSUME NEW o \in Outbound, NEW n \in 0..MaxAttempt, ToldAfter(o, n)
               PROVE  n \in 1..rows'[o].attemptCount
    OBVIOUS
  <2>1. CASE Told(o, n)
    BY <2>1, CountGrows DEF Answers
  <2>2. CASE ~Told(o, n)
    <3>1. PICK a \in Attempt : AnswerSuccess(a)
      BY <2>2, ToldStep DEF Told, ToldAfter
    <3>2. o = task[a].of /\ n = task[a].number
      BY <2>2, <3>1, ToldOnly
    <3>3. n \in 1..rows[o].attemptCount
      BY <3>1, <3>2, Holder DEF AnswerSuccess, Waiting, SendPC
    <3> QED
      BY <3>3, CountGrows
  <2> QED
    BY <2>1, <2>2
<1>2. \A b \in Attempt : task'[b].pc \in SendPC =>
        /\ ~ToldAfter(task'[b].of, task'[b].number)
        /\ task'[b].number = rows'[task'[b].of].attemptCount => rows'[task'[b].of].status = "claimed"
  <2> SUFFICES ASSUME NEW b \in Attempt, task'[b].pc \in SendPC
               PROVE  /\ ~ToldAfter(task'[b].of, task'[b].number)
                      /\ task'[b].number = rows'[task'[b].of].attemptCount =>
                           rows'[task'[b].of].status = "claimed"
    OBVIOUS
  <2>0. CASE task'[b] = task[b] \/ Sending(b)
    <3> DEFINE o == task[b].of
               n == task[b].number
    <3>1. task[b].pc \in SendPC /\ task'[b].of = o /\ task'[b].number = n
      BY <2>0 DEF Sending, SameJob, SameCycle, SendPC
    <3>2. o \in Outbound /\ Owns(b, o) /\ n \in 1..rows[o].attemptCount
      BY <3>1, Holder
    <3>3. ~Told(o, n) /\ (n = rows[o].attemptCount => rows[o].status = "claimed")
      BY <3>1 DEF Answers, Answered
    <3>4. ~AnswerSuccess(b)
      <4> SUFFICES ASSUME AnswerSuccess(b) PROVE FALSE
        OBVIOUS
      <4>1. task'[b] = Verdict(b, "sent", 0)
        BY DEF AnswerSuccess, Step, TypeInv, TypeOK
      <4> QED
        BY <4>1 DEF Verdict, SendPC
    <3>5. ~ToldAfter(o, n)
      BY <3>1, <3>3, <3>4, ToldToHolder
    <3>6. ASSUME n = rows'[o].attemptCount PROVE rows'[o].status = "claimed"
      <4>1. CASE rows'[o] = rows[o]
        BY <3>3, <3>6, <4>1
      <4>2. CASE rows[o] = AbsentRow
        <5>1. n \in 1..0
          BY <3>2, <4>2 DEF AbsentRow
        <5> QED
          BY <5>1
      <4>3. CASE \E a \in Attempt : ClaimedBy(a, o)
        BY <3>2, <4>3, ClaimFound
      <4>4. ASSUME NEW a \in Attempt, RecordedBy(a, o) PROVE FALSE
        <5>1. rows[o].token = a /\ rows'[o].attemptCount = rows[o].attemptCount
          BY <3>2, <4>4, RecordFound
        <5>2. rows[o].token = b
          BY <3>2, <3>6, <5>1, OwnerNamed DEF Fence
        <5> QED
          BY <3>1, <4>4, <5>1, <5>2 DEF RecordedBy, WritePC, SendPC
      <4> QED
        BY <3>2, <4>1, <4>2, <4>3, <4>4, RowWritten
    <3> QED
      BY <3>1, <3>5, <3>6
  <2>1. CASE Claiming(b)
    <3> DEFINE o == task[b].of
    <3>1. /\ o \in Outbound /\ task'[b].of = o /\ task'[b].number = rows'[o].attemptCount
          /\ rows'[o].status = "claimed" /\ rows'[o].attemptCount = rows[o].attemptCount + 1
      BY <2>1 DEF Claiming
    <3>2. rows[o].attemptCount \in Nat
      BY <3>1, CountGrows
    <3>3. task'[b].number \in 0..MaxAttempt
      <4>1. task' \in [Attempt -> TaskState \cup {Idle}]
        BY TypeNext DEF TypeInv, TypeOK
      <4>2. task'[b] # Idle
        BY <2>1 DEF Claiming, Idle
      <4> QED
        BY <4>1, <4>2 DEF TaskState
    <3>4. ~Told(o, task'[b].number)
      BY <3>1, <3>2, <3>3 DEF Answers
    <3>5. confirmed' = confirmed
      <4> SUFFICES ASSUME NEW a \in Attempt, AnswerSuccess(a) PROVE FALSE
        BY ToldStep
      <4>1. rows' = rows
        BY DEF AnswerSuccess
      <4> QED
        BY <3>1, <3>2, <4>1
    <3> QED
      BY <3>1, <3>4, <3>5 DEF Told, ToldAfter
  <2> QED
    BY <2>0, <2>1, StepOrigin DEF Origin, Starting, Finding, Deciding, Recording, SendPC, RecordPC
<1>3. \A b \in Attempt : task'[b].pc \in RecordPC =>
        /\ task'[b].outcome \in Good <=> ToldAfter(task'[b].of, task'[b].number)
        /\ task'[b].providerAccepted => task'[b].outcome \in Good
  <2> SUFFICES ASSUME NEW b \in Attempt, task'[b].pc \in RecordPC
               PROVE  /\ task'[b].outcome \in Good <=> ToldAfter(task'[b].of, task'[b].number)
                      /\ task'[b].providerAccepted => task'[b].outcome \in Good
    OBVIOUS
  <2>1. CASE task'[b] = task[b] \/ Recording(b)
    <3>1. task[b].pc \in RecordPC /\ SameJob(b)
      BY <2>1 DEF Recording, SameJob, SameCycle
    <3>2. /\ task[b].outcome \in Good <=> Told(task[b].of, task[b].number)
          /\ task[b].providerAccepted => task[b].outcome \in Good
      BY <3>1 DEF Answers, Answered
    <3>3. ToldAfter(task[b].of, task[b].number) <=> Told(task[b].of, task[b].number)
      <4>1. ~AnswerSuccess(b)
        BY <3>1 DEF AnswerSuccess, Waiting, RecordPC
      <4> QED
        BY <3>1, <4>1, ToldToHolder
    <3>4. task'[b].outcome \in Good <=> task[b].outcome \in Good
      BY <2>1, <3>2 DEF Recording, Good
    <3>5. task'[b].providerAccepted => task[b].providerAccepted
      BY <2>1 DEF Recording
    <3> QED
      BY <3>1, <3>2, <3>3, <3>4, <3>5 DEF SameJob, SameCycle
  <2>2. CASE Deciding(b)
    <3>1. task[b].pc \in SendPC /\ SameJob(b)
      BY <2>2 DEF Deciding
    <3>2. task[b].of \in Outbound /\ ~Told(task[b].of, task[b].number)
      BY <3>1, Holder DEF Answers, Answered
    <3>3. CASE task'[b].outcome = "sent" /\ AnswerSuccess(b)
      BY <3>1, <3>2, <3>3, ToldOnly DEF Good, SameJob, SameCycle
    <3>4. CASE task'[b].outcome \in {"retryable_failed", "terminal_failed"} /\ confirmed' = confirmed
      <4>1. ~ToldAfter(task[b].of, task[b].number)
        BY <3>2, <3>4 DEF Told, ToldAfter
      <4> QED
        BY <2>2, <3>1, <3>4, <4>1 DEF Good, SameJob, SameCycle, Deciding
    <3> QED
      BY <2>2, <3>3, <3>4 DEF Deciding
  <2> QED
    BY <2>1, <2>2, StepOrigin DEF Origin, Starting, Finding, Sending, Claiming, RecordPC
<1>4. \A o \in Outbound :
        /\ rows'[o].status \in Good => ToldAfter(o, rows'[o].attemptCount)
        /\ rows'[o].status \in {"retryable_failed", "terminal_failed"} =>
             ~ToldAfter(o, rows'[o].attemptCount)
  <2> SUFFICES ASSUME NEW o \in Outbound
               PROVE  /\ rows'[o].status \in Good => ToldAfter(o, rows'[o].attemptCount)
                      /\ rows'[o].status \in {"retryable_failed", "terminal_failed"} =>
                           ~ToldAfter(o, rows'[o].attemptCount)
    OBVIOUS
  <2>1. CASE rows'[o] = rows[o]
    <3>1. /\ rows[o].status \in Good => Told(o, rows[o].attemptCount)
          /\ rows[o].status \in {"retryable_failed", "terminal_failed"} =>
               ~Told(o, rows[o].attemptCount)
      BY DEF Answers, OutcomeMatchesAnswer, Good
    <3>2. CASE confirmed' = confirmed
      BY <2>1, <3>1, <3>2 DEF Told, ToldAfter
    <3>3. ASSUME NEW a \in Attempt, AnswerSuccess(a)
          PROVE  \/ ToldAfter(o, rows[o].attemptCount) <=> Told(o, rows[o].attemptCount)
                 \/ rows[o].status = "claimed"
      <4>1. Answered(task[a]) /\ task[a].pc \in SendPC
        BY <3>3 DEF Answers, AnswerSuccess, Waiting, SendPC
      <4> QED
        BY <3>3, <4>1, ToldOnly DEF Answered
    <3> QED
      BY <2>1, <3>1, <3>2, <3>3, ToldStep DEF Good
  <2>2. CASE rows[o] = AbsentRow /\ rows'[o] = PendingRow(clock)
    BY <2>2 DEF PendingRow, Good
  <2>3. CASE \E a \in Attempt : ClaimedBy(a, o)
    BY <2>3, ClaimFound DEF Good
  <2>4. ASSUME NEW a \in Attempt, RecordedBy(a, o), rows'[o] # rows[o]
        PROVE  /\ rows'[o].status \in Good => ToldAfter(o, rows'[o].attemptCount)
               /\ rows'[o].status \in {"retryable_failed", "terminal_failed"} =>
                    ~ToldAfter(o, rows'[o].attemptCount)
    <3>1. /\ task[a].pc \in RecordPC /\ task[a].of = o
          /\ rows'[o].status = task[a].outcome /\ rows'[o].attemptCount = task[a].number
      BY <2>4, RecordFound DEF RecordedBy, WritePC, RecordPC
    <3>2. task[a].outcome \in Good <=> Told(o, task[a].number)
      BY <3>1 DEF Answers, Answered
    <3>3. ToldAfter(o, task[a].number) <=> Told(o, task[a].number)
      <4>1. ~AnswerSuccess(a)
        BY <3>1 DEF AnswerSuccess, Waiting, RecordPC
      <4> QED
        BY <3>1, <4>1, ToldToHolder
    <3> QED
      BY <3>1, <3>2, <3>3 DEF Good
  <2> QED
    BY <2>1, <2>2, <2>3, <2>4, RowWritten
<1> QED
  BY <1>1, <1>2, <1>3, <1>4 DEF Answers, Answered, OutcomeMatchesAnswer, Told, ToldAfter, Good

\* What the table says of a reply is what Graph told us of the very attempt it speaks of.
THEOREM OutcomesMatchAnswers == Spec => []OutcomeMatchesAnswer
<1>1. Answers => OutcomeMatchesAnswer
  BY DEF Answers
<1> QED
  BY <1>1, TypeInit, TypeNext, FenceInit, FenceNext, AnswersInit, AnswersNext, PTL DEF Spec

-----------------------------------------------------------------------------
(***************************************************************************)
(* The schedule.  A dispatch works with the instant its cycle began, which *)
(* is in the past: what was due then is due now, provided the failure it   *)
(* saw is still the last one when its UPDATE is made.                      *)
(***************************************************************************)

\* A failure that was seen is still what the row says, or the row has been claimed since.
Scheduled(t) ==
  t.pc = "claim_write" /\ t.seen.status = "retryable_failed" =>
    /\ t.seen.nextAttemptAt <= t.now
    /\ rows[t.of] = t.seen \/ rows[t.of].attemptCount > t.seen.attemptCount

Schedule ==
  /\ \A w \in Worker : worker[w].mode = "cycle" => worker[w].now <= clock
  /\ \A a \in Attempt : task[a].pc # "idle" => task[a].now <= clock /\ Scheduled(task[a])

LEMMA ScheduleInit == Init => Schedule
BY DEF Init, Schedule, StoppedWorker, Resting, Idle

LEMMA ClockGrows ==
  ASSUME TypeInv, [Next]_vars
  PROVE  clock \in Nat /\ clock' \in Nat /\ clock <= clock'
<1>1. clock \in Nat
  BY DEF TypeInv, TypeOK
<1>2. clock' = clock \/ Tick
  BY DEF Next, WorkerStep, DispatchStep, GraphStep, FaultStep, vars, CreateOrGet,
     StartWorker, BeginCycle, StartDispatch, EndCycle, EndSleep, ClaimRead, ClaimWrite, SendRequest,
     PrepareFails, AnswerSuccess, AnswerUnconfirmed, AnswerFailure, NoAnswer, RecordRead,
     RecordWrite, GraphAccepts, GraphRefuses, RequestLost, Shutdown, Crash, StatementFails, AnswerLost
<1> QED
  BY <1>1, <1>2 DEF Tick

\* A cycle keeps the instant it began with.
LEMMA CycleClock ==
  ASSUME TypeInv, [Next]_vars, NEW w \in Worker, worker'[w].mode = "cycle"
  PROVE  \/ worker'[w].now = clock
         \/ worker[w].mode = "cycle" /\ worker'[w].now = worker[w].now
<1>0. worker \in [Worker -> WorkerState]
  BY DEF TypeInv, TypeOK
<1>1. CASE worker' = worker
  BY <1>1
<1>2. ASSUME NEW x \in Worker,
             StartWorker(x) \/ EndCycle(x) \/ EndSleep(x) \/ Crash(x)
      PROVE  worker'[w] = worker[w]
  BY <1>0, <1>2 DEF StartWorker, EndCycle, EndSleep, Crash, StoppedWorker, Resting
<1>3. ASSUME NEW x \in Worker, BeginCycle(x) PROVE worker'[w] = worker[w] \/ worker'[w].now = clock
  BY <1>0, <1>3 DEF BeginCycle
<1>4. ASSUME NEW x \in Worker, StartDispatch(x) \/ Shutdown(x)
      PROVE  worker[w].mode = "cycle" /\ worker'[w].now = worker[w].now
  <2>1. PICK queue, stopping :
          worker' = [worker EXCEPT ![x].queue = queue] \/ worker' = [worker EXCEPT ![x].shuttingDown = stopping]
    BY <1>4 DEF StartDispatch, Shutdown
  <2>2. worker'[w].mode = worker[w].mode /\ worker'[w].now = worker[w].now
    BY <1>0, <2>1 DEF WorkerState
  <2> QED
    BY <2>2
<1>5. \/ worker' = worker
      \/ \E x \in Worker : \/ StartWorker(x) \/ EndCycle(x) \/ EndSleep(x) \/ Crash(x)
                           \/ BeginCycle(x) \/ StartDispatch(x) \/ Shutdown(x)
  BY DEF Next, WorkerStep, DispatchStep, GraphStep, FaultStep, vars, CreateOrGet, Tick,
     ClaimRead, ClaimWrite, SendRequest, PrepareFails, AnswerSuccess, AnswerUnconfirmed,
     AnswerFailure, NoAnswer, RecordRead, RecordWrite, GraphAccepts, GraphRefuses, RequestLost,
     StatementFails, AnswerLost
<1> QED
  BY <1>1, <1>2, <1>3, <1>4, <1>5

LEMMA ScheduleNext == TypeInv /\ Fence /\ Schedule /\ [Next]_vars => Schedule'
<1> SUFFICES ASSUME TypeInv, Fence, Schedule, [Next]_vars PROVE Schedule'
  OBVIOUS
<1>1. \A w \in Worker : worker'[w].mode = "cycle" => worker'[w].now <= clock'
  <2> SUFFICES ASSUME NEW w \in Worker, worker'[w].mode = "cycle" PROVE worker'[w].now <= clock'
    OBVIOUS
  <2>1. worker[w].mode = "cycle" => worker[w].now \in Nat /\ worker[w].now <= clock
    BY DEF Schedule, TypeInv, CycleShape
  <2> QED
    BY <2>1, CycleClock, ClockGrows
<1>2. ASSUME NEW b \in Attempt, task'[b].pc # "idle" PROVE task'[b].now <= clock'
  <2>1. CASE task[b].pc # "idle" /\ task'[b].now = task[b].now
    <3>1. task[b].now \in Nat /\ task[b].now <= clock
      BY <2>1, ActiveTask DEF TypeInv, TaskState, Schedule
    <3> QED
      BY <2>1, <3>1, ClockGrows
  <2>2. CASE Starting(b)
    <3>1. PICK w \in Worker : worker[w].mode = "cycle" /\ task'[b].now = worker[w].now
      BY <2>2 DEF Starting
    <3>2. worker[w].now \in Nat /\ worker[w].now <= clock
      BY <3>1 DEF Schedule, TypeInv, CycleShape
    <3> QED
      BY <3>1, <3>2, ClockGrows
  <2> QED
    BY <1>2, <2>1, <2>2, StepOrigin DEF Origin, Finding, Sending, Claiming, Deciding, Recording,
       SameJob, SameCycle, SendPC, RecordPC
<1>3. ASSUME NEW b \in Attempt, task'[b].pc = "claim_write",
             task'[b].seen.status = "retryable_failed"
      PROVE  /\ task'[b].seen.nextAttemptAt <= task'[b].now
             /\ \/ rows'[task'[b].of] = task'[b].seen
                \/ rows'[task'[b].of].attemptCount > task'[b].seen.attemptCount
  <2>1. CASE Finding(b)
    BY <1>3, <2>1 DEF Finding, SameJob, SameCycle, Claimable
  <2>2. CASE task'[b] = task[b]
    <3> DEFINE o == task[b].of
               r == task[b].seen
    <3>1. o \in Outbound /\ r \in Row
      BY <1>3, <2>2, ActiveTask DEF TypeInv, TaskState
    <3>2. /\ r.nextAttemptAt <= task[b].now
          /\ rows[o] = r \/ rows[o].attemptCount > r.attemptCount
      BY <1>3, <2>2 DEF Schedule, Scheduled
    <3>3. r.attemptCount \in Nat
      BY <3>1 DEF Row
    <3>4. CASE rows[o].attemptCount > r.attemptCount
      <4>1. /\ rows[o].attemptCount \in Nat /\ rows'[o].attemptCount \in Nat
            /\ rows[o].attemptCount <= rows'[o].attemptCount
        BY <3>1, CountGrows
      <4> QED
        BY <2>2, <3>2, <3>3, <3>4, <4>1
    <3>5. CASE rows[o] = r
      <4>1. rows[o].status = "retryable_failed"
        BY <1>3, <2>2, <3>5
      <4>2. CASE rows'[o] = rows[o]
        BY <2>2, <3>2, <3>5, <4>2
      <4>3. CASE \E a \in Attempt : ClaimedBy(a, o)
        <5>1. rows'[o].attemptCount = r.attemptCount + 1
          BY <3>1, <3>5, <4>3, ClaimFound
        <5> QED
          BY <2>2, <3>2, <3>3, <5>1
      <4>4. CASE \E a \in Attempt : RecordedBy(a, o)
        BY <3>1, <4>1, <4>4, RecordFound
      <4> QED
        BY <3>1, <4>1, <4>2, <4>3, <4>4, RowWritten DEF AbsentRow
    <3> QED
      BY <3>2, <3>4, <3>5
  <2> QED
    BY <1>3, <2>1, <2>2, StepOrigin DEF Origin, Starting, Sending, Claiming, Deciding, Recording,
       RecordPC
<1> QED
  BY <1>1, <1>2, <1>3 DEF Schedule, Scheduled

-----------------------------------------------------------------------------
(***************************************************************************)
(* The refinement.  A step changes one row, or hears one answer, or moves  *)
(* the clock, or changes nothing the ledger sees.                          *)
(***************************************************************************)

LEMMA StepKind ==
  ASSUME [Next]_vars
  PROVE  \/ rows' = rows /\ confirmed' = confirmed /\ clock' = clock
         \/ Tick
         \/ \E a \in Attempt : AnswerSuccess(a)
         \/ \E o : \E r : /\ rows' = [rows EXCEPT ![o] = r]
                          /\ confirmed' = confirmed /\ clock' = clock
BY DEF Next, WorkerStep, DispatchStep, GraphStep, FaultStep, vars, CreateOrGet,
   StartWorker, BeginCycle, StartDispatch, EndCycle, EndSleep, ClaimRead, ClaimWrite, SendRequest,
   PrepareFails, AnswerUnconfirmed, AnswerFailure, NoAnswer, RecordRead, RecordWrite,
   GraphAccepts, GraphRefuses, RequestLost, Shutdown, Crash, StatementFails, AnswerLost

\* The ledger's state, read off the rows.
reply == [o \in Outbound |-> rows[o].status]
tries == [o \in Outbound |-> rows[o].attemptCount]
told == [o \in Outbound |-> {n \in 1..MaxAttempt : Told(o, n)}]
due == [o \in Outbound |-> IF rows[o].status = "retryable_failed" THEN rows[o].nextAttemptAt ELSE 0]

LEMMA LedgerInit == Init => Ledger!Init
BY DEF Init, Ledger!Init, AbsentRow, Told

\* What a change of one row is to the ledger.
LEMMA RowToLedger ==
  ASSUME TypeInv, NEW o \in Outbound, NEW r, rows' = [rows EXCEPT ![o] = r]
  PROVE  /\ reply' = [reply EXCEPT ![o] = r.status]
         /\ tries' = [tries EXCEPT ![o] = r.attemptCount]
         /\ due' = [due EXCEPT ![o] = IF r.status = "retryable_failed" THEN r.nextAttemptAt ELSE 0]
         /\ reply[o] = rows[o].status /\ tries[o] = rows[o].attemptCount
         /\ rows'[o] = r
<1>1. \A p \in Outbound : rows'[p] = IF p = o THEN r ELSE rows[p]
  BY DEF TypeInv, TypeOK
<1>2. reply' = [reply EXCEPT ![o] = r.status]
  <2>1. \A p \in Outbound : rows'[p].status = IF p = o THEN r.status ELSE rows[p].status
    BY <1>1
  <2> QED
    BY <2>1 DEF reply
<1>3. tries' = [tries EXCEPT ![o] = r.attemptCount]
  <2>1. \A p \in Outbound :
          rows'[p].attemptCount = IF p = o THEN r.attemptCount ELSE rows[p].attemptCount
    BY <1>1
  <2> QED
    BY <2>1 DEF tries
<1>4. due' = [due EXCEPT ![o] = IF r.status = "retryable_failed" THEN r.nextAttemptAt ELSE 0]
  <2>1. /\ o \in Outbound
        /\ \A p \in Outbound \ {o} : rows'[p] = rows[p]
        /\ rows'[o] = r
    BY <1>1
  <2> DEFINE late(x) == IF x.status = "retryable_failed" THEN x.nextAttemptAt ELSE 0
  <2>2. due = [p \in Outbound |-> late(rows[p])] /\ due' = [p \in Outbound |-> late(rows'[p])]
    BY DEF due
  <2> HIDE DEF late
  <2>3. due' = [due EXCEPT ![o] = late(r)]
    BY <2>1, <2>2
  <2> QED
    BY <2>3 DEF late
<1>5. reply[o] = rows[o].status /\ tries[o] = rows[o].attemptCount
  BY DEF reply, tries
<1> QED
  BY <1>1, <1>2, <1>3, <1>4, <1>5

LEMMA LedgerNext ==
  TypeInv /\ Fence /\ Answers /\ Schedule /\ [Next]_vars => [Ledger!Next]_(Ledger!ledger)
<1> SUFFICES ASSUME TypeInv, Fence, Answers, Schedule, [Next]_vars
             PROVE  [Ledger!Next]_(Ledger!ledger)
  OBVIOUS
<1>1. CASE rows' = rows /\ confirmed' = confirmed /\ clock' = clock
  BY <1>1 DEF Ledger!ledger, Told
<1>2. CASE Tick
  BY <1>2 DEF Tick, Ledger!Next, Ledger!Tick, Told
<1>3. ASSUME NEW a \in Attempt, AnswerSuccess(a) PROVE Ledger!Next
  <2> DEFINE o == task[a].of
             n == task[a].number
  <2>1. /\ o \in Outbound /\ n \in 1..rows[o].attemptCount /\ n \in 1..MaxAttempt
    <3>1. o \in Outbound /\ n \in 1..rows[o].attemptCount
      BY <1>3, Holder DEF AnswerSuccess, Waiting, SendPC
    <3>2. rows[o].attemptCount \in 0..MaxAttempt
      BY <3>1 DEF TypeInv, TypeOK, Row
    <3> QED
      BY <3>1, <3>2, BoundAssumption
  <2>2. /\ ~Told(o, n)
        /\ n = rows[o].attemptCount => rows[o].status = "claimed"
    BY <1>3 DEF Answers, Answered, AnswerSuccess, Waiting, SendPC
  <2>3. told' = [told EXCEPT ![o] = @ \cup {n}]
    <3>1. \A p \in Outbound : \A m : ToldAfter(p, m) <=> (Told(p, m) \/ (p = o /\ m = n))
      BY <1>3, ToldOnly
    <3>2. told' = [p \in Outbound |-> {m \in 1..MaxAttempt : ToldAfter(p, m)}]
      BY DEF told, Told, ToldAfter
    <3>3. told = [p \in Outbound |-> {m \in 1..MaxAttempt : Told(p, m)}]
      BY DEF told
    <3>4. \A p \in Outbound :
             told'[p] = IF p = o THEN told[p] \cup {n} ELSE told[p]
      BY <2>1, <3>1, <3>2, <3>3
    <3> QED
      BY <2>1, <3>2, <3>3, <3>4
  <2>4. rows' = rows /\ clock' = clock
    BY <1>3 DEF AnswerSuccess
  <2>5. /\ reply' = reply /\ tries' = tries /\ due' = due
        /\ reply[o] = rows[o].status /\ tries[o] = rows[o].attemptCount
        /\ n \notin told[o]
    <3>1. reply' = reply /\ tries' = tries /\ due' = due
      BY <2>4 DEF reply, tries, due
    <3>2. reply[o] = rows[o].status /\ tries[o] = rows[o].attemptCount
      BY <2>1 DEF reply, tries
    <3>3. told = [p \in Outbound |-> {m \in 1..MaxAttempt : Told(p, m)}]
      BY DEF told
    <3> QED
      BY <2>1, <2>2, <3>1, <3>2, <3>3
  <2>6. Ledger!Hear(o, n)
    BY <2>1, <2>2, <2>3, <2>4, <2>5 DEF Ledger!Hear, reply, tries, due, told
  <2> QED
    BY <2>1, <2>6 DEF Ledger!Next
<1>4. ASSUME NEW o \in Outbound, NEW r, rows' = [rows EXCEPT ![o] = r], rows'[o] # rows[o],
             confirmed' = confirmed, clock' = clock
      PROVE  Ledger!Next
  <2>1. /\ reply' = [reply EXCEPT ![o] = r.status]
        /\ tries' = [tries EXCEPT ![o] = r.attemptCount]
        /\ due' = [due EXCEPT ![o] = IF r.status = "retryable_failed" THEN r.nextAttemptAt ELSE 0]
        /\ reply[o] = rows[o].status /\ tries[o] = rows[o].attemptCount
        /\ rows'[o] = r
    BY <1>4, RowToLedger
  <2>2. told' = told
    BY <1>4 DEF told, Told
  <2>3. rows[o] \in Row /\ r \in Row
    BY <2>1, TypeNext DEF TypeInv, TypeOK
  <2>4. CASE rows[o] = AbsentRow /\ rows'[o] = PendingRow(clock)
    <3>1. /\ r.status = "pending" /\ r.attemptCount = 0
          /\ rows[o].status = "absent" /\ rows[o].attemptCount = 0
      BY <2>1, <2>4 DEF PendingRow, AbsentRow
    <3>2. tries' = tries /\ due' = due
      BY <2>1, <3>1 DEF tries, due
    <3>3. Ledger!Store(o)
      BY <1>4, <2>1, <2>2, <3>1, <3>2 DEF Ledger!Store, reply, tries, told, due
    <3> QED
      BY <3>3 DEF Ledger!Next
  <2>5. ASSUME NEW a \in Attempt, ClaimedBy(a, o) PROVE Ledger!Next
    <3>1. /\ rows[o].status \in {"pending", "claimed", "retryable_failed"}
          /\ r.status = "claimed" /\ r.attemptCount = rows[o].attemptCount + 1
      BY <2>1, <2>5, ClaimFound
    <3>2. rows[o].status = "retryable_failed" => rows[o].nextAttemptAt <= clock
      <4> SUFFICES ASSUME rows[o].status = "retryable_failed" PROVE rows[o].nextAttemptAt <= clock
        OBVIOUS
      <4>1. /\ task[a].seen.status = "retryable_failed"
            /\ rows[o].attemptCount = task[a].seen.attemptCount
        BY <2>5, ClaimFound
      <4>2. /\ task[a].now <= clock /\ task[a].seen.nextAttemptAt <= task[a].now
            /\ rows[o] = task[a].seen \/ rows[o].attemptCount > task[a].seen.attemptCount
        BY <2>5, <4>1 DEF Schedule, Scheduled, ClaimedBy
      <4>3. rows[o] = task[a].seen
        BY <2>3, <4>1, <4>2 DEF Row
      <4>4. rows[o].nextAttemptAt \in Nat /\ task[a].now \in Nat /\ clock \in Nat
        <5>1. rows[o].nextAttemptAt # NoTime
          BY DEF Fence, RowsStayAuthoritative, AbsentRow
        <5>2. task[a] \in TaskState
          BY <2>5, ActiveTask DEF TypeInv, ClaimedBy
        <5> QED
          BY <2>3, <5>1, <5>2 DEF Row, Time, TaskState, TypeInv, TypeOK
      <4> QED
        BY <4>2, <4>3, <4>4
    <3>3. Ledger!Try(o)
      BY <1>4, <2>1, <2>2, <3>1, <3>2 DEF Ledger!Try, reply, tries, told, due
    <3> QED
      BY <3>3 DEF Ledger!Next
  <2>6. ASSUME NEW a \in Attempt, RecordedBy(a, o) PROVE Ledger!Next
    <3>1. /\ rows[o].status = "claimed" /\ rows[o].attemptCount = task[a].number
          /\ r.status = task[a].outcome /\ r.attemptCount = rows[o].attemptCount
      BY <2>1, <2>6, RecordFound
    <3>2. /\ task[a].pc \in RecordPC /\ task[a].of = o
      BY <2>6 DEF RecordedBy, WritePC, RecordPC
    <3>3. r.status \in Ledger!ValidTransition["claimed"]
      <4>1. task[a].outcome \in Outcome \ {"none"}
        BY <3>2, ActiveTask DEF TypeInv, TaskShape, Shape, TaskState, RecordPC
      <4> QED
        BY <3>1, <4>1 DEF Outcome, Ledger!ValidTransition
    <3>4. r.status \in Good <=> rows[o].attemptCount \in told[o]
      <4>1. task[a].outcome \in Good <=> Told(o, task[a].number)
        BY <3>2 DEF Answers, Answered
      <4>2. task[a].number \in 1..MaxAttempt
        <5>1. task[a].number \in 1..rows[o].attemptCount
          BY <3>2, Holder
        <5> QED
          BY <2>3, <3>1, <5>1 DEF Row
      <4> QED
        BY <3>1, <4>1, <4>2 DEF told
    <3>5. CASE r.status = "retryable_failed"
      <4>1. r.nextAttemptAt \in Nat
        <5>1. RowsStayAuthoritative'
          BY FenceNext DEF Fence
        <5>2. rows'[o] # AbsentRow
          BY <2>1, <3>5 DEF AbsentRow
        <5>3. rows'[o].status = "retryable_failed" => rows'[o].nextAttemptAt # NoTime
          BY <5>1, <5>2 DEF RowsStayAuthoritative
        <5> QED
          BY <2>1, <2>3, <3>5, <5>3 DEF Row, Time
      <4>2. due'[o] \in Nat /\ due' = [due EXCEPT ![o] = due'[o]]
        BY <2>1, <3>5, <4>1 DEF due
      <4>3. tries' = tries
        BY <2>1, <3>1 DEF tries
      <4>4. Ledger!End(o, r.status)
        BY <1>4, <2>1, <2>2, <3>1, <3>3, <3>4, <3>5, <4>2, <4>3
           DEF Ledger!End, reply, tries, told, due, Good
      <4> QED
        BY <3>3, <4>4 DEF Ledger!Next
    <3>6. CASE r.status # "retryable_failed"
      <4>1. due' = due /\ tries' = tries
        BY <2>1, <3>1, <3>6 DEF due, tries
      <4>2. Ledger!End(o, r.status)
        BY <1>4, <2>1, <2>2, <3>1, <3>3, <3>4, <3>6, <4>1
           DEF Ledger!End, reply, tries, told, due, Good
      <4> QED
        BY <3>3, <4>2 DEF Ledger!Next
    <3> QED
      BY <3>5, <3>6
  <2> QED
    BY <1>4, <2>4, <2>5, <2>6, RowWritten
<1>5. ASSUME NEW o, NEW r, rows' = [rows EXCEPT ![o] = r],
             confirmed' = confirmed, clock' = clock
      PROVE  [Ledger!Next]_(Ledger!ledger)
  <2>1. CASE rows' = rows
    BY <1>1, <1>5, <2>1
  <2>2. CASE rows' # rows
    <3>1. o \in Outbound /\ rows'[o] # rows[o]
      BY <1>5, <2>2 DEF TypeInv, TypeOK
    <3> QED
      BY <1>4, <1>5, <3>1
  <2> QED
    BY <2>1, <2>2
<1> QED
  BY <1>1, <1>2, <1>3, <1>5, StepKind

\* The dispatch implements its ledger, for any number of workers, rows, attempts and faults.
THEOREM LedgerIsImplemented == Spec => ImplementsLedger
<1> QED
  BY LedgerInit, LedgerNext, TypeInit, TypeNext, FenceInit, FenceNext, AnswersInit, AnswersNext,
     ScheduleInit, ScheduleNext, PTL DEF Spec, ImplementsLedger, Ledger!Spec

-----------------------------------------------------------------------------
(***************************************************************************)
(* Staleness.  A cycle reads the clock once, and a row's claimed_at is     *)
(* that reading of its last claimant.  A claim tests it at the SELECT; the *)
(* optimistic lock makes it the claimed_at the UPDATE replaces.            *)
(***************************************************************************)

SeenPC == {"claim_write", "record_write", "hold_write"}

\* A row with the count that was seen is as old as the row seen, and the row itself if that
\* was waiting for a claim.
SeenPast(t) ==
  t.pc \in SeenPC =>
    /\ t.seen.attemptCount <= rows[t.of].attemptCount
    /\ t.seen.attemptCount = rows[t.of].attemptCount =>
         /\ t.seen.claimedAt = rows[t.of].claimedAt
         /\ t.seen.status \in RetryStatus => rows[t.of] = t.seen
    /\ t.pc = "claim_write" => Claimable(t.seen, t.now)

InCycle(t) ==
  t.pc # "idle" => worker[t.by].mode = "cycle" /\ t.now = worker[t.by].now

HeldSince(a, o) ==
  /\ task[a].number = rows[o].attemptCount =>
       task[a].now = rows[o].claimedAt /\ rows[o].status \in {"claimed"} \cup FinalStatus
  /\ task[a].number < rows[o].attemptCount => task[a].now + StaleAfter <= rows[o].claimedAt
  /\ \A b \in Attempt : Owns(b, o) /\ task[a].number < task[b].number =>
       task[a].now + StaleAfter <= task[b].now

WaitsAfterClaim(r) ==
  r.status = "retryable_failed" => r.claimedAt \in Nat /\ r.claimedAt <= r.nextAttemptAt

Staleness ==
  /\ \A a \in Attempt : InCycle(task[a]) /\ SeenPast(task[a])
  /\ \A o \in Outbound : WaitsAfterClaim(rows[o])
  /\ \A o \in Outbound : \A a \in Attempt : Owns(a, o) => HeldSince(a, o)

LEMMA StalenessInit == Init => Staleness
BY DEF Init, Staleness, InCycle, SeenPast, SeenPC, WaitsAfterClaim, Owns, OwningPC, Idle, AbsentRow

\* A cycle ends when nothing runs in it, or with all that runs in it.
LEMMA CycleStays ==
  ASSUME TypeInv, [Next]_vars, NEW w \in Worker, worker[w].mode = "cycle",
         NEW b \in Attempt, task[b].pc # "idle", task[b].by = w, task'[b].pc # "idle"
  PROVE  worker'[w].mode = "cycle" /\ worker'[w].now = worker[w].now
<1>0. worker \in [Worker -> WorkerState] /\ task \in [Attempt -> TaskState \cup {Idle}]
  BY DEF TypeInv, TypeOK
<1>1. ASSUME NEW x \in Worker, StartWorker(x) \/ EndSleep(x) \/ BeginCycle(x)
      PROVE  worker'[w] = worker[w]
  BY <1>0, <1>1 DEF StartWorker, EndSleep, BeginCycle
<1>2. ASSUME NEW x \in Worker, StartDispatch(x) \/ Shutdown(x)
      PROVE  worker'[w].mode = "cycle" /\ worker'[w].now = worker[w].now
  BY <1>0, <1>2 DEF StartDispatch, Shutdown, WorkerState
<1>3. ASSUME NEW x \in Worker, EndCycle(x) \/ Crash(x)
      PROVE  worker'[w] = worker[w]
  <2>1. x # w
    BY <1>0, <1>3 DEF EndCycle, Crash, Running, Idle
  <2> QED
    BY <1>0, <1>3, <2>1 DEF EndCycle, Crash
<1>4. \/ worker' = worker
      \/ \E x \in Worker : \/ StartWorker(x) \/ EndSleep(x) \/ BeginCycle(x)
                           \/ StartDispatch(x) \/ Shutdown(x) \/ EndCycle(x) \/ Crash(x)
  BY DEF Next, WorkerStep, DispatchStep, GraphStep, FaultStep, vars, CreateOrGet, Tick,
     ClaimRead, ClaimWrite, SendRequest, PrepareFails, AnswerSuccess, AnswerUnconfirmed,
     AnswerFailure, NoAnswer, RecordRead, RecordWrite, GraphAccepts, GraphRefuses, RequestLost,
     StatementFails, AnswerLost
<1> QED
  BY <1>1, <1>2, <1>3, <1>4

LEMMA InCycleNext ==
  ASSUME TypeInv, Fence, Staleness, [Next]_vars, NEW b \in Attempt
  PROVE  InCycle(task[b])'
<1> SUFFICES ASSUME task'[b].pc # "idle"
             PROVE  worker'[task'[b].by].mode = "cycle" /\ task'[b].now = worker'[task'[b].by].now
  BY DEF InCycle
<1>1. CASE Starting(b)
  <2>1. PICK w \in Worker :
          /\ worker[w].mode = "cycle" /\ worker' = [worker EXCEPT ![w].queue = Tail(@)]
          /\ task'[b].now = worker[w].now /\ task'[b].by = w
    BY <1>1 DEF Starting
  <2>2. worker'[w].mode = worker[w].mode /\ worker'[w].now = worker[w].now
    BY <2>1 DEF TypeInv, TypeOK, WorkerState
  <2> QED
    BY <2>1, <2>2
<1>2. CASE task[b].pc # "idle" /\ task'[b].by = task[b].by /\ task'[b].now = task[b].now
  <2>1. task[b].by \in Worker
    BY <1>2, ActiveTask DEF TypeInv, TaskState
  <2>2. worker[task[b].by].mode = "cycle" /\ task[b].now = worker[task[b].by].now
    BY <1>2 DEF Staleness, InCycle
  <2> QED
    BY <1>2, <2>1, <2>2, CycleStays
<1>3. task'[b] = task[b] => task[b].pc # "idle" /\ task'[b].by = task[b].by /\ task'[b].now = task[b].now
  OBVIOUS
<1> QED
  BY <1>1, <1>2, <1>3, StepOrigin DEF Origin, Finding, Sending, Claiming, Deciding, Recording,
     SameJob, SameCycle, SendPC, RecordPC

\* The times a claim and a record leave.
LEMMA ClaimTimes ==
  ASSUME NEW a \in Attempt, NEW o \in Outbound, ClaimedBy(a, o)
  PROVE  rows'[o].claimedAt = task[a].now /\ rows'[o].status = "claimed"
BY DEF ClaimedBy, Claimed

LEMMA RecordTimes ==
  ASSUME TypeInv, Fence, Staleness, NEW a \in Attempt, NEW o \in Outbound, RecordedBy(a, o)
  PROVE  /\ rows'[o].claimedAt = rows[o].claimedAt
         /\ rows'[o].status = "retryable_failed" =>
              /\ rows[o].claimedAt = task[a].now /\ task[a].now \in Nat
              /\ rows'[o].nextAttemptAt = task[a].now + task[a].delay /\ task[a].delay \in Nat
<1>1. task[a].pc \in SeenPC /\ task[a].of = o
  BY DEF RecordedBy, SeenPC, WritePC
<1>2. task[a] \in TaskState
  BY <1>1, ActiveTask DEF TypeInv, SeenPC
<1>3. /\ rows'[o].claimedAt = task[a].seen.claimedAt
      /\ rows'[o].status = task[a].outcome
      /\ task[a].outcome = "retryable_failed" => rows'[o].nextAttemptAt = task[a].now + task[a].delay
  BY DEF RecordedBy, Recorded
<1>4. task[a].seen.claimedAt = rows[o].claimedAt
  BY <1>1 DEF Staleness, SeenPast, RecordedBy, SameAuthority
<1>5. Owns(a, o) /\ task[a].number = rows[o].attemptCount
  BY <1>1, RecordFound DEF RecordedBy, Owns, OwningPC, WritePC
<1>6. task[a].now = rows[o].claimedAt
  BY <1>5 DEF Staleness, HeldSince
<1> QED
  BY <1>2, <1>3, <1>4, <1>6 DEF TaskState

LEMMA SeenPastNext ==
  ASSUME TypeInv, Fence, Staleness, [Next]_vars, NEW b \in Attempt
  PROVE  SeenPast(task[b])'
<1> SUFFICES ASSUME task'[b].pc \in SeenPC
             PROVE  LET t == task'[b]
                        r == rows'[t.of]
                    IN  /\ t.seen.attemptCount <= r.attemptCount
                        /\ t.seen.attemptCount = r.attemptCount =>
                             /\ t.seen.claimedAt = r.claimedAt
                             /\ t.seen.status \in RetryStatus => r = t.seen
                        /\ t.pc = "claim_write" => Claimable(t.seen, t.now)
  BY DEF SeenPast, Claimable, IsClaimStale
<1>1. CASE Finding(b)
  <2>1. rows' = rows /\ task'[b].of \in Outbound /\ task'[b].seen = rows[task'[b].of]
    BY <1>1 DEF Finding, SameJob
  <2>2. rows[task'[b].of].attemptCount \in Nat
    BY <2>1, CountGrows
  <2> QED
    BY <1>1, <2>1, <2>2 DEF Finding, SameJob, SameCycle
<1>2. CASE Recording(b)
  <2>1. /\ task'[b].pc \in WritePC /\ rows' = rows
        /\ task'[b].of \in Outbound /\ task'[b].seen = rows[task'[b].of]
    BY <1>2 DEF Recording, SameJob, SeenPC, WritePC, RecordPC
  <2>2. rows[task'[b].of].attemptCount \in Nat
    BY <2>1, CountGrows
  <2> QED
    BY <2>1, <2>2 DEF WritePC
<1>3. CASE task'[b] = task[b]
  <2> DEFINE t == task[b]
             o == task[b].of
  <2>1. o \in Outbound /\ t.seen \in Row /\ t.seen.attemptCount \in Nat
    BY <1>3, ActiveTask DEF TypeInv, TaskState, SeenPC, Row
  <2>2. /\ t.seen.attemptCount <= rows[o].attemptCount
        /\ t.seen.attemptCount = rows[o].attemptCount =>
             /\ t.seen.claimedAt = rows[o].claimedAt
             /\ t.seen.status \in RetryStatus => rows[o] = t.seen
        /\ t.pc = "claim_write" => Claimable(t.seen, t.now)
    BY <1>3 DEF Staleness, SeenPast
  <2>3. /\ rows[o].attemptCount \in Nat /\ rows'[o].attemptCount \in Nat
        /\ rows[o].attemptCount <= rows'[o].attemptCount
    BY <2>1, CountGrows
  <2> SUFFICES ASSUME t.seen.attemptCount = rows'[o].attemptCount
               PROVE  /\ t.seen.claimedAt = rows'[o].claimedAt
                      /\ t.seen.status \in RetryStatus => rows'[o] = t.seen
    BY <1>3, <2>1, <2>2, <2>3
  <2>4. t.seen.attemptCount = rows[o].attemptCount
    BY <2>1, <2>2, <2>3
  <2>5. CASE rows'[o] = rows[o]
    BY <2>2, <2>4, <2>5
  <2>6. CASE rows[o] = AbsentRow /\ rows'[o] = PendingRow(clock)
    BY <2>2, <2>4, <2>6 DEF AbsentRow, PendingRow, RetryStatus
  <2>7. ASSUME NEW a \in Attempt, ClaimedBy(a, o) PROVE FALSE
    <3>1. rows'[o].attemptCount = rows[o].attemptCount + 1
      BY <2>1, <2>7, ClaimFound
    <3>2. rows[o].attemptCount \in Nat /\ rows[o].attemptCount = rows'[o].attemptCount
      BY <2>3, <2>4
    <3> QED
      BY <3>1, <3>2
  <2>8. ASSUME NEW a \in Attempt, RecordedBy(a, o)
        PROVE  t.seen.claimedAt = rows'[o].claimedAt /\ t.seen.status \notin RetryStatus
    BY <2>1, <2>2, <2>4, <2>8, RecordFound, RecordTimes DEF RetryStatus
  <2> QED
    BY <2>1, <2>2, <2>4, <2>5, <2>6, <2>7, <2>8, RowWritten
<1> QED
  BY <1>1, <1>2, <1>3, StepOrigin DEF Origin, Starting, Sending, Claiming, Deciding, SeenPC

\* A claim comes at least StaleAfter after every dispatch it meets.
LEMMA ClaimIsLater ==
  ASSUME TypeInv, Fence, Staleness, NEW a \in Attempt, NEW o \in Outbound, ClaimedBy(a, o),
         NEW b \in Attempt, Owns(b, o)
  PROVE  task[b].now + StaleAfter <= task[a].now
<1>1. /\ task[a].pc = "claim_write" /\ task[a].of = o
      /\ task[a].seen.status = rows[o].status
      /\ task[a].seen.attemptCount = rows[o].attemptCount
  BY DEF ClaimedBy, SameAuthority
<1>2. /\ task[a].seen.claimedAt = rows[o].claimedAt
      /\ task[a].seen.status \in RetryStatus => rows[o] = task[a].seen
      /\ Claimable(task[a].seen, task[a].now)
  BY <1>1 DEF Staleness, SeenPast, SeenPC
<1>3. /\ task[a].now \in Nat /\ task[b].now \in Nat /\ task[b].number \in Nat
      /\ rows[o] \in Row /\ rows[o].attemptCount \in Nat
  BY <1>1, ActiveTask DEF Owns, OwningPC, TypeInv, TypeOK, TaskState, Row
<1>4. task[b].number \in 1..rows[o].attemptCount
  BY DEF Fence, AttemptHasOneOwner
<1>5. Authoritative(rows[o])
  <2>1. rows[o] # AbsentRow
    BY <1>3, <1>4 DEF AbsentRow
  <2> QED
    BY <2>1 DEF Fence, RowsStayAuthoritative
<1>6. HeldSince(b, o) /\ WaitsAfterClaim(rows[o])
  BY DEF Staleness
<1>7. CASE rows[o].status = "pending"
  <2>1. rows[o].attemptCount = 0
    BY <1>5, <1>7 DEF Authoritative
  <2> QED
    BY <1>3, <1>4, <2>1
<1>8. CASE rows[o].status = "claimed"
  <2>1. rows[o].claimedAt \in Nat
    BY <1>3, <1>5, <1>8 DEF Authoritative, Row, Time
  <2>2. rows[o].claimedAt + StaleAfter <= task[a].now
    BY <1>1, <1>2, <1>8 DEF Claimable, IsClaimStale
  <2>3. CASE task[b].number = rows[o].attemptCount
    BY <1>6, <2>2, <2>3 DEF HeldSince
  <2>4. CASE task[b].number < rows[o].attemptCount
    <3> DEFINE early == task[b].now
               then == rows[o].claimedAt
               late == task[a].now
    <3>1. early + StaleAfter <= then
      BY <1>6, <2>4 DEF HeldSince
    <3>2. early \in Nat /\ then \in Nat /\ late \in Nat /\ StaleAfter \in Nat
          /\ then + StaleAfter <= late
      BY <1>3, <2>1, <2>2, BoundAssumption
    <3> HIDE DEF early, then, late
    <3>3. early + StaleAfter <= late
      BY <3>1, <3>2
    <3> QED
      BY <3>3 DEF early, late
  <2> QED
    BY <1>3, <1>4, <2>3, <2>4
<1>9. CASE rows[o].status = "retryable_failed"
  <2>1. /\ rows[o].claimedAt \in Nat /\ rows[o].claimedAt <= rows[o].nextAttemptAt
        /\ rows[o].nextAttemptAt # NoTime /\ rows[o].nextAttemptAt <= task[a].now
    BY <1>1, <1>2, <1>6, <1>9 DEF WaitsAfterClaim, Claimable, RetryStatus
  <2>2. rows[o].nextAttemptAt \in Nat
    BY <1>3, <2>1 DEF Row, Time
  <2>3. task[b].number # rows[o].attemptCount
    BY <1>6, <1>9 DEF HeldSince, FinalStatus, TerminalStatus
  <2>4. task[b].now + StaleAfter <= rows[o].claimedAt
    BY <1>3, <1>4, <1>6, <2>3 DEF HeldSince
  <2> DEFINE early == task[b].now
             then == rows[o].claimedAt
             next == rows[o].nextAttemptAt
             late == task[a].now
  <2>5. early \in Nat /\ then \in Nat /\ next \in Nat /\ late \in Nat /\ StaleAfter \in Nat
        /\ early + StaleAfter <= then /\ then <= next /\ next <= late
    BY <1>3, <2>1, <2>2, <2>4, BoundAssumption
  <2> HIDE DEF early, then, next, late
  <2>6. early + StaleAfter <= late
    BY <2>5
  <2> QED
    BY <2>6 DEF early, late
<1> QED
  BY <1>1, <1>2, <1>7, <1>8, <1>9 DEF Claimable

\* A dispatch that holds a row held it before, or has just claimed it.
LEMMA OwnerOrigin ==
  ASSUME TypeInv, Fence, [Next]_vars, NEW a \in Attempt, NEW o \in Outbound, Owns(a, o)'
  PROVE  \/ Owns(a, o) /\ SameJob(a)
         \/ Claiming(a) /\ task[a].of = o
<1>1. task'[a].pc \in OwningPC /\ task'[a].of = o
  BY DEF Owns
<1>2. CASE task'[a] = task[a]
  BY <1>1, <1>2 DEF Owns, SameJob, SameCycle
<1>3. CASE Sending(a) \/ Deciding(a) \/ Recording(a)
  BY <1>1, <1>3 DEF Sending, Deciding, Recording, Owns, OwningPC, SendPC, RecordPC, SameJob
<1>4. CASE Claiming(a)
  BY <1>1, <1>4 DEF Claiming
<1> QED
  BY <1>1, <1>2, <1>3, <1>4, StepOrigin DEF Origin, Starting, Finding, OwningPC

LEMMA HeldSinceNext ==
  ASSUME TypeInv, Fence, Answers, Staleness, [Next]_vars,
         NEW a \in Attempt, NEW o \in Outbound, Owns(a, o)'
  PROVE  HeldSince(a, o)'
<1>0. /\ rows[o].attemptCount \in Nat /\ rows'[o].attemptCount \in Nat
      /\ rows[o].attemptCount <= rows'[o].attemptCount
  BY CountGrows
<1>a. TypeInv' /\ Fence'
  BY TypeNext, FenceNext
<1>1. ASSUME NEW b \in Attempt, Owns(b, o)
      PROVE  task[b].now \in Nat /\ task[b].number \in 1..rows[o].attemptCount
  BY <1>1, ActiveTask DEF Owns, OwningPC, TypeInv, TaskState, Fence, AttemptHasOneOwner
<1>2. CASE Claiming(a) /\ task[a].of = o
  <2>1. /\ ClaimedBy(a, o) /\ task'[a].now = task[a].now
        /\ task'[a].number = rows'[o].attemptCount
    BY <1>2 DEF Claiming, SameCycle
  <2>2. ASSUME NEW b \in Attempt, Owns(b, o)'
        PROVE  ~(task'[a].number < task'[b].number)
    <3>1. task'[b].number \in 1..rows'[o].attemptCount
      BY <1>a, <2>2 DEF Fence, AttemptHasOneOwner
    <3> QED
      BY <1>0, <2>1, <3>1
  <2> QED
    BY <1>0, <2>1, <2>2, ClaimTimes DEF HeldSince
<1>3. CASE Owns(a, o) /\ SameJob(a)
  <2>1. /\ HeldSince(a, o) /\ task'[a].now = task[a].now /\ task'[a].number = task[a].number
        /\ task[a].now \in Nat /\ task[a].number \in 1..rows[o].attemptCount
    BY <1>1, <1>3 DEF Staleness, SameJob, SameCycle
  <2>2. /\ task[a].number = rows'[o].attemptCount =>
             task[a].now = rows'[o].claimedAt /\ rows'[o].status \in {"claimed"} \cup FinalStatus
        /\ task[a].number < rows'[o].attemptCount => task[a].now + StaleAfter <= rows'[o].claimedAt
    <3>1. CASE rows'[o] = rows[o]
      BY <2>1, <3>1 DEF HeldSince
    <3>2. CASE rows[o] = AbsentRow
      <4>1. task[a].number \in 1..0
        BY <2>1, <3>2 DEF AbsentRow
      <4> QED
        BY <4>1
    <3>3. ASSUME NEW c \in Attempt, ClaimedBy(c, o)
          PROVE  /\ task[a].number # rows'[o].attemptCount
                 /\ task[a].now + StaleAfter <= rows'[o].claimedAt
      <4>1. rows'[o].attemptCount = rows[o].attemptCount + 1
        BY <3>3, ClaimFound
      <4>2. task[a].now + StaleAfter <= task[c].now
        BY <1>3, <3>3, ClaimIsLater
      <4> QED
        BY <1>0, <2>1, <3>3, <4>1, <4>2, ClaimTimes
    <3>4. ASSUME NEW c \in Attempt, RecordedBy(c, o)
          PROVE  /\ rows'[o].attemptCount = rows[o].attemptCount
                 /\ rows'[o].claimedAt = rows[o].claimedAt
                 /\ task[a].number = rows[o].attemptCount => rows'[o].status \in FinalStatus
      <4>1. /\ rows[o].token = c /\ rows'[o].status = task[c].outcome
            /\ rows'[o].attemptCount = rows[o].attemptCount
        BY <3>4, RecordFound
      <4>2. ASSUME task[a].number = rows[o].attemptCount
            PROVE  rows'[o].status \in FinalStatus
        <5>1. a = c
          BY <1>3, <4>1, <4>2, OwnerNamed DEF Fence
        <5>2. task[c].providerAccepted
          BY <3>4, <5>1 DEF RecordedBy, Owns, OwningPC
        <5>3. task[c].outcome \in Good
          BY <3>4, <5>2 DEF RecordedBy, Answers, Answered, WritePC, RecordPC
        <5> QED
          BY <4>1, <5>3 DEF Good, FinalStatus, TerminalStatus
      <4> QED
        BY <3>4, <4>1, <4>2, RecordTimes
    <3> QED
      BY <2>1, <3>1, <3>2, <3>3, <3>4, RowWritten DEF HeldSince
  <2>3. ASSUME NEW b \in Attempt, Owns(b, o)', task[a].number < task'[b].number
        PROVE  task[a].now + StaleAfter <= task'[b].now
    <3>1. CASE Owns(b, o) /\ SameJob(b)
      BY <2>1, <2>3, <3>1 DEF HeldSince, SameJob, SameCycle
    <3>2. CASE Claiming(b) /\ task[b].of = o
      BY <1>3, <3>2, ClaimIsLater DEF Claiming, SameCycle
    <3> QED
      BY <2>3, <3>1, <3>2, OwnerOrigin
  <2> QED
    BY <2>1, <2>2, <2>3 DEF HeldSince
<1> QED
  BY <1>2, <1>3, OwnerOrigin

LEMMA StalenessNext == TypeInv /\ Fence /\ Answers /\ Staleness /\ [Next]_vars => Staleness'
<1> SUFFICES ASSUME TypeInv, Fence, Answers, Staleness, [Next]_vars PROVE Staleness'
  OBVIOUS
<1>1. \A a \in Attempt : InCycle(task[a])' /\ SeenPast(task[a])'
  BY InCycleNext, SeenPastNext
<1>2. \A o \in Outbound : \A a \in Attempt : Owns(a, o)' => HeldSince(a, o)'
  BY HeldSinceNext
<1>3. ASSUME NEW o \in Outbound PROVE WaitsAfterClaim(rows'[o])
  <2>1. CASE rows'[o] = rows[o]
    BY <2>1 DEF Staleness
  <2>2. CASE rows'[o] = PendingRow(clock)
    BY <2>2 DEF PendingRow, WaitsAfterClaim
  <2>3. ASSUME NEW a \in Attempt, ClaimedBy(a, o) PROVE WaitsAfterClaim(rows'[o])
    BY <2>3, ClaimTimes DEF WaitsAfterClaim
  <2>4. ASSUME NEW a \in Attempt, RecordedBy(a, o) PROVE WaitsAfterClaim(rows'[o])
    BY <2>4, RecordTimes DEF WaitsAfterClaim
  <2> QED
    BY <2>1, <2>2, <2>3, <2>4, RowWritten
<1> QED
  BY <1>1, <1>2, <1>3 DEF Staleness, WaitsAfterClaim

\* Two dispatches are at work on one row only across a stale takeover by another process, for
\* any number of workers, pools and cycles.
THEOREM OverlapIsStale == Spec => []OverlapNeedsStaleCycle
<1>1. TypeInv /\ Staleness => OverlapNeedsStaleCycle
  <2> SUFFICES ASSUME TypeInv, Staleness, NEW o \in Outbound, NEW a \in Attempt, NEW b \in Attempt,
                      Owns(a, o), Owns(b, o), task[a].number < task[b].number
               PROVE  task[a].now + StaleAfter <= task[b].now /\ task[a].by # task[b].by
    BY DEF OverlapNeedsStaleCycle
  <2>1. task[a].now + StaleAfter <= task[b].now
    BY DEF Staleness, HeldSince
  <2>2. task[a].now \in Nat
    BY ActiveTask DEF Owns, OwningPC, TypeInv, TaskState
  <2>3. /\ task[a].now = worker[task[a].by].now
        /\ task[b].now = worker[task[b].by].now
    BY DEF Staleness, InCycle, Owns, OwningPC
  <2>4. task[a].now # task[b].now
    BY <2>1, <2>2, BoundAssumption
  <2> QED
    BY <2>1, <2>3, <2>4
<1> QED
  BY <1>1, TypeInit, TypeNext, FenceInit, FenceNext, AnswersInit, AnswersNext,
     StalenessInit, StalenessNext, PTL DEF Spec

-----------------------------------------------------------------------------
(***************************************************************************)
(* Requests.  A number is sent by the dispatch that claimed it, at once    *)
(* and never again.  So a number that is about to be sent is on no wire    *)
(* and taken nowhere, and no number is above the count of its row.         *)
(***************************************************************************)

Numbered(b, o, n) == wire[b] # NoRequest /\ wire[b].of = o /\ wire[b].number = n

Unsent(t) ==
  t.pc = "prepare" =>
    t.number \notin accepted[t.of] /\ \A b \in Attempt : ~Numbered(b, t.of, t.number)

\* The request a dispatch waits for is its own.
AwaitsOwn(a) ==
  Waiting(a) /\ wire[a] # NoRequest =>
    /\ Numbered(a, task[a].of, task[a].number)
    /\ wire[a].state = "accepted" => task[a].number \in accepted[task[a].of]

Requests ==
  /\ \A o \in Outbound : \A n \in accepted[o] : n <= rows[o].attemptCount
  /\ \A b \in Attempt : wire[b] # NoRequest => wire[b].number <= rows[wire[b].of].attemptCount
  /\ \A a \in Attempt : Unsent(task[a]) /\ AwaitsOwn(a)
  /\ AttemptSentOnce

LEMMA RequestsInit == Init => Requests
BY DEF Init, Requests, Unsent, AwaitsOwn, Waiting, AttemptSentOnce, Told, Idle, NoRequest

LEMMA RequestType ==
  ASSUME TypeInv, NEW b \in Attempt, wire[b] # NoRequest
  PROVE  wire[b] \in Request /\ wire[b].of \in Outbound /\ wire[b].number \in 0..MaxAttempt
BY DEF TypeInv, TypeOK, Request

\* What was on a wire before a step and is still there.
Echo(b) ==
  \/ wire'[b] = NoRequest
  \/ /\ wire[b] # NoRequest /\ wire'[b].of = wire[b].of /\ wire'[b].number = wire[b].number
     /\ wire'[b].state = "sent" => wire[b].state = "sent"
     /\ wire'[b].state = "accepted" => wire[b].state = "accepted" \/ GraphAccepts(b)

LEMMA SameEcho ==
  ASSUME NEW b \in Attempt, wire'[b] = wire[b] \/ wire'[b] = NoRequest
  PROVE  Echo(b)
BY DEF Echo

\* Graph's answers change no number.
LEMMA GraphEcho ==
  ASSUME TypeInv, NEW a \in Attempt, GraphAccepts(a) \/ GraphRefuses(a), NEW b \in Attempt
  PROVE  Echo(b)
<1>1. wire[a] \in Request /\ wire[a] # NoRequest /\ wire \in [Attempt -> Request \cup {NoRequest}]
  <2>1. wire[a].state = "sent"
    BY DEF GraphAccepts, GraphRefuses
  <2> QED
    BY <2>1 DEF TypeInv, TypeOK, NoRequest
<1>2. CASE b # a
  BY <1>1, <1>2, SameEcho DEF GraphAccepts, GraphRefuses
<1>3. CASE b = a
  <2> DEFINE u(state) == [wire[a] EXCEPT !.state = state]
  <2>1. \A state : u(state).of = wire[a].of /\ u(state).number = wire[a].number /\ u(state).state = state
    BY <1>1 DEF Request
  <2> HIDE DEF u
  <2>2. CASE GraphAccepts(a)
    <3>1. wire'[a] = u("accepted") \/ wire'[a] = NoRequest
      BY <1>1, <2>2 DEF GraphAccepts, u
    <3> QED
      BY <1>1, <1>3, <2>1, <2>2, <3>1 DEF Echo
  <2>3. CASE GraphRefuses(a)
    <3>1. wire'[a] = u("refused") \/ wire'[a] = NoRequest
      BY <1>1, <2>3 DEF GraphRefuses, u
    <3> QED
      BY <1>1, <1>3, <2>1, <2>3, <3>1 DEF Echo
  <2> QED
    BY <2>2, <2>3
<1> QED
  BY <1>2, <1>3

\* A request leaves, or nothing new is on a wire; only Graph takes a message.
LEMMA WireStep ==
  ASSUME TypeInv, [Next]_vars
  PROVE  \/ \E a \in Attempt : SendRequest(a)
         \/ /\ \A b \in Attempt : Echo(b)
            /\ accepted' = accepted \/ \E a \in Attempt : GraphAccepts(a)
<1>0. wire \in [Attempt -> Request \cup {NoRequest}]
  BY DEF TypeInv, TypeOK
<1>1. ASSUME wire' = wire PROVE \A b \in Attempt : Echo(b)
  BY <1>1, SameEcho
<1>2. ASSUME NEW a \in Attempt,
             wire' = [wire EXCEPT ![a] = NoRequest] \/ wire' = [wire EXCEPT ![a] = wire[a]]
      PROVE  \A b \in Attempt : Echo(b)
  BY <1>0, <1>2, SameEcho
<1>3. ASSUME NEW w \in Worker, Crash(w) PROVE accepted' = accepted /\ \A b \in Attempt : Echo(b)
  BY <1>3, SameEcho DEF Crash
<1>4. ASSUME NEW w \in Worker, WorkerStep(w) \/ Shutdown(w)
      PROVE  accepted' = accepted /\ wire' = wire
  BY <1>4 DEF WorkerStep, StartWorker, BeginCycle, StartDispatch, EndCycle, EndSleep, Shutdown
<1>5. ASSUME NEW a \in Attempt, \/ ClaimRead(a) \/ ClaimWrite(a) \/ PrepareFails(a) \/ RecordRead(a)
                                \/ RecordWrite(a) \/ StatementFails(a) \/ AnswerLost(a)
      PROVE  accepted' = accepted /\ wire' = wire
  BY <1>5 DEF ClaimRead, ClaimWrite, PrepareFails, RecordRead, RecordWrite, StatementFails, AnswerLost
<1>6. ASSUME NEW a \in Attempt, \/ AnswerSuccess(a) \/ AnswerUnconfirmed(a) \/ AnswerFailure(a)
                                \/ NoAnswer(a) \/ RequestLost(a)
      PROVE  /\ accepted' = accepted
             /\ wire' = [wire EXCEPT ![a] = NoRequest] \/ wire' = [wire EXCEPT ![a] = wire[a]]
  BY <1>6 DEF AnswerSuccess, AnswerUnconfirmed, AnswerFailure, NoAnswer, RequestLost
<1>7. ASSUME NEW a \in Attempt, GraphAccepts(a) \/ GraphRefuses(a)
      PROVE  /\ accepted' = accepted \/ \E c \in Attempt : GraphAccepts(c)
             /\ \A b \in Attempt : Echo(b)
  BY <1>7, GraphEcho DEF GraphRefuses
<1>8. ASSUME (\E o \in Outbound : CreateOrGet(o)) \/ Tick \/ UNCHANGED vars
      PROVE  accepted' = accepted /\ wire' = wire
  BY <1>8 DEF CreateOrGet, Tick, vars
<1> QED
  BY <1>1, <1>2, <1>3, <1>4, <1>5, <1>6, <1>7, <1>8
     DEF Next, WorkerStep, DispatchStep, GraphStep, FaultStep

\* The numbers Graph has taken, by a step that sends nothing.
LEMMA AcceptedStep ==
  ASSUME TypeInv, Requests, [Next]_vars, accepted' # accepted, NEW a \in Attempt, GraphAccepts(a)
  PROVE  /\ wire[a] # NoRequest /\ wire[a].of \in Outbound /\ wire[a].number \in 0..MaxAttempt
         /\ rows' = rows /\ task' = task /\ confirmed' = confirmed
         /\ \A o \in Outbound :
              accepted'[o] = IF o = wire[a].of THEN accepted[o] \cup {wire[a].number} ELSE accepted[o]
<1>1. wire[a] # NoRequest
  BY DEF GraphAccepts, NoRequest
<1>2. wire[a].of \in Outbound /\ wire[a].number \in 0..MaxAttempt
  BY <1>1, RequestType
<1>3. accepted \in [Outbound -> SUBSET (0..MaxAttempt)]
  BY DEF TypeInv, TypeOK
<1> QED
  BY <1>1, <1>2, <1>3 DEF GraphAccepts

\* A request leaves with the number of its dispatch, which no other request has.
LEMMA SendShape ==
  ASSUME TypeInv, Fence, NEW a \in Attempt, SendRequest(a)
  PROVE  /\ rows' = rows /\ accepted' = accepted /\ confirmed' = confirmed
         /\ \A b \in Attempt \ {a} : wire'[b] = wire[b] /\ task'[b] = task[b]
         /\ task'[a].pc = "sending" /\ task'[a].of = task[a].of /\ task'[a].number = task[a].number
         /\ wire'[a] # NoRequest /\ wire'[a].state = "sent"
         /\ wire'[a].of = task[a].of /\ wire'[a].number = task[a].number
         /\ task[a].pc = "prepare" /\ task[a].of \in Outbound /\ Owns(a, task[a].of)
         /\ task[a].number \in 1..rows[task[a].of].attemptCount
<1>1. task[a].pc = "prepare" /\ rows' = rows /\ accepted' = accepted /\ confirmed' = confirmed
  BY DEF SendRequest
<1>2. /\ task[a] \in TaskState /\ task[a].of \in Outbound /\ Owns(a, task[a].of)
      /\ task[a].number \in 1..rows[task[a].of].attemptCount
  BY <1>1, Holder DEF SendPC
<1> DEFINE u == [task[a] EXCEPT !.pc = "sending"]
           v == [state |-> "sent", of |-> task[a].of, number |-> task[a].number]
<1>3. u.pc = "sending" /\ u.of = task[a].of /\ u.number = task[a].number
  BY <1>2 DEF TaskState
<1>4. v # NoRequest /\ v.state = "sent" /\ v.of = task[a].of /\ v.number = task[a].number
  <2>1. v.state # NoRequest.state
    BY DEF NoRequest
  <2> QED
    BY <2>1
<1>5. wire' = [wire EXCEPT ![a] = v] /\ task' = [task EXCEPT ![a] = u]
  BY DEF SendRequest, Step
<1> HIDE DEF u, v
<1>6. /\ wire'[a] = v /\ task'[a] = u
      /\ \A b \in Attempt \ {a} : wire'[b] = wire[b] /\ task'[b] = task[b]
  BY <1>5 DEF TypeInv, TypeOK
<1> QED
  BY <1>1, <1>2, <1>3, <1>4, <1>6

LEMMA NumbersBounded ==
  ASSUME TypeInv, Fence, Requests, [Next]_vars
  PROVE  /\ \A o \in Outbound : \A n \in accepted'[o] : n <= rows'[o].attemptCount
         /\ \A b \in Attempt : wire'[b] # NoRequest => wire'[b].number <= rows'[wire'[b].of].attemptCount
<1>a. \A o \in Outbound : accepted[o] \subseteq 0..MaxAttempt
  BY DEF TypeInv, TypeOK
<1>b. \A o \in Outbound : \A n \in Nat : n <= rows[o].attemptCount => n <= rows'[o].attemptCount
  <2> SUFFICES ASSUME NEW o \in Outbound, NEW n \in Nat, n <= rows[o].attemptCount
               PROVE  n <= rows'[o].attemptCount
    OBVIOUS
  <2> QED
    BY CountGrows
<1>c. MaxAttempt \in Nat
  BY BoundAssumption
<1>1. \A o \in Outbound : \A n \in accepted[o] : n <= rows'[o].attemptCount
  BY <1>a, <1>b, <1>c DEF Requests
<1>2. \A b \in Attempt : wire[b] # NoRequest =>
        wire[b].of \in Outbound /\ wire[b].number \in Nat
          /\ wire[b].number <= rows'[wire[b].of].attemptCount
  <2> SUFFICES ASSUME NEW b \in Attempt, wire[b] # NoRequest
               PROVE  wire[b].of \in Outbound /\ wire[b].number \in Nat
                        /\ wire[b].number <= rows'[wire[b].of].attemptCount
    OBVIOUS
  <2>1. wire[b].of \in Outbound /\ wire[b].number \in Nat
    BY <1>c, RequestType
  <2>2. wire[b].number <= rows[wire[b].of].attemptCount
    BY DEF Requests
  <2> QED
    BY <1>b, <2>1, <2>2
<1>3. ASSUME NEW a \in Attempt, SendRequest(a)
      PROVE  /\ \A o \in Outbound : \A n \in accepted'[o] : n <= rows'[o].attemptCount
             /\ \A b \in Attempt :
                  wire'[b] # NoRequest => wire'[b].number <= rows'[wire'[b].of].attemptCount
  <2>1. accepted' = accepted /\ \A b \in Attempt \ {a} : wire'[b] = wire[b]
    BY <1>3, SendShape
  <2>2. /\ wire'[a].of = task[a].of /\ wire'[a].number = task[a].number /\ task[a].of \in Outbound
        /\ task[a].number \in 1..rows[task[a].of].attemptCount
    BY <1>3, SendShape
  <2>3. task[a].number <= rows'[task[a].of].attemptCount
    <3>1. rows[task[a].of].attemptCount \in Nat
      BY <2>2, CountGrows
    <3> QED
      BY <1>b, <2>2, <3>1
  <2> QED
    BY <1>1, <1>2, <2>1, <2>2, <2>3
<1>4. ASSUME \A b \in Attempt : Echo(b), accepted' = accepted
      PROVE  /\ \A o \in Outbound : \A n \in accepted'[o] : n <= rows'[o].attemptCount
             /\ \A b \in Attempt :
                  wire'[b] # NoRequest => wire'[b].number <= rows'[wire'[b].of].attemptCount
  BY <1>1, <1>2, <1>4 DEF Echo
<1>5. ASSUME \A b \in Attempt : Echo(b), accepted' # accepted, NEW a \in Attempt, GraphAccepts(a)
      PROVE  /\ \A o \in Outbound : \A n \in accepted'[o] : n <= rows'[o].attemptCount
             /\ \A b \in Attempt :
                  wire'[b] # NoRequest => wire'[b].number <= rows'[wire'[b].of].attemptCount
  <2>1. /\ wire[a] # NoRequest
        /\ \A o \in Outbound :
             accepted'[o] = IF o = wire[a].of THEN accepted[o] \cup {wire[a].number} ELSE accepted[o]
    BY <1>5, AcceptedStep
  <2>2. \A o \in Outbound : \A n \in accepted'[o] :
          n \in accepted[o] \/ (o = wire[a].of /\ n = wire[a].number)
    BY <2>1
  <2> QED
    BY <1>1, <1>2, <1>5, <2>1, <2>2 DEF Echo
<1> QED
  BY <1>3, <1>4, <1>5, WireStep

\* Two dispatches that may send hold different numbers of a row.
LEMMA SendersDiffer ==
  ASSUME TypeInv, Fence, NEW a \in Attempt, NEW b \in Attempt, a # b,
         task[a].pc = "prepare", task[b].pc = "prepare", task[a].of = task[b].of
  PROVE  task[a].number # task[b].number
<1>1. task[a].of \in Outbound /\ Owns(a, task[a].of) /\ Owns(b, task[a].of)
  BY Holder DEF SendPC
<1> QED
  BY <1>1 DEF Fence, AttemptHasOneOwner

LEMMA UnsentNext ==
  ASSUME TypeInv, Fence, Requests, [Next]_vars, NEW a \in Attempt, task'[a].pc = "prepare"
  PROVE  /\ task'[a].number \notin accepted'[task'[a].of]
         /\ \A b \in Attempt : ~(/\ wire'[b] # NoRequest /\ wire'[b].of = task'[a].of
                                 /\ wire'[b].number = task'[a].number)
<1>1. task'[a] = task[a] \/ Claiming(a)
  BY StepOrigin DEF Origin, Starting, Finding, Sending, Deciding, Recording, RecordPC
<1>2. CASE Claiming(a)
  <2> DEFINE o == task[a].of
             n == rows'[o].attemptCount
  <2>1. /\ task'[a].of = o /\ task'[a].number = n /\ o \in Outbound
        /\ n = rows[o].attemptCount + 1 /\ rows[o].attemptCount \in Nat
    BY <1>2, CountGrows DEF Claiming
  <2>2. \A m : m \in accepted[o] => m # n
    <3> SUFFICES ASSUME NEW m \in accepted[o], m = n PROVE FALSE
      OBVIOUS
    <3>1. m <= rows[o].attemptCount
      BY <2>1 DEF Requests
    <3> QED
      BY <2>1, <3>1
  <2>3. \A b \in Attempt : wire[b] # NoRequest /\ wire[b].of = o => wire[b].number # n
    <3> SUFFICES ASSUME NEW b \in Attempt, wire[b] # NoRequest, wire[b].of = o, wire[b].number = n
                 PROVE  FALSE
      OBVIOUS
    <3>1. wire[b].number <= rows[o].attemptCount
      BY DEF Requests
    <3> QED
      BY <2>1, <3>1
  <2>4. ~ \E b \in Attempt : SendRequest(b)
    <3> SUFFICES ASSUME NEW b \in Attempt, SendRequest(b) PROVE FALSE
      OBVIOUS
    <3>1. rows' = rows
      BY SendShape
    <3> QED
      BY <2>1, <3>1
  <2>5. accepted' = accepted
    <3> SUFFICES ASSUME accepted' # accepted PROVE FALSE
      OBVIOUS
    <3>1. rows' = rows
      BY <2>4, AcceptedStep, WireStep
    <3> QED
      BY <2>1, <3>1
  <2> HIDE DEF n
  <2> QED
    BY <2>1, <2>2, <2>3, <2>4, <2>5, WireStep DEF Echo
<1>3. CASE task'[a] = task[a]
  <2>1. /\ task[a].number \notin accepted[task[a].of]
        /\ \A b \in Attempt : ~Numbered(b, task[a].of, task[a].number)
    BY <1>3 DEF Requests, Unsent
  <2>2. task[a].of \in Outbound
    BY <1>3, Holder DEF SendPC
  <2>3. ASSUME NEW b \in Attempt, SendRequest(b)
        PROVE  /\ task[a].number \notin accepted'[task[a].of]
               /\ \A c \in Attempt : ~(/\ wire'[c] # NoRequest /\ wire'[c].of = task[a].of
                                       /\ wire'[c].number = task[a].number)
    <3>1. /\ accepted' = accepted /\ \A c \in Attempt \ {b} : wire'[c] = wire[c]
          /\ wire'[b].of = task[b].of /\ wire'[b].number = task[b].number
          /\ task[b].pc = "prepare" /\ task'[b].pc = "sending"
      BY <2>3, SendShape
    <3>2. b # a
      BY <3>1
    <3>3. task[a].of = task[b].of => task[a].number # task[b].number
      BY <1>3, <3>1, <3>2, SendersDiffer
    <3> QED
      BY <2>1, <3>1, <3>3 DEF Numbered
  <2>4. ASSUME \A b \in Attempt : Echo(b)
        PROVE  \A b \in Attempt : ~(/\ wire'[b] # NoRequest /\ wire'[b].of = task[a].of
                                    /\ wire'[b].number = task[a].number)
    BY <2>1, <2>4 DEF Echo, Numbered
  <2>5. ASSUME NEW b \in Attempt, GraphAccepts(b), accepted' # accepted
        PROVE  task[a].number \notin accepted'[task[a].of]
    <3>1. /\ wire[b] # NoRequest
          /\ accepted'[task[a].of] =
               IF task[a].of = wire[b].of THEN accepted[task[a].of] \cup {wire[b].number}
                                          ELSE accepted[task[a].of]
      BY <2>2, <2>5, AcceptedStep
    <3> QED
      BY <2>1, <3>1 DEF Numbered
  <2> QED
    BY <1>3, <2>1, <2>3, <2>4, <2>5, WireStep
<1> QED
  BY <1>1, <1>2, <1>3

LEMMA AwaitsOwnNext ==
  ASSUME TypeInv, Fence, Requests, [Next]_vars, NEW a \in Attempt
  PROVE  AwaitsOwn(a)'
<1> SUFFICES ASSUME task'[a].pc = "sending", wire'[a] # NoRequest
             PROVE  /\ wire'[a].of = task'[a].of /\ wire'[a].number = task'[a].number
                    /\ wire'[a].state = "accepted" => task'[a].number \in accepted'[task'[a].of]
  BY DEF AwaitsOwn, Waiting, Numbered
<1>1. task'[a] = task[a] \/ SendRequest(a)
  BY StepOrigin DEF Origin, Starting, Finding, Sending, Claiming, Deciding, Recording, RecordPC
<1>2. CASE SendRequest(a)
  BY <1>2, SendShape
<1>3. CASE task'[a] = task[a]
  <2>1. /\ wire[a] # NoRequest =>
             /\ wire[a].of = task[a].of /\ wire[a].number = task[a].number
             /\ wire[a].state = "accepted" => task[a].number \in accepted[task[a].of]
    BY <1>3 DEF Requests, AwaitsOwn, Waiting, Numbered
  <2>2. task[a].of \in Outbound
    BY <1>3, Holder DEF SendPC
  <2>3. ASSUME NEW b \in Attempt, SendRequest(b), b # a
        PROVE  wire'[a] = wire[a] /\ accepted' = accepted
    BY <2>3, SendShape
  <2>4. ASSUME NEW b \in Attempt, GraphAccepts(b), accepted' # accepted
        PROVE  accepted[task[a].of] \subseteq accepted'[task[a].of]
    BY <2>2, <2>4, AcceptedStep
  <2>5. ASSUME GraphAccepts(a), wire[a].of = task[a].of, wire[a].number = task[a].number
        PROVE  task[a].number \in accepted'[task[a].of]
    BY <2>2, <2>5 DEF GraphAccepts, TypeInv, TypeOK
  <2>6. CASE /\ \A b \in Attempt : Echo(b)
             /\ accepted' = accepted \/ \E b \in Attempt : GraphAccepts(b)
    <3>1. Echo(a)
      BY <2>6
    <3>2. accepted' = accepted \/ accepted[task[a].of] \subseteq accepted'[task[a].of]
      BY <2>4, <2>6
    <3> QED
      BY <1>3, <2>1, <2>5, <3>1, <3>2 DEF Echo
  <2> QED
    BY <1>2, <1>3, <2>1, <2>3, <2>6, WireStep
<1> QED
  BY <1>1, <1>2, <1>3

LEMMA SentOnceNext ==
  ASSUME TypeInv, Fence, Requests, [Next]_vars
  PROVE  AttemptSentOnce'
<1>1. /\ \A a, b \in Attempt : wire[a] # NoRequest =>
           /\ a # b /\ wire[b] # NoRequest /\ wire[a].of = wire[b].of => wire[a].number # wire[b].number
           /\ wire[a].state = "sent" => wire[a].number \notin accepted[wire[a].of]
      /\ \A o \in Outbound : \A n \in 0..MaxAttempt : Told(o, n) => n \in accepted[o]
  BY DEF Requests, AttemptSentOnce
<1>2. \A o \in Outbound : \A n \in 0..MaxAttempt : ToldAfter(o, n) => n \in accepted'[o]
  <2> SUFFICES ASSUME NEW o \in Outbound, NEW n \in 0..MaxAttempt, ToldAfter(o, n)
               PROVE  n \in accepted'[o]
    OBVIOUS
  <2>1. n \in accepted[o]
    <3>1. CASE confirmed' = confirmed
      BY <1>1, <3>1 DEF Told, ToldAfter
    <3>2. ASSUME NEW a \in Attempt, AnswerSuccess(a) PROVE n \in accepted[o]
      <4>1. task[a].number \in accepted[task[a].of]
        <5>1. Waiting(a) /\ wire[a].state = "accepted" /\ wire[a] # NoRequest
          BY <3>2 DEF AnswerSuccess, NoRequest
        <5> QED
          BY <5>1 DEF Requests, AwaitsOwn
      <4>2. Told(o, n) \/ (o = task[a].of /\ n = task[a].number)
        BY <3>2, ToldOnly
      <4> QED
        BY <1>1, <4>1, <4>2
    <3> QED
      BY <3>1, <3>2, ToldStep
  <2>2. CASE accepted' = accepted
    BY <2>1, <2>2
  <2>3. ASSUME NEW a \in Attempt, GraphAccepts(a), accepted' # accepted
        PROVE  accepted[o] \subseteq accepted'[o]
    BY <2>3, AcceptedStep
  <2>4. ASSUME NEW a \in Attempt, SendRequest(a) PROVE accepted' = accepted
    BY <2>4 DEF SendRequest
  <2> QED
    BY <2>1, <2>2, <2>3, <2>4, WireStep
<1>3. ASSUME NEW a \in Attempt, wire'[a] # NoRequest
      PROVE  /\ \A b \in Attempt : a # b /\ wire'[b] # NoRequest /\ wire'[a].of = wire'[b].of
                                     => wire'[a].number # wire'[b].number
             /\ wire'[a].state = "sent" => wire'[a].number \notin accepted'[wire'[a].of]
  <2>1. ASSUME NEW c \in Attempt, SendRequest(c)
        PROVE  /\ \A b \in Attempt : a # b /\ wire'[b] # NoRequest /\ wire'[a].of = wire'[b].of
                                       => wire'[a].number # wire'[b].number
               /\ wire'[a].state = "sent" => wire'[a].number \notin accepted'[wire'[a].of]
    <3>1. /\ accepted' = accepted /\ \A b \in Attempt \ {c} : wire'[b] = wire[b]
          /\ wire'[c].of = task[c].of /\ wire'[c].number = task[c].number /\ task[c].pc = "prepare"
      BY <2>1, SendShape
    <3>2. /\ task[c].number \notin accepted[task[c].of]
          /\ \A b \in Attempt : ~Numbered(b, task[c].of, task[c].number)
      BY <3>1 DEF Requests, Unsent
    <3>3. CASE a = c
      BY <3>1, <3>2, <3>3 DEF Numbered
    <3>4. CASE a # c
      <4>1. wire'[a] = wire[a] /\ wire[a] # NoRequest
        BY <1>3, <3>1, <3>4
      <4>2. wire[a].state = "sent" => wire[a].number \notin accepted[wire[a].of]
        BY <1>1, <4>1
      <4>3. ASSUME NEW b \in Attempt, a # b, wire'[b] # NoRequest, wire'[a].of = wire'[b].of
            PROVE  wire'[a].number # wire'[b].number
        <5>1. CASE b = c
          BY <3>1, <3>2, <4>1, <4>3, <5>1 DEF Numbered
        <5>2. CASE b # c
          BY <1>1, <3>1, <4>1, <4>3, <5>2
        <5> QED
          BY <5>1, <5>2
      <4> QED
        BY <3>1, <4>1, <4>2, <4>3
    <3> QED
      BY <3>3, <3>4
  <2>2. ASSUME \A b \in Attempt : Echo(b)
        PROVE  /\ \A b \in Attempt : a # b /\ wire'[b] # NoRequest /\ wire'[a].of = wire'[b].of
                                       => wire'[a].number # wire'[b].number
               /\ wire[a] # NoRequest /\ wire'[a].of = wire[a].of /\ wire'[a].number = wire[a].number
               /\ wire'[a].state = "sent" => wire[a].number \notin accepted[wire[a].of]
    <3>1. /\ wire[a] # NoRequest /\ wire'[a].of = wire[a].of /\ wire'[a].number = wire[a].number
          /\ wire'[a].state = "sent" => wire[a].state = "sent"
      BY <1>3, <2>2 DEF Echo
    <3>2. ASSUME NEW b \in Attempt, a # b, wire'[b] # NoRequest, wire'[a].of = wire'[b].of
          PROVE  wire'[a].number # wire'[b].number
      <4>1. wire[b] # NoRequest /\ wire'[b].of = wire[b].of /\ wire'[b].number = wire[b].number
        BY <2>2, <3>2 DEF Echo
      <4> QED
        BY <1>1, <3>1, <3>2, <4>1
    <3> QED
      BY <1>1, <3>1, <3>2
  <2>3. ASSUME NEW c \in Attempt, GraphAccepts(c), accepted' # accepted,
               \A b \in Attempt : Echo(b), wire'[a].state = "sent"
        PROVE  wire'[a].number \notin accepted'[wire'[a].of]
    <3>1. /\ wire[c] # NoRequest
          /\ \A o \in Outbound :
               accepted'[o] = IF o = wire[c].of THEN accepted[o] \cup {wire[c].number} ELSE accepted[o]
      BY <2>3, AcceptedStep
    <3>2. /\ wire[a] # NoRequest /\ wire'[a].of = wire[a].of /\ wire'[a].number = wire[a].number
          /\ wire[a].number \notin accepted[wire[a].of] /\ wire[a].of \in Outbound
      BY <2>2, <2>3, RequestType
    <3>3. a # c
      <4>1. wire'[c] = NoRequest \/ wire'[c].state = "accepted"
        <5>1. wire[c] \in Request
          BY <3>1, RequestType
        <5>2. [wire[c] EXCEPT !.state = "accepted"].state = "accepted"
          BY <5>1 DEF Request
        <5>3. wire'[c] = NoRequest \/ wire'[c] = [wire[c] EXCEPT !.state = "accepted"]
          BY <2>3 DEF GraphAccepts, TypeInv, TypeOK
        <5> QED
          BY <5>2, <5>3
      <4> QED
        BY <1>3, <2>3, <4>1
    <3>4. wire[a].of = wire[c].of => wire[a].number # wire[c].number
      BY <1>1, <3>1, <3>2, <3>3
    <3> QED
      BY <3>1, <3>2, <3>4
  <2> QED
    BY <2>1, <2>2, <2>3, WireStep
<1> QED
  BY <1>2, <1>3 DEF AttemptSentOnce, Told, ToldAfter

LEMMA RequestsNext == TypeInv /\ Fence /\ Requests /\ [Next]_vars => Requests'
<1> SUFFICES ASSUME TypeInv, Fence, Requests, [Next]_vars PROVE Requests'
  OBVIOUS
<1>1. \A a \in Attempt : Unsent(task[a])'
  BY UnsentNext DEF Unsent, Numbered
<1>2. \A a \in Attempt : AwaitsOwn(a)'
  BY AwaitsOwnNext
<1> QED
  BY <1>1, <1>2, NumbersBounded, SentOnceNext DEF Requests

\* Graph is asked once for each number, whatever is lost, late or taken over, and a process is
\* told only of what was taken.
THEOREM SentOnce == Spec => []AttemptSentOnce
<1>1. Requests => AttemptSentOnce
  BY DEF Requests
<1> QED
  BY <1>1, TypeInit, TypeNext, FenceInit, FenceNext, RequestsInit, RequestsNext, PTL DEF Spec

-----------------------------------------------------------------------------
(***************************************************************************)
(* A process and what Graph told it.  While a cycle has a row still to     *)
(* claim that the process was told of, the row is its own recent claim or  *)
(* at its end, so a claim that follows would need it stale.                *)
(***************************************************************************)

\* The row is in the worker's queue, or a dispatch of the worker is about to claim it.
Takes(w, o) ==
  \/ \E i \in DOMAIN worker[w].queue : worker[w].queue[i] = o
  \/ \E a \in Attempt : task[a].pc \in ClaimPC /\ task[a].by = w /\ task[a].of = o

Quiet ==
  \A w \in Worker : \A o \in Outbound :
    worker[w].mode = "cycle" /\ Takes(w, o) /\ <<rows[o].attemptCount, w>> \in confirmed[o] =>
      rows[o].claimedAt = worker[w].now \/ rows[o].status \in FinalStatus

LEMMA QuietInit == Init => Quiet
BY DEF Init, Quiet, StoppedWorker, Resting

\* What a cycle still has to claim it had before the step, or has just selected.
LEMMA QueueStep ==
  ASSUME TypeInv, [Next]_vars, NEW w \in Worker, worker'[w].mode = "cycle",
         NEW i \in DOMAIN worker'[w].queue
  PROVE  \/ /\ worker[w].mode = "cycle" /\ worker'[w].now = worker[w].now
            /\ \E j \in DOMAIN worker[w].queue : worker[w].queue[j] = worker'[w].queue[i]
         \/ worker'[w].queue[i] \in Eligible(clock) /\ rows' = rows /\ confirmed' = confirmed
<1>0. worker \in [Worker -> WorkerState] /\ worker[w] \in WorkerState
  BY DEF TypeInv, TypeOK
<1>1. CASE worker'[w] = worker[w]
  BY <1>1
<1>2. ASSUME NEW x \in Worker, StartWorker(x) \/ EndSleep(x) \/ EndCycle(x) \/ Crash(x)
      PROVE  worker'[w] = worker[w]
  BY <1>0, <1>2 DEF StartWorker, EndSleep, EndCycle, Crash, StoppedWorker, Resting
<1>3. ASSUME NEW x \in Worker, BeginCycle(x), x # w PROVE worker'[w] = worker[w]
  BY <1>0, <1>3 DEF BeginCycle
<1>4. ASSUME BeginCycle(w)
      PROVE  worker'[w].queue[i] \in Eligible(clock) /\ rows' = rows /\ confirmed' = confirmed
  <2>1. PICK n \in 0..Limit : \E q \in [1..n -> Outbound] :
          /\ IsSelection(q, clock)
          /\ worker' = [worker EXCEPT ![w] =
               [mode |-> "cycle", shuttingDown |-> FALSE, now |-> clock, queue |-> q]]
    BY <1>4 DEF BeginCycle
  <2>2. PICK q \in [1..n -> Outbound] :
          /\ IsSelection(q, clock)
          /\ worker' = [worker EXCEPT ![w] =
               [mode |-> "cycle", shuttingDown |-> FALSE, now |-> clock, queue |-> q]]
    BY <2>1
  <2>3. worker'[w].queue = q
    BY <1>0, <2>2
  <2> QED
    BY <1>4, <2>2, <2>3 DEF IsSelection, BeginCycle
<1>5. ASSUME NEW x \in Worker, Shutdown(x)
      PROVE  /\ worker[w].mode = "cycle" /\ worker'[w].now = worker[w].now
             /\ worker'[w].queue = worker[w].queue
  BY <1>0, <1>5 DEF Shutdown, WorkerState
<1>6. ASSUME NEW x \in Worker, StartDispatch(x), x # w PROVE worker'[w] = worker[w]
  BY <1>0, <1>6 DEF StartDispatch
<1>7. ASSUME StartDispatch(w)
      PROVE  /\ worker[w].mode = "cycle" /\ worker'[w].now = worker[w].now
             /\ \E j \in DOMAIN worker[w].queue : worker[w].queue[j] = worker'[w].queue[i]
  <2> DEFINE q == worker[w].queue
  <2>1. q \in Seq(Outbound) /\ q # <<>> /\ worker[w].mode = "cycle"
    BY <1>0, <1>7 DEF StartDispatch, WorkerState
  <2>2. worker'[w].queue = Tail(q) /\ worker'[w].now = worker[w].now
    BY <1>0, <1>7 DEF StartDispatch, WorkerState
  <2> HIDE DEF q
  <2>3. i \in 1..Len(q) - 1 /\ Tail(q)[i] = q[i + 1] /\ i + 1 \in DOMAIN q
    BY <2>1, <2>2
  <2> QED
    BY <2>1, <2>2, <2>3 DEF q
<1>8. \/ worker' = worker
      \/ \E x \in Worker : \/ StartWorker(x) \/ EndSleep(x) \/ EndCycle(x) \/ Crash(x)
                           \/ BeginCycle(x) \/ Shutdown(x) \/ StartDispatch(x)
  BY DEF Next, WorkerStep, DispatchStep, GraphStep, FaultStep, vars, CreateOrGet, Tick,
     ClaimRead, ClaimWrite, SendRequest, PrepareFails, AnswerSuccess, AnswerUnconfirmed,
     AnswerFailure, NoAnswer, RecordRead, RecordWrite, GraphAccepts, GraphRefuses, RequestLost,
     StatementFails, AnswerLost
<1> QED
  BY <1>1, <1>2, <1>3, <1>4, <1>5, <1>6, <1>7, <1>8

LEMMA TakesStep ==
  ASSUME TypeInv, Fence, Staleness, [Next]_vars, NEW w \in Worker, NEW o \in Outbound,
         worker'[w].mode = "cycle", Takes(w, o)'
  PROVE  \/ worker[w].mode = "cycle" /\ worker'[w].now = worker[w].now /\ Takes(w, o)
         \/ o \in Eligible(clock) /\ rows' = rows /\ confirmed' = confirmed
<1>1. CASE \E i \in DOMAIN worker'[w].queue : worker'[w].queue[i] = o
  BY <1>1, QueueStep DEF Takes
<1>2. ASSUME NEW a \in Attempt, task'[a].pc \in ClaimPC, task'[a].by = w, task'[a].of = o
      PROVE  worker[w].mode = "cycle" /\ worker'[w].now = worker[w].now /\ Takes(w, o)
  <2>1. CASE Starting(a)
    <3>1. /\ worker[w].mode = "cycle" /\ worker[w].queue # <<>>
          /\ worker' = [worker EXCEPT ![w].queue = Tail(@)] /\ o = Head(worker[w].queue)
      BY <1>2, <2>1 DEF Starting
    <3>2. worker[w] \in WorkerState /\ worker \in [Worker -> WorkerState]
      BY DEF TypeInv, TypeOK
    <3>3. worker[w].queue \in Seq(Outbound) /\ worker'[w].now = worker[w].now
      BY <3>1, <3>2 DEF WorkerState
    <3>4. 1 \in DOMAIN worker[w].queue /\ worker[w].queue[1] = o
      BY <3>1, <3>3
    <3> QED
      BY <3>1, <3>3, <3>4 DEF Takes
  <2>2. CASE task[a].pc \in ClaimPC /\ task[a].by = w /\ task[a].of = o
    <3>1. worker[w].mode = "cycle"
      BY <2>2 DEF Staleness, InCycle, ClaimPC
    <3> QED
      BY <1>2, <2>2, <3>1, CycleStays DEF Takes, ClaimPC
  <2> QED
    BY <1>2, <2>1, <2>2, StepOrigin DEF Origin, Finding, Sending, Claiming, Deciding, Recording,
       SameJob, SameCycle, RecordPC, ClaimPC
<1> QED
  BY <1>1, <1>2 DEF Takes

\* A row that may be selected has not been confirmed to anyone.
LEMMA EligibleUntold ==
  ASSUME TypeInv, Fence, Answers, NEW o \in Outbound, rows[o].status \in RetryStatus
  PROVE  ~Told(o, rows[o].attemptCount)
<1>1. CASE rows[o].status = "retryable_failed"
  BY <1>1 DEF Answers, OutcomeMatchesAnswer
<1>2. CASE rows[o].status = "pending"
  <2>1. rows[o].attemptCount = 0
    <3>1. rows[o] # AbsentRow
      BY <1>2 DEF AbsentRow
    <3> QED
      BY <1>2, <3>1 DEF Fence, RowsStayAuthoritative, Authoritative
  <2>2. 0 \in 0..MaxAttempt /\ 0 \notin 1..0
    BY BoundAssumption
  <2> QED
    BY <2>1, <2>2 DEF Answers
<1> QED
  BY <1>1, <1>2 DEF RetryStatus

LEMMA QuietNext ==
  TypeInv /\ Fence /\ Answers /\ Staleness /\ Quiet /\ [Next]_vars => Quiet'
<1> SUFFICES ASSUME TypeInv, Fence, Answers, Staleness, Quiet, [Next]_vars,
                    NEW w \in Worker, NEW o \in Outbound,
                    worker'[w].mode = "cycle", Takes(w, o)',
                    <<rows'[o].attemptCount, w>> \in confirmed'[o]
             PROVE  rows'[o].claimedAt = worker'[w].now \/ rows'[o].status \in FinalStatus
  BY DEF Quiet
<1>0. rows[o].attemptCount \in Nat /\ rows[o].attemptCount \in 0..MaxAttempt
  BY DEF TypeInv, TypeOK, Row
<1>1. CASE o \in Eligible(clock) /\ rows' = rows /\ confirmed' = confirmed
  <2>1. rows[o].status \in RetryStatus
    BY <1>1 DEF Eligible, RetryStatus
  <2> QED
    BY <1>1, <2>1, EligibleUntold DEF Told
<1>2. CASE worker[w].mode = "cycle" /\ worker'[w].now = worker[w].now /\ Takes(w, o)
  <2>1. <<rows[o].attemptCount, w>> \in confirmed[o] =>
          rows[o].claimedAt = worker[w].now \/ rows[o].status \in FinalStatus
    BY <1>2 DEF Quiet
  <2>2. CASE rows'[o] = rows[o]
    <3>1. CASE <<rows[o].attemptCount, w>> \in confirmed[o]
      BY <1>2, <2>1, <2>2, <3>1
    <3>2. CASE <<rows[o].attemptCount, w>> \notin confirmed[o]
      <4>1. PICK a \in Attempt : AnswerSuccess(a)
        BY <2>2, <3>2, ToldStep
      <4>2. task[a].pc = "sending" /\ Owns(a, task[a].of) /\ task[a].of \in Outbound
        BY <4>1, Holder DEF AnswerSuccess, Waiting, SendPC
      <4>3. o = task[a].of /\ rows[o].attemptCount = task[a].number /\ w = task[a].by
        <5>1. confirmed' = [confirmed EXCEPT ![task[a].of] = @ \cup {<<task[a].number, task[a].by>>}]
          BY <4>1 DEF AnswerSuccess
        <5>2. confirmed'[o] = IF o = task[a].of THEN confirmed[o] \cup {<<task[a].number, task[a].by>>}
                                                ELSE confirmed[o]
          BY <4>2, <5>1 DEF TypeInv, TypeOK
        <5>3. o = task[a].of /\ <<rows[o].attemptCount, w>> = <<task[a].number, task[a].by>>
          BY <2>2, <3>2, <5>2
        <5> QED
          BY <5>3
      <4>4. task[a].now = rows[o].claimedAt
        BY <4>2, <4>3 DEF Staleness, HeldSince
      <4>5. task[a].now = worker[w].now
        BY <4>2, <4>3 DEF Staleness, InCycle
      <4> QED
        BY <1>2, <2>2, <4>4, <4>5
    <3> QED
      BY <3>1, <3>2
  <2>3. CASE rows'[o] # rows[o]
    <3>1. confirmed' = confirmed
      BY <2>3, ToldStep DEF AnswerSuccess
    <3>2. CASE rows[o] = AbsentRow /\ rows'[o] = PendingRow(clock)
      <4>1. rows'[o].attemptCount = 0 /\ rows[o].attemptCount = 0
        BY <3>2 DEF AbsentRow, PendingRow
      <4>2. 0 \notin 1..0 /\ Told(o, 0)
        BY <3>1, <4>1 DEF Told
      <4> QED
        BY <1>0, <4>1, <4>2 DEF Answers
    <3>3. ASSUME NEW a \in Attempt, ClaimedBy(a, o) PROVE FALSE
      <4>1. rows'[o].attemptCount = rows[o].attemptCount + 1
        BY <3>3, ClaimFound
      <4>2. Told(o, rows[o].attemptCount + 1)
        BY <3>1, <4>1 DEF Told
      <4>3. rows'[o].attemptCount \in 0..MaxAttempt
        BY TypeNext DEF TypeInv, TypeOK, Row
      <4>4. rows[o].attemptCount + 1 \in 1..rows[o].attemptCount
        BY <4>1, <4>2, <4>3 DEF Answers
      <4> QED
        BY <1>0, <4>4
    <3>4. ASSUME NEW a \in Attempt, RecordedBy(a, o) PROVE rows'[o].claimedAt = worker'[w].now
      <4>1. rows[o].status = "claimed" /\ rows'[o].attemptCount = rows[o].attemptCount
        BY <3>4, RecordFound
      <4>2. rows'[o].claimedAt = rows[o].claimedAt
        BY <3>4, RecordTimes
      <4>3. rows[o].claimedAt = worker[w].now
        BY <2>1, <3>1, <4>1 DEF FinalStatus, TerminalStatus
      <4> QED
        BY <1>2, <4>2, <4>3
    <3> QED
      BY <2>3, <3>2, <3>3, <3>4, RowWritten
  <2> QED
    BY <2>2, <2>3
<1> QED
  BY <1>1, <1>2, TakesStep

\* What a claim of the same process would have to find.
LEMMA ClaimIsElsewhere ==
  ASSUME TypeInv, Fence, Answers, Staleness, Quiet, [Next]_vars, NEW o \in Outbound,
         NEW w \in Worker, rows'[o].attemptCount > rows[o].attemptCount,
         <<rows[o].attemptCount, w>> \in confirmed[o]
  PROVE  task[rows'[o].token].by # w
<1>0. rows[o].attemptCount \in Nat
  BY DEF TypeInv, TypeOK, Row
<1>1. PICK a \in Attempt : ClaimedBy(a, o)
  <2>1. rows'[o] # rows[o]
    BY <1>0
  <2>2. ~(rows[o] = AbsentRow /\ rows'[o] = PendingRow(clock))
    BY DEF AbsentRow, PendingRow
  <2>3. ASSUME NEW a \in Attempt, RecordedBy(a, o) PROVE FALSE
    <3>1. rows'[o].attemptCount = rows[o].attemptCount
      BY <2>3, RecordFound
    <3> QED
      BY <1>0, <3>1
  <2> QED
    BY <2>1, <2>2, <2>3, RowWritten
<1>2. rows'[o].token = a /\ task[a].pc = "claim_write" /\ task[a].of = o
  BY <1>1 DEF ClaimedBy, Claimed
<1> SUFFICES ASSUME task[a].by = w PROVE FALSE
  BY <1>2
<1>3. worker[w].mode = "cycle" /\ task[a].now = worker[w].now
  BY <1>2 DEF Staleness, InCycle
<1>4. Takes(w, o)
  BY <1>2 DEF Takes, ClaimPC
<1>5. /\ rows[o].status \in {"pending", "claimed", "retryable_failed"}
      /\ rows[o].status = task[a].seen.status
      /\ rows[o].attemptCount = task[a].seen.attemptCount
  BY <1>1, ClaimFound
<1>6. rows[o].status = "claimed"
  BY <1>5, EligibleUntold DEF Told, RetryStatus
<1>7. rows[o].claimedAt = task[a].now
  BY <1>3, <1>4, <1>6 DEF Quiet, FinalStatus, TerminalStatus
<1>8. task[a].seen.claimedAt = rows[o].claimedAt /\ Claimable(task[a].seen, task[a].now)
  BY <1>2, <1>5 DEF Staleness, SeenPast, SeenPC
<1>9. task[a].now + StaleAfter <= task[a].now
  BY <1>5, <1>6, <1>7, <1>8 DEF Claimable, IsClaimStale
<1>10. task[a].now \in Nat
  BY <1>2, ActiveTask DEF TypeInv, TaskState
<1> QED
  BY <1>9, <1>10, BoundAssumption

\* No process ever claims a row again for an attempt it was told Graph took: not the process
\* that died between the answer and the record and was started again, and not one whose records
\* and hold all failed.
THEOREM ConfirmedNotResent == Spec => ConfirmedNotResentByItsProcess
<1>1. TypeInv /\ Fence /\ Answers /\ Staleness /\ Quiet /\ [Next]_vars =>
        [\A o \in Outbound : \A w \in Worker :
           rows'[o].attemptCount > rows[o].attemptCount /\ <<rows[o].attemptCount, w>> \in confirmed[o]
             => task[rows'[o].token].by # w]_vars
  BY ClaimIsElsewhere
<1> QED
  BY <1>1, TypeInit, TypeNext, FenceInit, FenceNext, AnswersInit, AnswersNext, StalenessInit,
     StalenessNext, QuietInit, QuietNext, PTL DEF Spec, ConfirmedNotResentByItsProcess

=============================================================================
