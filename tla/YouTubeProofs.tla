----------------------------- MODULE YouTubeProofs -----------------------------
(***************************************************************************)
(* Theorems about the YouTube integration: WebSub, YouTubeIngest and       *)
(* DiagnosticProbe, each for every value of its constants.                 *)
(***************************************************************************)
EXTENDS WebSub, YouTubeIngest, DiagnosticProbe, TLAPS, FiniteSetTheorems

USE FaultAssumption

\* A set whose elements are all one has at most one.
LEMMA AtMostOne ==
  ASSUME NEW S, \A a, b \in S : a = b
  PROVE  IsFiniteSet(S) /\ Cardinality(S) <= 1
<1>1. CASE S = {}
  BY <1>1, FS_EmptySet
<1>2. CASE S # {}
  <2>1. PICK a \in S : TRUE
    BY <1>2
  <2>2. S = {a}
    BY <2>1
  <2>3. Cardinality({a}) = 1 /\ IsFiniteSet({a})
    BY FS_Singleton
  <2> QED
    BY <2>2, <2>3
<1> QED
  BY <1>1, <1>2


-----------------------------------------------------------------------------
(***************************************************************************)
(* The subscriptions of a channel.                                         *)
(***************************************************************************)

HubModes == {"subscribe", "unsubscribe"}
Kinds == {"subscribe", "renew", "unsubscribe"}
Statuses == Open \cup {"none", "unsubscribed"}
RequestPC == {"idle", "find", "refind", "insert", "read", "mark", "claim", "hub", "record",
              "recover", "consume", "exchange", "attach", "attach_insert", "done", "lost"}

DispatchRecord == [attempt : Requests \cup {None}, mode : Kinds \cup {None},
                   status : {"none", "started", "accepted", "failed"},
                   retry : BOOLEAN, stale : BOOLEAN]
SubscriptionRecord == [status : Statuses, mode : HubModes \cup {None}, first : BOOLEAN,
                       dispatch : DispatchRecord, rev : Nat]
RequestRecord == [pc : RequestPC, kind : Kinds \cup {"connect", None}, row : Rows \cup {None},
                  moved : BOOLEAN, rev : Nat,
                  answer : {None, "accepted", "refused", "retryable", "connected", "conflict"},
                  state : OAuthStates \cup {None}]
CheckRecord == [pc : {"idle", "read", "write", "answer"}, row : Rows \cup {None},
                mode : HubModes \cup {None}, saw : Statuses \cup {None}]

WebSubTypes ==
  /\ rows \in [Rows -> SubscriptionRecord] /\ op \in [Requests -> RequestRecord]
  /\ chk \in [Checks -> CheckRecord]
  /\ consumed \subseteq OAuthStates /\ own \in Rows \cup {None}
  /\ owed \subseteq taken /\ taken \subseteq Requests
  /\ hub \in [Rows -> BOOLEAN] /\ unleased \subseteq Rows /\ faults \in Nat

\* A row waits in the mode its status says, and carries a dispatch only once it was open.
RowHolds(r) ==
  /\ r.mode = "subscribe" <=> r.status \in {"pending_subscribe", "pending_renewal"}
  /\ r.mode = "unsubscribe" <=> r.status = "pending_unsubscribe"
  /\ r.status = "none" => r.dispatch = NoDispatch
  /\ r.dispatch.status # "none" => r.dispatch.attempt \in Requests /\ r.dispatch.mode \in Kinds
RowsHold == \A w \in Rows : RowHolds(rows[w])

OneOpenRow == \A w, x \in Rows : rows[w].status \in Open /\ rows[x].status \in Open => w = x

\* What a request holds in memory, by where it is, and what the hub took of it.
RequestHolds(q) ==
  /\ op[q].pc \in {"read", "mark", "claim", "hub", "record", "recover"} \/ q \in taken =>
       op[q].row \in Rows /\ op[q].kind \in Kinds
  /\ op[q].pc \in {"find", "refind", "insert"} => op[q].kind = "subscribe"
  /\ q \in taken => op[q].pc \in {"record", "done", "lost"}
  /\ op[q].moved => op[q].kind = "renew" /\ op[q].pc \notin {"idle", "read", "mark"}
  /\ op[q].pc = "recover" => op[q].moved
  /\ op[q].pc = "record" =>
       /\ op[q].answer \in {"accepted", "refused", "retryable"}
       /\ op[q].answer = "accepted" => q \in taken
       /\ op[q].answer = "refused" => q \notin taken
RequestsHold == \A q \in Requests : RequestHolds(q)

ChecksHold ==
  \A v \in Checks :
    /\ chk[v].pc = "idle" => chk[v].row = None
    /\ chk[v].pc # "idle" => chk[v].row \in Rows /\ chk[v].mode \in HubModes
    /\ chk[v].pc = "write" =>
         chk[v].saw \in IF chk[v].mode = "subscribe" THEN {"pending_subscribe", "pending_renewal"}
                        ELSE {"pending_unsubscribe"}

Answers(v, w) == chk[v].pc = "answer" /\ chk[v].row = w

\* What the row says of the hub: it was verified, and its lease has not run out.
Sends(w) == rows[w].status \in Verified /\ w \notin unleased

\* Between its write and its answer one callback knows what the hub is about to be told.
HubFollowsRow ==
  \A w \in Rows \ apart :
    /\ \A u, v \in Checks : Answers(u, w) /\ Answers(v, w) => u = v
    /\ \A v \in Checks : Answers(v, w) => (chk[v].mode = "subscribe" <=> Sends(w))
    /\ (\A v \in Checks : ~Answers(v, w)) => (hub[w] <=> Sends(w))

UsesState(q) ==
  op[q].pc \in {"exchange", "attach", "attach_insert"} \/ op[q].answer = "connected"

StatesAreUsedOnce ==
  /\ \A q \in Requests :
       /\ op[q].pc = "consume" => op[q].state \in OAuthStates
       /\ UsesState(q) => op[q].state \in consumed
       /\ op[q].answer = "connected" => op[q].pc = "done"
  /\ \A q, r \in Requests : UsesState(q) /\ UsesState(r) /\ op[q].state = op[r].state => q = r
  /\ own # None => \E q \in Requests : op[q].answer = "connected"

\* A result is recorded by its request, which is over then.
ResultsHold ==
  \A w \in Rows :
    LET d == rows[w].dispatch
    IN  d.status \in {"accepted", "failed"} =>
          /\ op[d.attempt].pc = "done"
          /\ d.status = "accepted" => d.attempt \in taken
          /\ d.status = "failed" /\ ~d.retry => d.attempt \notin taken

\* Unless a stale one was claimed again, the request that speaks to the hub is the row's.
OneSpeaker ==
  \A w \in Rows \ stolen : \A q \in Requests :
    op[q].row = w /\ op[q].pc = "hub" =>
      rows[w].dispatch.attempt = q /\ rows[w].dispatch.status = "started"

\* Another operation than the dispatched one moved the row.
Excused(w) ==
  \/ w \in raced
  \/ \E q \in Requests \ {rows[w].dispatch.attempt} :
       /\ op[q].row = w /\ op[q].kind # rows[w].dispatch.mode
       /\ op[q].pc \in {"claim", "recover", "done", "lost"}

Settled(mode) == IF mode = "unsubscribe" THEN "unsubscribed" ELSE "active"

StartedIsExplained ==
  \A w \in Rows :
    LET d == rows[w].dispatch
    IN  d.status = "started" =>
          /\ op[d.attempt].row = w /\ op[d.attempt].kind = d.mode
          /\ op[d.attempt].pc \in {"hub", "record", "lost", "done"}
          /\ op[d.attempt].pc = "done" => Excused(w)
          /\ rows[w].status \in {PendingStatus(d.mode), Settled(d.mode)} \/ Excused(w)

WebSubFacts ==
  /\ RowsHold /\ OneOpenRow /\ RequestsHold /\ ChecksHold /\ HubFollowsRow
  /\ StatesAreUsedOnce /\ ResultsHold /\ OneSpeaker /\ StartedIsExplained

WebSubInv == WebSubTypes /\ WebSubFacts

-----------------------------------------------------------------------------
LEMMA WebSubInitial == Init => WebSubInv
<1> SUFFICES ASSUME Init PROVE WebSubInv
  OBVIOUS
<1> USE RequestAssumption DEF Init, IdleOp, IdleChk, NoDispatch, Open
<1>1. WebSubTypes
  <2>1. rows \in [Rows -> SubscriptionRecord]
    BY DEF SubscriptionRecord, DispatchRecord, Statuses
  <2>2. op \in [Requests -> RequestRecord] /\ chk \in [Checks -> CheckRecord]
    BY DEF RequestRecord, RequestPC, CheckRecord
  <2> QED
    BY <2>1, <2>2 DEF WebSubTypes
<1>2. RowsHold /\ OneOpenRow /\ RequestsHold /\ ChecksHold
  BY DEF RowsHold, RowHolds, OneOpenRow, RequestsHold, RequestHolds, ChecksHold
<1>3. HubFollowsRow /\ StatesAreUsedOnce
  BY DEF HubFollowsRow, Answers, Sends, Verified, StatesAreUsedOnce, UsesState
<1>4. ResultsHold /\ OneSpeaker /\ StartedIsExplained
  BY DEF ResultsHold, OneSpeaker, StartedIsExplained
<1> QED
  BY <1>1, <1>2, <1>3, <1>4 DEF WebSubInv, WebSubFacts

LEMMA WebSubTyped ==
  ASSUME WebSubTypes
  PROVE  /\ rows \in [Rows -> SubscriptionRecord] /\ op \in [Requests -> RequestRecord]
         /\ chk \in [Checks -> CheckRecord] /\ hub \in [Rows -> BOOLEAN]
         /\ \A w \in Rows : /\ rows[w].dispatch \in DispatchRecord /\ rows[w].rev \in Nat
                            /\ rows[w].first \in BOOLEAN /\ rows[w].status \in Statuses
                            /\ rows[w].mode \in HubModes \cup {None}
BY DEF WebSubTypes, SubscriptionRecord

\* A step of one request that writes nothing and speaks to nobody.
LEMMA RequestMoves ==
  ASSUME WebSubTypes, WebSubFacts, NEW q \in Requests, op' \in [Requests -> RequestRecord],
         \A r \in Requests \ {q} : op'[r] = op[r],
         UNCHANGED <<rows, chk, owed, taken, hub, unleased, stolen, raced, apart>>,
         op[q].pc \notin {"done", "lost"}, op'[q].pc \notin {"hub", "record"},
         op[q].pc \in {"hub", "record"} => op'[q].pc \in {"lost", "done"},
         op[q].pc \in {"hub", "record"} /\ op'[q].pc = "done" =>
           \A w \in Rows :
             rows[w].dispatch.attempt = q /\ rows[w].dispatch.status = "started" => Excused(w),
         op[q].pc \in {"claim", "recover"} => op'[q].pc \in {"claim", "recover", "done", "lost"},
         op[q].pc \in {"claim", "recover", "hub", "record"} =>
           op'[q].row = op[q].row /\ op'[q].kind = op[q].kind,
         RequestHolds(q)', StatesAreUsedOnce'
  PROVE  WebSubFacts'
<1> USE WebSubTyped DEF WebSubFacts
<1>1. RowsHold' /\ OneOpenRow' /\ ChecksHold' /\ HubFollowsRow'
  BY DEF RowsHold, RowHolds, OneOpenRow, ChecksHold, HubFollowsRow, Answers, Sends, hubVars, history
<1>2. RequestsHold'
  <2>1. ASSUME NEW r \in Requests, r # q PROVE RequestHolds(r)'
    BY <2>1 DEF RequestsHold, RequestHolds
  <2> QED
    BY <2>1 DEF RequestsHold
<1>3. ResultsHold'
  BY DEF ResultsHold, RowsHold, RowHolds
<1>4. OneSpeaker'
  BY DEF OneSpeaker
<1>5. ASSUME NEW w \in Rows, Excused(w) PROVE Excused(w)'
  <2>1. CASE w \in raced
    BY <2>1 DEF Excused
  <2>2. CASE w \notin raced
    <3>1. PICK r \in Requests \ {rows[w].dispatch.attempt} :
            /\ op[r].row = w /\ op[r].kind # rows[w].dispatch.mode
            /\ op[r].pc \in {"claim", "recover", "done", "lost"}
      BY <1>5, <2>2 DEF Excused
    <3>2. op'[r].row = op[r].row /\ op'[r].kind = op[r].kind
          /\ op'[r].pc \in {"claim", "recover", "done", "lost"}
      BY <3>1
    <3> QED
      BY <3>1, <3>2 DEF Excused
  <2> QED
    BY <2>1, <2>2
<1>6. StartedIsExplained'
  <2> SUFFICES ASSUME NEW w \in Rows, rows[w].dispatch.status = "started"
               PROVE  LET d == rows[w].dispatch
                      IN  /\ op'[d.attempt].row = w /\ op'[d.attempt].kind = d.mode
                          /\ op'[d.attempt].pc \in {"hub", "record", "lost", "done"}
                          /\ op'[d.attempt].pc = "done" => Excused(w)'
                          /\ rows[w].status \in {PendingStatus(d.mode), Settled(d.mode)}
                               \/ Excused(w)'
    BY DEF StartedIsExplained, Settled, PendingStatus
  <2> DEFINE a == rows[w].dispatch.attempt
  <2>1. a \in Requests
    BY DEF RowsHold, RowHolds
  <2>2. /\ op[a].row = w /\ op[a].kind = rows[w].dispatch.mode
        /\ op[a].pc \in {"hub", "record", "lost", "done"}
        /\ op[a].pc = "done" => Excused(w)
        /\ rows[w].status \in {PendingStatus(rows[w].dispatch.mode), Settled(rows[w].dispatch.mode)}
             \/ Excused(w)
    BY DEF StartedIsExplained
  <2>3. \/ op'[a] = op[a]
        \/ /\ op'[a].row = op[a].row /\ op'[a].kind = op[a].kind /\ op'[a].pc \in {"lost", "done"}
           /\ op'[a].pc = "done" => Excused(w)
    BY <2>1, <2>2
  <2> QED
    BY <1>5, <2>1, <2>2, <2>3
<1> QED
  BY <1>1, <1>2, <1>3, <1>4, <1>6

\* A row moves to another status and mode; its dispatch stays.
LEMMA RowMoves ==
  ASSUME WebSubTypes, WebSubFacts, NEW w \in Rows, NEW s \in Statuses, NEW m \in HubModes \cup {None},
         rows' = Moved(w, s, m), s \in Open => IndexAllows(w), s # "none",
         m = "subscribe" <=> s \in {"pending_subscribe", "pending_renewal"},
         m = "unsubscribe" <=> s = "pending_unsubscribe"
  PROVE  /\ rows' \in [Rows -> SubscriptionRecord] /\ RowsHold' /\ OneOpenRow'
         /\ rows'[w].status = s /\ rows'[w].mode = m /\ rows'[w].dispatch = rows[w].dispatch
         /\ rows'[w].rev = rows[w].rev + 1
         /\ \A x \in Rows \ {w} : rows'[x] = rows[x]
<1> USE WebSubTyped DEF WebSubFacts
<1> DEFINE u == [rows[w] EXCEPT !.status = s, !.mode = m, !.rev = @ + 1]
<1>1. rows' = [rows EXCEPT ![w] = u]
  BY DEF Moved
<1>2. u \in SubscriptionRecord /\ u.status = s /\ u.mode = m /\ u.dispatch = rows[w].dispatch
      /\ u.rev = rows[w].rev + 1
  <2>1. rows[w] \in SubscriptionRecord /\ rows[w].rev + 1 \in Nat
    OBVIOUS
  <2> QED
    BY <2>1 DEF SubscriptionRecord
<1> HIDE DEF u
<1>3. rows' \in [Rows -> SubscriptionRecord] /\ rows'[w] = u
      /\ \A x \in Rows \ {w} : rows'[x] = rows[x]
  BY <1>1, <1>2
<1>4. RowsHold'
  <2>1. RowHolds(rows'[w])
    BY <1>2, <1>3 DEF RowsHold, RowHolds
  <2>2. \A x \in Rows \ {w} : RowHolds(rows'[x])
    BY <1>3 DEF RowsHold
  <2> QED
    BY <2>1, <2>2 DEF RowsHold
<1>5. OneOpenRow'
  BY <1>2, <1>3 DEF OneOpenRow, IndexAllows, OthersOpen
<1> QED
  BY <1>2, <1>3, <1>4, <1>5

\* A request of the operator uses no state.
LEMMA StatesKept ==
  ASSUME WebSubFacts, NEW q \in Requests, \A r \in Requests \ {q} : op'[r] = op[r],
         op[q].answer # "connected", op'[q].answer # "connected",
         op'[q].pc \notin {"consume", "exchange", "attach", "attach_insert"},
         UNCHANGED <<consumed, own>>
  PROVE  StatesAreUsedOnce'
BY DEF WebSubFacts, StatesAreUsedOnce, UsesState

LEMMA RequestReplaced ==
  ASSUME WebSubTypes, NEW q \in Requests, NEW u \in RequestRecord, op' = [op EXCEPT ![q] = u]
  PROVE  /\ op' \in [Requests -> RequestRecord] /\ op'[q] = u
         /\ \A r \in Requests \ {q} : op'[r] = op[r]
BY DEF WebSubTypes

LEMMA AskKeeps ==
  ASSUME WebSubTypes, WebSubFacts, NEW q \in Requests, NEW kind \in Kinds, NEW w \in Rows, Ask(q, kind, w)
  PROVE  op' \in [Requests -> RequestRecord] /\ WebSubFacts'
<1> USE RequestAssumption, WebSubTyped DEF WebSubFacts, RequestRecord, RequestPC
<1>1. /\ op' \in [Requests -> RequestRecord] /\ \A r \in Requests \ {q} : op'[r] = op[r]
      /\ op[q].pc = "idle" /\ op'[q].pc \in {"find", "read"} /\ op'[q].kind = kind
      /\ op'[q].pc = "find" => kind = "subscribe"
      /\ op'[q].pc = "read" => op'[q].row = w
      /\ ~op'[q].moved /\ op'[q].answer = None
  BY DEF Ask, IdleOp, Kinds
<1>2. UNCHANGED <<rows, chk, owed, taken, hub, unleased, stolen, raced, apart>>
  BY DEF Ask, IdleOp, Kinds, hubVars, history
<1>3. RequestHolds(q)'
  BY <1>1, <1>2 DEF RequestsHold, RequestHolds, IdleOp
<1>4. StatesAreUsedOnce'
  <2>1. UNCHANGED <<consumed, own>> /\ op[q].answer # "connected"
    BY <1>1 DEF Ask, IdleOp, Kinds, connection, StatesAreUsedOnce
  <2> QED
    BY <1>1, <2>1, StatesKept
<1> QED
  BY <1>1, <1>2, <1>3, <1>4, RequestMoves DEF RequestsHold, RequestHolds

LEMMA FindOpenKeeps ==
  ASSUME WebSubTypes, WebSubFacts, NEW q \in Requests, FindOpen(q)
  PROVE  op' \in [Requests -> RequestRecord] /\ WebSubFacts'
<1> USE RequestAssumption, WebSubTyped DEF WebSubFacts, RequestRecord, RequestPC
<1>0. op[q].pc \in {"find", "refind"} /\ op \in [Requests -> RequestRecord]
  BY DEF FindOpen
<1>1. /\ op' \in [Requests -> RequestRecord] /\ \A r \in Requests \ {q} : op'[r] = op[r]
      /\ op[q].pc \in {"find", "refind"} /\ op'[q].pc \in {"claim", "done", "insert"}
      /\ op'[q].pc = "claim" => op'[q].row \in Rows
      /\ op'[q].kind = op[q].kind /\ op'[q].moved = op[q].moved /\ op'[q].answer = op[q].answer
  <2>1. CASE \E w \in Rows :
               op' = [op EXCEPT
                 ![q].pc = IF rows[w].status = "pending_subscribe" THEN "claim" ELSE "done",
                 ![q].row = w]
    <3>1. PICK w \in Rows, pc \in {"claim", "done"} :
            op' = [op EXCEPT ![q].pc = pc, ![q].row = w]
      BY <2>1
    <3> DEFINE u == [op[q] EXCEPT !.pc = pc, !.row = w]
    <3>2. /\ u \in RequestRecord /\ u.pc = pc /\ u.row = w /\ u.kind = op[q].kind
          /\ u.moved = op[q].moved /\ u.answer = op[q].answer
      BY <1>0
    <3>3. op' = [op EXCEPT ![q] = u]
      BY <3>1
    <3> HIDE DEF u
    <3>4. op' \in [Requests -> RequestRecord] /\ op'[q] = u /\ \A r \in Requests \ {q} : op'[r] = op[r]
      BY <1>0, <3>2, <3>3
    <3> QED
      BY <1>0, <3>2, <3>4
  <2>2. CASE op' = [op EXCEPT ![q].pc = IF op[q].pc = "find" THEN "insert" ELSE "done"]
    BY <1>0, <2>2
  <2> QED
    BY <2>1, <2>2 DEF FindOpen
<1>2. UNCHANGED <<rows, chk, owed, taken, hub, unleased, stolen, raced, apart>>
  BY DEF FindOpen, hubVars, history
<1>3. RequestHolds(q)'
  BY <1>1, <1>2 DEF RequestsHold, RequestHolds, IdleOp
<1>4. StatesAreUsedOnce'
  <2>1. UNCHANGED <<consumed, own>> /\ op[q].answer # "connected"
    BY <1>1 DEF FindOpen, connection, StatesAreUsedOnce
  <2> QED
    BY <1>1, <2>1, StatesKept
<1> QED
  BY <1>1, <1>2, <1>3, <1>4, RequestMoves DEF RequestsHold, RequestHolds

LEMMA ReadRowKeeps ==
  ASSUME WebSubTypes, WebSubFacts, NEW q \in Requests, ReadRow(q)
  PROVE  op' \in [Requests -> RequestRecord] /\ WebSubFacts'
<1> USE RequestAssumption, WebSubTyped DEF WebSubFacts, RequestRecord, RequestPC
<1>1. /\ op' \in [Requests -> RequestRecord] /\ \A r \in Requests \ {q} : op'[r] = op[r]
      /\ op[q].pc = "read" /\ op'[q].pc \in {"claim", "mark", "done"}
      /\ op'[q].row = op[q].row
      /\ op'[q].kind = op[q].kind /\ op'[q].moved = op[q].moved /\ op'[q].answer = op[q].answer
  BY DEF ReadRow
<1>2. UNCHANGED <<rows, chk, owed, taken, hub, unleased, stolen, raced, apart>>
  BY DEF ReadRow, hubVars, history
<1>3. RequestHolds(q)'
  BY <1>1, <1>2 DEF RequestsHold, RequestHolds, IdleOp
<1>4. StatesAreUsedOnce'
  <2>1. UNCHANGED <<consumed, own>> /\ op[q].answer # "connected"
    BY <1>1 DEF ReadRow, connection, StatesAreUsedOnce
  <2> QED
    BY <1>1, <2>1, StatesKept
<1> QED
  BY <1>1, <1>2, <1>3, <1>4, RequestMoves DEF RequestsHold, RequestHolds

LEMMA RefindKeeps ==
  ASSUME WebSubTypes, WebSubFacts, NEW q \in Requests, op[q].pc = "insert",
         op' = [op EXCEPT ![q].pc = "refind"],
         UNCHANGED <<connection, rows, chk, hubVars, faults, history>>
  PROVE  op' \in [Requests -> RequestRecord] /\ WebSubFacts'
<1> USE RequestAssumption, WebSubTyped DEF WebSubFacts, RequestRecord, RequestPC
<1>1. /\ op' \in [Requests -> RequestRecord] /\ \A r \in Requests \ {q} : op'[r] = op[r]
      /\ op'[q].pc = "refind"
      /\ op'[q].kind = op[q].kind /\ op'[q].moved = op[q].moved /\ op'[q].answer = op[q].answer
  BY DEF RequestPC, connection
<1>2. UNCHANGED <<rows, chk, owed, taken, hub, unleased, stolen, raced, apart>>
  BY DEF RequestPC, connection, hubVars, history
<1>3. RequestHolds(q)'
  BY <1>1, <1>2 DEF RequestsHold, RequestHolds, IdleOp
<1>4. StatesAreUsedOnce'
  <2>1. UNCHANGED <<consumed, own>> /\ op[q].answer # "connected"
    BY <1>1 DEF RequestPC, connection, connection, StatesAreUsedOnce
  <2> QED
    BY <1>1, <2>1, StatesKept
<1> QED
  BY <1>1, <1>2, <1>3, <1>4, RequestMoves DEF RequestsHold, RequestHolds

LEMMA GivesUpKeeps ==
  ASSUME WebSubTypes, WebSubFacts, NEW q \in Requests, op[q].pc \in {"mark", "claim", "recover"},
         \/ op' = [op EXCEPT ![q].pc = "done"]
         \/ op[q].pc = "claim" /\ op[q].moved /\ op' = [op EXCEPT ![q].pc = "recover"],
         UNCHANGED <<connection, rows, chk, hubVars, faults, history>>
  PROVE  op' \in [Requests -> RequestRecord] /\ WebSubFacts'
<1> USE RequestAssumption, WebSubTyped DEF WebSubFacts, RequestRecord, RequestPC
<1>1. /\ op' \in [Requests -> RequestRecord] /\ \A r \in Requests \ {q} : op'[r] = op[r]
      /\ op'[q].pc = "done" \/ (op[q].pc = "claim" /\ op[q].moved /\ op'[q].pc = "recover")
      /\ op'[q].row = op[q].row /\ op'[q].rev = op[q].rev
      /\ op'[q].kind = op[q].kind /\ op'[q].moved = op[q].moved /\ op'[q].answer = op[q].answer
  BY DEF RequestPC, connection
<1>2. UNCHANGED <<rows, chk, owed, taken, hub, unleased, stolen, raced, apart>>
  BY DEF RequestPC, connection, hubVars, history
<1>3. RequestHolds(q)'
  BY <1>1, <1>2 DEF RequestsHold, RequestHolds, IdleOp
<1>4. StatesAreUsedOnce'
  <2>1. UNCHANGED <<consumed, own>> /\ op[q].answer # "connected"
    BY <1>1 DEF RequestPC, connection, connection, StatesAreUsedOnce
  <2> QED
    BY <1>1, <2>1, StatesKept
<1> QED
  BY <1>1, <1>2, <1>3, <1>4, RequestMoves DEF RequestsHold, RequestHolds

LEMMA RequestLostKeeps ==
  ASSUME WebSubTypes, WebSubFacts, NEW q \in Requests, RequestLost(q)
  PROVE  op' \in [Requests -> RequestRecord] /\ WebSubFacts'
<1> USE RequestAssumption, WebSubTyped DEF WebSubFacts, RequestRecord, RequestPC
<1>1. /\ op' \in [Requests -> RequestRecord] /\ \A r \in Requests \ {q} : op'[r] = op[r]
      /\ op[q].pc \notin {"idle", "done", "lost"} /\ op'[q].pc = "lost"
      /\ op'[q].row = op[q].row
      /\ op'[q].kind = op[q].kind /\ op'[q].moved = op[q].moved /\ op'[q].answer = op[q].answer
  BY DEF RequestLost
<1>2. UNCHANGED <<rows, chk, owed, taken, hub, unleased, stolen, raced, apart>>
  BY DEF RequestLost, hubVars, history
<1>3. RequestHolds(q)'
  BY <1>1, <1>2 DEF RequestsHold, RequestHolds, IdleOp
<1>4. StatesAreUsedOnce'
  <2>1. UNCHANGED <<consumed, own>> /\ op[q].answer # "connected"
    BY <1>1 DEF RequestLost, connection, StatesAreUsedOnce
  <2> QED
    BY <1>1, <2>1, StatesKept
<1> QED
  BY <1>1, <1>2, <1>3, <1>4, RequestMoves DEF RequestsHold, RequestHolds

LEMMA UnrecordedKeeps ==
  ASSUME WebSubTypes, WebSubFacts, NEW q \in Requests, RecordResult(q), ~Records(q)
  PROVE  op' \in [Requests -> RequestRecord] /\ WebSubFacts'
<1> USE RequestAssumption, WebSubTyped DEF WebSubFacts, RequestRecord, RequestPC
<1>1. /\ op' \in [Requests -> RequestRecord] /\ \A r \in Requests \ {q} : op'[r] = op[r]
      /\ op[q].pc = "record" /\ op'[q].pc = "done" /\ op'[q].row = op[q].row
      /\ op'[q].kind = op[q].kind /\ op'[q].moved = op[q].moved /\ op'[q].answer = op[q].answer
  BY DEF RecordResult
<1>2. UNCHANGED <<rows, chk, owed, taken, hub, unleased, stolen, raced, apart>>
  BY DEF RecordResult, hubVars, history
<1>3. RequestHolds(q)'
  BY <1>1, <1>2 DEF RequestsHold, RequestHolds, IdleOp
<1>4. StatesAreUsedOnce'
  <2>1. UNCHANGED <<consumed, own>> /\ op[q].answer # "connected"
    BY <1>1 DEF RecordResult, connection, StatesAreUsedOnce
  <2> QED
    BY <1>1, <2>1, StatesKept
<1>5. ASSUME NEW w \in Rows, rows[w].dispatch.attempt = q, rows[w].dispatch.status = "started"
      PROVE  Excused(w)
  <2>1. op[q].row = w /\ op[q].kind = rows[w].dispatch.mode
    BY <1>5 DEF StartedIsExplained
  <2>2. rows[w].status \notin {PendingStatus(rows[w].dispatch.mode), Settled(rows[w].dispatch.mode)}
    BY <1>5, <2>1 DEF Records, Settled
  <2> QED
    BY <1>5, <2>2 DEF StartedIsExplained
<1> QED
  BY <1>1, <1>2, <1>3, <1>4, <1>5, RequestMoves DEF RequestsHold, RequestHolds

LEMMA ConnectionReturnsKeeps ==
  ASSUME WebSubTypes, WebSubFacts, NEW q \in Requests, NEW s \in OAuthStates, ConnectionReturns(q, s)
  PROVE  op' \in [Requests -> RequestRecord] /\ WebSubFacts'
<1> USE RequestAssumption, WebSubTyped DEF WebSubFacts, RequestRecord, RequestPC
<1>1. /\ op' \in [Requests -> RequestRecord] /\ \A r \in Requests \ {q} : op'[r] = op[r]
      /\ op[q].pc = "idle" /\ op'[q].pc = "consume" /\ op'[q].state = s
      /\ ~op'[q].moved /\ op'[q].answer = None
  BY DEF ConnectionReturns, IdleOp
<1>2. UNCHANGED <<rows, chk, owed, taken, hub, unleased, stolen, raced, apart>>
  BY DEF ConnectionReturns, IdleOp, hubVars, history
<1>3. RequestHolds(q)'
  BY <1>1, <1>2 DEF RequestsHold, RequestHolds, IdleOp
<1>4. StatesAreUsedOnce'
  <2>1. UNCHANGED <<consumed, own>>
    BY DEF ConnectionReturns, connection
  <2>2. op[q].answer # "connected"
    BY <1>1 DEF StatesAreUsedOnce
  <2> QED
    BY <1>1, <2>1, <2>2 DEF StatesAreUsedOnce, UsesState
<1> QED
  BY <1>1, <1>2, <1>3, <1>4, RequestMoves DEF RequestsHold, RequestHolds

LEMMA StateRefusedKeeps ==
  ASSUME WebSubTypes, WebSubFacts, NEW q \in Requests, StateRefused(q)
  PROVE  op' \in [Requests -> RequestRecord] /\ WebSubFacts'
<1> USE RequestAssumption, WebSubTyped DEF WebSubFacts, RequestRecord, RequestPC
<1>1. /\ op' \in [Requests -> RequestRecord] /\ \A r \in Requests \ {q} : op'[r] = op[r]
      /\ op[q].pc = "consume" /\ op'[q].pc = "done"
      /\ op'[q].kind = op[q].kind /\ op'[q].moved = op[q].moved /\ op'[q].answer = op[q].answer
  BY DEF StateRefused
<1>2. UNCHANGED <<rows, chk, owed, taken, hub, unleased, stolen, raced, apart>>
  BY DEF StateRefused, hubVars, history
<1>3. RequestHolds(q)'
  BY <1>1, <1>2 DEF RequestsHold, RequestHolds, IdleOp
<1>4. StatesAreUsedOnce'
  <2>1. UNCHANGED <<consumed, own>> /\ op[q].answer # "connected"
    BY <1>1 DEF StateRefused, connection, StatesAreUsedOnce
  <2> QED
    BY <1>1, <2>1, StatesKept
<1> QED
  BY <1>1, <1>2, <1>3, <1>4, RequestMoves DEF RequestsHold, RequestHolds

LEMMA ConsumeStateKeeps ==
  ASSUME WebSubTypes, WebSubFacts, NEW q \in Requests, ConsumeState(q)
  PROVE  op' \in [Requests -> RequestRecord] /\ WebSubFacts'
<1> USE RequestAssumption, WebSubTyped DEF WebSubFacts, RequestRecord, RequestPC
<1>1. /\ op' \in [Requests -> RequestRecord] /\ \A r \in Requests \ {q} : op'[r] = op[r]
      /\ op[q].pc = "consume" /\ op'[q].pc = "exchange" /\ op'[q].state = op[q].state
      /\ op'[q].kind = op[q].kind /\ op'[q].moved = op[q].moved /\ op'[q].answer = op[q].answer
  BY DEF ConsumeState
<1>2. UNCHANGED <<rows, chk, owed, taken, hub, unleased, stolen, raced, apart>>
  BY DEF ConsumeState, hubVars, history
<1>3. RequestHolds(q)'
  BY <1>1, <1>2 DEF RequestsHold, RequestHolds, IdleOp
<1>4. StatesAreUsedOnce'
  <2>1. own' = own /\ consumed' = consumed \cup {op[q].state} /\ op[q].state \notin consumed
    BY DEF ConsumeState, Usable
  <2>2. op[q].answer # "connected"
    BY <1>1 DEF StatesAreUsedOnce
  <2>3. \A r \in Requests \ {q} : UsesState(r)' => UsesState(r) /\ op'[r].state # op[q].state
    BY <1>1, <2>1 DEF StatesAreUsedOnce, UsesState
  <2>4. \A r \in Requests : op'[r].answer = "connected" <=> op[r].answer = "connected"
    BY <1>1
  <2>5. \A r, x \in Requests : UsesState(r)' /\ UsesState(x)' /\ op'[r].state = op'[x].state => r = x
    BY <1>1, <2>3 DEF StatesAreUsedOnce
  <2>6. \A r \in Requests :
          /\ op'[r].pc = "consume" => op'[r].state \in OAuthStates
          /\ UsesState(r)' => op'[r].state \in consumed'
          /\ op'[r].answer = "connected" => op'[r].pc = "done"
    BY <1>1, <2>1, <2>2, <2>3 DEF StatesAreUsedOnce
  <2> QED
    BY <2>1, <2>4, <2>5, <2>6 DEF StatesAreUsedOnce
<1> QED
  BY <1>1, <1>2, <1>3, <1>4, RequestMoves DEF RequestsHold, RequestHolds

LEMMA ExchangeCodeKeeps ==
  ASSUME WebSubTypes, WebSubFacts, NEW q \in Requests, ExchangeCode(q)
  PROVE  op' \in [Requests -> RequestRecord] /\ WebSubFacts'
<1> USE RequestAssumption, WebSubTyped DEF WebSubFacts, RequestRecord, RequestPC
<1>1. /\ op' \in [Requests -> RequestRecord] /\ \A r \in Requests \ {q} : op'[r] = op[r]
      /\ op[q].pc = "exchange" /\ op'[q].pc \in {"attach", "done"} /\ op'[q].state = op[q].state
      /\ op'[q].kind = op[q].kind /\ op'[q].moved = op[q].moved /\ op'[q].answer = op[q].answer
  BY DEF ExchangeCode
<1>2. UNCHANGED <<rows, chk, owed, taken, hub, unleased, stolen, raced, apart>>
  BY DEF ExchangeCode, hubVars, history
<1>3. RequestHolds(q)'
  BY <1>1, <1>2 DEF RequestsHold, RequestHolds, IdleOp
<1>4. StatesAreUsedOnce'
  <2>1. UNCHANGED <<consumed, own>>
    BY DEF ExchangeCode, connection
  <2>2. op[q].answer # "connected"
    BY <1>1 DEF StatesAreUsedOnce
  <2> QED
    BY <1>1, <2>1, <2>2 DEF StatesAreUsedOnce, UsesState
<1> QED
  BY <1>1, <1>2, <1>3, <1>4, RequestMoves DEF RequestsHold, RequestHolds

LEMMA AttachReadsKeeps ==
  ASSUME WebSubTypes, WebSubFacts, NEW q \in Requests, AttachReads(q)
  PROVE  op' \in [Requests -> RequestRecord] /\ WebSubFacts'
<1> USE RequestAssumption, WebSubTyped DEF WebSubFacts, RequestRecord, RequestPC
<1>0. op[q].pc = "attach" /\ op \in [Requests -> RequestRecord]
  BY DEF AttachReads
<1>1. /\ op' \in [Requests -> RequestRecord] /\ \A r \in Requests \ {q} : op'[r] = op[r]
      /\ op[q].pc = "attach" /\ op'[q].state = op[q].state
      /\ op'[q].pc = "done" \/ (op'[q].pc = "attach_insert" /\ op'[q].answer = None)
      /\ op'[q].answer \in {None, "connected"}
      /\ op'[q].moved = op[q].moved /\ op'[q].kind = op[q].kind
  <2>1. \/ op' = [op EXCEPT ![q].pc = "done", ![q].answer = "connected"]
        \/ op' = [op EXCEPT ![q].pc = "attach_insert", ![q].answer = None]
    BY DEF AttachReads
  <2> QED
    BY <1>0, <2>1
<1>2. UNCHANGED <<rows, chk, owed, taken, hub, unleased, stolen, raced, apart>>
  BY DEF AttachReads, hubVars, history
<1>3. RequestHolds(q)'
  BY <1>1, <1>2 DEF RequestsHold, RequestHolds, IdleOp
<1>4. StatesAreUsedOnce'
  <2>1. UNCHANGED <<consumed, own>>
    BY DEF AttachReads, connection
  <2>2. UsesState(q)' => UsesState(q)
    BY <1>1 DEF UsesState
  <2>3. op'[q].answer = "connected" => op'[q].pc = "done"
    BY <1>1
  <2>4. op[q].answer # "connected"
    BY <1>1 DEF StatesAreUsedOnce
  <2>5. \A r \in Requests : UsesState(r)' => UsesState(r) /\ op'[r].state = op[r].state
    BY <1>1, <2>2 DEF UsesState
  <2>6. \A r \in Requests : /\ op'[r].pc = "consume" => op'[r].state \in OAuthStates
                            /\ UsesState(r)' => op'[r].state \in consumed'
                            /\ op'[r].answer = "connected" => op'[r].pc = "done"
    BY <1>1, <2>1, <2>3, <2>5 DEF StatesAreUsedOnce
  <2>7. \A r, t \in Requests :
          UsesState(r)' /\ UsesState(t)' /\ op'[r].state = op'[t].state => r = t
    BY <2>5 DEF StatesAreUsedOnce
  <2>8. own' # None => \E r \in Requests : op'[r].answer = "connected"
    <3>1. ASSUME NEW r \in Requests, op[r].answer = "connected"
          PROVE  op'[r].answer = "connected"
      BY <1>1, <2>4, <3>1
    <3> QED
      BY <2>1, <3>1 DEF StatesAreUsedOnce
  <2> QED
    BY <2>6, <2>7, <2>8 DEF StatesAreUsedOnce
<1> QED
  BY <1>1, <1>2, <1>3, <1>4, RequestMoves DEF RequestsHold, RequestHolds

-----------------------------------------------------------------------------
LEMMA OthersHold ==
  ASSUME RequestsHold, NEW q \in Requests, \A r \in Requests \ {q} : op'[r] = op[r],
         \A r \in Requests \ {q} : r \in taken' <=> r \in taken, RequestHolds(q)'
  PROVE  RequestsHold'
<1>1. ASSUME NEW r \in Requests, r # q PROVE RequestHolds(r)'
  BY <1>1 DEF RequestsHold, RequestHolds
<1> QED
  BY <1>1 DEF RequestsHold

\* The hub and the rows agree as long as no row moves between what is sent and what is not.
LEMMA HubKept ==
  ASSUME HubFollowsRow, UNCHANGED <<chk, hub, unleased>>, apart \subseteq apart',
         \A w \in Rows \ apart' : rows'[w].status \in Verified <=> rows[w].status \in Verified
  PROVE  HubFollowsRow'
BY DEF HubFollowsRow, Answers, Sends

\* What a step keeps that dispatches nothing and ends no dispatch, whatever rows it moves.
LEMMA DispatchesKept ==
  ASSUME WebSubTypes, WebSubFacts, raced \subseteq raced', UNCHANGED <<taken, stolen>>,
         \A w \in Rows : rows'[w].dispatch = rows[w].dispatch,
         \A r \in Requests :
           /\ op[r].pc \in {"hub", "record", "done", "lost"} \/ op'[r].pc \in {"hub", "record"} =>
                op'[r] = op[r]
           /\ op[r].pc \in {"claim", "recover"} =>
                /\ op'[r].pc \in {"claim", "recover", "done", "lost"}
                /\ op'[r].row = op[r].row /\ op'[r].kind = op[r].kind,
         \A w \in Rows : rows[w].dispatch.status = "started" =>
           \/ rows'[w].status = rows[w].status
           \/ rows'[w].status \in {PendingStatus(rows[w].dispatch.mode),
                                   Settled(rows[w].dispatch.mode)}
           \/ Excused(w) \/ Excused(w)'
  PROVE  ResultsHold' /\ OneSpeaker' /\ StartedIsExplained'
<1> USE WebSubTyped DEF WebSubFacts
<1>1. ASSUME NEW w \in Rows, rows[w].dispatch.status # "none"
      PROVE  rows[w].dispatch.attempt \in Requests
  BY <1>1 DEF RowsHold, RowHolds
<1>2. ResultsHold'
  BY <1>1 DEF ResultsHold
<1>3. OneSpeaker'
  BY DEF OneSpeaker
<1>4. ASSUME NEW w \in Rows, Excused(w) PROVE Excused(w)'
  <2>1. CASE w \in raced
    BY <2>1 DEF Excused
  <2>2. CASE w \notin raced
    <3>1. PICK r \in Requests \ {rows[w].dispatch.attempt} :
            /\ op[r].row = w /\ op[r].kind # rows[w].dispatch.mode
            /\ op[r].pc \in {"claim", "recover", "done", "lost"}
      BY <1>4, <2>2 DEF Excused
    <3>2. op'[r].row = op[r].row /\ op'[r].kind = op[r].kind
          /\ op'[r].pc \in {"claim", "recover", "done", "lost"}
      BY <3>1
    <3> QED
      BY <3>1, <3>2 DEF Excused
  <2> QED
    BY <2>1, <2>2
<1>5. ASSUME NEW w \in Rows, rows[w].dispatch.status = "started"
      PROVE  LET d == rows[w].dispatch
             IN  /\ op'[d.attempt].row = w /\ op'[d.attempt].kind = d.mode
                 /\ op'[d.attempt].pc \in {"hub", "record", "lost", "done"}
                 /\ op'[d.attempt].pc = "done" => Excused(w)'
                 /\ rows'[w].status \in {PendingStatus(d.mode), Settled(d.mode)} \/ Excused(w)'
  <2> DEFINE a == rows[w].dispatch.attempt
  <2>1. /\ a \in Requests /\ op[a].row = w /\ op[a].kind = rows[w].dispatch.mode
        /\ op[a].pc \in {"hub", "record", "lost", "done"}
        /\ op[a].pc = "done" => Excused(w)
        /\ rows[w].status \in {PendingStatus(rows[w].dispatch.mode), Settled(rows[w].dispatch.mode)}
             \/ Excused(w)
    BY <1>1, <1>5 DEF StartedIsExplained
  <2>2. op'[a] = op[a]
    BY <2>1
  <2> QED
    BY <1>4, <1>5, <2>1, <2>2
<1>6. StartedIsExplained'
  <2> SUFFICES ASSUME NEW w \in Rows, rows'[w].dispatch.status = "started"
               PROVE  LET d == rows'[w].dispatch
                      IN  /\ op'[d.attempt].row = w /\ op'[d.attempt].kind = d.mode
                          /\ op'[d.attempt].pc \in {"hub", "record", "lost", "done"}
                          /\ op'[d.attempt].pc = "done" => Excused(w)'
                          /\ rows'[w].status \in {PendingStatus(d.mode), Settled(d.mode)}
                               \/ Excused(w)'
    BY DEF StartedIsExplained, Settled, PendingStatus
  <2>1. rows'[w].dispatch = rows[w].dispatch
    OBVIOUS
  <2> QED
    BY <1>5, <2>1
<1> QED
  BY <1>2, <1>3, <1>6

LEMMA CreatePendingKeeps ==
  ASSUME WebSubTypes, WebSubFacts, NEW q \in Requests, CreatePending(q)
  PROVE  /\ rows' \in [Rows -> SubscriptionRecord] /\ op' \in [Requests -> RequestRecord]
         /\ WebSubFacts'
<1> USE RequestAssumption, WebSubTyped DEF WebSubFacts, RequestRecord, RequestPC
<1>1. op[q].pc = "insert" /\ UNCHANGED <<connection, chk, hubVars, faults, history>>
  BY DEF CreatePending
<1>2. CASE UNCHANGED rows /\ op' = [op EXCEPT ![q].pc = "refind"]
  BY <1>1, <1>2, RefindKeeps
<1>3. ASSUME NEW w \in Rows, rows[w].status = "none", IndexAllows(w), rows' = Pending(w),
             op' = [op EXCEPT ![q].pc = "claim", ![q].row = w]
      PROVE  /\ rows' \in [Rows -> SubscriptionRecord] /\ op' \in [Requests -> RequestRecord]
             /\ WebSubFacts'
  <2>1. /\ rows' \in [Rows -> SubscriptionRecord] /\ RowsHold' /\ OneOpenRow'
        /\ rows'[w].status = "pending_subscribe" /\ rows'[w].dispatch = rows[w].dispatch
        /\ rows'[w].rev = rows[w].rev + 1 /\ \A x \in Rows \ {w} : rows'[x] = rows[x]
    <3>1. "pending_subscribe" \in Statuses /\ "subscribe" \in HubModes \cup {None}
      BY DEF Statuses, Open, HubModes
    <3>2. rows' = Moved(w, "pending_subscribe", "subscribe")
      BY <1>3 DEF Pending
    <3> QED
      BY <1>3, <3>1, <3>2, RowMoves
  <2>2. /\ op' \in [Requests -> RequestRecord] /\ \A r \in Requests \ {q} : op'[r] = op[r]
        /\ op'[q].pc = "claim" /\ op'[q].row = w /\ op'[q].kind = op[q].kind
        /\ op'[q].moved = op[q].moved /\ op'[q].answer = op[q].answer
    <3> DEFINE u == [op[q] EXCEPT !.pc = "claim", !.row = w]
    <3>1. /\ u \in RequestRecord /\ u.pc = "claim" /\ u.row = w /\ u.kind = op[q].kind
          /\ u.moved = op[q].moved /\ u.answer = op[q].answer
      OBVIOUS
    <3>2. op' = [op EXCEPT ![q] = u]
      BY <1>3
    <3> HIDE DEF u
    <3> QED
      BY <3>1, <3>2, RequestReplaced
  <2>3. op[q].kind = "subscribe" /\ ~op[q].moved /\ q \notin taken
    BY <1>1 DEF RequestsHold, RequestHolds
  <2>4. UNCHANGED <<chk, owed, taken, hub, unleased, stolen, raced, apart, consumed, own>>
    BY <1>1 DEF hubVars, history, connection
  <2>5. RequestsHold'
    <3>1. RequestHolds(q)'
      BY <2>2, <2>3, <2>4 DEF RequestHolds, Kinds
    <3> QED
      BY <2>2, <2>4, <3>1, OthersHold
  <2>6. StatesAreUsedOnce'
    <3>1. op[q].answer # "connected"
      BY <1>1 DEF StatesAreUsedOnce
    <3> QED
      BY <2>2, <2>4, <3>1, StatesKept
  <2>7. HubFollowsRow'
    BY <1>3, <2>1, <2>4, HubKept DEF Verified, Open
  <2>8. ChecksHold'
    BY <2>4 DEF ChecksHold
  <2>9. ResultsHold' /\ OneSpeaker' /\ StartedIsExplained'
    <3>1. rows[w].dispatch.status # "started"
      BY <1>3 DEF RowsHold, RowHolds, NoDispatch
    <3>2. \A x \in Rows : rows'[x].dispatch = rows[x].dispatch
      BY <2>1
    <3> QED
      BY <1>1, <2>1, <2>2, <2>4, <3>1, <3>2, DispatchesKept DEF hubVars, history
  <2> QED
    BY <2>1, <2>2, <2>5, <2>6, <2>7, <2>8, <2>9
<1> QED
  BY <1>2, <1>3 DEF CreatePending

LEMMA AttachInsertsKeeps ==
  ASSUME WebSubTypes, WebSubFacts, NEW q \in Requests, AttachInserts(q)
  PROVE  /\ rows' \in [Rows -> SubscriptionRecord] /\ op' \in [Requests -> RequestRecord]
         /\ own' \in Rows \cup {None} /\ WebSubFacts'
<1> USE RequestAssumption, WebSubTyped DEF WebSubFacts, RequestRecord, RequestPC
<1>1. op[q].pc = "attach_insert" /\ UNCHANGED <<chk, consumed, owed, taken, hub, unleased, faults, stolen, raced, apart>>
  BY DEF AttachInserts, hubVars, history
<1>2. PICK w \in Rows :
        /\ rows[w].status = "none"
        /\ rows' = IF own = None /\ IndexAllows(w) THEN Pending(w) ELSE rows
        /\ own' = IF own = None /\ IndexAllows(w) THEN w ELSE own
        /\ op' = [op EXCEPT ![q].pc = "done",
                    ![q].answer = IF own = None /\ IndexAllows(w) THEN "connected" ELSE "conflict"]
  BY DEF AttachInserts
<1>3. PICK answer \in {"connected", "conflict"} :
        /\ op' = [op EXCEPT ![q].pc = "done", ![q].answer = answer]
        /\ answer = "connected" <=> own = None /\ IndexAllows(w)
  BY <1>2
<1>4. /\ op' \in [Requests -> RequestRecord] /\ \A r \in Requests \ {q} : op'[r] = op[r]
      /\ op'[q].pc = "done" /\ op'[q].answer = answer /\ op'[q].state = op[q].state
      /\ op'[q].kind = op[q].kind /\ op'[q].row = op[q].row /\ op'[q].moved = op[q].moved
  <2> DEFINE u == [op[q] EXCEPT !.pc = "done", !.answer = answer]
  <2>1. /\ u \in RequestRecord /\ u.pc = "done" /\ u.answer = answer /\ u.state = op[q].state
        /\ u.kind = op[q].kind /\ u.row = op[q].row /\ u.moved = op[q].moved
    OBVIOUS
  <2>2. op' = [op EXCEPT ![q] = u]
    BY <1>3
  <2> HIDE DEF u
  <2> QED
    BY <2>1, <2>2, RequestReplaced
<1>5. q \notin taken /\ op[q].answer # "connected"
  BY <1>1 DEF RequestsHold, RequestHolds, StatesAreUsedOnce
<1>6. RequestsHold'
  <2>1. RequestHolds(q)'
    BY <1>1, <1>4, <1>5 DEF RequestsHold, RequestHolds
  <2> QED
    BY <1>1, <1>4, <2>1, OthersHold
<1>7. StatesAreUsedOnce'
  <2>1. UsesState(q) /\ (UsesState(q)' <=> answer = "connected")
    BY <1>1, <1>4 DEF UsesState
  <2>2. \A r \in Requests : UsesState(r)' => UsesState(r)
    BY <1>4, <2>1 DEF UsesState
  <2>3. \A r \in Requests : op'[r].state = op[r].state
    BY <1>4
  <2>4. own' # None => \E r \in Requests : op'[r].answer = "connected"
    <3>1. CASE answer = "connected"
      BY <1>4, <3>1
    <3>2. CASE answer # "connected"
      <4>1. own' = own
        BY <1>2, <1>3, <3>2
      <4> QED
        BY <1>4, <1>5, <4>1 DEF StatesAreUsedOnce
    <3> QED
      BY <3>1, <3>2
  <2>5. \A r \in Requests : /\ op'[r].pc = "consume" => op'[r].state \in OAuthStates
                            /\ op'[r].answer = "connected" => op'[r].pc = "done"
    BY <1>4 DEF StatesAreUsedOnce
  <2> QED
    BY <1>1, <2>2, <2>3, <2>4, <2>5 DEF StatesAreUsedOnce
<1>8. CASE own = None /\ IndexAllows(w)
  <2>1. /\ rows' \in [Rows -> SubscriptionRecord] /\ RowsHold' /\ OneOpenRow'
        /\ rows'[w].status = "pending_subscribe" /\ rows'[w].dispatch = rows[w].dispatch
        /\ rows'[w].rev = rows[w].rev + 1 /\ \A x \in Rows \ {w} : rows'[x] = rows[x]
    <3>1. "pending_subscribe" \in Statuses /\ "subscribe" \in HubModes \cup {None}
      BY DEF Statuses, Open, HubModes
    <3>2. rows' = Moved(w, "pending_subscribe", "subscribe")
      BY <1>2, <1>8 DEF Pending
    <3> QED
      BY <1>8, <3>1, <3>2, RowMoves
  <2>2. HubFollowsRow'
    BY <1>1, <1>2, <2>1, HubKept DEF Verified, Open
  <2>3. ChecksHold'
    BY <1>1 DEF ChecksHold
  <2>4. ResultsHold' /\ OneSpeaker' /\ StartedIsExplained'
    <3>1. rows[w].dispatch.status # "started"
      BY <1>2 DEF RowsHold, RowHolds, NoDispatch
    <3>2. \A x \in Rows : rows'[x].dispatch = rows[x].dispatch
      BY <2>1
    <3> QED
      BY <1>1, <1>4, <2>1, <3>1, <3>2, DispatchesKept DEF hubVars, history
  <2> QED
    BY <1>2, <1>4, <1>6, <1>7, <1>8, <2>1, <2>2, <2>3, <2>4
<1>9. CASE ~(own = None /\ IndexAllows(w))
  <2>1. rows' = rows /\ own' = own
    BY <1>2, <1>9
  <2>2. RequestHolds(q)'
    BY <1>6 DEF RequestsHold
  <2> QED
    BY <1>1, <1>4, <1>7, <2>1, <2>2, RequestMoves DEF WebSubTypes
<1> QED
  BY <1>8, <1>9

LEMMA MarkRenewalPendingKeeps ==
  ASSUME WebSubTypes, WebSubFacts, NEW q \in Requests, MarkRenewalPending(q)
  PROVE  /\ rows' \in [Rows -> SubscriptionRecord] /\ op' \in [Requests -> RequestRecord]
         /\ WebSubFacts'
<1> USE RequestAssumption, WebSubTyped DEF WebSubFacts, RequestRecord, RequestPC
<1> DEFINE w == op[q].row
<1>1. /\ op[q].pc = "mark" /\ op[q].kind = "renew" /\ w \in Rows /\ q \notin taken
      /\ op[q].answer # "connected"
      /\ UNCHANGED <<chk, owed, taken, hub, unleased, stolen, raced, apart, consumed, own>>
  BY DEF MarkRenewalPending, hubVars, history, connection, RequestsHold, RequestHolds, StatesAreUsedOnce
<1>2. /\ rows' = IF StillActive(w) THEN Moved(w, "pending_renewal", "subscribe") ELSE rows
      /\ op' = [op EXCEPT ![q].pc = "claim", ![q].moved = StillActive(w), ![q].rev = rows'[w].rev]
  BY DEF MarkRenewalPending
<1>3. PICK still \in BOOLEAN : still <=> StillActive(w)
  OBVIOUS
<1>4. still = StillActive(w)
  BY <1>3, Zenon DEF StillActive
<1>5. /\ StillActive(w) =>
           /\ rows' \in [Rows -> SubscriptionRecord] /\ RowsHold' /\ OneOpenRow'
           /\ rows'[w].status = "pending_renewal" /\ rows'[w].dispatch = rows[w].dispatch
           /\ rows'[w].rev = rows[w].rev + 1 /\ \A x \in Rows \ {w} : rows'[x] = rows[x]
      /\ ~StillActive(w) => rows' = rows
  <2>1. CASE StillActive(w)
    <3>1. "pending_renewal" \in Statuses /\ "subscribe" \in HubModes \cup {None}
      BY DEF Statuses, Open, HubModes
    <3>2. rows' = Moved(w, "pending_renewal", "subscribe") /\ IndexAllows(w)
      BY <1>2, <2>1 DEF StillActive, IndexAllows, Open
    <3> QED
      BY <1>1, <2>1, <3>1, <3>2, RowMoves
  <2> QED
    BY <1>2, <2>1
<1>6. rows' \in [Rows -> SubscriptionRecord] /\ rows'[w].rev \in Nat
  BY <1>1, <1>5 DEF SubscriptionRecord
<1>7. /\ op' \in [Requests -> RequestRecord] /\ \A r \in Requests \ {q} : op'[r] = op[r]
      /\ op'[q].pc = "claim" /\ op'[q].row = w /\ op'[q].kind = op[q].kind
      /\ op'[q].moved = still /\ op'[q].answer = op[q].answer /\ op'[q].rev = rows'[w].rev
  <2>1. PICK n \in Nat : n = rows'[w].rev
    BY <1>6
  <2>2. op' = [op EXCEPT ![q].pc = "claim", ![q].moved = still, ![q].rev = n]
    BY <1>2, <1>4, <2>1
  <2> DEFINE u == [op[q] EXCEPT !.pc = "claim", !.moved = still, !.rev = n]
  <2>3. /\ u \in RequestRecord /\ u.pc = "claim" /\ u.row = w /\ u.kind = op[q].kind
        /\ u.moved = still /\ u.answer = op[q].answer /\ u.rev = n
    OBVIOUS
  <2>4. op' = [op EXCEPT ![q] = u]
    BY <2>2
  <2> HIDE DEF u
  <2> QED
    BY <2>1, <2>3, <2>4, RequestReplaced
<1>8. RequestsHold'
  <2>1. RequestHolds(q)'
    BY <1>1, <1>7 DEF RequestHolds, Kinds
  <2> QED
    BY <1>1, <1>7, <2>1, OthersHold
<1>9. StatesAreUsedOnce'
  BY <1>1, <1>7, StatesKept
<1>10. CASE StillActive(w)
  <2>1. HubFollowsRow'
    BY <1>1, <1>5, <1>10, HubKept DEF Verified, Open, StillActive
  <2>2. ChecksHold'
    BY <1>1 DEF ChecksHold
  <2>3. ResultsHold' /\ OneSpeaker' /\ StartedIsExplained'
    <3>1. ASSUME rows[w].dispatch.status = "started"
          PROVE  \/ rows'[w].status \in {PendingStatus(rows[w].dispatch.mode),
                                         Settled(rows[w].dispatch.mode)}
                 \/ Excused(w)'
      <4>1. CASE rows[w].dispatch.mode = "renew"
        BY <1>5, <1>10, <4>1 DEF PendingStatus
      <4>2. CASE rows[w].dispatch.mode # "renew"
        <5>1. rows'[w].dispatch = rows[w].dispatch /\ op[rows[w].dispatch.attempt].kind # "renew"
          BY <1>1, <1>5, <1>10, <3>1, <4>2 DEF StartedIsExplained
        <5> QED
          BY <1>1, <1>7, <4>2, <5>1 DEF Excused
      <4> QED
        BY <4>1, <4>2
    <3>2. \A x \in Rows : rows'[x].dispatch = rows[x].dispatch
      BY <1>5, <1>10
    <3> QED
      BY <1>1, <1>5, <1>7, <1>10, <3>1, <3>2, DispatchesKept DEF hubVars, history
  <2> QED
    BY <1>5, <1>7, <1>8, <1>9, <1>10, <2>1, <2>2, <2>3
<1>11. CASE ~StillActive(w)
  <2>1. rows' = rows
    BY <1>5, <1>11
  <2>2. RequestHolds(q)'
    BY <1>8 DEF RequestsHold
  <2> QED
    BY <1>1, <1>6, <1>7, <1>9, <2>1, <2>2, RequestMoves
<1> QED
  BY <1>10, <1>11

LEMMA MarkUnsubscribePendingKeeps ==
  ASSUME WebSubTypes, WebSubFacts, NEW q \in Requests, MarkUnsubscribePending(q)
  PROVE  /\ rows' \in [Rows -> SubscriptionRecord] /\ op' \in [Requests -> RequestRecord]
         /\ WebSubFacts'
<1> USE RequestAssumption, WebSubTyped DEF WebSubFacts, RequestRecord, RequestPC
<1> DEFINE w == op[q].row
<1>1. /\ op[q].pc = "mark" /\ op[q].kind = "unsubscribe" /\ w \in Rows /\ q \notin taken
      /\ op[q].answer # "connected" /\ ~op[q].moved
      /\ UNCHANGED <<chk, owed, taken, hub, unleased, stolen, consumed, own>>
      /\ UNCHANGED <<connection, chk, hubVars, faults, stolen>>
  BY DEF MarkUnsubscribePending, hubVars, history, connection, RequestsHold, RequestHolds, StatesAreUsedOnce
<1>2. CASE ~IndexAllows(w)
  BY <1>1, <1>2, GivesUpKeeps DEF MarkUnsubscribePending, history
<1>3. CASE IndexAllows(w)
  <2>1. /\ rows' = Moved(w, "pending_unsubscribe", "unsubscribe")
        /\ op' = [op EXCEPT ![q].pc = "claim"]
        /\ raced' = IF rows[w].status = "active" THEN raced ELSE raced \cup {w}
        /\ apart' = IF rows[w].status \in Verified THEN apart ELSE apart \cup {w}
    BY <1>3 DEF MarkUnsubscribePending
  <2>2. /\ rows' \in [Rows -> SubscriptionRecord] /\ RowsHold' /\ OneOpenRow'
        /\ rows'[w].status = "pending_unsubscribe" /\ rows'[w].dispatch = rows[w].dispatch
        /\ rows'[w].rev = rows[w].rev + 1 /\ \A x \in Rows \ {w} : rows'[x] = rows[x]
    <3>1. "pending_unsubscribe" \in Statuses /\ "unsubscribe" \in HubModes \cup {None}
      BY DEF Statuses, Open, HubModes
    <3> QED
      BY <1>1, <1>3, <2>1, <3>1, RowMoves
  <2>3. /\ op' \in [Requests -> RequestRecord] /\ \A r \in Requests \ {q} : op'[r] = op[r]
        /\ op'[q].pc = "claim" /\ op'[q].row = w /\ op'[q].kind = op[q].kind
        /\ op'[q].moved = op[q].moved /\ op'[q].answer = op[q].answer
    BY <2>1
  <2>4. RequestsHold'
    <3>1. RequestHolds(q)'
      BY <1>1, <2>3 DEF RequestHolds, Kinds
    <3> QED
      BY <1>1, <2>3, <3>1, OthersHold
  <2>5. StatesAreUsedOnce'
    BY <1>1, <2>3, StatesKept
  <2>6. HubFollowsRow'
    BY <1>1, <2>1, <2>2, HubKept DEF Verified, Open
  <2>7. ChecksHold'
    BY <1>1 DEF ChecksHold
  <2>8. ResultsHold' /\ OneSpeaker' /\ StartedIsExplained'
    <3>1. ASSUME rows[w].dispatch.status = "started"
          PROVE  \/ rows'[w].status \in {PendingStatus(rows[w].dispatch.mode),
                                         Settled(rows[w].dispatch.mode)}
                 \/ Excused(w)'
      <4>1. CASE rows[w].dispatch.mode = "unsubscribe"
        BY <2>2, <4>1 DEF PendingStatus
      <4>2. CASE rows[w].dispatch.mode # "unsubscribe"
        <5>1. rows'[w].dispatch = rows[w].dispatch /\ op[rows[w].dispatch.attempt].kind # "unsubscribe"
          BY <1>1, <2>2, <3>1, <4>2 DEF StartedIsExplained
        <5> QED
          BY <1>1, <2>3, <4>2, <5>1 DEF Excused
      <4> QED
        BY <4>1, <4>2
    <3>2. \A x \in Rows : rows'[x].dispatch = rows[x].dispatch
      BY <2>2
    <3>3. raced \subseteq raced'
      BY <2>1
    <3> QED
      BY <1>1, <2>2, <2>3, <3>1, <3>2, <3>3, DispatchesKept
  <2> QED
    BY <2>2, <2>3, <2>4, <2>5, <2>6, <2>7, <2>8
<1> QED
  BY <1>2, <1>3

\* The mapping of the row has no dispatch, and so what the recovery compares it with is never there.
LEMMA NeverUnchanged ==
  ASSUME WebSubTypes, WebSubFacts, NEW q \in Requests, op[q].pc = "recover"
  PROVE  ~UnchangedSinceMark(q)
<1>1. op[q].row \in Rows
  BY DEF WebSubFacts, RequestsHold, RequestHolds
<1>2. rows[op[q].row].dispatch.status # "json_null"
  BY <1>1, WebSubTyped DEF DispatchRecord
<1>3. MappedDispatch.status = "json_null"
  BY DEF MappedDispatch, NoDispatch
<1> QED
  BY <1>2, <1>3 DEF UnchangedSinceMark

LEMMA RecoverKeeps ==
  ASSUME WebSubTypes, WebSubFacts, NEW q \in Requests, Recover(q)
  PROVE  /\ rows' = rows /\ op' \in [Requests -> RequestRecord] /\ WebSubFacts'
<1>1. op[q].pc = "recover" /\ op' = [op EXCEPT ![q].pc = "done"]
      /\ UNCHANGED <<connection, chk, hubVars, faults, history>>
  BY DEF Recover
<1>2. rows' = rows
  BY <1>1, NeverUnchanged DEF Recover
<1> QED
  BY <1>1, <1>2, GivesUpKeeps

LEMMA ClaimKeeps ==
  ASSUME WebSubTypes, WebSubFacts, NEW q \in Requests, Claim(q)
  PROVE  /\ rows' \in [Rows -> SubscriptionRecord] /\ op' \in [Requests -> RequestRecord]
         /\ WebSubFacts'
<1> USE RequestAssumption, WebSubTyped DEF WebSubFacts, RequestRecord, RequestPC
<1> DEFINE w == op[q].row
           mode == op[q].kind
           D == [attempt |-> q, mode |-> mode, status |-> "started", retry |-> FALSE, stale |-> FALSE]
<1>1. /\ op[q].pc = "claim" /\ mode \in Kinds /\ w \in Rows /\ q \notin taken
      /\ op[q].answer # "connected"
      /\ UNCHANGED <<chk, owed, taken, hub, unleased, raced, apart, consumed, own>>
      /\ UNCHANGED <<connection, chk, hubVars, faults, raced, apart>>
  BY DEF Claim, hubVars, history, connection, RequestsHold, RequestHolds, StatesAreUsedOnce
<1>2. CASE ~Claimable(w, mode)
  <2>1. /\ op' = [op EXCEPT ![q].pc = IF op[q].moved THEN "recover" ELSE "done"]
        /\ UNCHANGED <<rows, stolen>>
    BY <1>2 DEF Claim
  <2>2. \/ op' = [op EXCEPT ![q].pc = "done"]
        \/ op[q].moved /\ op' = [op EXCEPT ![q].pc = "recover"]
    BY <2>1
  <2> QED
    BY <1>1, <2>1, <2>2, GivesUpKeeps DEF history
<1>3. CASE Claimable(w, mode)
  <2>1. /\ rows' = [rows EXCEPT ![w].rev = @ + 1, ![w].dispatch = D]
        /\ op' = [op EXCEPT ![q].pc = "hub"]
        /\ stolen' = IF rows[w].dispatch.stale THEN stolen \cup {w} ELSE stolen
    BY <1>3 DEF Claim
  <2>2. /\ rows' \in [Rows -> SubscriptionRecord] /\ rows'[w].dispatch = D
        /\ rows'[w].rev = rows[w].rev + 1 /\ rows'[w].rev \in Nat
        /\ \A x \in Rows : rows'[x].status = rows[x].status /\ rows'[x].mode = rows[x].mode
        /\ \A x \in Rows \ {w} : rows'[x] = rows[x]
    <3>1. D \in DispatchRecord
      BY <1>1 DEF DispatchRecord
    <3> HIDE DEF D
    <3> DEFINE u == [rows[w] EXCEPT !.rev = @ + 1, !.dispatch = D]
    <3>2. rows[w] \in SubscriptionRecord /\ rows[w].rev + 1 \in Nat
      BY <1>1
    <3>3. /\ u \in SubscriptionRecord /\ u.dispatch = D /\ u.rev = rows[w].rev + 1
          /\ u.status = rows[w].status /\ u.mode = rows[w].mode
      BY <3>1, <3>2 DEF SubscriptionRecord
    <3>4. rows' = [rows EXCEPT ![w] = u]
      BY <2>1
    <3> HIDE DEF u
    <3>5. rows' \in [Rows -> SubscriptionRecord] /\ rows'[w] = u /\ \A x \in Rows \ {w} : rows'[x] = rows[x]
      BY <1>1, <3>3, <3>4
    <3> QED
      BY <1>1, <3>2, <3>3, <3>5
  <2>3. /\ op' \in [Requests -> RequestRecord] /\ \A r \in Requests \ {q} : op'[r] = op[r]
        /\ op'[q].pc = "hub" /\ op'[q].row = w /\ op'[q].kind = mode
        /\ op'[q].moved = op[q].moved /\ op'[q].answer = op[q].answer
    BY <2>1
  <2>4. /\ D.attempt = q /\ D.mode = mode /\ D.status = "started" /\ ~D.retry /\ ~D.stale
    OBVIOUS
  <2> HIDE DEF D
  <2>5. rows[w].status = PendingStatus(mode) /\ rows[w].status # "none"
    BY <1>1, <1>3 DEF Claimable, PendingStatus, Kinds
  <2>6. RowsHold' /\ OneOpenRow'
    <3>1. RowHolds(rows'[w])
      BY <1>1, <2>2, <2>4, <2>5 DEF RowsHold, RowHolds
    <3>2. \A x \in Rows \ {w} : RowHolds(rows'[x])
      BY <2>2 DEF RowsHold
    <3> QED
      BY <2>2, <3>1, <3>2 DEF RowsHold, OneOpenRow
  <2>7. RequestsHold'
    <3>1. RequestHolds(q)'
      BY <1>1, <2>3 DEF RequestHolds, RequestsHold
    <3> QED
      BY <1>1, <2>3, <3>1, OthersHold
  <2>8. StatesAreUsedOnce'
    BY <1>1, <2>3, StatesKept
  <2>9. HubFollowsRow' /\ ChecksHold'
    BY <1>1, <2>2, HubKept DEF ChecksHold
  <2>10. ResultsHold'
    <3> SUFFICES ASSUME NEW x \in Rows, rows'[x].dispatch.status \in {"accepted", "failed"}
                 PROVE  LET d == rows'[x].dispatch
                        IN  /\ op'[d.attempt].pc = "done"
                            /\ d.status = "accepted" => d.attempt \in taken'
                            /\ d.status = "failed" /\ ~d.retry => d.attempt \notin taken'
      BY DEF ResultsHold
    <3>1. x # w /\ rows'[x] = rows[x]
      BY <2>2, <2>4
    <3>2. rows[x].dispatch.attempt \in Requests /\ op[rows[x].dispatch.attempt].pc = "done"
      BY <3>1 DEF ResultsHold, RowsHold, RowHolds
    <3>3. op'[rows[x].dispatch.attempt] = op[rows[x].dispatch.attempt]
      BY <1>1, <2>3, <3>2
    <3> QED
      BY <1>1, <3>1, <3>2, <3>3 DEF ResultsHold
  <2>11. OneSpeaker'
    <3>1. ASSUME NEW r \in Requests \ {q}, w \notin stolen', op[r].row = w, op[r].pc = "hub"
          PROVE  FALSE
      <4>1. w \notin stolen /\ ~rows[w].dispatch.stale
        BY <2>1, <3>1
      <4>2. rows[w].dispatch.status = "started"
        BY <1>1, <3>1, <4>1 DEF OneSpeaker
      <4> QED
        BY <1>3, <4>1, <4>2 DEF Claimable, NoDispatch
    <3>2. stolen \subseteq stolen'
      BY <2>1
    <3>3. ASSUME NEW x \in Rows \ stolen', NEW r \in Requests, op'[r].row = x, op'[r].pc = "hub"
          PROVE  rows'[x].dispatch.attempt = r /\ rows'[x].dispatch.status = "started"
      <4>1. CASE r = q
        BY <2>2, <2>3, <2>4, <3>3, <4>1
      <4>2. CASE r # q
        <5>1. op'[r] = op[r] /\ x # w
          BY <2>3, <3>1, <3>3, <4>2
        <5> QED
          BY <2>2, <3>2, <3>3, <5>1 DEF OneSpeaker
      <4> QED
        BY <4>1, <4>2
    <3> QED
      BY <3>3 DEF OneSpeaker
  <2>12. StartedIsExplained'
    <3> SUFFICES ASSUME NEW x \in Rows, rows'[x].dispatch.status = "started"
                 PROVE  LET d == rows'[x].dispatch
                        IN  /\ op'[d.attempt].row = x /\ op'[d.attempt].kind = d.mode
                            /\ op'[d.attempt].pc \in {"hub", "record", "lost", "done"}
                            /\ op'[d.attempt].pc = "done" => Excused(x)'
                            /\ rows'[x].status \in {PendingStatus(d.mode), Settled(d.mode)}
                                 \/ Excused(x)'
      BY DEF StartedIsExplained, Settled, PendingStatus
    <3>1. CASE x = w
      BY <2>2, <2>3, <2>4, <2>5, <3>1
    <3>2. CASE x # w
      <4> DEFINE a == rows[x].dispatch.attempt
      <4>1. rows'[x] = rows[x]
        BY <2>2, <3>2
      <4>2. a \in Requests
        BY <4>1 DEF RowsHold, RowHolds
      <4>3. /\ op[a].row = x /\ op[a].kind = rows[x].dispatch.mode
            /\ op[a].pc \in {"hub", "record", "lost", "done"}
            /\ op[a].pc = "done" => Excused(x)
            /\ rows[x].status \in {PendingStatus(rows[x].dispatch.mode), Settled(rows[x].dispatch.mode)}
                 \/ Excused(x)
        BY <4>1 DEF StartedIsExplained
      <4>4. op'[a] = op[a]
        BY <2>3, <3>2, <4>2, <4>3
      <4>5. Excused(x) => Excused(x)'
        BY <1>1, <2>3, <3>2, <4>1 DEF Excused
      <4> QED
        BY <4>1, <4>3, <4>4, <4>5
    <3> QED
      BY <3>1, <3>2
  <2> QED
    BY <2>2, <2>3, <2>6, <2>7, <2>8, <2>9, <2>10, <2>11, <2>12
<1> QED
  BY <1>2, <1>3

\* The hub took the request or refused it, or its answer did not come.
LEMMA AnsweredKeeps ==
  ASSUME WebSubTypes, WebSubFacts, NEW q \in Requests, op[q].pc = "hub",
         NEW a \in {"accepted", "refused", "retryable"},
         op' = [op EXCEPT ![q].pc = "record", ![q].answer = a],
         \/ taken' = taken /\ a # "accepted"
         \/ taken' = taken \cup {q} /\ a # "refused",
         UNCHANGED <<rows, chk, hub, unleased, stolen, raced, apart, consumed, own>>
  PROVE  op' \in [Requests -> RequestRecord] /\ WebSubFacts'
<1> USE RequestAssumption, WebSubTyped DEF WebSubFacts, RequestRecord, RequestPC
<1>1. /\ op' \in [Requests -> RequestRecord] /\ \A r \in Requests \ {q} : op'[r] = op[r]
      /\ op'[q].pc = "record" /\ op'[q].answer = a /\ op'[q].row = op[q].row
      /\ op'[q].kind = op[q].kind /\ op'[q].moved = op[q].moved /\ op'[q].rev = op[q].rev
  <2> DEFINE u == [op[q] EXCEPT !.pc = "record", !.answer = a]
  <2>1. op[q] \in RequestRecord
    OBVIOUS
  <2>2. /\ u \in RequestRecord /\ u.pc = "record" /\ u.answer = a /\ u.row = op[q].row
        /\ u.kind = op[q].kind /\ u.moved = op[q].moved /\ u.rev = op[q].rev
    BY <2>1
  <2>3. op' = [op EXCEPT ![q] = u]
    OBVIOUS
  <2> HIDE DEF u
  <2> QED
    BY <2>2, <2>3, RequestReplaced
<1>2. q \notin taken /\ op[q].row \in Rows /\ op[q].kind \in Kinds
  BY DEF RequestsHold, RequestHolds
<1>3. \A r \in Requests \ {q} : r \in taken' <=> r \in taken
  OBVIOUS
<1>4. RequestsHold'
  <2>1. RequestHolds(q)'
    BY <1>1, <1>2 DEF RequestHolds, RequestsHold
  <2> QED
    BY <1>1, <1>3, <2>1, OthersHold
<1>5. StatesAreUsedOnce'
  <2>1. op[q].answer # "connected"
    BY DEF StatesAreUsedOnce
  <2> QED
    BY <1>1, <2>1, StatesKept
<1>6. RowsHold' /\ OneOpenRow' /\ ChecksHold' /\ HubFollowsRow'
  BY DEF RowsHold, RowHolds, OneOpenRow, ChecksHold, HubFollowsRow, Answers, Sends, hubVars, history
<1>7. ResultsHold'
  <2> SUFFICES ASSUME NEW x \in Rows, rows[x].dispatch.status \in {"accepted", "failed"}
               PROVE  LET d == rows[x].dispatch
                      IN  /\ op'[d.attempt].pc = "done"
                          /\ d.status = "accepted" => d.attempt \in taken'
                          /\ d.status = "failed" /\ ~d.retry => d.attempt \notin taken'
    BY DEF ResultsHold
  <2>1. rows[x].dispatch.attempt \in Requests /\ op[rows[x].dispatch.attempt].pc = "done"
    BY DEF ResultsHold, RowsHold, RowHolds
  <2>2. rows[x].dispatch.attempt # q
    BY <2>1
  <2> QED
    BY <1>1, <1>3, <2>1, <2>2 DEF ResultsHold
<1>8. OneSpeaker'
  BY <1>1 DEF OneSpeaker
<1>9. ASSUME NEW w \in Rows, Excused(w) PROVE Excused(w)'
  <2>1. CASE w \in raced
    BY <2>1 DEF Excused
  <2>2. CASE w \notin raced
    <3>1. PICK r \in Requests \ {rows[w].dispatch.attempt} :
            /\ op[r].row = w /\ op[r].kind # rows[w].dispatch.mode
            /\ op[r].pc \in {"claim", "recover", "done", "lost"}
      BY <1>9, <2>2 DEF Excused
    <3>2. op'[r] = op[r]
      BY <1>1, <3>1
    <3> QED
      BY <3>1, <3>2 DEF Excused
  <2> QED
    BY <2>1, <2>2
<1>10. StartedIsExplained'
  <2>0. rows' = rows
    OBVIOUS
  <2> SUFFICES ASSUME NEW w \in Rows, rows'[w].dispatch.status = "started"
               PROVE  LET d == rows'[w].dispatch
                      IN  /\ op'[d.attempt].row = w /\ op'[d.attempt].kind = d.mode
                          /\ op'[d.attempt].pc \in {"hub", "record", "lost", "done"}
                          /\ op'[d.attempt].pc = "done" => Excused(w)'
                          /\ rows'[w].status \in {PendingStatus(d.mode), Settled(d.mode)}
                               \/ Excused(w)'
    BY DEF StartedIsExplained, Settled, PendingStatus
  <2> DEFINE b == rows[w].dispatch.attempt
  <2>1. b \in Requests
    BY <2>0 DEF RowsHold, RowHolds
  <2>2. /\ op[b].row = w /\ op[b].kind = rows[w].dispatch.mode
        /\ op[b].pc \in {"hub", "record", "lost", "done"}
        /\ op[b].pc = "done" => Excused(w)
        /\ rows[w].status \in {PendingStatus(rows[w].dispatch.mode), Settled(rows[w].dispatch.mode)}
             \/ Excused(w)
    BY <2>0 DEF StartedIsExplained
  <2>3. op'[b].row = op[b].row /\ op'[b].kind = op[b].kind
        /\ (op'[b].pc = op[b].pc \/ op'[b].pc = "record")
    BY <1>1, <2>1
  <2> QED
    BY <1>9, <2>0, <2>1, <2>2, <2>3
<1> QED
  BY <1>1, <1>4, <1>5, <1>6, <1>7, <1>8, <1>10

LEMMA RecordResultKeeps ==
  ASSUME WebSubTypes, WebSubFacts, NEW q \in Requests, RecordResult(q), Records(q)
  PROVE  /\ rows' \in [Rows -> SubscriptionRecord] /\ op' \in [Requests -> RequestRecord]
         /\ WebSubFacts'
<1> USE RequestAssumption, WebSubTyped DEF WebSubFacts, RequestRecord, RequestPC
<1> DEFINE w == op[q].row
           answer == op[q].answer
           result == IF answer = "accepted" THEN "accepted" ELSE "failed"
<1>1. /\ op[q].pc = "record" /\ w \in Rows /\ op[q].kind \in Kinds
      /\ answer \in {"accepted", "refused", "retryable"}
      /\ answer = "accepted" => q \in taken
      /\ answer = "refused" => q \notin taken
      /\ rows[w].dispatch.attempt = q /\ rows[w].dispatch.status = "started"
      /\ UNCHANGED <<chk, owed, taken, hub, unleased, stolen, raced, apart, consumed, own>>
  BY DEF RecordResult, Records, hubVars, history, connection, RequestsHold, RequestHolds
<1>2. /\ rows' = [rows EXCEPT ![w].rev = @ + 1, ![w].dispatch.status = result,
                              ![w].dispatch.retry = answer = "retryable"]
      /\ op' = [op EXCEPT ![q].pc = "done"]
  BY DEF RecordResult
<1>3. PICK again \in BOOLEAN : again <=> answer = "retryable"
  OBVIOUS
<1>4. again = (answer = "retryable")
  BY <1>3, Zenon
<1>5. PICK ended \in {"accepted", "failed"} : ended = result
  OBVIOUS
<1> DEFINE D == [rows[w].dispatch EXCEPT !.status = ended, !.retry = again]
<1>6. /\ D \in DispatchRecord /\ D.status = ended /\ D.retry = again /\ D.attempt = q
      /\ D.mode = rows[w].dispatch.mode
  <2>1. rows[w].dispatch \in DispatchRecord
    BY <1>1
  <2> QED
    BY <1>1, <2>1 DEF DispatchRecord
<1>7. rows' = [rows EXCEPT ![w].rev = @ + 1, ![w].dispatch.status = ended,
                           ![w].dispatch.retry = again]
  BY <1>2, <1>4, <1>5
<1>8. /\ rows' \in [Rows -> SubscriptionRecord] /\ rows'[w].dispatch = D
      /\ rows'[w].rev = rows[w].rev + 1
      /\ rows'[w].status = rows[w].status /\ rows'[w].mode = rows[w].mode
      /\ \A x \in Rows \ {w} : rows'[x] = rows[x]
  <2> DEFINE v == rows[w]
             u == [v EXCEPT !.rev = @ + 1, !.dispatch.status = ended, !.dispatch.retry = again]
             u2 == [v EXCEPT !.rev = @ + 1, !.dispatch = D]
  <2>1. v \in SubscriptionRecord /\ v.rev + 1 \in Nat
    BY <1>1
  <2>2. rows' = [rows EXCEPT ![w] = u]
    BY <1>7
  <2>3. u = u2
    BY <2>1 DEF SubscriptionRecord, DispatchRecord
  <2>4. rows' = [rows EXCEPT ![w] = u2]
    BY <2>2, <2>3
  <2> HIDE DEF D
  <2>5. /\ u2 \in SubscriptionRecord /\ u2.dispatch = D /\ u2.rev = rows[w].rev + 1
        /\ u2.status = rows[w].status /\ u2.mode = rows[w].mode
    BY <1>6, <2>1 DEF SubscriptionRecord
  <2> HIDE DEF u, u2
  <2>6. rows' \in [Rows -> SubscriptionRecord] /\ rows'[w] = u2 /\ \A x \in Rows \ {w} : rows'[x] = rows[x]
    BY <1>1, <2>4, <2>5
  <2> QED
    BY <2>5, <2>6
<1> HIDE DEF D
<1>9. /\ op' \in [Requests -> RequestRecord] /\ \A r \in Requests \ {q} : op'[r] = op[r]
      /\ op'[q].pc = "done" /\ op'[q].row = w /\ op'[q].kind = op[q].kind
      /\ op'[q].moved = op[q].moved /\ op'[q].answer = op[q].answer
  BY <1>2
<1>10. RowsHold' /\ OneOpenRow'
  <2>1. rows[w].status # "none"
    BY <1>1 DEF RowsHold, RowHolds, NoDispatch
  <2>2. RowHolds(rows'[w])
    BY <1>1, <1>6, <1>8, <2>1 DEF RowsHold, RowHolds
  <2>3. \A x \in Rows \ {w} : RowHolds(rows'[x])
    BY <1>8 DEF RowsHold
  <2>4. \A x \in Rows : rows'[x].status = rows[x].status
    BY <1>8
  <2> QED
    BY <2>2, <2>3, <2>4 DEF RowsHold, OneOpenRow
<1>11. RequestsHold'
  <2>1. RequestHolds(q)'
    BY <1>1, <1>9 DEF RequestHolds, RequestsHold
  <2> QED
    BY <1>1, <1>9, <2>1, OthersHold
<1>12. StatesAreUsedOnce'
  BY <1>1, <1>9, StatesKept
<1>13. HubFollowsRow' /\ ChecksHold'
  <2>1. \A x \in Rows : rows'[x].status = rows[x].status
    BY <1>8
  <2> QED
    BY <1>1, <2>1, HubKept DEF ChecksHold
<1>14. ResultsHold'
  <2> SUFFICES ASSUME NEW x \in Rows, rows'[x].dispatch.status \in {"accepted", "failed"}
               PROVE  LET d == rows'[x].dispatch
                      IN  /\ op'[d.attempt].pc = "done"
                          /\ d.status = "accepted" => d.attempt \in taken'
                          /\ d.status = "failed" /\ ~d.retry => d.attempt \notin taken'
    BY DEF ResultsHold
  <2>1. CASE x = w
    BY <1>1, <1>3, <1>5, <1>6, <1>8, <1>9, <2>1
  <2>2. CASE x # w
    <3>1. rows'[x] = rows[x]
      BY <1>8, <2>2
    <3>2. rows[x].dispatch.attempt \in Requests /\ op[rows[x].dispatch.attempt].pc = "done"
      BY <3>1 DEF ResultsHold, RowsHold, RowHolds
    <3>3. op'[rows[x].dispatch.attempt] = op[rows[x].dispatch.attempt]
      BY <1>1, <1>9, <3>2
    <3> QED
      BY <1>1, <3>1, <3>2, <3>3 DEF ResultsHold
  <2> QED
    BY <2>1, <2>2
<1>15. OneSpeaker'
  <2> SUFFICES ASSUME NEW x \in Rows \ stolen, NEW r \in Requests, op'[r].row = x, op'[r].pc = "hub"
               PROVE  rows'[x].dispatch.attempt = r /\ rows'[x].dispatch.status = "started"
    BY <1>1 DEF OneSpeaker
  <2>1. r # q /\ op'[r] = op[r]
    BY <1>9
  <2>2. rows[x].dispatch.attempt = r /\ rows[x].dispatch.status = "started"
    BY <2>1 DEF OneSpeaker
  <2>3. x # w
    BY <1>1, <2>1, <2>2
  <2> QED
    BY <1>8, <2>2, <2>3
<1>16. StartedIsExplained'
  <2> SUFFICES ASSUME NEW x \in Rows, rows'[x].dispatch.status = "started"
               PROVE  LET d == rows'[x].dispatch
                      IN  /\ op'[d.attempt].row = x /\ op'[d.attempt].kind = d.mode
                          /\ op'[d.attempt].pc \in {"hub", "record", "lost", "done"}
                          /\ op'[d.attempt].pc = "done" => Excused(x)'
                          /\ rows'[x].status \in {PendingStatus(d.mode), Settled(d.mode)}
                               \/ Excused(x)'
    BY DEF StartedIsExplained, Settled, PendingStatus
  <2> DEFINE b == rows[x].dispatch.attempt
  <2>1. x # w /\ rows'[x] = rows[x]
    BY <1>6, <1>8
  <2>2. b \in Requests
    BY <2>1 DEF RowsHold, RowHolds
  <2>3. /\ op[b].row = x /\ op[b].kind = rows[x].dispatch.mode
        /\ op[b].pc \in {"hub", "record", "lost", "done"}
        /\ op[b].pc = "done" => Excused(x)
        /\ rows[x].status \in {PendingStatus(rows[x].dispatch.mode), Settled(rows[x].dispatch.mode)}
             \/ Excused(x)
    BY <2>1 DEF StartedIsExplained
  <2>4. op'[b] = op[b]
    BY <1>9, <2>1, <2>2, <2>3
  <2>5. Excused(x) => Excused(x)'
    BY <1>1, <1>9, <2>1 DEF Excused
  <2> QED
    BY <2>1, <2>3, <2>4, <2>5
<1> QED
  BY <1>8, <1>9, <1>10, <1>11, <1>12, <1>13, <1>14, <1>15, <1>16

\* What a step of a callback keeps that writes no row.
LEMMA CallbackMoves ==
  ASSUME WebSubTypes, WebSubFacts, UNCHANGED <<rows, op, taken, stolen, consumed, own>>,
         raced \subseteq raced', ChecksHold', HubFollowsRow'
  PROVE  WebSubFacts'
<1> USE WebSubTyped DEF WebSubFacts
<1>1. RowsHold' /\ OneOpenRow' /\ RequestsHold' /\ StatesAreUsedOnce'
  BY DEF RowsHold, RowHolds, OneOpenRow, RequestsHold, RequestHolds, StatesAreUsedOnce, UsesState
<1>2. \A x \in Rows : rows'[x].dispatch = rows[x].dispatch /\ rows'[x].status = rows[x].status
  OBVIOUS
<1>3. \A r \in Requests : op'[r] = op[r]
  OBVIOUS
<1>4. ResultsHold' /\ OneSpeaker' /\ StartedIsExplained'
  BY <1>2, <1>3, DispatchesKept
<1> QED
  BY <1>1, <1>4

LEMMA HubVerifiesKeeps ==
  ASSUME WebSubTypes, WebSubFacts, NEW v \in Checks, NEW q \in Requests, HubVerifies(v, q)
  PROVE  chk' \in [Checks -> CheckRecord] /\ WebSubFacts'
<1> USE RequestAssumption, WebSubTyped DEF WebSubFacts, CheckRecord
<1>1. op[q].row \in Rows /\ op[q].kind \in Kinds /\ HubMode(op[q].kind) \in HubModes
  BY DEF HubVerifies, WebSubTypes, RequestsHold, RequestHolds, HubMode, HubModes
<1>2. /\ chk' \in [Checks -> CheckRecord] /\ \A u \in Checks \ {v} : chk'[u] = chk[u]
      /\ chk[v].pc = "idle" /\ chk'[v].pc = "read" /\ chk'[v].row \in Rows /\ chk'[v].mode \in HubModes
  <2> DEFINE u == [IdleChk EXCEPT !.pc = "read", !.row = op[q].row, !.mode = HubMode(op[q].kind)]
  <2>1. u \in CheckRecord /\ u.pc = "read" /\ u.row = op[q].row /\ u.mode = HubMode(op[q].kind)
    BY <1>1 DEF IdleChk
  <2>2. chk' = [chk EXCEPT ![v] = u] /\ chk[v].pc = "idle"
    BY DEF HubVerifies
  <2> HIDE DEF u
  <2>3. chk' \in [Checks -> CheckRecord] /\ chk'[v] = u /\ \A x \in Checks \ {v} : chk'[x] = chk[x]
    BY <2>1, <2>2
  <2> QED
    BY <1>1, <2>1, <2>2, <2>3
<1>3. UNCHANGED <<rows, op, taken, hub, unleased, stolen, raced, apart, consumed, own>>
  BY DEF HubVerifies, connection, history
<1>4. ChecksHold'
  BY <1>2 DEF ChecksHold
<1>5. HubFollowsRow'
  <2>1. \A u \in Checks, w \in Rows : (Answers(u, w)' <=> Answers(u, w))
                                      /\ (Answers(u, w) => chk'[u] = chk[u])
    BY <1>2 DEF Answers
  <2> QED
    BY <1>3, <2>1 DEF HubFollowsRow, Sends, history
<1> QED
  BY <1>2, <1>3, <1>4, <1>5, CallbackMoves DEF history

LEMMA CheckReadsKeeps ==
  ASSUME WebSubTypes, WebSubFacts, NEW v \in Checks, CheckReads(v)
  PROVE  chk' \in [Checks -> CheckRecord] /\ WebSubFacts'
<1> USE RequestAssumption, WebSubTyped DEF WebSubFacts, CheckRecord
<1>1. chk[v].pc = "read" /\ chk[v].row \in Rows /\ chk[v].mode \in HubModes
      /\ rows[chk[v].row].status \in Statuses
  BY DEF CheckReads, ChecksHold
<1>2. /\ chk' \in [Checks -> CheckRecord] /\ \A u \in Checks \ {v} : chk'[u] = chk[u]
      /\ \/ chk'[v] = IdleChk
         \/ /\ chk'[v].pc = "write" /\ chk'[v].row = chk[v].row /\ chk'[v].mode = chk[v].mode
            /\ chk'[v].saw = rows[chk[v].row].status /\ AllowsMode(rows[chk[v].row], chk[v].mode)
  <2>1. CASE AllowsMode(rows[chk[v].row], chk[v].mode)
    <3> DEFINE u == [chk[v] EXCEPT !.pc = "write", !.saw = rows[chk[v].row].status]
    <3>1. /\ u \in CheckRecord /\ u.pc = "write" /\ u.row = chk[v].row /\ u.mode = chk[v].mode
          /\ u.saw = rows[chk[v].row].status
      BY <1>1
    <3>2. chk' = [chk EXCEPT ![v] = u]
      BY <2>1 DEF CheckReads
    <3> HIDE DEF u
    <3>3. chk' \in [Checks -> CheckRecord] /\ chk'[v] = u /\ \A x \in Checks \ {v} : chk'[x] = chk[x]
      BY <3>1, <3>2
    <3> QED
      BY <2>1, <3>1, <3>3
  <2>2. CASE ~AllowsMode(rows[chk[v].row], chk[v].mode)
    <3>1. chk' = [chk EXCEPT ![v] = IdleChk]
      BY <2>2 DEF CheckReads
    <3>2. IdleChk \in CheckRecord
      BY DEF IdleChk
    <3> QED
      BY <3>1, <3>2
  <2> QED
    BY <2>1, <2>2
<1>3. UNCHANGED <<rows, op, taken, hub, unleased, stolen, raced, apart, consumed, own>>
  BY DEF CheckReads, connection, hubVars, history
<1>4. ChecksHold'
  <2>1. CASE chk'[v] = IdleChk
    BY <1>2, <2>1 DEF ChecksHold, IdleChk
  <2>2. CASE chk'[v] # IdleChk
    BY <1>1, <1>2, <2>2 DEF ChecksHold, AllowsMode, HubModes
  <2> QED
    BY <2>1, <2>2
<1>5. HubFollowsRow'
  <2>1. \A u \in Checks, w \in Rows : (Answers(u, w)' <=> Answers(u, w))
                                      /\ (Answers(u, w) => chk'[u] = chk[u])
    BY <1>1, <1>2 DEF Answers, IdleChk
  <2> QED
    BY <1>3, <2>1 DEF HubFollowsRow, Sends, history
<1> QED
  BY <1>2, <1>3, <1>4, <1>5, CallbackMoves DEF history

LEMMA CallbackEnds ==
  ASSUME WebSubTypes, WebSubFacts, NEW v \in Checks, chk' = [chk EXCEPT ![v] = IdleChk]
  PROVE  /\ chk' \in [Checks -> CheckRecord] /\ \A u \in Checks \ {v} : chk'[u] = chk[u]
         /\ chk'[v].pc = "idle" /\ chk'[v].row = None /\ ChecksHold'
<1> USE WebSubTyped DEF WebSubFacts
<1>1. IdleChk \in CheckRecord /\ IdleChk.pc = "idle" /\ IdleChk.row = None
  BY DEF CheckRecord, IdleChk
<1>2. /\ chk' \in [Checks -> CheckRecord] /\ chk'[v] = IdleChk
      /\ \A u \in Checks \ {v} : chk'[u] = chk[u]
  BY <1>1
<1> QED
  BY <1>1, <1>2 DEF ChecksHold

LEMMA CheckAnsweredKeeps ==
  ASSUME WebSubTypes, WebSubFacts, NEW v \in Checks, CheckAnswered(v)
  PROVE  chk' \in [Checks -> CheckRecord] /\ hub' \in [Rows -> BOOLEAN] /\ WebSubFacts'
<1> USE RequestAssumption, WebSubTyped DEF WebSubFacts
<1> DEFINE w == chk[v].row
<1>1. chk[v].pc = "answer" /\ w \in Rows
  BY DEF CheckAnswered, ChecksHold
<1>2. /\ chk' \in [Checks -> CheckRecord] /\ \A u \in Checks \ {v} : chk'[u] = chk[u]
      /\ chk'[v].pc = "idle" /\ ChecksHold'
  BY CallbackEnds DEF CheckAnswered
<1>3. UNCHANGED <<rows, op, taken, unleased, history, consumed, own>>
  BY DEF CheckAnswered, connection
<1>4. PICK b \in BOOLEAN : b <=> chk[v].mode = "subscribe"
  OBVIOUS
<1>5. b = (chk[v].mode = "subscribe")
  BY <1>4, Zenon
<1>6. hub' = [hub EXCEPT ![w] = b]
  BY <1>5 DEF CheckAnswered
<1>7. hub' \in [Rows -> BOOLEAN] /\ hub'[w] = b /\ \A x \in Rows \ {w} : hub'[x] = hub[x]
  BY <1>1, <1>6
<1>8. HubFollowsRow'
  <2> SUFFICES ASSUME NEW x \in Rows \ apart
               PROVE  /\ \A t, u \in Checks : Answers(t, x)' /\ Answers(u, x)' => t = u
                      /\ \A u \in Checks : Answers(u, x)' =>
                           (chk'[u].mode = "subscribe" <=> Sends(x)')
                      /\ (\A u \in Checks : ~Answers(u, x)') => (hub'[x] <=> Sends(x)')
    BY <1>3 DEF HubFollowsRow, history
  <2>0. Sends(x)' <=> Sends(x)
    BY <1>3 DEF Sends
  <2>1. \A u \in Checks : Answers(u, x)' => u # v /\ Answers(u, x) /\ chk'[u] = chk[u]
    BY <1>2 DEF Answers
  <2>2. CASE x = w
    <3>1. Answers(v, x)
      BY <1>1, <2>2 DEF Answers
    <3>2. \A u \in Checks : ~Answers(u, x)'
      BY <2>1, <3>1 DEF HubFollowsRow
    <3>3. chk[v].mode = "subscribe" <=> Sends(x)
      BY <3>1 DEF HubFollowsRow
    <3> QED
      BY <1>4, <1>7, <2>0, <2>2, <3>2, <3>3
  <2>3. CASE x # w
    <3>1. \A u \in Checks : Answers(u, x)' <=> Answers(u, x)
      BY <1>2, <2>1, <2>3 DEF Answers
    <3> QED
      BY <1>7, <2>0, <2>1, <2>3, <3>1 DEF HubFollowsRow
  <2> QED
    BY <2>2, <2>3
<1> QED
  BY <1>2, <1>3, <1>7, <1>8, CallbackMoves DEF history

LEMMA CheckLostKeeps ==
  ASSUME WebSubTypes, WebSubFacts, NEW v \in Checks, CheckLost(v)
  PROVE  chk' \in [Checks -> CheckRecord] /\ WebSubFacts'
<1> USE RequestAssumption, WebSubTyped DEF WebSubFacts
<1>1. /\ chk' \in [Checks -> CheckRecord] /\ \A u \in Checks \ {v} : chk'[u] = chk[u]
      /\ chk'[v].pc = "idle" /\ ChecksHold'
  BY CallbackEnds DEF CheckLost
<1>2. /\ UNCHANGED <<rows, op, taken, hub, unleased, stolen, consumed, own>>
      /\ raced \subseteq raced' /\ apart \subseteq apart'
      /\ chk[v].pc = "answer" => chk[v].row \in apart'
  BY DEF CheckLost, connection, hubVars, history
<1>3. HubFollowsRow'
  <2>1. \A u \in Checks, x \in Rows \ apart' : (Answers(u, x)' <=> Answers(u, x))
                                               /\ (Answers(u, x) => chk'[u] = chk[u])
    BY <1>1, <1>2 DEF Answers
  <2> QED
    BY <1>2, <2>1 DEF HubFollowsRow, Sends
<1> QED
  BY <1>1, <1>2, <1>3, CallbackMoves

LEMMA CheckWritesKeeps ==
  ASSUME WebSubTypes, WebSubFacts, NEW v \in Checks, CheckWrites(v)
  PROVE  /\ rows' \in [Rows -> SubscriptionRecord] /\ chk' \in [Checks -> CheckRecord]
         /\ WebSubFacts'
<1> USE RequestAssumption, WebSubTyped DEF WebSubFacts
<1> DEFINE w == chk[v].row
           s == IF chk[v].mode = "subscribe" THEN "active" ELSE "unsubscribed"
<1>1. /\ chk[v].pc = "write" /\ w \in Rows /\ chk[v].mode \in HubModes
      /\ chk[v].saw \in IF chk[v].mode = "subscribe" THEN {"pending_subscribe", "pending_renewal"}
                        ELSE {"pending_unsubscribe"}
  BY DEF CheckWrites, ChecksHold
<1>2. /\ UNCHANGED <<op, taken, hub, stolen, consumed, own>> /\ raced \subseteq raced'
      /\ w \notin raced' => rows[w].status = chk[v].saw
  BY DEF CheckWrites, connection, hubVars, history
<1>3. CASE chk[v].mode = "subscribe" /\ ~IndexAllows(w)
  <2>1. chk' = [chk EXCEPT ![v] = IdleChk] /\ UNCHANGED <<rows, unleased, apart>>
    BY <1>3 DEF CheckWrites
  <2>2. /\ chk' \in [Checks -> CheckRecord] /\ \A u \in Checks \ {v} : chk'[u] = chk[u]
        /\ chk'[v].pc = "idle" /\ ChecksHold'
    BY <2>1, CallbackEnds
  <2>3. HubFollowsRow'
    <3>1. \A u \in Checks, x \in Rows : (Answers(u, x)' <=> Answers(u, x))
                                        /\ (Answers(u, x) => chk'[u] = chk[u])
      BY <1>1, <2>2 DEF Answers
    <3> QED
      BY <1>2, <2>1, <3>1 DEF HubFollowsRow, Sends
  <2> QED
    BY <1>2, <2>1, <2>2, <2>3, CallbackMoves
<1>4. CASE ~(chk[v].mode = "subscribe" /\ ~IndexAllows(w))
  <2>1. /\ rows' = Moved(w, s, None) /\ chk' = [chk EXCEPT ![v].pc = "answer"]
        /\ unleased' = IF chk[v].mode = "subscribe" THEN unleased \ {w} ELSE unleased
        /\ apart' = IF Answering(w) THEN apart \cup {w} ELSE apart \ {w}
    BY <1>4 DEF CheckWrites
  <2>2. /\ rows' \in [Rows -> SubscriptionRecord] /\ RowsHold' /\ OneOpenRow'
        /\ rows'[w].status = s /\ rows'[w].dispatch = rows[w].dispatch
        /\ rows'[w].rev = rows[w].rev + 1 /\ \A x \in Rows \ {w} : rows'[x] = rows[x]
    <3>1. s \in Statuses /\ None \in HubModes \cup {None} /\ (s \in Open => IndexAllows(w))
      BY <1>4 DEF Statuses, Open
    <3>2. s \in {"active", "unsubscribed"}
      OBVIOUS
    <3> HIDE DEF s
    <3> QED
      BY <1>1, <2>1, <3>1, <3>2, RowMoves
  <2>3. /\ chk' \in [Checks -> CheckRecord] /\ \A u \in Checks \ {v} : chk'[u] = chk[u]
        /\ chk'[v].pc = "answer" /\ chk'[v].row = w /\ chk'[v].mode = chk[v].mode
    BY <2>1 DEF CheckRecord
  <2>4. ChecksHold'
    BY <1>1, <2>3 DEF ChecksHold
  <2>5. RequestsHold' /\ StatesAreUsedOnce'
    BY <1>2 DEF RequestsHold, RequestHolds, StatesAreUsedOnce, UsesState
  <2>6. HubFollowsRow'
    <3> SUFFICES ASSUME NEW x \in Rows \ apart'
                 PROVE  /\ \A t, u \in Checks : Answers(t, x)' /\ Answers(u, x)' => t = u
                        /\ \A u \in Checks : Answers(u, x)' =>
                             (chk'[u].mode = "subscribe" <=> Sends(x)')
                        /\ (\A u \in Checks : ~Answers(u, x)') => (hub'[x] <=> Sends(x)')
      BY DEF HubFollowsRow
    <3>1. CASE x = w
      <4>0. \A u \in Checks : chk[u].row = w => chk[u].pc # "answer"
        BY <2>1, <3>1 DEF Answering
      <4>1. \A u \in Checks : Answers(u, x)' => u = v
        BY <2>3, <3>1, <4>0 DEF Answers
      <4>2. Answers(v, x)'
        BY <2>3, <3>1 DEF Answers
      <4>3. chk'[v].mode = "subscribe" <=> Sends(x)'
        BY <2>1, <2>2, <2>3, <3>1 DEF Sends, Verified, Open
      <4> QED
        BY <4>1, <4>2, <4>3
    <3>2. CASE x # w
      <4>1. \A u \in Checks : (Answers(u, x)' <=> Answers(u, x)) /\ (Answers(u, x) => chk'[u] = chk[u])
        BY <1>1, <2>3, <3>2 DEF Answers
      <4>2. x \notin apart /\ (Sends(x)' <=> Sends(x))
        BY <2>1, <2>2, <3>2 DEF Sends
      <4> QED
        BY <1>2, <3>2, <4>1, <4>2 DEF HubFollowsRow
    <3> QED
      BY <3>1, <3>2
  <2>7. ResultsHold' /\ OneSpeaker' /\ StartedIsExplained'
    <3>1. ASSUME rows[w].dispatch.status = "started"
          PROVE  \/ rows'[w].status \in {PendingStatus(rows[w].dispatch.mode),
                                         Settled(rows[w].dispatch.mode)}
                 \/ Excused(w) \/ Excused(w)'
      <4>1. CASE w \in raced'
        BY <2>3, <4>1 DEF Excused
      <4>2. CASE w \notin raced' /\ s # Settled(rows[w].dispatch.mode)
        <5>1. rows[w].status = chk[v].saw /\ rows[w].dispatch.mode \in Kinds
          BY <1>1, <1>2, <3>1, <4>2 DEF RowsHold, RowHolds
        <5>2. rows[w].status \notin {PendingStatus(rows[w].dispatch.mode),
                                     Settled(rows[w].dispatch.mode)}
          BY <1>1, <4>2, <5>1 DEF Settled, PendingStatus, Kinds, HubModes
        <5> QED
          BY <1>1, <3>1, <5>2 DEF StartedIsExplained
      <4>3. CASE s = Settled(rows[w].dispatch.mode)
        BY <2>2, <4>3
      <4> QED
        BY <4>1, <4>2, <4>3
    <3>2. \A x \in Rows : rows'[x].dispatch = rows[x].dispatch
      BY <2>2
    <3>3. \A r \in Requests : op'[r] = op[r]
      BY <1>2
    <3>4. \A x \in Rows : rows[x].dispatch.status = "started" =>
            \/ rows'[x].status = rows[x].status
            \/ rows'[x].status \in {PendingStatus(rows[x].dispatch.mode),
                                    Settled(rows[x].dispatch.mode)}
            \/ Excused(x) \/ Excused(x)'
      BY <2>2, <2>3, <3>1
    <3> QED
      BY <1>2, <3>2, <3>3, <3>4, DispatchesKept
  <2> QED
    BY <2>2, <2>3, <2>4, <2>5, <2>6, <2>7
<1> QED
  BY <1>3, <1>4

\* A row's own fields change that no status, mode or dispatch is read from.
LEMMA FirstVideoKeeps ==
  ASSUME WebSubTypes, WebSubFacts, NEW w \in Rows, FirstVideo(w)
  PROVE  rows' \in [Rows -> SubscriptionRecord] /\ WebSubFacts'
<1> USE RequestAssumption, WebSubTyped DEF WebSubFacts
<1>1. UNCHANGED <<op, chk, taken, hub, unleased, stolen, raced, apart, consumed, own>>
  BY DEF FirstVideo, connection, hubVars, history
<1>2. /\ rows' \in [Rows -> SubscriptionRecord]
      /\ \A x \in Rows : /\ rows'[x].status = rows[x].status /\ rows'[x].mode = rows[x].mode
                         /\ rows'[x].dispatch = rows[x].dispatch
  <2> DEFINE u == [rows[w] EXCEPT !.first = TRUE, !.rev = @ + 1]
  <2>1. rows[w] \in SubscriptionRecord /\ rows[w].rev + 1 \in Nat
    OBVIOUS
  <2>2. /\ u \in SubscriptionRecord /\ u.dispatch = rows[w].dispatch /\ u.rev = rows[w].rev + 1
        /\ u.status = rows[w].status /\ u.mode = rows[w].mode
    BY <2>1 DEF SubscriptionRecord
  <2>3. rows' = [rows EXCEPT ![w] = u]
    BY DEF FirstVideo
  <2> HIDE DEF u
  <2>4. rows' \in [Rows -> SubscriptionRecord] /\ rows'[w] = u /\ \A x \in Rows \ {w} : rows'[x] = rows[x]
    BY <2>2, <2>3
  <2> QED
    BY <2>2, <2>4
<1>3. RowsHold' /\ OneOpenRow'
  BY <1>2 DEF RowsHold, RowHolds, OneOpenRow
<1>4. RequestsHold' /\ ChecksHold' /\ StatesAreUsedOnce'
  BY <1>1 DEF RequestsHold, RequestHolds, ChecksHold, StatesAreUsedOnce, UsesState
<1>5. HubFollowsRow'
  BY <1>1, <1>2, HubKept DEF history
<1>6. ResultsHold' /\ OneSpeaker' /\ StartedIsExplained'
  <2>1. \A r \in Requests : op'[r] = op[r]
    BY <1>1
  <2> QED
    BY <1>1, <1>2, <2>1, DispatchesKept DEF history
<1> QED
  BY <1>2, <1>3, <1>4, <1>5, <1>6

LEMMA DispatchAgesKeeps ==
  ASSUME WebSubTypes, WebSubFacts, NEW w \in Rows, DispatchAges(w)
  PROVE  rows' \in [Rows -> SubscriptionRecord] /\ WebSubFacts'
<1> USE RequestAssumption, WebSubTyped DEF WebSubFacts
<1>1. UNCHANGED <<op, chk, taken, hub, unleased, stolen, raced, apart, consumed, own>>
      /\ rows[w].dispatch.status = "started"
  BY DEF DispatchAges, connection, hubVars, history
<1>2. /\ rows' \in [Rows -> SubscriptionRecord]
      /\ \A x \in Rows : /\ rows'[x].status = rows[x].status /\ rows'[x].mode = rows[x].mode
                         /\ rows'[x].dispatch.attempt = rows[x].dispatch.attempt
                         /\ rows'[x].dispatch.mode = rows[x].dispatch.mode
                         /\ rows'[x].dispatch.status = rows[x].dispatch.status
                         /\ rows'[x].dispatch.retry = rows[x].dispatch.retry
      /\ \A x \in Rows \ {w} : rows'[x] = rows[x]
  <2> DEFINE D == [rows[w].dispatch EXCEPT !.stale = TRUE]
             u == [rows[w] EXCEPT !.dispatch = D]
  <2>1. rows[w] \in SubscriptionRecord /\ rows[w].dispatch \in DispatchRecord
    OBVIOUS
  <2>2. /\ D \in DispatchRecord /\ D.attempt = rows[w].dispatch.attempt
        /\ D.mode = rows[w].dispatch.mode /\ D.status = rows[w].dispatch.status
        /\ D.retry = rows[w].dispatch.retry
    BY <2>1 DEF DispatchRecord
  <2>3. rows' = [rows EXCEPT ![w] = u]
    BY DEF DispatchAges
  <2> HIDE DEF D
  <2>4. /\ u \in SubscriptionRecord /\ u.dispatch = D /\ u.rev = rows[w].rev
        /\ u.status = rows[w].status /\ u.mode = rows[w].mode
    BY <2>1, <2>2 DEF SubscriptionRecord
  <2> HIDE DEF u
  <2>5. rows' \in [Rows -> SubscriptionRecord] /\ rows'[w] = u /\ \A x \in Rows \ {w} : rows'[x] = rows[x]
    BY <2>3, <2>4
  <2> QED
    BY <2>2, <2>4, <2>5
<1>3. RowsHold' /\ OneOpenRow'
  <2>1. rows[w].status # "none"
    BY <1>1 DEF RowsHold, RowHolds, NoDispatch
  <2>2. RowHolds(rows'[w])
    BY <1>2, <2>1 DEF RowsHold, RowHolds
  <2>3. \A x \in Rows \ {w} : RowHolds(rows'[x])
    BY <1>2 DEF RowsHold
  <2> QED
    BY <1>2, <2>2, <2>3 DEF RowsHold, OneOpenRow
<1>4. RequestsHold' /\ ChecksHold' /\ StatesAreUsedOnce'
  BY <1>1 DEF RequestsHold, RequestHolds, ChecksHold, StatesAreUsedOnce, UsesState
<1>5. HubFollowsRow'
  BY <1>1, <1>2, HubKept DEF history
<1>6. ResultsHold' /\ OneSpeaker'
  BY <1>1, <1>2 DEF ResultsHold, OneSpeaker
<1>7. StartedIsExplained'
  <2> SUFFICES ASSUME NEW x \in Rows, rows'[x].dispatch.status = "started"
               PROVE  LET d == rows'[x].dispatch
                      IN  /\ op'[d.attempt].row = x /\ op'[d.attempt].kind = d.mode
                          /\ op'[d.attempt].pc \in {"hub", "record", "lost", "done"}
                          /\ op'[d.attempt].pc = "done" => Excused(x)'
                          /\ rows'[x].status \in {PendingStatus(d.mode), Settled(d.mode)}
                               \/ Excused(x)'
    BY DEF StartedIsExplained, Settled, PendingStatus
  <2> DEFINE b == rows[x].dispatch.attempt
  <2>1. /\ op[b].row = x /\ op[b].kind = rows[x].dispatch.mode
        /\ op[b].pc \in {"hub", "record", "lost", "done"}
        /\ op[b].pc = "done" => Excused(x)
        /\ rows[x].status \in {PendingStatus(rows[x].dispatch.mode), Settled(rows[x].dispatch.mode)}
             \/ Excused(x)
    BY <1>2 DEF StartedIsExplained
  <2>2. Excused(x) => Excused(x)'
    BY <1>1, <1>2 DEF Excused
  <2> QED
    BY <1>1, <1>2, <2>1, <2>2
<1> QED
  BY <1>2, <1>3, <1>4, <1>5, <1>6, <1>7

\* The hub's lease and the row's run out together.
LEMMA LeaseEndsKeeps ==
  ASSUME WebSubTypes, WebSubFacts, NEW w \in Rows, LeaseEnds(w)
  PROVE  hub' \in [Rows -> BOOLEAN] /\ unleased' \subseteq Rows /\ WebSubFacts'
<1> USE WebSubTyped DEF WebSubFacts
<1>1. /\ UNCHANGED <<rows, op, chk, taken, history, consumed, own>>
      /\ hub' = [hub EXCEPT ![w] = FALSE]
      /\ unleased' = IF Answering(w) THEN unleased ELSE unleased \cup {w}
  BY DEF LeaseEnds, connection
<1>2. hub' \in [Rows -> BOOLEAN] /\ ~hub'[w] /\ \A x \in Rows \ {w} : hub'[x] = hub[x]
  BY <1>1
<1>3. \A u \in Checks, x \in Rows : Answers(u, x)' <=> Answers(u, x)
  BY <1>1 DEF Answers
<1>4. Answering(w) <=> \E u \in Checks : Answers(u, w)
  BY DEF Answering, Answers
<1>5. HubFollowsRow'
  <2> SUFFICES ASSUME NEW x \in Rows \ apart
               PROVE  /\ \A t, u \in Checks : Answers(t, x)' /\ Answers(u, x)' => t = u
                      /\ \A u \in Checks : Answers(u, x)' =>
                           (chk'[u].mode = "subscribe" <=> Sends(x)')
                      /\ (\A u \in Checks : ~Answers(u, x)') => (hub'[x] <=> Sends(x)')
    BY <1>1 DEF HubFollowsRow, history
  <2>1. CASE x # w
    <3>1. Sends(x)' <=> Sends(x)
      BY <1>1, <2>1 DEF Sends
    <3> QED
      BY <1>1, <1>2, <1>3, <2>1, <3>1 DEF HubFollowsRow
  <2>2. CASE x = w /\ Answering(w)
    <3>1. Sends(x)' <=> Sends(x)
      BY <1>1, <2>2 DEF Sends
    <3> QED
      BY <1>1, <1>3, <1>4, <2>2, <3>1 DEF HubFollowsRow
  <2>3. CASE x = w /\ ~Answering(w)
    <3>1. ~Sends(x)'
      BY <1>1, <2>3 DEF Sends
    <3> QED
      BY <1>2, <1>3, <1>4, <2>3, <3>1
  <2> QED
    BY <2>1, <2>2, <2>3
<1>6. ChecksHold'
  BY <1>1 DEF ChecksHold
<1>7. unleased' \subseteq Rows
  BY <1>1 DEF WebSubTypes
<1> QED
  BY <1>1, <1>2, <1>5, <1>6, <1>7, CallbackMoves DEF history

LEMMA TypesKept ==
  ASSUME WebSubTypes, rows' \in [Rows -> SubscriptionRecord], op' \in [Requests -> RequestRecord],
         chk' \in [Checks -> CheckRecord], hub' \in [Rows -> BOOLEAN], unleased' \subseteq Rows,
         consumed' \subseteq OAuthStates, own' \in Rows \cup {None},
         owed' \subseteq taken', taken' \subseteq Requests, faults' \in Nat
  PROVE  WebSubTypes'
BY DEF WebSubTypes

LEMMA RequestStepKeeps ==
  ASSUME WebSubInv, NEW q \in Requests, RequestStep(q)
  PROVE  WebSubInv'
<1> USE WebSubTyped DEF WebSubInv
<1>0. /\ consumed \subseteq OAuthStates /\ own \in Rows \cup {None}
      /\ owed \subseteq taken /\ taken \subseteq Requests /\ unleased \subseteq Rows /\ faults \in Nat
  BY DEF WebSubTypes
<1>1. ASSUME NEW k \in {"subscribe", "renew", "unsubscribe"}, NEW w \in Rows, Ask(q, k, w)
      PROVE  WebSubInv'
  <2>1. k \in Kinds
    BY DEF Kinds
  <2>2. op' \in [Requests -> RequestRecord] /\ WebSubFacts'
    BY <1>1, <2>1, AskKeeps
  <2>3. UNCHANGED <<rows, chk, consumed, own, owed, taken, hub, unleased, faults>>
    BY <1>1 DEF Ask, connection, hubVars
  <2> QED
    BY <1>0, <2>2, <2>3, TypesKept
<1>2. ASSUME NEW s \in OAuthStates, ConnectionReturns(q, s) PROVE WebSubInv'
  <2>1. UNCHANGED <<rows, chk, consumed, own, owed, taken, hub, unleased, faults>>
    BY <1>2 DEF ConnectionReturns, connection, hubVars
  <2>2. op' \in [Requests -> RequestRecord] /\ WebSubFacts'
    BY <1>2, ConnectionReturnsKeeps
  <2> QED
    BY <1>0, <2>1, <2>2, TypesKept
<1>3. CASE \/ FindOpen(q) \/ ReadRow(q) \/ StateRefused(q) \/ ExchangeCode(q) \/ AttachReads(q)
  <2>1. UNCHANGED <<rows, chk, consumed, own, owed, taken, hub, unleased, faults>>
    BY <1>3 DEF FindOpen, ReadRow, StateRefused, ExchangeCode, AttachReads, connection, hubVars
  <2>2. op' \in [Requests -> RequestRecord] /\ WebSubFacts'
    BY <1>3, FindOpenKeeps, ReadRowKeeps, StateRefusedKeeps, ExchangeCodeKeeps, AttachReadsKeeps
  <2> QED
    BY <1>0, <2>1, <2>2, TypesKept
<1>4. CASE \/ CreatePending(q) \/ MarkRenewalPending(q) \/ MarkUnsubscribePending(q)
           \/ Claim(q) \/ Recover(q)
  <2>1. UNCHANGED <<chk, consumed, own, owed, taken, hub, unleased, faults>>
    BY <1>4 DEF CreatePending, MarkRenewalPending, MarkUnsubscribePending, Claim, Recover,
                connection, hubVars
  <2>2. /\ rows' \in [Rows -> SubscriptionRecord] /\ op' \in [Requests -> RequestRecord]
        /\ WebSubFacts'
    BY <1>4, CreatePendingKeeps, MarkRenewalPendingKeeps, MarkUnsubscribePendingKeeps,
       ClaimKeeps, RecoverKeeps
  <2> QED
    BY <1>0, <2>1, <2>2, TypesKept
<1>5. CASE ConsumeState(q)
  <2>1. UNCHANGED <<rows, chk, own, owed, taken, hub, unleased, faults>>
    BY <1>5 DEF ConsumeState, hubVars
  <2>2. op[q].state \in OAuthStates
    BY <1>5 DEF ConsumeState, WebSubFacts, StatesAreUsedOnce
  <2>3. consumed' \subseteq OAuthStates
    BY <1>0, <1>5, <2>2 DEF ConsumeState
  <2>4. op' \in [Requests -> RequestRecord] /\ WebSubFacts'
    BY <1>5, ConsumeStateKeeps
  <2> QED
    BY <1>0, <2>1, <2>3, <2>4, TypesKept
<1>6. CASE AttachInserts(q)
  <2>1. UNCHANGED <<chk, consumed, owed, taken, hub, unleased, faults>>
    BY <1>6 DEF AttachInserts, hubVars
  <2>2. /\ rows' \in [Rows -> SubscriptionRecord] /\ op' \in [Requests -> RequestRecord]
        /\ own' \in Rows \cup {None} /\ WebSubFacts'
    BY <1>6, AttachInsertsKeeps
  <2> QED
    BY <1>0, <2>1, <2>2, TypesKept
<1>7. CASE HubAccepts(q)
  <2>1. /\ op[q].pc = "hub" /\ op' = [op EXCEPT ![q].pc = "record", ![q].answer = "accepted"]
        /\ taken' = taken \cup {q} /\ owed' = owed \cup {q}
        /\ UNCHANGED <<rows, chk, hub, unleased, faults, stolen, raced, apart, consumed, own>>
    BY <1>7 DEF HubAccepts, connection, history
  <2>2. op' \in [Requests -> RequestRecord] /\ WebSubFacts'
    BY <2>1, AnsweredKeeps
  <2>3. owed' \subseteq taken' /\ taken' \subseteq Requests
    BY <1>0, <2>1
  <2> QED
    BY <1>0, <2>1, <2>2, <2>3, TypesKept
<1>8. CASE HubFails(q)
  <2>1. PICK a \in {"refused", "retryable"} :
          /\ op[q].pc = "hub" /\ op' = [op EXCEPT ![q].pc = "record", ![q].answer = a]
          /\ \/ taken' = taken /\ owed' = owed
             \/ a = "retryable" /\ taken' = taken \cup {q} /\ owed' = owed \cup {q}
          /\ UNCHANGED <<rows, chk, hub, unleased, stolen, raced, apart, consumed, own>>
    <3>1. op[q].pc = "hub" /\ UNCHANGED <<rows, chk, hub, unleased, stolen, raced, apart, consumed, own>>
      BY <1>8 DEF HubFails, connection, history
    <3>2. \/ /\ \E a \in {"refused", "retryable"} :
                   op' = [op EXCEPT ![q].pc = "record", ![q].answer = a]
             /\ taken' = taken /\ owed' = owed
          \/ /\ op' = [op EXCEPT ![q].pc = "record", ![q].answer = "retryable"]
             /\ taken' = taken \cup {q} /\ owed' = owed \cup {q}
      BY <1>8 DEF HubFails
    <3> QED
      BY <3>1, <3>2
  <2>2. op' \in [Requests -> RequestRecord] /\ WebSubFacts'
    BY <2>1, AnsweredKeeps
  <2>3. owed' \subseteq taken' /\ taken' \subseteq Requests
    BY <1>0, <2>1
  <2>4. faults' \in Nat
    BY <1>0, <1>8 DEF HubFails, Fault
  <2> QED
    BY <1>0, <2>1, <2>2, <2>3, <2>4, TypesKept
<1>9. CASE RecordResult(q)
  <2>1. UNCHANGED <<chk, consumed, own, owed, taken, hub, unleased, faults>>
    BY <1>9 DEF RecordResult, connection, hubVars
  <2>2. /\ rows' \in [Rows -> SubscriptionRecord] /\ op' \in [Requests -> RequestRecord]
        /\ WebSubFacts'
    <3>1. CASE Records(q)
      BY <1>9, <3>1, RecordResultKeeps
    <3>2. CASE ~Records(q)
      <4>1. rows' = rows
        BY <1>9, <3>2 DEF RecordResult
      <4> QED
        BY <1>9, <3>2, <4>1, UnrecordedKeeps
    <3> QED
      BY <3>1, <3>2
  <2> QED
    BY <1>0, <2>1, <2>2, TypesKept
<1>10. CASE RequestLost(q)
  <2>1. UNCHANGED <<rows, chk, consumed, own, owed, taken, hub, unleased>> /\ faults' \in Nat
    BY <1>0, <1>10 DEF RequestLost, Fault, connection, hubVars
  <2>2. op' \in [Requests -> RequestRecord] /\ WebSubFacts'
    BY <1>10, RequestLostKeeps
  <2> QED
    BY <1>0, <2>1, <2>2, TypesKept
<1> QED
  BY <1>1, <1>2, <1>3, <1>4, <1>5, <1>6, <1>7, <1>8, <1>9, <1>10 DEF RequestStep

LEMMA CheckStepKeeps ==
  ASSUME WebSubInv, NEW v \in Checks, CheckStep(v)
  PROVE  WebSubInv'
<1> USE WebSubTyped DEF WebSubInv
<1>0. /\ consumed \subseteq OAuthStates /\ own \in Rows \cup {None}
      /\ owed \subseteq taken /\ taken \subseteq Requests /\ unleased \subseteq Rows /\ faults \in Nat
  BY DEF WebSubTypes
<1>1. ASSUME NEW q \in Requests, HubVerifies(v, q) PROVE WebSubInv'
  <2>1. UNCHANGED <<rows, op, consumed, own, taken, hub, unleased, faults>> /\ owed' \subseteq taken
    BY <1>0, <1>1 DEF HubVerifies, connection
  <2>2. chk' \in [Checks -> CheckRecord] /\ WebSubFacts'
    BY <1>1, HubVerifiesKeeps
  <2> QED
    BY <1>0, <2>1, <2>2, TypesKept
<1>2. CASE CheckReads(v)
  <2>1. UNCHANGED <<rows, op, consumed, own, owed, taken, hub, unleased, faults>>
    BY <1>2 DEF CheckReads, connection, hubVars
  <2>2. chk' \in [Checks -> CheckRecord] /\ WebSubFacts'
    BY <1>2, CheckReadsKeeps
  <2> QED
    BY <1>0, <2>1, <2>2, TypesKept
<1>3. CASE CheckWrites(v)
  <2>1. UNCHANGED <<op, consumed, own, owed, taken, hub, faults>> /\ unleased' \subseteq Rows
    BY <1>0, <1>3 DEF CheckWrites, connection
  <2>2. /\ rows' \in [Rows -> SubscriptionRecord] /\ chk' \in [Checks -> CheckRecord]
        /\ WebSubFacts'
    BY <1>3, CheckWritesKeeps
  <2> QED
    BY <1>0, <2>1, <2>2, TypesKept
<1>4. CASE CheckAnswered(v)
  <2>1. UNCHANGED <<rows, op, consumed, own, owed, taken, unleased, faults>>
    BY <1>4 DEF CheckAnswered, connection
  <2>2. chk' \in [Checks -> CheckRecord] /\ hub' \in [Rows -> BOOLEAN] /\ WebSubFacts'
    BY <1>4, CheckAnsweredKeeps
  <2> QED
    BY <1>0, <2>1, <2>2, TypesKept
<1>5. CASE CheckLost(v)
  <2>1. UNCHANGED <<rows, op, consumed, own, owed, taken, hub, unleased>> /\ faults' \in Nat
    BY <1>0, <1>5 DEF CheckLost, Fault, connection, hubVars
  <2>2. chk' \in [Checks -> CheckRecord] /\ WebSubFacts'
    BY <1>5, CheckLostKeeps
  <2> QED
    BY <1>0, <2>1, <2>2, TypesKept
<1> QED
  BY <1>1, <1>2, <1>3, <1>4, <1>5 DEF CheckStep

LEMMA WebSubStepKeeps == WebSubInv /\ [Next]_vars => WebSubInv'
<1> SUFFICES ASSUME WebSubInv, [Next]_vars PROVE WebSubInv'
  OBVIOUS
<1>1. ASSUME NEW q \in Requests, RequestStep(q) PROVE WebSubInv'
  BY <1>1, RequestStepKeeps
<1>2. ASSUME NEW v \in Checks, CheckStep(v) PROVE WebSubInv'
  BY <1>2, CheckStepKeeps
<1>3. ASSUME NEW w \in Rows, DispatchAges(w) \/ FirstVideo(w) PROVE WebSubInv'
  <2>1. UNCHANGED <<op, chk, consumed, own, owed, taken, hub, unleased, faults>>
    BY <1>3 DEF DispatchAges, FirstVideo, connection, hubVars
  <2>2. rows' \in [Rows -> SubscriptionRecord] /\ WebSubFacts'
    BY <1>3, DispatchAgesKeeps, FirstVideoKeeps DEF WebSubInv
  <2>3. WebSubTypes'
    BY <2>1, <2>2 DEF WebSubInv, WebSubTypes
  <2> QED
    BY <2>2, <2>3 DEF WebSubInv
<1>4. ASSUME NEW w \in Rows, LeaseEnds(w) PROVE WebSubInv'
  <2>1. UNCHANGED <<rows, op, chk, consumed, own, owed, taken, faults>>
    BY <1>4 DEF LeaseEnds, connection
  <2>2. hub' \in [Rows -> BOOLEAN] /\ unleased' \subseteq Rows /\ WebSubFacts'
    BY <1>4, LeaseEndsKeeps DEF WebSubInv
  <2>3. WebSubTypes'
    BY <2>1, <2>2 DEF WebSubInv, WebSubTypes
  <2> QED
    BY <2>2, <2>3 DEF WebSubInv
<1>5. CASE UNCHANGED vars
  <2>1. UNCHANGED <<rows, op, chk, consumed, own, owed, taken, hub, unleased, faults, stolen, raced, apart>>
    BY <1>5 DEF vars
  <2>2. ChecksHold' /\ HubFollowsRow'
    BY <2>1 DEF WebSubInv, WebSubFacts, ChecksHold, HubFollowsRow, Answers, Sends
  <2>3. WebSubTypes'
    BY <2>1 DEF WebSubInv, WebSubTypes
  <2> QED
    BY <2>1, <2>2, <2>3, CallbackMoves DEF WebSubInv
<1> QED
  BY <1>1, <1>2, <1>3, <1>4, <1>5 DEF Next

LEMMA WebSubInvariant == Spec => []WebSubInv
BY WebSubInitial, WebSubStepKeeps, PTL DEF Spec

\* Whatever requests, callbacks and connections interleave, at most one row of the channel is
\* open; a row with no answer on its way says of the channel what the hub does, leases that run
\* out included, and where a lost or overtaken answer set them apart the next callback that is
\* answered alone brings them together; and each consent of the creator connects it once
\* (verifyCodeClipYouTubeWebSubCallback, isSubscriptionLeaseValid).
THEOREM ChannelAgrees == Spec => []ChannelIsConsistent
<1>1. ASSUME WebSubInv PROVE ChannelIsConsistent
  <2> USE <1>1, WebSubTyped, RequestAssumption DEF WebSubInv, WebSubFacts
  <2>1. TypeOK
    <3>1. ASSUME NEW w \in Rows
          PROVE  LET s == rows[w]
                 IN  /\ s.status \in Open \cup {"none", "unsubscribed"}
                     /\ s.mode \in {"subscribe", "unsubscribe", None} /\ s.first \in BOOLEAN
                     /\ (s.mode = None) <=> s.status \in {"none", "active", "unsubscribed"}
                     /\ s.dispatch.status \in {"none", "started", "accepted", "failed"}
                     /\ s.status \in Open => ~ OthersOpen(w)
      <4>1. /\ rows[w].status \in Statuses /\ rows[w].mode \in HubModes \cup {None}
            /\ rows[w].first \in BOOLEAN /\ rows[w].dispatch \in DispatchRecord /\ RowHolds(rows[w])
        BY DEF RowsHold
      <4>2. (rows[w].mode = None) <=> rows[w].status \in {"none", "active", "unsubscribed"}
        BY <4>1 DEF RowHolds, Statuses, Open, HubModes
      <4>3. rows[w].status \in Open => ~ OthersOpen(w)
        BY DEF OneOpenRow, OthersOpen
      <4> QED
        BY <4>1, <4>2, <4>3 DEF Statuses, HubModes, DispatchRecord
    <3>2. \A q \in Requests : op[q].pc \in RequestPC
      BY DEF RequestRecord
    <3>3. \A v \in Checks : chk[v].pc \in {"idle", "read", "write", "answer"}
      BY DEF CheckRecord
    <3> QED
      BY <3>1, <3>2, <3>3 DEF TypeOK, WebSubTypes, RequestPC
  <2>2. RowAgreesWithHub
    BY <2>1 DEF RowAgreesWithHub, HubFollowsRow, Answers, Sends, Answering
  <2>3. ConsentCountsOnce
    BY DEF ConsentCountsOnce, StatesAreUsedOnce, UsesState
  <2> QED
    BY <2>2, <2>3 DEF ChannelIsConsistent
<1> QED
  BY <1>1, WebSubInvariant, PTL

\* However many requests work on a row, the result recorded for a dispatch is the one the hub
\* gave that attempt, two requests speak to the hub for one row only after a dispatch became
\* stale, and a dispatch is left `started' only for a cause
\* (recordCodeClipYouTubeWebSubDispatchResult, claimCodeClipYouTubeWebSubDispatch).
THEOREM DispatchesAreTheHubs == Spec => []DispatchesAreAccountedFor
<1>1. ASSUME WebSubInv PROVE DispatchesAreAccountedFor
  <2> USE <1>1, WebSubTyped DEF WebSubInv, WebSubFacts
  <2>1. RecordedResultIsHubs
    BY DEF RecordedResultIsHubs, ResultsHold
  <2>2. OverlapNeedsStaleDispatch
    <3> SUFFICES ASSUME NEW w \in Rows \ stolen
                 PROVE  ~ (Cardinality({q \in Requests : op[q].row = w /\ op[q].pc = "hub"}) > 1)
      BY DEF OverlapNeedsStaleDispatch
    <3> DEFINE S == {q \in Requests : op[q].row = w /\ op[q].pc = "hub"}
    <3>1. \A q, r \in S : q = r
      BY DEF OneSpeaker
    <3> HIDE DEF S
    <3>2. IsFiniteSet(S) /\ Cardinality(S) <= 1
      BY <3>1, AtMostOne
    <3>3. Cardinality(S) \in Nat
      BY <3>2, FS_CardinalityType
    <3>4. ~ (Cardinality(S) > 1)
      BY <3>2, <3>3
    <3> QED
      BY <3>4 DEF S
  <2>3. StartedNeedsACause
    <3> SUFFICES ASSUME NEW w \in Rows, rows[w].dispatch.status = "started"
                 PROVE  LET d == rows[w].dispatch
                        IN  \/ op[d.attempt].pc \in {"hub", "record", "lost"}
                            \/ w \in raced
                            \/ \E q \in Requests \ {d.attempt} :
                                 /\ op[q].row = w /\ op[q].kind # d.mode
                                 /\ op[q].pc \in {"claim", "recover", "done", "lost"}
      BY DEF StartedNeedsACause
    <3> QED
      BY DEF StartedIsExplained, Excused
  <2> QED
    BY <2>1, <2>2, <2>3 DEF DispatchesAreAccountedFor
<1> QED
  BY <1>1, WebSubInvariant, PTL

-----------------------------------------------------------------------------
(***************************************************************************)
(* The videos of a channel.                                                *)
(***************************************************************************)

IngestPC == {"idle", "claim", "next", "look", "insert", "persist", "fail", "finish"}
IngestRecord == [pc : IngestPC, asked : SUBSET Videos, todo : SUBSET Videos,
                 video : Videos \cup {None}, bad : BOOLEAN]

IngestTypes ==
  /\ age \in [Videos -> {"unpublished", "fresh", "due", "old"}]
  /\ undelivered \subseteq Videos /\ missed \subseteq Videos /\ hurt \subseteq Videos
  /\ delivery \in [Videos -> {"none", "processing", "failed", "completed"}]
  /\ active \in [Videos -> Nat]
  /\ claim \in [owner : Workers \cup {None}, stale : BOOLEAN]
  /\ proc \in [Procs -> IngestRecord]
  /\ faults \in Nat /\ lapsed \in BOOLEAN

\* What a process holds in memory, by where it is.
ProcessHolds ==
  \A p \in Procs :
    /\ proc[p].pc = "claim" => p \in Workers
    /\ proc[p].pc = "look" => p \notin Notifiers
    /\ proc[p].pc \in {"look", "insert", "persist", "fail", "finish"} => proc[p].video \in Videos
    /\ proc[p].pc \in {"idle", "claim", "next"} => proc[p].video = None
    /\ p \notin Notifiers \/ proc[p].pc = "idle" => proc[p].asked = {}

HoldsEntry(p) == proc[p].pc \in {"persist", "fail", "finish"}

\* Of the processes that came to a video one goes on, and its row waits for it: it alone
\* creates the interaction and ends the row.
EntryIsHeldByOne ==
  /\ \A p, q \in Procs :
       HoldsEntry(p) /\ HoldsEntry(q) /\ proc[p].video = proc[q].video => p = q
  /\ \A p \in Procs :
       /\ HoldsEntry(p) => delivery[proc[p].video] = "processing"
       /\ proc[p].pc = "persist" => proc[p].video \notin Historical /\ active[proc[p].video] = 0
       /\ proc[p].pc = "fail" => proc[p].video \in hurt

ActivationsCounted ==
  \A v \in Videos :
    /\ active[v] <= 1
    /\ v \in Historical \/ delivery[v] = "none" => active[v] = 0

\* A row whose processing was not cut short has activated, or is about to.
RowActivates ==
  \A v \in Videos \ (hurt \cup Historical) : delivery[v] # "none" =>
    \/ active[v] = 1 /\ delivery[v] # "failed"
    \/ \E p \in Procs : proc[p].pc = "persist" /\ proc[p].video = v

\* The hub was told of a video, or a request is about to tell it, only when there is its row.
HubIsToldOfRows ==
  /\ \A v \in Videos \ (undelivered \cup missed \cup hurt \cup Historical) :
       age[v] # "unpublished" => delivery[v] # "none"
  /\ \A p \in Procs : ~proc[p].bad =>
       \A v \in proc[p].asked \ (proc[p].todo \cup {proc[p].video} \cup hurt \cup Historical) :
         delivery[v] # "none"

PublishedFirst ==
  /\ undelivered \cap missed = {}
  /\ \A v \in undelivered \cup missed : age[v] # "unpublished"

\* Without a lapse a worker past its claim holds it.
ClaimIsHeld ==
  /\ claim.stale => claim.owner # None
  /\ ~lapsed => \A p \in Workers : Busy(p) => claim.owner = p

IngestFacts ==
  /\ ProcessHolds /\ EntryIsHeldByOne /\ ActivationsCounted /\ RowActivates
  /\ HubIsToldOfRows /\ PublishedFirst /\ ClaimIsHeld

IngestInv == IngestTypes /\ IngestFacts

-----------------------------------------------------------------------------
LEMMA IngestInitial == IngestInit => IngestInv
<1> SUFFICES ASSUME IngestInit PROVE IngestInv
  OBVIOUS
<1> USE HistoricalAssumption, ProcessAssumption DEF IngestInit, Idle, Free
<1>1. IngestTypes
  BY DEF IngestTypes, IngestRecord, IngestPC
<1>2. ProcessHolds /\ EntryIsHeldByOne /\ ActivationsCounted
  BY DEF ProcessHolds, EntryIsHeldByOne, HoldsEntry, ActivationsCounted
<1>3. RowActivates /\ HubIsToldOfRows
  BY DEF RowActivates, HubIsToldOfRows
<1>4. PublishedFirst /\ ClaimIsHeld
  <2>1. PublishedFirst
    BY DEF PublishedFirst
  <2>2. ClaimIsHeld
    <3>1. \A p \in Procs : ~Busy(p)
      BY DEF Busy
    <3> QED
      BY <3>1 DEF ClaimIsHeld, Procs
  <2> QED
    BY <2>1, <2>2
<1> QED
  BY <1>1, <1>2, <1>3, <1>4 DEF IngestInv, IngestFacts

\* One record of the processes is replaced by another.
LEMMA ProcessReplaced ==
  ASSUME IngestTypes, NEW p \in Procs, NEW u \in IngestRecord, proc' = [proc EXCEPT ![p] = u]
  PROVE  proc' \in [Procs -> IngestRecord]
BY DEF IngestTypes

\* What the three ways to go on from an entry leave in memory.
LEMMA GotoHolds ==
  ASSUME IngestTypes, NEW p \in Procs, NEW pc \in IngestPC, Goto(p, pc)
  PROVE  /\ proc' \in [Procs -> IngestRecord] /\ proc'[p] = [proc[p] EXCEPT !.pc = pc]
         /\ \A r \in Procs \ {p} : proc'[r] = proc[r]
<1>1. proc \in [Procs -> IngestRecord]
  BY DEF IngestTypes
<1> DEFINE u == [proc[p] EXCEPT !.pc = pc]
<1>2. proc' = [proc EXCEPT ![p] = u]
  BY DEF Goto
<1>3. u \in IngestRecord
  BY <1>1 DEF IngestRecord
<1> QED
  BY <1>1, <1>2, <1>3

LEMMA AfterEntryHolds ==
  ASSUME IngestTypes, ProcessHolds, NEW p \in Procs, NEW bad \in BOOLEAN, AfterEntry(p, bad)
  PROVE  /\ proc' \in [Procs -> IngestRecord]
         /\ proc'[p].pc = "next" \/ (proc'[p].pc = "idle" /\ p \notin Notifiers)
         /\ proc'[p].video = None /\ proc'[p].asked = proc[p].asked
         /\ p \in Notifiers /\ ~proc'[p].bad =>
              proc'[p].todo = proc[p].todo /\ ~proc[p].bad /\ ~bad
         /\ \A r \in Procs \ {p} : proc'[r] = proc[r]
<1>1. proc \in [Procs -> IngestRecord] /\ Idle \in IngestRecord
  BY DEF IngestTypes, Idle, IngestRecord, IngestPC
<1> DEFINE N(b) == [proc[p] EXCEPT !.pc = "next", !.video = None, !.bad = b]
<1>2. CASE p \in Operators
  <2>1. proc' = [proc EXCEPT ![p] = Idle]
    BY <1>2 DEF AfterEntry
  <2>2. p \notin Notifiers /\ proc[p].asked = {}
    BY <1>2, ProcessAssumption DEF ProcessHolds
  <2>3. proc'[p] = Idle /\ \A r \in Procs \ {p} : proc'[r] = proc[r]
    BY <1>1, <2>1
  <2> QED
    BY <1>1, <2>1, <2>2, <2>3, ProcessReplaced DEF Idle
<1>3. CASE p \notin Operators
  <2>1. ASSUME NEW b \in BOOLEAN
        PROVE  /\ N(b) \in IngestRecord /\ N(b).pc = "next" /\ N(b).video = None
               /\ N(b).asked = proc[p].asked /\ N(b).todo = proc[p].todo /\ N(b).bad = b
    BY <1>1 DEF IngestRecord, IngestPC
  <2>2. proc' = [proc EXCEPT ![p] = N(proc[p].bad \/ bad)]
    BY <1>3, Zenon DEF AfterEntry
  <2>3. PICK b \in BOOLEAN : b <=> (proc[p].bad \/ bad)
    OBVIOUS
  <2>4. b = (proc[p].bad \/ bad)
    BY <2>3, Zenon
  <2> HIDE DEF N
  <2>5. proc' = [proc EXCEPT ![p] = N(b)]
    BY <2>2, <2>4
  <2>6. proc'[p] = N(b) /\ \A r \in Procs \ {p} : proc'[r] = proc[r]
    BY <1>1, <2>5
  <2> QED
    BY <1>1, <2>1, <2>3, <2>5, <2>6, ProcessReplaced
<1> QED
  BY <1>2, <1>3

\* Nothing of an entry is left with a process that stopped.
LEMMA StoppedHolds ==
  ASSUME IngestTypes, ProcessHolds, NEW p \in Procs,
         Stopped(p) \/ proc' = [proc EXCEPT ![p] = Idle]
  PROVE  /\ proc' \in [Procs -> IngestRecord]
         /\ proc'[p].pc = "idle" \/ (Stopped(p) /\ p \in Workers /\ proc'[p].pc = "next")
         /\ proc'[p].video = None /\ proc'[p].asked = {}
         /\ \A r \in Procs \ {p} : proc'[r] = proc[r]
<1>1. proc \in [Procs -> IngestRecord] /\ Idle \in IngestRecord
  BY DEF IngestTypes, Idle, IngestRecord, IngestPC
<1> DEFINE u == [proc[p] EXCEPT !.pc = "next", !.video = None, !.todo = {}]
<1>2. CASE proc' = [proc EXCEPT ![p] = Idle]
  BY <1>1, <1>2, ProcessReplaced DEF Idle
<1>3. CASE Stopped(p) /\ p \in Workers
  <2>1. proc' = [proc EXCEPT ![p] = u] /\ proc[p].asked = {}
    BY <1>3, ProcessAssumption DEF Stopped, ProcessHolds
  <2>2. u \in IngestRecord
    BY <1>1 DEF IngestRecord, IngestPC
  <2>3. proc'[p] = u /\ \A r \in Procs \ {p} : proc'[r] = proc[r]
    BY <1>1, <2>1
  <2> QED
    BY <1>1, <1>3, <2>1, <2>2, <2>3, ProcessReplaced DEF IngestRecord
<1> QED
  BY <1>2, <1>3 DEF Stopped

\* What a step of one process that holds no entry afterwards keeps.
LEMMA EntriesKept ==
  ASSUME IngestTypes, IngestFacts, NEW p \in Procs, proc' \in [Procs -> IngestRecord],
         \A r \in Procs \ {p} : proc'[r] = proc[r],
         proc'[p].pc \notin {"persist", "fail", "finish"}, UNCHANGED <<delivery, active>>,
         hurt \subseteq hurt', proc[p].pc = "persist" => proc[p].video \in hurt'
  PROVE  EntryIsHeldByOne' /\ ActivationsCounted' /\ RowActivates'
<1> USE DEF IngestFacts, HoldsEntry
<1>1. EntryIsHeldByOne'
  BY DEF EntryIsHeldByOne
<1>2. ActivationsCounted'
  BY DEF ActivationsCounted
<1>3. ASSUME NEW v \in Videos \ (hurt' \cup Historical), delivery'[v] # "none"
      PROVE  \/ active'[v] = 1 /\ delivery'[v] # "failed"
             \/ \E r \in Procs : proc'[r].pc = "persist" /\ proc'[r].video = v
  <2>1. \/ active[v] = 1 /\ delivery[v] # "failed"
        \/ \E r \in Procs : proc[r].pc = "persist" /\ proc[r].video = v
    BY <1>3 DEF RowActivates
  <2>2. ASSUME NEW r \in Procs, proc[r].pc = "persist", proc[r].video = v
        PROVE  proc'[r].pc = "persist" /\ proc'[r].video = v
    BY <1>3, <2>2
  <2> QED
    BY <2>1, <2>2
<1> QED
  BY <1>1, <1>2, <1>3 DEF RowActivates

\* What a step of one process keeps that makes rows and takes none away.
LEMMA ToldKept ==
  ASSUME IngestTypes, IngestFacts, NEW p \in Procs,
         \A r \in Procs \ {p} : proc'[r] = proc[r],
         \A v \in Videos : delivery[v] # "none" => delivery'[v] # "none",
         hurt \subseteq hurt', UNCHANGED <<age, undelivered, missed>>,
         ~proc'[p].bad =>
           \A v \in proc'[p].asked \ (proc'[p].todo \cup {proc'[p].video} \cup hurt' \cup Historical) :
             delivery'[v] # "none"
  PROVE  HubIsToldOfRows' /\ PublishedFirst'
<1> USE DEF IngestFacts
<1>1. \A v \in Videos \ (undelivered' \cup missed' \cup hurt' \cup Historical) :
        age'[v] # "unpublished" => delivery'[v] # "none"
  BY DEF HubIsToldOfRows
<1>2. ASSUME NEW r \in Procs, ~proc'[r].bad,
             NEW v \in proc'[r].asked \
                         (proc'[r].todo \cup {proc'[r].video} \cup hurt' \cup Historical)
      PROVE  delivery'[v] # "none"
  <2>1. CASE r = p
    BY <1>2, <2>1
  <2>2. CASE r # p
    <3>1. /\ proc'[r] = proc[r] /\ proc[r].asked \subseteq Videos
          /\ v \in proc[r].asked \ (proc[r].todo \cup {proc[r].video} \cup hurt \cup Historical)
      BY <1>2, <2>2 DEF IngestTypes, IngestRecord
    <3> QED
      BY <1>2, <3>1 DEF HubIsToldOfRows
  <2> QED
    BY <2>1, <2>2
<1>3. PublishedFirst'
  BY DEF PublishedFirst
<1> QED
  BY <1>1, <1>2, <1>3 DEF HubIsToldOfRows

LEMMA ClaimKept ==
  ASSUME IngestFacts, NEW p \in Procs, \A r \in Procs \ {p} : proc'[r] = proc[r],
         proc'[p].pc \in {"idle", "claim"} \/ proc[p].pc \notin {"idle", "claim"} \/ p \notin Workers,
         UNCHANGED <<claim, lapsed>>
  PROVE  ClaimIsHeld'
<1>1. ASSUME NEW r \in Workers, Busy(r)' PROVE Busy(r)
  <2>1. r \in Procs
    BY DEF Procs
  <2> QED
    BY <1>1, <2>1 DEF Busy
<1> QED
  BY <1>1 DEF IngestFacts, ClaimIsHeld

LEMMA NotifiedKeeps ==
  ASSUME IngestTypes, IngestFacts, NEW p \in Notifiers, NEW vs \in SUBSET Videos, Notified(p, vs)
  PROVE  proc' \in [Procs -> IngestRecord] /\ IngestFacts'
<1> USE ProcessAssumption DEF IngestFacts, IngestRecord, IngestPC
<1>0. p \in Procs /\ proc \in [Procs -> IngestRecord] /\ hurt \subseteq Videos
  BY DEF Procs, IngestTypes

<1>1. /\ proc' \in [Procs -> IngestRecord] /\ \A r \in Procs \ {p} : proc'[r] = proc[r]
      /\ proc'[p].pc = "next" /\ proc'[p].video = None
      /\ proc'[p].asked = vs /\ proc'[p].todo = vs /\ proc[p].pc = "idle"
  BY <1>0 DEF Notified, Idle
<1>2. /\ UNCHANGED <<age, undelivered, missed, delivery, active, claim, hurt, lapsed>>
      /\ p \notin Workers
  BY <1>0 DEF Notified, world
<1>3. ProcessHolds'
  BY <1>0, <1>1 DEF ProcessHolds
<1>4. EntryIsHeldByOne' /\ ActivationsCounted' /\ RowActivates'
  BY <1>0, <1>1, <1>2, EntriesKept
<1>5. HubIsToldOfRows' /\ PublishedFirst'
  <2>1. \A x \in Videos : delivery[x] # "none" => delivery'[x] # "none"
    BY <1>0, <1>1, <1>2 DEF IngestTypes
  <2>2. ASSUME ~proc'[p].bad,
               NEW x \in proc'[p].asked \
                           (proc'[p].todo \cup {proc'[p].video} \cup hurt' \cup Historical)
        PROVE  delivery'[x] # "none"
    BY <1>0, <1>1, <1>2, <1>3, <2>1, <2>2 DEF HubIsToldOfRows, ProcessHolds, IngestTypes
  <2> QED
    BY <1>0, <1>1, <1>2, <2>1, <2>2, ToldKept
<1>6. ClaimIsHeld'
  BY <1>0, <1>1, <1>2, ClaimKept
<1> QED
  BY <1>1, <1>3, <1>4, <1>5, <1>6

LEMMA DiscoverKeeps ==
  ASSUME IngestTypes, IngestFacts, NEW p \in Workers, Discover(p)
  PROVE  proc' \in [Procs -> IngestRecord] /\ IngestFacts'
<1> USE ProcessAssumption DEF IngestFacts, IngestRecord, IngestPC
<1>0. p \in Procs /\ proc \in [Procs -> IngestRecord] /\ hurt \subseteq Videos
  BY DEF Procs, IngestTypes

<1>1. /\ proc' \in [Procs -> IngestRecord] /\ \A r \in Procs \ {p} : proc'[r] = proc[r]
      /\ proc'[p].pc = "claim" /\ proc'[p].video = None /\ proc'[p].asked = {} /\ proc[p].pc = "idle"
  BY <1>0 DEF Discover, Idle, Due
<1>2. /\ UNCHANGED <<age, undelivered, missed, delivery, active, claim, hurt, lapsed>>
  BY <1>0 DEF Discover, world
<1>3. ProcessHolds'
  BY <1>0, <1>1 DEF ProcessHolds
<1>4. EntryIsHeldByOne' /\ ActivationsCounted' /\ RowActivates'
  BY <1>0, <1>1, <1>2, EntriesKept
<1>5. HubIsToldOfRows' /\ PublishedFirst'
  <2>1. \A x \in Videos : delivery[x] # "none" => delivery'[x] # "none"
    BY <1>0, <1>1, <1>2 DEF IngestTypes
  <2>2. ASSUME ~proc'[p].bad,
               NEW x \in proc'[p].asked \
                           (proc'[p].todo \cup {proc'[p].video} \cup hurt' \cup Historical)
        PROVE  delivery'[x] # "none"
    BY <1>0, <1>1, <1>2, <1>3, <2>1, <2>2 DEF HubIsToldOfRows, ProcessHolds, IngestTypes
  <2> QED
    BY <1>0, <1>1, <1>2, <2>1, <2>2, ToldKept
<1>6. ClaimIsHeld'
  BY <1>0, <1>1, <1>2, ClaimKept
<1> QED
  BY <1>1, <1>3, <1>4, <1>5, <1>6

LEMMA ExecuteKeeps ==
  ASSUME IngestTypes, IngestFacts, NEW p \in Operators, NEW v \in Videos, Execute(p, v)
  PROVE  proc' \in [Procs -> IngestRecord] /\ IngestFacts'
<1> USE ProcessAssumption DEF IngestFacts, IngestRecord, IngestPC
<1>0. p \in Procs /\ proc \in [Procs -> IngestRecord] /\ hurt \subseteq Videos
  BY DEF Procs, IngestTypes

<1>1. /\ proc' \in [Procs -> IngestRecord] /\ \A r \in Procs \ {p} : proc'[r] = proc[r]
      /\ proc'[p].pc = "look" /\ proc'[p].video = v /\ proc'[p].asked = {} /\ proc[p].pc = "idle"
  BY <1>0 DEF Execute, Idle
<1>2. /\ UNCHANGED <<age, undelivered, missed, delivery, active, claim, hurt, lapsed>>
      /\ p \notin Workers \cup Notifiers
  BY <1>0 DEF Execute, world
<1>3. ProcessHolds'
  BY <1>0, <1>1 DEF ProcessHolds
<1>4. EntryIsHeldByOne' /\ ActivationsCounted' /\ RowActivates'
  BY <1>0, <1>1, <1>2, EntriesKept
<1>5. HubIsToldOfRows' /\ PublishedFirst'
  <2>1. \A x \in Videos : delivery[x] # "none" => delivery'[x] # "none"
    BY <1>0, <1>1, <1>2 DEF IngestTypes
  <2>2. ASSUME ~proc'[p].bad,
               NEW x \in proc'[p].asked \
                           (proc'[p].todo \cup {proc'[p].video} \cup hurt' \cup Historical)
        PROVE  delivery'[x] # "none"
    BY <1>0, <1>1, <1>2, <1>3, <2>1, <2>2 DEF HubIsToldOfRows, ProcessHolds, IngestTypes
  <2> QED
    BY <1>0, <1>1, <1>2, <2>1, <2>2, ToldKept
<1>6. ClaimIsHeld'
  BY <1>0, <1>1, <1>2, ClaimKept
<1> QED
  BY <1>1, <1>3, <1>4, <1>5, <1>6

LEMMA ClaimChannelKeeps ==
  ASSUME IngestTypes, IngestFacts, NEW p \in Workers, ClaimChannel(p)
  PROVE  proc' \in [Procs -> IngestRecord] /\ IngestFacts'
<1> USE ProcessAssumption DEF IngestFacts, IngestRecord, IngestPC
<1>0. p \in Procs /\ proc \in [Procs -> IngestRecord] /\ hurt \subseteq Videos
  BY DEF Procs, IngestTypes
<1>a. proc[p].pc = "claim" /\ proc[p].video = None /\ proc[p].asked = {}
  BY <1>0 DEF ClaimChannel, ProcessHolds
<1>b. IF ChannelFree THEN Goto(p, "next") ELSE proc' = [proc EXCEPT ![p] = Idle]
  BY DEF ClaimChannel

<1>1. /\ proc' \in [Procs -> IngestRecord] /\ \A r \in Procs \ {p} : proc'[r] = proc[r]
      /\ proc'[p].video = None /\ proc'[p].asked = {} /\ proc[p].pc = "claim"
      /\ proc'[p].pc = IF ChannelFree THEN "next" ELSE "idle"
  <2>1. CASE ChannelFree
    <3>1. /\ proc' \in [Procs -> IngestRecord] /\ proc'[p] = [proc[p] EXCEPT !.pc = "next"]
          /\ \A r \in Procs \ {p} : proc'[r] = proc[r]
      BY <1>0, <1>b, <2>1, GotoHolds
    <3> QED
      BY <1>0, <1>a, <2>1, <3>1
  <2>2. CASE ~ChannelFree
    <3>1. proc' = [proc EXCEPT ![p] = Idle] /\ Idle \in IngestRecord
      BY <1>b, <2>2 DEF Idle
    <3>2. proc' \in [Procs -> IngestRecord] /\ proc'[p] = Idle
      BY <1>0, <3>1
    <3> QED
      BY <1>0, <1>a, <2>2, <3>1, <3>2 DEF Idle
  <2> QED
    BY <2>1, <2>2
<1>2. /\ UNCHANGED <<age, undelivered, missed, delivery, active, hurt>>
      /\ IF ChannelFree THEN claim'.owner = p /\ ~claim'.stale /\ lapsed' = (lapsed \/ claim.stale)
                       ELSE UNCHANGED <<claim, lapsed>>
  BY <1>0 DEF ClaimChannel, world
<1>3. ProcessHolds'
  BY <1>0, <1>1 DEF ProcessHolds
<1>4. EntryIsHeldByOne' /\ ActivationsCounted' /\ RowActivates'
  BY <1>0, <1>1, <1>2, <1>a, EntriesKept
<1>5. HubIsToldOfRows' /\ PublishedFirst'
  <2>1. \A x \in Videos : delivery[x] # "none" => delivery'[x] # "none"
    BY <1>0, <1>1, <1>2 DEF IngestTypes
  <2>2. ASSUME ~proc'[p].bad,
               NEW x \in proc'[p].asked \
                           (proc'[p].todo \cup {proc'[p].video} \cup hurt' \cup Historical)
        PROVE  delivery'[x] # "none"
    BY <1>0, <1>1, <1>2, <1>3, <2>1, <2>2, <1>a DEF HubIsToldOfRows, ProcessHolds, IngestTypes
  <2> QED
    BY <1>0, <1>1, <1>2, <2>1, <2>2, ToldKept
<1>6. ClaimIsHeld'
  <2>1. CASE ChannelFree
    <3>1. ~lapsed' => ~lapsed /\ claim.owner = None
      BY <1>2, <2>1 DEF ChannelFree
    <3>2. ASSUME ~lapsed', NEW r \in Workers, Busy(r)' PROVE claim'.owner = r
      <4>1. CASE r = p
        BY <1>2, <2>1, <4>1
      <4>2. CASE r # p
        <5>1. r \in Procs /\ proc'[r] = proc[r]
          BY <1>1, <4>2 DEF Procs
        <5>2. claim.owner = r
          BY <3>1, <3>2, <5>1 DEF ClaimIsHeld, Busy
        <5> QED
          BY <3>1, <3>2, <5>2
      <4> QED
        BY <4>1, <4>2
    <3> QED
      BY <1>2, <2>1, <3>2 DEF ClaimIsHeld
  <2>2. CASE ~ChannelFree
    BY <1>0, <1>1, <1>2, <2>2, ClaimKept
  <2> QED
    BY <2>1, <2>2
<1> QED
  BY <1>1, <1>3, <1>4, <1>5, <1>6

LEMMA ReleaseChannelKeeps ==
  ASSUME IngestTypes, IngestFacts, NEW p \in Workers, ReleaseChannel(p)
  PROVE  proc' \in [Procs -> IngestRecord] /\ IngestFacts'
<1> USE ProcessAssumption DEF IngestFacts, IngestRecord, IngestPC
<1>0. p \in Procs /\ proc \in [Procs -> IngestRecord] /\ hurt \subseteq Videos
  BY DEF Procs, IngestTypes

<1>1. /\ proc' \in [Procs -> IngestRecord] /\ \A r \in Procs \ {p} : proc'[r] = proc[r]
      /\ proc'[p].pc = "idle" /\ proc'[p].video = None /\ proc'[p].asked = {} /\ proc[p].pc = "next"
  BY <1>0 DEF ReleaseChannel, Idle
<1>2. /\ UNCHANGED <<age, undelivered, missed, delivery, active, hurt, lapsed>>
      /\ claim' = ReleasedBy(p)
  BY <1>0 DEF ReleaseChannel, world
<1>3. ProcessHolds'
  BY <1>0, <1>1 DEF ProcessHolds
<1>4. EntryIsHeldByOne' /\ ActivationsCounted' /\ RowActivates'
  BY <1>0, <1>1, <1>2, EntriesKept
<1>5. HubIsToldOfRows' /\ PublishedFirst'
  <2>1. \A x \in Videos : delivery[x] # "none" => delivery'[x] # "none"
    BY <1>0, <1>1, <1>2 DEF IngestTypes
  <2>2. ASSUME ~proc'[p].bad,
               NEW x \in proc'[p].asked \
                           (proc'[p].todo \cup {proc'[p].video} \cup hurt' \cup Historical)
        PROVE  delivery'[x] # "none"
    BY <1>0, <1>1, <1>2, <1>3, <2>1, <2>2 DEF HubIsToldOfRows, ProcessHolds, IngestTypes
  <2> QED
    BY <1>0, <1>1, <1>2, <2>1, <2>2, ToldKept
<1>6. ClaimIsHeld'
  <2>1. CASE claim.owner = p
    <3>1. claim'.owner = None /\ ~claim'.stale
      BY <1>2, <2>1 DEF ReleasedBy, Free
    <3>2. ASSUME ~lapsed, NEW r \in Workers PROVE ~Busy(r)'
      <4>1. CASE r = p
        BY <1>1, <4>1 DEF Busy
      <4>2. CASE r # p
        <5>1. r \in Procs /\ proc'[r] = proc[r]
          BY <1>1, <4>2 DEF Procs
        <5> QED
          BY <2>1, <3>2, <4>2, <5>1 DEF ClaimIsHeld, Busy
      <4> QED
        BY <4>1, <4>2
    <3> QED
      BY <1>2, <3>1, <3>2 DEF ClaimIsHeld
  <2>2. CASE claim.owner # p
    <3>1. claim' = claim /\ lapsed' = lapsed
      BY <1>2, <2>2 DEF ReleasedBy
    <3> QED
      BY <1>0, <1>1, <3>1, ClaimKept
  <2> QED
    BY <2>1, <2>2
<1> QED
  BY <1>1, <1>3, <1>4, <1>5, <1>6

LEMMA NextEntryKeeps ==
  ASSUME IngestTypes, IngestFacts, NEW p \in Procs, NextEntry(p)
  PROVE  proc' \in [Procs -> IngestRecord] /\ IngestFacts'
<1> USE ProcessAssumption DEF IngestFacts, IngestRecord, IngestPC
<1>0. p \in Procs /\ proc \in [Procs -> IngestRecord] /\ hurt \subseteq Videos
  BY DEF Procs, IngestTypes
<1>d. PICK v \in proc[p].todo :
        proc' = [proc EXCEPT ![p].todo = @ \ {v}, ![p].video = v,
                   ![p].pc = IF p \in Notifiers THEN "insert" ELSE "look"]
  BY DEF NextEntry

<1>1. /\ proc' \in [Procs -> IngestRecord] /\ \A r \in Procs \ {p} : proc'[r] = proc[r]
      /\ proc'[p].pc = (IF p \in Notifiers THEN "insert" ELSE "look") /\ proc'[p].video = v
      /\ proc'[p].todo = proc[p].todo \ {v} /\ proc'[p].asked = proc[p].asked
      /\ proc'[p].bad = proc[p].bad /\ v \in Videos /\ proc[p].video = None /\ proc[p].pc = "next"
  BY <1>0, <1>d DEF NextEntry, ProcessHolds
<1>2. /\ UNCHANGED <<age, undelivered, missed, delivery, active, claim, hurt, lapsed>>
  BY <1>0 DEF NextEntry, world
<1>3. ProcessHolds'
  BY <1>0, <1>1 DEF ProcessHolds
<1>4. EntryIsHeldByOne' /\ ActivationsCounted' /\ RowActivates'
  BY <1>0, <1>1, <1>2, EntriesKept
<1>5. HubIsToldOfRows' /\ PublishedFirst'
  <2>1. \A x \in Videos : delivery[x] # "none" => delivery'[x] # "none"
    BY <1>0, <1>1, <1>2 DEF IngestTypes
  <2>2. ASSUME ~proc'[p].bad,
               NEW x \in proc'[p].asked \
                           (proc'[p].todo \cup {proc'[p].video} \cup hurt' \cup Historical)
        PROVE  delivery'[x] # "none"
    BY <1>0, <1>1, <1>2, <1>3, <2>1, <2>2 DEF HubIsToldOfRows, ProcessHolds, IngestTypes
  <2> QED
    BY <1>0, <1>1, <1>2, <2>1, <2>2, ToldKept
<1>6. ClaimIsHeld'
  BY <1>0, <1>1, <1>2, ClaimKept
<1> QED
  BY <1>1, <1>3, <1>4, <1>5, <1>6

LEMMA AnswerHubKeeps ==
  ASSUME IngestTypes, IngestFacts, NEW p \in Notifiers, AnswerHub(p)
  PROVE  proc' \in [Procs -> IngestRecord] /\ IngestFacts'
<1> USE ProcessAssumption DEF IngestFacts, IngestRecord, IngestPC
<1>0. p \in Procs /\ proc \in [Procs -> IngestRecord] /\ hurt \subseteq Videos
  BY DEF Procs, IngestTypes

<1>1. /\ proc' \in [Procs -> IngestRecord] /\ \A r \in Procs \ {p} : proc'[r] = proc[r]
      /\ proc'[p].pc = "idle" /\ proc'[p].video = None /\ proc'[p].asked = {}
      /\ proc[p].pc = "next" /\ proc[p].todo = {} /\ proc[p].video = None
  BY <1>0 DEF AnswerHub, Idle, ProcessHolds
<1>2. /\ UNCHANGED <<age, missed, delivery, active, claim, hurt, lapsed>>
      /\ p \notin Workers
      /\ undelivered' = IF proc[p].bad THEN undelivered ELSE undelivered \ proc[p].asked
  BY <1>0 DEF AnswerHub
<1>3. ProcessHolds'
  BY <1>0, <1>1 DEF ProcessHolds
<1>4. EntryIsHeldByOne' /\ ActivationsCounted' /\ RowActivates'
  BY <1>0, <1>1, <1>2, EntriesKept
<1>5. HubIsToldOfRows' /\ PublishedFirst'
  <2>1. PublishedFirst'
    BY <1>2 DEF PublishedFirst
  <2>2. ASSUME NEW v \in Videos \ (undelivered' \cup missed' \cup hurt' \cup Historical),
               age'[v] # "unpublished"
        PROVE  delivery'[v] # "none"
    <3>1. CASE v \in undelivered
      <4>1. ~proc[p].bad /\ v \in proc[p].asked /\ v # None
        BY <1>2, <2>2, <3>1
      <4> QED
        BY <1>0, <1>1, <1>2, <2>2, <4>1 DEF HubIsToldOfRows
    <3>2. CASE v \notin undelivered
      BY <1>2, <2>2, <3>2 DEF HubIsToldOfRows
    <3> QED
      BY <3>1, <3>2
  <2>3. ASSUME NEW r \in Procs, ~proc'[r].bad,
               NEW v \in proc'[r].asked \
                           (proc'[r].todo \cup {proc'[r].video} \cup hurt' \cup Historical)
        PROVE  delivery'[v] # "none"
    BY <1>1, <1>2, <2>3 DEF HubIsToldOfRows
  <2> QED
    BY <2>1, <2>2, <2>3 DEF HubIsToldOfRows
<1>6. ClaimIsHeld'
  BY <1>0, <1>1, <1>2, ClaimKept
<1> QED
  BY <1>1, <1>3, <1>4, <1>5, <1>6

LEMMA LookUpGoesOn ==
  ASSUME IngestTypes, IngestFacts, NEW p \in Procs, LookUp(p), delivery[proc[p].video] = "none"
  PROVE  proc' \in [Procs -> IngestRecord] /\ IngestFacts'
<1> USE ProcessAssumption DEF IngestFacts, IngestRecord, IngestPC
<1>0. p \in Procs /\ proc \in [Procs -> IngestRecord] /\ hurt \subseteq Videos
  BY DEF Procs, IngestTypes
<1>a. proc[p].pc = "look" /\ proc[p].video \in Videos
  BY <1>0 DEF LookUp, ProcessHolds
<1>b. Goto(p, "insert")
  BY DEF LookUp

<1>1. /\ proc' \in [Procs -> IngestRecord] /\ \A r \in Procs \ {p} : proc'[r] = proc[r]
      /\ proc'[p].pc = "insert"
      /\ proc'[p].video = proc[p].video /\ proc'[p].asked = proc[p].asked
      /\ proc'[p].todo = proc[p].todo /\ proc'[p].bad = proc[p].bad /\ proc[p].video \in Videos
  <2>1. ("insert") \in IngestPC
    OBVIOUS
  <2>2. /\ proc' \in [Procs -> IngestRecord] /\ proc'[p] = [proc[p] EXCEPT !.pc = "insert"]
        /\ \A r \in Procs \ {p} : proc'[r] = proc[r]
    BY <1>0, <1>b, <2>1, GotoHolds
  <2> QED
    BY <1>0, <1>a, <2>2
<1>2. /\ UNCHANGED <<age, undelivered, missed, delivery, active, claim, hurt, lapsed>>
  BY <1>0 DEF LookUp, world
<1>3. ProcessHolds'
  BY <1>0, <1>1 DEF ProcessHolds
<1>4. EntryIsHeldByOne' /\ ActivationsCounted' /\ RowActivates'
  BY <1>0, <1>1, <1>2, <1>a, EntriesKept
<1>5. HubIsToldOfRows' /\ PublishedFirst'
  <2>1. \A x \in Videos : delivery[x] # "none" => delivery'[x] # "none"
    BY <1>0, <1>1, <1>2 DEF IngestTypes
  <2>2. ASSUME ~proc'[p].bad,
               NEW x \in proc'[p].asked \
                           (proc'[p].todo \cup {proc'[p].video} \cup hurt' \cup Historical)
        PROVE  delivery'[x] # "none"
    BY <1>0, <1>1, <1>2, <1>3, <2>1, <2>2, <1>a DEF HubIsToldOfRows, ProcessHolds, IngestTypes
  <2> QED
    BY <1>0, <1>1, <1>2, <2>1, <2>2, ToldKept
<1>6. ClaimIsHeld'
  BY <1>0, <1>1, <1>2, <1>a, ClaimKept
<1> QED
  BY <1>1, <1>3, <1>4, <1>5, <1>6

LEMMA LookUpLeaves ==
  ASSUME IngestTypes, IngestFacts, NEW p \in Procs, LookUp(p), delivery[proc[p].video] # "none"
  PROVE  proc' \in [Procs -> IngestRecord] /\ IngestFacts'
<1> USE ProcessAssumption DEF IngestFacts, IngestRecord, IngestPC
<1>0. p \in Procs /\ proc \in [Procs -> IngestRecord] /\ hurt \subseteq Videos
  BY DEF Procs, IngestTypes
<1>a. proc[p].pc = "look" /\ proc[p].video \in Videos
  BY <1>0 DEF LookUp, ProcessHolds
<1>b. AfterEntry(p, FALSE)
  BY DEF LookUp

<1>1. /\ proc' \in [Procs -> IngestRecord] /\ \A r \in Procs \ {p} : proc'[r] = proc[r]
      /\ proc'[p].pc = "next" \/ (proc'[p].pc = "idle" /\ p \notin Notifiers)
      /\ proc'[p].video = None /\ proc'[p].asked = proc[p].asked /\ proc[p].video \in Videos
      /\ p \in Notifiers /\ ~proc'[p].bad => proc'[p].todo = proc[p].todo /\ ~proc[p].bad
  BY <1>0, <1>a, <1>b, AfterEntryHolds DEF IngestTypes
<1>2. /\ UNCHANGED <<age, undelivered, missed, delivery, active, claim, hurt, lapsed>>
      /\ p \notin Notifiers
  BY <1>0 DEF LookUp, world, ProcessHolds
<1>3. ProcessHolds'
  BY <1>0, <1>1 DEF ProcessHolds
<1>4. EntryIsHeldByOne' /\ ActivationsCounted' /\ RowActivates'
  BY <1>0, <1>1, <1>2, <1>a, EntriesKept
<1>5. HubIsToldOfRows' /\ PublishedFirst'
  <2>1. \A x \in Videos : delivery[x] # "none" => delivery'[x] # "none"
    BY <1>0, <1>1, <1>2 DEF IngestTypes
  <2>2. ASSUME ~proc'[p].bad,
               NEW x \in proc'[p].asked \
                           (proc'[p].todo \cup {proc'[p].video} \cup hurt' \cup Historical)
        PROVE  delivery'[x] # "none"
    BY <1>0, <1>1, <1>2, <1>3, <2>1, <2>2, <1>a DEF HubIsToldOfRows, ProcessHolds, IngestTypes
  <2> QED
    BY <1>0, <1>1, <1>2, <2>1, <2>2, ToldKept
<1>6. ClaimIsHeld'
  BY <1>0, <1>1, <1>2, <1>a, ClaimKept
<1> QED
  BY <1>1, <1>3, <1>4, <1>5, <1>6

LEMMA InsertDeliveryInserts ==
  ASSUME IngestTypes, IngestFacts, NEW p \in Procs, InsertDelivery(p), Insertable(delivery[proc[p].video])
  PROVE  proc' \in [Procs -> IngestRecord] /\ IngestFacts'
<1> USE ProcessAssumption DEF IngestFacts, IngestRecord, IngestPC
<1>0. p \in Procs /\ proc \in [Procs -> IngestRecord] /\ hurt \subseteq Videos
  BY DEF Procs, IngestTypes
<1>a. proc[p].pc = "insert" /\ proc[p].video \in Videos
  BY <1>0 DEF InsertDelivery, ProcessHolds
<1>b. Goto(p, IF IsHistorical(proc[p].video) THEN "finish" ELSE "persist")
  BY DEF InsertDelivery

<1>1. /\ proc' \in [Procs -> IngestRecord] /\ \A r \in Procs \ {p} : proc'[r] = proc[r]
      /\ proc'[p].pc = (IF IsHistorical(proc[p].video) THEN "finish" ELSE "persist")
      /\ proc'[p].video = proc[p].video /\ proc'[p].asked = proc[p].asked
      /\ proc'[p].todo = proc[p].todo /\ proc'[p].bad = proc[p].bad /\ proc[p].video \in Videos
  <2>1. (IF IsHistorical(proc[p].video) THEN "finish" ELSE "persist") \in IngestPC
    OBVIOUS
  <2>2. /\ proc' \in [Procs -> IngestRecord]
        /\ proc'[p] = [proc[p] EXCEPT !.pc = IF IsHistorical(proc[p].video) THEN "finish"
                                                                         ELSE "persist"]
        /\ \A r \in Procs \ {p} : proc'[r] = proc[r]
    BY <1>0, <1>b, <2>1, GotoHolds
  <2> QED
    BY <1>0, <1>a, <2>2
<1>2. /\ UNCHANGED <<age, undelivered, missed, active, claim, hurt, lapsed>>
      /\ delivery' = [delivery EXCEPT ![proc[p].video] = "processing"]
      /\ delivery[proc[p].video] = "none"
      /\ IsHistorical(proc[p].video) <=> proc[p].video \in Historical
  BY <1>0 DEF InsertDelivery, Insertable, IsHistorical, world
<1>3. ProcessHolds'
  BY <1>0, <1>1 DEF ProcessHolds
<1>4. EntryIsHeldByOne' /\ ActivationsCounted' /\ RowActivates'
  <2> DEFINE w == proc[p].video
  <2>1. \A r \in Procs \ {p} : HoldsEntry(r) => proc[r].video # w
    BY <1>0, <1>2, <1>a DEF EntryIsHeldByOne, HoldsEntry
  <2>2. /\ delivery'[w] = "processing" /\ \A v \in Videos \ {w} : delivery'[v] = delivery[v]
        /\ active[w] = 0 /\ active' = active /\ hurt' = hurt
    BY <1>2, <1>a DEF IngestTypes, ActivationsCounted
  <2>3. EntryIsHeldByOne'
    BY <1>0, <1>1, <1>2, <1>a, <2>1, <2>2 DEF EntryIsHeldByOne, HoldsEntry
  <2>4. ActivationsCounted'
    BY <1>0, <1>1, <1>2, <1>a, <2>2 DEF ActivationsCounted, EntryIsHeldByOne
  <2>5. ASSUME NEW v \in Videos \ (hurt' \cup Historical), delivery'[v] # "none"
        PROVE  \/ active'[v] = 1 /\ delivery'[v] # "failed"
               \/ \E r \in Procs : proc'[r].pc = "persist" /\ proc'[r].video = v
    <3>1. CASE v = w
      BY <1>0, <1>1, <1>2, <2>5, <3>1
    <3>2. CASE v # w
      <4>1. \/ active[v] = 1 /\ delivery[v] # "failed"
            \/ \E r \in Procs : proc[r].pc = "persist" /\ proc[r].video = v
        BY <1>2, <2>2, <2>5, <3>2 DEF RowActivates
      <4>2. ASSUME NEW r \in Procs, proc[r].pc = "persist", proc[r].video = v
            PROVE  proc'[r].pc = "persist" /\ proc'[r].video = v
        BY <1>1, <3>2, <4>2
      <4> QED
        BY <2>2, <3>2, <4>1, <4>2
    <3> QED
      BY <3>1, <3>2
  <2> QED
    BY <2>3, <2>4, <2>5 DEF RowActivates
<1>5. HubIsToldOfRows' /\ PublishedFirst'
  <2>1. \A x \in Videos : delivery[x] # "none" => delivery'[x] # "none"
    BY <1>0, <1>1, <1>2 DEF IngestTypes
  <2>2. ASSUME ~proc'[p].bad,
               NEW x \in proc'[p].asked \
                           (proc'[p].todo \cup {proc'[p].video} \cup hurt' \cup Historical)
        PROVE  delivery'[x] # "none"
    BY <1>0, <1>1, <1>2, <1>3, <2>1, <2>2, <1>a DEF HubIsToldOfRows, ProcessHolds, IngestTypes
  <2> QED
    BY <1>0, <1>1, <1>2, <2>1, <2>2, ToldKept
<1>6. ClaimIsHeld'
  BY <1>0, <1>1, <1>2, <1>a, ClaimKept
<1> QED
  BY <1>1, <1>3, <1>4, <1>5, <1>6

LEMMA InsertDeliveryLeaves ==
  ASSUME IngestTypes, IngestFacts, NEW p \in Procs, InsertDelivery(p), ~Insertable(delivery[proc[p].video])
  PROVE  proc' \in [Procs -> IngestRecord] /\ IngestFacts'
<1> USE ProcessAssumption DEF IngestFacts, IngestRecord, IngestPC
<1>0. p \in Procs /\ proc \in [Procs -> IngestRecord] /\ hurt \subseteq Videos
  BY DEF Procs, IngestTypes
<1>a. proc[p].pc = "insert" /\ proc[p].video \in Videos
  BY <1>0 DEF InsertDelivery, ProcessHolds
<1>b. AfterEntry(p, FALSE)
  BY DEF InsertDelivery

<1>1. /\ proc' \in [Procs -> IngestRecord] /\ \A r \in Procs \ {p} : proc'[r] = proc[r]
      /\ proc'[p].pc = "next" \/ (proc'[p].pc = "idle" /\ p \notin Notifiers)
      /\ proc'[p].video = None /\ proc'[p].asked = proc[p].asked /\ proc[p].video \in Videos
      /\ p \in Notifiers /\ ~proc'[p].bad => proc'[p].todo = proc[p].todo /\ ~proc[p].bad
  BY <1>0, <1>a, <1>b, AfterEntryHolds DEF IngestTypes
<1>2. /\ UNCHANGED <<age, undelivered, missed, delivery, active, claim, hurt, lapsed>>
      /\ delivery[proc[p].video] # "none"
  BY <1>0 DEF InsertDelivery, Insertable, world
<1>3. ProcessHolds'
  BY <1>0, <1>1 DEF ProcessHolds
<1>4. EntryIsHeldByOne' /\ ActivationsCounted' /\ RowActivates'
  BY <1>0, <1>1, <1>2, <1>a, EntriesKept
<1>5. HubIsToldOfRows' /\ PublishedFirst'
  <2>1. \A x \in Videos : delivery[x] # "none" => delivery'[x] # "none"
    BY <1>0, <1>1, <1>2 DEF IngestTypes
  <2>2. ASSUME ~proc'[p].bad,
               NEW x \in proc'[p].asked \
                           (proc'[p].todo \cup {proc'[p].video} \cup hurt' \cup Historical)
        PROVE  delivery'[x] # "none"
    BY <1>0, <1>1, <1>2, <1>3, <2>1, <2>2, <1>a DEF HubIsToldOfRows, ProcessHolds, IngestTypes
  <2> QED
    BY <1>0, <1>1, <1>2, <2>1, <2>2, ToldKept
<1>6. ClaimIsHeld'
  BY <1>0, <1>1, <1>2, <1>a, ClaimKept
<1> QED
  BY <1>1, <1>3, <1>4, <1>5, <1>6

LEMMA PersistInteractionKeeps ==
  ASSUME IngestTypes, IngestFacts, NEW p \in Procs, PersistInteraction(p)
  PROVE  proc' \in [Procs -> IngestRecord] /\ IngestFacts'
<1> USE ProcessAssumption DEF IngestFacts, IngestRecord, IngestPC
<1>0. p \in Procs /\ proc \in [Procs -> IngestRecord] /\ hurt \subseteq Videos
  BY DEF Procs, IngestTypes
<1>a. proc[p].pc = "persist" /\ proc[p].video \in Videos
  BY <1>0 DEF PersistInteraction, ProcessHolds
<1>b. Goto(p, "finish")
  BY DEF PersistInteraction

<1>1. /\ proc' \in [Procs -> IngestRecord] /\ \A r \in Procs \ {p} : proc'[r] = proc[r]
      /\ proc'[p].pc = "finish"
      /\ proc'[p].video = proc[p].video /\ proc'[p].asked = proc[p].asked
      /\ proc'[p].todo = proc[p].todo /\ proc'[p].bad = proc[p].bad /\ proc[p].video \in Videos
  <2>1. ("finish") \in IngestPC
    OBVIOUS
  <2>2. /\ proc' \in [Procs -> IngestRecord] /\ proc'[p] = [proc[p] EXCEPT !.pc = "finish"]
        /\ \A r \in Procs \ {p} : proc'[r] = proc[r]
    BY <1>0, <1>b, <2>1, GotoHolds
  <2> QED
    BY <1>0, <1>a, <2>2
<1>2. /\ UNCHANGED <<age, undelivered, missed, delivery, claim, hurt, lapsed>>
      /\ active' = [active EXCEPT ![proc[p].video] = @ + 1]
  BY <1>0 DEF PersistInteraction, world
<1>3. ProcessHolds'
  BY <1>0, <1>1 DEF ProcessHolds
<1>4. EntryIsHeldByOne' /\ ActivationsCounted' /\ RowActivates'
  <2> DEFINE w == proc[p].video
  <2>1. \A r \in Procs \ {p} : HoldsEntry(r) => proc[r].video # w
    BY <1>0, <1>a DEF EntryIsHeldByOne, HoldsEntry
  <2>2. /\ active[w] = 0 /\ active'[w] = 1 /\ \A v \in Videos \ {w} : active'[v] = active[v]
        /\ w \notin Historical /\ delivery[w] = "processing" /\ delivery' = delivery
        /\ hurt' = hurt
    BY <1>0, <1>2, <1>a DEF IngestTypes, EntryIsHeldByOne, HoldsEntry
  <2>3. EntryIsHeldByOne'
    BY <1>0, <1>1, <1>2, <1>a, <2>1, <2>2 DEF EntryIsHeldByOne, HoldsEntry
  <2>4. ActivationsCounted'
    BY <1>0, <1>1, <1>2, <1>a, <2>2 DEF ActivationsCounted, EntryIsHeldByOne
  <2>5. ASSUME NEW v \in Videos \ (hurt' \cup Historical), delivery'[v] # "none"
        PROVE  \/ active'[v] = 1 /\ delivery'[v] # "failed"
               \/ \E r \in Procs : proc'[r].pc = "persist" /\ proc'[r].video = v
    <3>1. CASE v = w
      BY <2>2, <3>1
    <3>2. CASE v # w
      <4>1. \/ active[v] = 1 /\ delivery[v] # "failed"
            \/ \E r \in Procs : proc[r].pc = "persist" /\ proc[r].video = v
        BY <1>2, <2>2, <2>5, <3>2 DEF RowActivates
      <4>2. ASSUME NEW r \in Procs, proc[r].pc = "persist", proc[r].video = v
            PROVE  proc'[r].pc = "persist" /\ proc'[r].video = v
        BY <1>1, <3>2, <4>2
      <4> QED
        BY <2>2, <3>2, <4>1, <4>2
    <3> QED
      BY <3>1, <3>2
  <2> QED
    BY <2>3, <2>4, <2>5 DEF RowActivates
<1>5. HubIsToldOfRows' /\ PublishedFirst'
  <2>1. \A x \in Videos : delivery[x] # "none" => delivery'[x] # "none"
    BY <1>0, <1>1, <1>2 DEF IngestTypes
  <2>2. ASSUME ~proc'[p].bad,
               NEW x \in proc'[p].asked \
                           (proc'[p].todo \cup {proc'[p].video} \cup hurt' \cup Historical)
        PROVE  delivery'[x] # "none"
    BY <1>0, <1>1, <1>2, <1>3, <2>1, <2>2, <1>a DEF HubIsToldOfRows, ProcessHolds, IngestTypes
  <2> QED
    BY <1>0, <1>1, <1>2, <2>1, <2>2, ToldKept
<1>6. ClaimIsHeld'
  BY <1>0, <1>1, <1>2, <1>a, ClaimKept
<1> QED
  BY <1>1, <1>3, <1>4, <1>5, <1>6

LEMMA PersistFailsKeeps ==
  ASSUME IngestTypes, IngestFacts, NEW p \in Procs, PersistFails(p)
  PROVE  proc' \in [Procs -> IngestRecord] /\ IngestFacts'
<1> USE ProcessAssumption DEF IngestFacts, IngestRecord, IngestPC
<1>0. p \in Procs /\ proc \in [Procs -> IngestRecord] /\ hurt \subseteq Videos
  BY DEF Procs, IngestTypes
<1>a. proc[p].pc = "persist" /\ proc[p].video \in Videos
  BY <1>0 DEF PersistFails, ProcessHolds
<1>b. Goto(p, "fail")
  BY DEF PersistFails

<1>1. /\ proc' \in [Procs -> IngestRecord] /\ \A r \in Procs \ {p} : proc'[r] = proc[r]
      /\ proc'[p].pc = "fail"
      /\ proc'[p].video = proc[p].video /\ proc'[p].asked = proc[p].asked
      /\ proc'[p].todo = proc[p].todo /\ proc'[p].bad = proc[p].bad /\ proc[p].video \in Videos
  <2>1. ("fail") \in IngestPC
    OBVIOUS
  <2>2. /\ proc' \in [Procs -> IngestRecord] /\ proc'[p] = [proc[p] EXCEPT !.pc = "fail"]
        /\ \A r \in Procs \ {p} : proc'[r] = proc[r]
    BY <1>0, <1>b, <2>1, GotoHolds
  <2> QED
    BY <1>0, <1>a, <2>2
<1>2. /\ UNCHANGED <<age, undelivered, missed, delivery, claim, lapsed>>
      /\ active' = active \/ active' = [active EXCEPT ![proc[p].video] = @ + 1]
      /\ hurt' = HurtBy(p) /\ hurt \subseteq hurt'
  BY <1>0 DEF PersistFails, world, HurtBy
<1>3. ProcessHolds'
  BY <1>0, <1>1 DEF ProcessHolds
<1>4. EntryIsHeldByOne' /\ ActivationsCounted' /\ RowActivates'
  <2> DEFINE w == proc[p].video
  <2>1. \A r \in Procs \ {p} : HoldsEntry(r) => proc[r].video # w
    BY <1>0, <1>a DEF EntryIsHeldByOne, HoldsEntry
  <2>2. /\ active[w] = 0 /\ active'[w] \in {0, 1}
        /\ \A v \in Videos \ {w} : active'[v] = active[v]
        /\ w \notin Historical /\ delivery[w] = "processing" /\ delivery' = delivery
        /\ w \in hurt' /\ hurt \subseteq hurt'
    BY <1>0, <1>2, <1>a DEF IngestTypes, EntryIsHeldByOne, HoldsEntry, HurtBy
  <2>3. EntryIsHeldByOne'
    <3>1. \A r, x \in Procs :
            HoldsEntry(r)' /\ HoldsEntry(x)' /\ proc'[r].video = proc'[x].video => r = x
      BY <1>0, <1>1, <1>a DEF EntryIsHeldByOne, HoldsEntry
    <3>2. ASSUME NEW r \in Procs
          PROVE  /\ HoldsEntry(r)' => delivery'[proc'[r].video] = "processing"
                 /\ proc'[r].pc = "persist" =>
                      proc'[r].video \notin Historical /\ active'[proc'[r].video] = 0
                 /\ proc'[r].pc = "fail" => proc'[r].video \in hurt'
      <4>1. CASE r = p
        BY <1>0, <1>1, <2>2, <4>1 DEF HoldsEntry
      <4>2. CASE r # p
        <5>1. proc'[r] = proc[r]
          BY <1>1, <4>2
        <5>2. HoldsEntry(r) => proc[r].video # w /\ proc[r].video \in Videos
          BY <2>1, <4>2 DEF HoldsEntry, ProcessHolds
        <5> QED
          BY <2>2, <4>2, <5>1, <5>2 DEF EntryIsHeldByOne, HoldsEntry
      <4> QED
        BY <4>1, <4>2
    <3> QED
      BY <3>1, <3>2 DEF EntryIsHeldByOne
  <2>4. ActivationsCounted'
    BY <1>0, <1>1, <1>2, <1>a, <2>2 DEF ActivationsCounted, EntryIsHeldByOne
  <2>5. ASSUME NEW v \in Videos \ (hurt' \cup Historical), delivery'[v] # "none"
        PROVE  \/ active'[v] = 1 /\ delivery'[v] # "failed"
               \/ \E r \in Procs : proc'[r].pc = "persist" /\ proc'[r].video = v
    <3>1. CASE v = w
      BY <2>2, <2>5, <3>1
    <3>2. CASE v # w
      <4>1. \/ active[v] = 1 /\ delivery[v] # "failed"
            \/ \E r \in Procs : proc[r].pc = "persist" /\ proc[r].video = v
        BY <1>2, <2>2, <2>5, <3>2 DEF RowActivates
      <4>2. ASSUME NEW r \in Procs, proc[r].pc = "persist", proc[r].video = v
            PROVE  proc'[r].pc = "persist" /\ proc'[r].video = v
        BY <1>1, <3>2, <4>2
      <4> QED
        BY <2>2, <3>2, <4>1, <4>2
    <3> QED
      BY <3>1, <3>2
  <2> QED
    BY <2>3, <2>4, <2>5 DEF RowActivates
<1>5. HubIsToldOfRows' /\ PublishedFirst'
  <2>1. \A x \in Videos : delivery[x] # "none" => delivery'[x] # "none"
    BY <1>0, <1>1, <1>2 DEF IngestTypes
  <2>2. ASSUME ~proc'[p].bad,
               NEW x \in proc'[p].asked \
                           (proc'[p].todo \cup {proc'[p].video} \cup hurt' \cup Historical)
        PROVE  delivery'[x] # "none"
    BY <1>0, <1>1, <1>2, <1>3, <2>1, <2>2, <1>a DEF HubIsToldOfRows, ProcessHolds, IngestTypes
  <2> QED
    BY <1>0, <1>1, <1>2, <2>1, <2>2, ToldKept
<1>6. ClaimIsHeld'
  BY <1>0, <1>1, <1>2, <1>a, ClaimKept
<1> QED
  BY <1>1, <1>3, <1>4, <1>5, <1>6

LEMMA MarkFailedKeeps ==
  ASSUME IngestTypes, IngestFacts, NEW p \in Procs, MarkFailed(p)
  PROVE  proc' \in [Procs -> IngestRecord] /\ IngestFacts'
<1> USE ProcessAssumption DEF IngestFacts, IngestRecord, IngestPC
<1>0. p \in Procs /\ proc \in [Procs -> IngestRecord] /\ hurt \subseteq Videos
  BY DEF Procs, IngestTypes
<1>a. proc[p].pc = "fail" /\ proc[p].video \in Videos
  BY <1>0 DEF MarkFailed, ProcessHolds
<1>b. AfterEntry(p, TRUE)
  BY DEF MarkFailed

<1>1. /\ proc' \in [Procs -> IngestRecord] /\ \A r \in Procs \ {p} : proc'[r] = proc[r]
      /\ proc'[p].pc = "next" \/ (proc'[p].pc = "idle" /\ p \notin Notifiers)
      /\ proc'[p].video = None /\ proc'[p].asked = proc[p].asked /\ proc[p].video \in Videos
      /\ p \in Notifiers /\ ~proc'[p].bad => proc'[p].todo = proc[p].todo /\ ~proc[p].bad /\ FALSE
  BY <1>0, <1>a, <1>b, AfterEntryHolds DEF IngestTypes
<1>2. /\ UNCHANGED <<age, undelivered, missed, active, claim, hurt, lapsed>>
      /\ delivery' = [delivery EXCEPT ![proc[p].video] = "failed"]
  BY <1>0 DEF MarkFailed, world
<1>3. ProcessHolds'
  BY <1>0, <1>1 DEF ProcessHolds
<1>4. EntryIsHeldByOne' /\ ActivationsCounted' /\ RowActivates'
  <2> DEFINE w == proc[p].video
  <2>1. \A r \in Procs \ {p} : HoldsEntry(r) => proc[r].video # w
    BY <1>0, <1>a DEF EntryIsHeldByOne, HoldsEntry
  <2>2. /\ delivery'[w] = "failed" /\ \A v \in Videos \ {w} : delivery'[v] = delivery[v]
        /\ delivery[w] = "processing" /\ active' = active /\ hurt' = hurt /\ w \in hurt
    BY <1>0, <1>2, <1>a DEF IngestTypes, EntryIsHeldByOne, HoldsEntry
  <2>3. EntryIsHeldByOne'
    BY <1>0, <1>1, <1>2, <1>a, <2>1, <2>2 DEF EntryIsHeldByOne, HoldsEntry
  <2>4. ActivationsCounted'
    BY <1>0, <1>1, <1>2, <1>a, <2>2 DEF ActivationsCounted, EntryIsHeldByOne
  <2>5. ASSUME NEW v \in Videos \ (hurt' \cup Historical), delivery'[v] # "none"
        PROVE  \/ active'[v] = 1 /\ delivery'[v] # "failed"
               \/ \E r \in Procs : proc'[r].pc = "persist" /\ proc'[r].video = v
    <3>1. CASE v = w
      BY <2>2, <2>5, <3>1
    <3>2. CASE v # w
      <4>1. \/ active[v] = 1 /\ delivery[v] # "failed"
            \/ \E r \in Procs : proc[r].pc = "persist" /\ proc[r].video = v
        BY <1>2, <2>2, <2>5, <3>2 DEF RowActivates
      <4>2. ASSUME NEW r \in Procs, proc[r].pc = "persist", proc[r].video = v
            PROVE  proc'[r].pc = "persist" /\ proc'[r].video = v
        BY <1>1, <3>2, <4>2
      <4> QED
        BY <2>2, <3>2, <4>1, <4>2
    <3> QED
      BY <3>1, <3>2
  <2> QED
    BY <2>3, <2>4, <2>5 DEF RowActivates
<1>5. HubIsToldOfRows' /\ PublishedFirst'
  <2>1. \A x \in Videos : delivery[x] # "none" => delivery'[x] # "none"
    BY <1>0, <1>1, <1>2 DEF IngestTypes
  <2>2. ASSUME ~proc'[p].bad,
               NEW x \in proc'[p].asked \
                           (proc'[p].todo \cup {proc'[p].video} \cup hurt' \cup Historical)
        PROVE  delivery'[x] # "none"
    BY <1>0, <1>1, <1>2, <1>3, <2>1, <2>2, <1>a DEF HubIsToldOfRows, ProcessHolds, IngestTypes
  <2> QED
    BY <1>0, <1>1, <1>2, <2>1, <2>2, ToldKept
<1>6. ClaimIsHeld'
  BY <1>0, <1>1, <1>2, <1>a, ClaimKept
<1> QED
  BY <1>1, <1>3, <1>4, <1>5, <1>6

LEMMA FinishKeeps ==
  ASSUME IngestTypes, IngestFacts, NEW p \in Procs, Finish(p)
  PROVE  proc' \in [Procs -> IngestRecord] /\ IngestFacts'
<1> USE ProcessAssumption DEF IngestFacts, IngestRecord, IngestPC
<1>0. p \in Procs /\ proc \in [Procs -> IngestRecord] /\ hurt \subseteq Videos
  BY DEF Procs, IngestTypes
<1>a. proc[p].pc = "finish" /\ proc[p].video \in Videos
  BY <1>0 DEF Finish, ProcessHolds
<1>b. AfterEntry(p, FALSE)
  BY DEF Finish

<1>1. /\ proc' \in [Procs -> IngestRecord] /\ \A r \in Procs \ {p} : proc'[r] = proc[r]
      /\ proc'[p].pc = "next" \/ (proc'[p].pc = "idle" /\ p \notin Notifiers)
      /\ proc'[p].video = None /\ proc'[p].asked = proc[p].asked /\ proc[p].video \in Videos
      /\ p \in Notifiers /\ ~proc'[p].bad => proc'[p].todo = proc[p].todo /\ ~proc[p].bad
  BY <1>0, <1>a, <1>b, AfterEntryHolds DEF IngestTypes
<1>2. /\ UNCHANGED <<age, undelivered, missed, active, claim, hurt, lapsed>>
      /\ delivery' = [delivery EXCEPT ![proc[p].video] = "completed"]
  BY <1>0 DEF Finish, world
<1>3. ProcessHolds'
  BY <1>0, <1>1 DEF ProcessHolds
<1>4. EntryIsHeldByOne' /\ ActivationsCounted' /\ RowActivates'
  <2> DEFINE w == proc[p].video
  <2>1. \A r \in Procs \ {p} : HoldsEntry(r) => proc[r].video # w
    BY <1>0, <1>a DEF EntryIsHeldByOne, HoldsEntry
  <2>2. /\ delivery'[w] = "completed" /\ \A v \in Videos \ {w} : delivery'[v] = delivery[v]
        /\ delivery[w] = "processing" /\ active' = active /\ hurt' = hurt
    BY <1>0, <1>2, <1>a DEF IngestTypes, EntryIsHeldByOne, HoldsEntry
  <2>3. EntryIsHeldByOne'
    BY <1>0, <1>1, <1>2, <1>a, <2>1, <2>2 DEF EntryIsHeldByOne, HoldsEntry
  <2>4. ActivationsCounted'
    BY <1>0, <1>1, <1>2, <1>a, <2>2 DEF ActivationsCounted, EntryIsHeldByOne
  <2>5. ASSUME NEW v \in Videos \ (hurt' \cup Historical), delivery'[v] # "none"
        PROVE  \/ active'[v] = 1 /\ delivery'[v] # "failed"
               \/ \E r \in Procs : proc'[r].pc = "persist" /\ proc'[r].video = v
    <3>1. CASE v = w
      <4>1. active[w] = 1 \/ \E r \in Procs : proc[r].pc = "persist" /\ proc[r].video = w
        BY <1>2, <2>2, <2>5, <3>1 DEF RowActivates
      <4>2. ASSUME NEW r \in Procs, proc[r].pc = "persist", proc[r].video = w PROVE FALSE
        BY <1>0, <1>a, <2>1, <4>2 DEF HoldsEntry
      <4> QED
        BY <2>2, <3>1, <4>1, <4>2
    <3>2. CASE v # w
      <4>1. \/ active[v] = 1 /\ delivery[v] # "failed"
            \/ \E r \in Procs : proc[r].pc = "persist" /\ proc[r].video = v
        BY <1>2, <2>2, <2>5, <3>2 DEF RowActivates
      <4>2. ASSUME NEW r \in Procs, proc[r].pc = "persist", proc[r].video = v
            PROVE  proc'[r].pc = "persist" /\ proc'[r].video = v
        BY <1>1, <3>2, <4>2
      <4> QED
        BY <2>2, <3>2, <4>1, <4>2
    <3> QED
      BY <3>1, <3>2
  <2> QED
    BY <2>3, <2>4, <2>5 DEF RowActivates
<1>5. HubIsToldOfRows' /\ PublishedFirst'
  <2>1. \A x \in Videos : delivery[x] # "none" => delivery'[x] # "none"
    BY <1>0, <1>1, <1>2 DEF IngestTypes
  <2>2. ASSUME ~proc'[p].bad,
               NEW x \in proc'[p].asked \
                           (proc'[p].todo \cup {proc'[p].video} \cup hurt' \cup Historical)
        PROVE  delivery'[x] # "none"
    BY <1>0, <1>1, <1>2, <1>3, <2>1, <2>2, <1>a DEF HubIsToldOfRows, ProcessHolds, IngestTypes
  <2> QED
    BY <1>0, <1>1, <1>2, <2>1, <2>2, ToldKept
<1>6. ClaimIsHeld'
  BY <1>0, <1>1, <1>2, <1>a, ClaimKept
<1> QED
  BY <1>1, <1>3, <1>4, <1>5, <1>6

LEMMA EntryFailsKeeps ==
  ASSUME IngestTypes, IngestFacts, NEW p \in Procs, EntryFails(p)
  PROVE  proc' \in [Procs -> IngestRecord] /\ IngestFacts'
<1> USE ProcessAssumption DEF IngestFacts, IngestRecord, IngestPC
<1>0. p \in Procs /\ proc \in [Procs -> IngestRecord] /\ hurt \subseteq Videos
  BY DEF Procs, IngestTypes
<1>a. proc[p].pc \in {"insert", "fail", "finish"} /\ proc[p].video \in Videos
  BY <1>0 DEF EntryFails, ProcessHolds
<1>b. AfterEntry(p, TRUE)
  BY DEF EntryFails

<1>1. /\ proc' \in [Procs -> IngestRecord] /\ \A r \in Procs \ {p} : proc'[r] = proc[r]
      /\ proc'[p].pc = "next" \/ (proc'[p].pc = "idle" /\ p \notin Notifiers)
      /\ proc'[p].video = None /\ proc'[p].asked = proc[p].asked /\ proc[p].video \in Videos
      /\ p \in Notifiers /\ ~proc'[p].bad => proc'[p].todo = proc[p].todo /\ ~proc[p].bad /\ FALSE
  BY <1>0, <1>a, <1>b, AfterEntryHolds DEF IngestTypes
<1>2. /\ UNCHANGED <<age, undelivered, missed, delivery, active, claim, lapsed>>
      /\ hurt \subseteq hurt'
  BY <1>0 DEF EntryFails, world, HurtBy
<1>3. ProcessHolds'
  BY <1>0, <1>1 DEF ProcessHolds
<1>4. EntryIsHeldByOne' /\ ActivationsCounted' /\ RowActivates'
  BY <1>0, <1>1, <1>2, <1>a, EntriesKept
<1>5. HubIsToldOfRows' /\ PublishedFirst'
  <2>1. \A x \in Videos : delivery[x] # "none" => delivery'[x] # "none"
    BY <1>0, <1>1, <1>2 DEF IngestTypes
  <2>2. ASSUME ~proc'[p].bad,
               NEW x \in proc'[p].asked \
                           (proc'[p].todo \cup {proc'[p].video} \cup hurt' \cup Historical)
        PROVE  delivery'[x] # "none"
    BY <1>0, <1>1, <1>2, <1>3, <2>1, <2>2, <1>a DEF HubIsToldOfRows, ProcessHolds, IngestTypes
  <2> QED
    BY <1>0, <1>1, <1>2, <2>1, <2>2, ToldKept
<1>6. ClaimIsHeld'
  BY <1>0, <1>1, <1>2, <1>a, ClaimKept
<1> QED
  BY <1>1, <1>3, <1>4, <1>5, <1>6

LEMMA StopKeeps ==
  ASSUME IngestTypes, IngestFacts, NEW p \in Procs, Throws(p) \/ Crash(p)
  PROVE  proc' \in [Procs -> IngestRecord] /\ IngestFacts'
<1> USE ProcessAssumption DEF IngestFacts, IngestRecord, IngestPC
<1>0. p \in Procs /\ proc \in [Procs -> IngestRecord] /\ hurt \subseteq Videos
  BY DEF Procs, IngestTypes
<1>a. \/ Stopped(p) /\ proc[p].pc \in {"look", "next", "persist"}
      \/ proc' = [proc EXCEPT ![p] = Idle]
  BY DEF Throws, Crash

<1>1. /\ proc' \in [Procs -> IngestRecord] /\ \A r \in Procs \ {p} : proc'[r] = proc[r]
      /\ \/ proc'[p].pc = "idle"
         \/ /\ p \in Workers /\ proc'[p].pc = "next"
            /\ proc[p].pc \in {"look", "next", "persist"}
      /\ proc'[p].video = None /\ proc'[p].asked = {}
  <2>1. CASE Stopped(p) /\ proc[p].pc \in {"look", "next", "persist"}
    BY <1>0, <2>1, StoppedHolds
  <2>2. CASE proc' = [proc EXCEPT ![p] = Idle]
    <3>1. proc'[p] = Idle
      BY <1>0, <2>2
    <3> QED
      BY <1>0, <2>2, <3>1, StoppedHolds DEF Idle
  <2> QED
    BY <1>a, <2>1, <2>2
<1>2. /\ UNCHANGED <<age, undelivered, missed, delivery, active, claim, lapsed>>
      /\ hurt' = HurtBy(p) /\ hurt \subseteq hurt'
  BY <1>0 DEF Throws, Crash, HurtBy, world
<1>3. ProcessHolds'
  BY <1>0, <1>1 DEF ProcessHolds
<1>7. proc[p].pc = "persist" => proc[p].video \in hurt'
  BY <1>0, <1>2 DEF HurtBy, EntryIsHeldByOne, ProcessHolds
<1>4. EntryIsHeldByOne' /\ ActivationsCounted' /\ RowActivates'
  BY <1>0, <1>1, <1>2, <1>7, EntriesKept
<1>5. HubIsToldOfRows' /\ PublishedFirst'
  <2>1. \A x \in Videos : delivery[x] # "none" => delivery'[x] # "none"
    BY <1>0, <1>1, <1>2 DEF IngestTypes
  <2>2. ASSUME ~proc'[p].bad,
               NEW x \in proc'[p].asked \
                           (proc'[p].todo \cup {proc'[p].video} \cup hurt' \cup Historical)
        PROVE  delivery'[x] # "none"
    BY <1>0, <1>1, <1>2, <1>3, <2>1, <2>2, <1>a DEF HubIsToldOfRows, ProcessHolds, IngestTypes
  <2> QED
    BY <1>0, <1>1, <1>2, <2>1, <2>2, ToldKept
<1>6. ClaimIsHeld'
  BY <1>0, <1>1, <1>2, <1>a, ClaimKept
<1> QED
  BY <1>1, <1>3, <1>4, <1>5, <1>6

-----------------------------------------------------------------------------
\* The steps of the channel, the hub, the operator and the clock, which no process takes.
LEMMA SurroundingsKeep ==
  ASSUME IngestInv,
         \/ \E v \in Videos : Publish(v) \/ VideoAges(v) \/ HubGivesUp(v)
         \/ RenewalBeginsOrEnds \/ DisableOrReactivate \/ ClaimAges \/ UNCHANGED ingestVars
  PROVE  IngestInv'
<1> USE HistoricalAssumption DEF IngestInv, IngestTypes, IngestFacts
<1>1. UNCHANGED <<delivery, active, proc, hurt, lapsed>>
  BY DEF Publish, VideoAges, HubGivesUp, RenewalBeginsOrEnds, DisableOrReactivate, ClaimAges,
         ingestVars, world
<1>2. ProcessHolds' /\ EntryIsHeldByOne' /\ ActivationsCounted' /\ RowActivates'
  BY <1>1 DEF ProcessHolds, EntryIsHeldByOne, HoldsEntry, ActivationsCounted, RowActivates
<1>3. /\ claim' \in [owner : Workers \cup {None}, stale : BOOLEAN]
      /\ claim'.owner = claim.owner /\ (claim'.stale => claim.owner # None)
  BY DEF Publish, VideoAges, HubGivesUp, RenewalBeginsOrEnds, DisableOrReactivate, ClaimAges,
         ingestVars, world, ClaimIsHeld
<1>4. ClaimIsHeld'
  BY <1>1, <1>3 DEF ClaimIsHeld, Busy
<1>5. faults' \in Nat
  BY DEF Publish, VideoAges, HubGivesUp, RenewalBeginsOrEnds, DisableOrReactivate, ClaimAges,
         ingestVars, world, Fault
<1>6. /\ age' \in [Videos -> {"unpublished", "fresh", "due", "old"}]
      /\ undelivered' \subseteq Videos /\ missed' \subseteq Videos
      /\ \A v \in Videos \ (undelivered' \cup missed') :
           age'[v] # "unpublished" => age[v] # "unpublished" /\ v \notin undelivered \cup missed
      /\ PublishedFirst'
  <2>1. ASSUME NEW v \in Videos, Publish(v)
        PROVE  /\ age' = [age EXCEPT ![v] = "fresh"] /\ age[v] = "unpublished"
               /\ undelivered' = undelivered \cup {v} /\ missed' = missed
    BY <2>1 DEF Publish
  <2>2. ASSUME NEW v \in Videos, VideoAges(v)
        PROVE  /\ age' = [age EXCEPT ![v] = IF age[v] = "fresh" THEN "due" ELSE "old"]
               /\ age[v] # "unpublished" /\ undelivered' = undelivered /\ missed' = missed
    BY <2>2 DEF VideoAges
  <2>3. ASSUME NEW v \in Videos, HubGivesUp(v)
        PROVE  /\ age' = age /\ v \in undelivered
               /\ undelivered' = undelivered \ {v} /\ missed' = missed \cup {v}
    BY <2>3 DEF HubGivesUp
  <2>4. CASE UNCHANGED <<age, undelivered, missed>>
    BY <2>4 DEF PublishedFirst
  <2>5. CASE \E v \in Videos : Publish(v)
    BY <2>5, <2>1 DEF PublishedFirst
  <2>6. CASE \E v \in Videos : VideoAges(v)
    BY <2>6, <2>2 DEF PublishedFirst
  <2>7. CASE \E v \in Videos : HubGivesUp(v)
    BY <2>7, <2>3 DEF PublishedFirst
  <2> QED
    BY <2>4, <2>5, <2>6, <2>7 DEF RenewalBeginsOrEnds, DisableOrReactivate, ClaimAges, ingestVars,
                                  world
<1>7. HubIsToldOfRows'
  BY <1>1, <1>6 DEF HubIsToldOfRows
<1> QED
  BY <1>1, <1>2, <1>3, <1>4, <1>5, <1>6, <1>7

EntryOf(p) ==
  EntryStep(p) \/ PersistFails(p) \/ EntryFails(p) \/ Throws(p) \/ Crash(p)

LEMMA EntrySteps ==
  ASSUME IngestTypes, IngestFacts, NEW p \in Procs, EntryOf(p)
  PROVE  proc' \in [Procs -> IngestRecord] /\ IngestFacts'
<1>1. CASE NextEntry(p)
  BY <1>1, NextEntryKeeps
<1>2. CASE LookUp(p)
  BY <1>2, LookUpGoesOn, LookUpLeaves
<1>3. CASE InsertDelivery(p)
  BY <1>3, InsertDeliveryInserts, InsertDeliveryLeaves
<1>4. CASE PersistInteraction(p)
  BY <1>4, PersistInteractionKeeps
<1>5. CASE MarkFailed(p)
  BY <1>5, MarkFailedKeeps
<1>6. CASE Finish(p)
  BY <1>6, FinishKeeps
<1>7. CASE PersistFails(p)
  BY <1>7, PersistFailsKeeps
<1>8. CASE EntryFails(p)
  BY <1>8, EntryFailsKeeps
<1>9. CASE Throws(p) \/ Crash(p)
  BY <1>9, StopKeeps
<1> QED
  BY <1>1, <1>2, <1>3, <1>4, <1>5, <1>6, <1>7, <1>8, <1>9 DEF EntryOf, EntryStep

\* The tables and counters keep their types.
LEMMA EntryTypes ==
  ASSUME IngestTypes, IngestFacts, NEW p \in Procs, EntryOf(p)
  PROVE  IngestTypes'
<1> USE DEF IngestTypes, IngestFacts
<1>1. proc' \in [Procs -> IngestRecord]
  BY EntrySteps
<1>2. UNCHANGED <<age, undelivered, missed, claim, lapsed>>
  BY DEF EntryOf, EntryStep, NextEntry, LookUp, InsertDelivery, PersistInteraction, MarkFailed,
         Finish, PersistFails, EntryFails, Throws, Crash, world
<1>3. hurt' = hurt \/ hurt' = HurtBy(p)
  BY DEF EntryOf, EntryStep, NextEntry, LookUp, InsertDelivery, PersistInteraction, MarkFailed,
         Finish, PersistFails, EntryFails, Throws, Crash
<1>4. hurt' \subseteq Videos
  BY <1>3 DEF HurtBy, IngestRecord
<1>5. faults' = faults \/ faults' = faults + 1
  BY DEF EntryOf, EntryStep, NextEntry, LookUp, InsertDelivery, PersistInteraction, MarkFailed,
         Finish, PersistFails, EntryFails, Throws, Crash, Fault
<1>6. active' = active \/ active' = [active EXCEPT ![proc[p].video] = @ + 1]
  BY DEF EntryOf, EntryStep, NextEntry, LookUp, InsertDelivery, PersistInteraction, MarkFailed,
         Finish, PersistFails, EntryFails, Throws, Crash
<1>7. \/ delivery' = delivery
      \/ delivery' = [delivery EXCEPT ![proc[p].video] = "processing"]
      \/ delivery' = [delivery EXCEPT ![proc[p].video] = "failed"]
      \/ delivery' = [delivery EXCEPT ![proc[p].video] = "completed"]
  BY DEF EntryOf, EntryStep, NextEntry, LookUp, InsertDelivery, PersistInteraction, MarkFailed,
         Finish, PersistFails, EntryFails, Throws, Crash
<1>8. active' \in [Videos -> Nat]
  BY <1>6
<1>9. delivery' \in [Videos -> {"none", "processing", "failed", "completed"}]
  BY <1>7
<1> QED
  BY <1>1, <1>2, <1>4, <1>5, <1>8, <1>9

LEMMA IngestStepKeeps ==
  ASSUME IngestInv, [IngestNext]_ingestVars
  PROVE  IngestInv'
<1> USE DEF IngestInv
<1>1. ASSUME NEW p \in Notifiers, NEW vs \in SUBSET Videos, Notified(p, vs) PROVE IngestInv'
  BY <1>1, NotifiedKeeps DEF Notified, world, IngestTypes
<1>2. ASSUME NEW p \in Notifiers, AnswerHub(p) PROVE IngestInv'
  <2>1. /\ UNCHANGED <<age, sub, bound, missed, delivery, active, claim, faults, hurt, lapsed>>
        /\ undelivered' \subseteq undelivered
    BY <1>2 DEF AnswerHub
  <2> QED
    BY <1>2, <2>1, AnswerHubKeeps DEF IngestTypes
<1>3. ASSUME NEW p \in Workers, Discover(p) PROVE IngestInv'
  BY <1>3, DiscoverKeeps DEF Discover, world, IngestTypes
<1>4. ASSUME NEW p \in Workers, ClaimChannel(p) PROVE IngestInv'
  <2>1. /\ UNCHANGED <<age, undelivered, missed, delivery, active, faults, hurt>>
        /\ claim' = claim \/ claim' = [owner |-> p, stale |-> FALSE]
        /\ lapsed' = lapsed \/ lapsed' = (lapsed \/ claim.stale)
    BY <1>4 DEF ClaimChannel, world
  <2>2. lapsed' \in BOOLEAN /\ claim' \in [owner : Workers \cup {None}, stale : BOOLEAN]
    <3>1. (lapsed \/ claim.stale) \in BOOLEAN /\ lapsed \in BOOLEAN
      BY DEF IngestTypes
    <3>2. lapsed' \in BOOLEAN
      BY <2>1, <3>1
    <3>3. [owner |-> p, stale |-> FALSE] \in [owner : Workers \cup {None}, stale : BOOLEAN]
      OBVIOUS
    <3>4. claim' \in [owner : Workers \cup {None}, stale : BOOLEAN]
      BY <2>1, <3>3 DEF IngestTypes
    <3> QED
      BY <3>2, <3>4
  <2> QED
    BY <1>4, <2>1, <2>2, ClaimChannelKeeps DEF IngestTypes
<1>5. ASSUME NEW p \in Workers, ReleaseChannel(p) PROVE IngestInv'
  <2>1. /\ UNCHANGED <<age, undelivered, missed, delivery, active, faults, hurt, lapsed>>
        /\ claim' = claim \/ claim' = Free
    BY <1>5 DEF ReleaseChannel, ReleasedBy, world
  <2>2. claim' \in [owner : Workers \cup {None}, stale : BOOLEAN]
    <3>1. Free \in [owner : Workers \cup {None}, stale : BOOLEAN]
      BY DEF Free
    <3>2. claim \in [owner : Workers \cup {None}, stale : BOOLEAN]
      BY DEF IngestTypes
    <3> QED
      BY <2>1, <3>1, <3>2
  <2> QED
    BY <1>5, <2>1, <2>2, ReleaseChannelKeeps DEF IngestTypes
<1>6. ASSUME NEW p \in Operators, NEW v \in Videos, Execute(p, v) PROVE IngestInv'
  BY <1>6, ExecuteKeeps DEF Execute, world, IngestTypes
<1>7. ASSUME NEW p \in Procs, EntryOf(p) PROVE IngestInv'
  BY <1>7, EntrySteps, EntryTypes
<1>8. CASE \/ \E v \in Videos : Publish(v) \/ VideoAges(v) \/ HubGivesUp(v)
           \/ RenewalBeginsOrEnds \/ DisableOrReactivate \/ ClaimAges \/ UNCHANGED ingestVars
  BY <1>8, SurroundingsKeep
<1>9. CASE IngestNext
  <2>1. \A p \in Procs : ~EntryOf(p) => \A r \in {p} : ~EntryStep(r) /\ ~PersistFails(r)
          /\ ~EntryFails(r) /\ ~Throws(r) /\ ~Crash(r)
    BY DEF EntryOf
  <2>2. Notifiers \subseteq Procs /\ Workers \subseteq Procs /\ Operators \subseteq Procs
    BY DEF Procs
  <2> QED
    BY <1>1, <1>2, <1>3, <1>4, <1>5, <1>6, <1>7, <1>8, <1>9, <2>1, <2>2 DEF IngestNext, WorkerStep
<1> QED
  BY <1>8, <1>9

LEMMA IngestInvariant == IngestSpec => []IngestInv
<1>1. IngestInv /\ [IngestNext]_ingestVars => IngestInv'
  BY IngestStepKeeps
<1> QED
  BY <1>1, IngestInitial, PTL DEF IngestSpec

\* However a video is found (by the hub's notification, a reconciliation worker or an
\* operator's recovery, any number of them at once), it activates its event at most once, and
\* exactly once when the hub was told so and nothing was cut short: the insert of its delivery
\* is what one of them wins, and no process leaves a row it won without a trace.
THEOREM ActivationIsOnce == IngestSpec => []ActivationIsExact
<1>1. ASSUME IngestInv PROVE ActivationIsExact
  <2> USE <1>1 DEF IngestInv, IngestTypes, IngestFacts
  <2>1. IngestTypeOK
    <3>1. \A p \in Procs : proc[p].pc \in IngestPC
      BY DEF IngestRecord
    <3> QED
      BY <3>1 DEF IngestTypeOK, PublishedFirst, ClaimIsHeld, IngestPC
  <2>2. ActivatedOnce
    BY DEF ActivatedOnce, ActivationsCounted
  <2>3. ASSUME NEW v \in Videos \ (undelivered \cup missed \cup hurt \cup Historical),
               age[v] # "unpublished"
        PROVE  \/ active[v] = 1 /\ delivery[v] # "failed"
               \/ \E p \in Procs : proc[p].video = v /\ proc[p].pc = "persist"
    <3>1. delivery[v] # "none"
      BY <2>3 DEF HubIsToldOfRows
    <3> QED
      BY <2>3, <3>1 DEF RowActivates
  <2> QED
    BY <2>1, <2>2, <2>3 DEF ActivationIsExact, AcceptedIsActivated
<1> QED
  BY <1>1, IngestInvariant, PTL

\* Two workers are past the claim of a channel only after one claim outlived its lease
\* (claimCodeClipYouTubeReconciliationSubscription), however many workers there are.
THEOREM OneWorkerAtATime == IngestSpec => []OneWorkerPerChannel
<1>1. ASSUME IngestInv, ~lapsed
      PROVE  IsFiniteSet({p \in Workers : Busy(p)}) /\ Cardinality({p \in Workers : Busy(p)}) <= 1
  <2>1. \A p, q \in {r \in Workers : Busy(r)} : p = q
    BY <1>1 DEF IngestInv, IngestFacts, ClaimIsHeld
  <2> QED
    BY <2>1, AtMostOne
<1>2. ASSUME IngestInv PROVE OneWorkerPerChannel
  <2>1. SUFFICES ASSUME Cardinality({p \in Workers : Busy(p)}) > 1, ~lapsed PROVE FALSE
    BY DEF OneWorkerPerChannel, IngestInv, IngestTypes
  <2>2. IsFiniteSet({p \in Workers : Busy(p)}) /\ Cardinality({p \in Workers : Busy(p)}) <= 1
    BY <1>1, <1>2, <2>1
  <2>3. Cardinality({p \in Workers : Busy(p)}) \in Nat
    BY <2>2, FS_CardinalityType
  <2> QED
    BY <2>1, <2>2, <2>3
<1> QED
  BY <1>2, IngestInvariant, PTL
-----------------------------------------------------------------------------
(***************************************************************************)
(* The diagnostic probes.                                                  *)
(***************************************************************************)

OperationPC == {"idle", "mark", "hub", "accept", "reject", "cleanup", "done", "lost"}
OperationAnswer == {"open_probe_conflict", "unsubscribed", "state_conflict", "failed", "error",
                    "subscribe_pending", "unsubscribe_pending", "cleanup_pending",
                    "cleanup_required"}
OperationRecord == [pc : OperationPC, kind : {None, "subscribe", "unsubscribe"},
                    probe : Probes \cup {None}, answer : OperationAnswer \cup {None}]
NoteRecord == [pc : {"idle", "read", "record"}, probe : Probes \cup {None},
               entries : SUBSET Entries, accepted : SUBSET Probes]

ProbeTypes ==
  /\ row \in ProbeTable /\ obs \in ObservationTable
  /\ doing \in [Operations -> OperationRecord]
  /\ check \in [Operations -> {"none", "owed", "answered", "dropped"}]
  /\ notifies \in [Probes -> BOOLEAN]
  /\ note \in [Bodies -> NoteRecord]
  /\ faults \in Nat

\* The probe an operation is about is there while it is served and verified, and its request
\* is at the hub only after it was made.
OperationHolds ==
  \A q \in Operations :
    /\ doing[q].pc = "idle" => doing[q] = IdleOperation
    /\ doing[q].pc \in {"idle", "mark", "hub"} => check[q] = "none"
    /\ doing[q].pc \in {"mark", "hub", "accept", "reject", "cleanup"} \/ check[q] # "none" =>
         doing[q].probe \in Probes /\ doing[q].kind \in {"subscribe", "unsubscribe"}
    /\ doing[q].pc = "mark" => doing[q].kind = "unsubscribe"
    /\ doing[q].pc = "cleanup" => doing[q].kind = "subscribe"
    /\ doing[q].probe \in Probes => row[doing[q].probe].status # "none"

OneCreator ==
  \A q, r \in Operations :
    doing[q].kind = "subscribe" /\ doing[r].kind = "subscribe"
      /\ doing[q].probe \in Probes /\ doing[q].probe = doing[r].probe => q = r

OneOpenProbe == \A p, x \in Probes : IsOpen(p) /\ IsOpen(x) => p = x

\* A request may ask for the cleanup of its probe only while that opens nothing again: only
\* its creator fails a probe for good, and an unsubscription finds it past its creation.
LeavesOpen ==
  \A q \in Operations : doing[q].pc \in {"hub", "accept", "reject", "cleanup"} =>
    LET r == row[doing[q].probe]
    IN  IF doing[q].kind = "subscribe" THEN r.status = "failed" => r.cleanup
        ELSE \/ r.status \in {"pending_unsubscribe", "unsubscribed"}
             \/ r.status = "failed" /\ r.cleanup

\* A probe not verified is not notified.
NotifiedOnceVerified ==
  \A p \in Probes : row[p].status \in {"none", "pending_subscribe"} =>
    /\ ~notifies[p]
    /\ \A q \in Operations : doing[q].probe = p => check[q] # "answered"

Heard(p, mode) ==
  \E q \in Operations : doing[q].probe = p /\ doing[q].kind = mode /\ check[q] = "answered"

\* A subscription the row no longer remembers ends when the hub hears of it.
ForgottenEnds ==
  \A p \in Probes : ~row[p].mayExist /\ (notifies[p] \/ Heard(p, "subscribe")) =>
    p \in untold \/ Heard(p, "unsubscribe")

\* Without a fault an operation finds its own dispatch as it left it: a creator's may be
\* replaced when it is stale, an unsubscription's never is.
FailuresHaveACause ==
  \A q \in Operations :
    /\ doing[q].pc = "reject" => faults > 0
    /\ doing[q].pc = "cleanup" => faults > 0 \/ doing[q].probe \in replaced
    /\ doing[q].pc \in {"hub", "accept"} /\ doing[q].kind = "subscribe" =>
         \/ faults > 0 \/ doing[q].probe \in replaced
         \/ LET r == row[doing[q].probe]
            IN  /\ r.status \in {"pending_subscribe", "active"}
                /\ r.dispatch.attempt = q /\ r.dispatch.mode = "subscribe"
                /\ r.dispatch.status = "started"
    /\ doing[q].pc \in {"hub", "accept"} /\ doing[q].kind = "unsubscribe" =>
         \/ faults > 0 \/ doing[q].probe \in replaced
         \/ LET r == row[doing[q].probe]
            IN  /\ r.status \in {"pending_unsubscribe", "unsubscribed"}
                /\ r.dispatch.attempt = q /\ r.dispatch.mode = "unsubscribe"
                /\ r.dispatch.status = "started"

Ended(r) == r.status \in {"pending_unsubscribe", "unsubscribed", "failed"}

\* An operator is told of an unsubscription only when the probe observes nothing any more.
ToldOfTheEnd ==
  \A q \in Operations :
    doing[q].answer \in {"unsubscribe_pending", "cleanup_pending", "unsubscribed"} =>
      doing[q].probe \in Probes /\ Ended(row[doing[q].probe])

NoteHolds ==
  \A n \in Bodies :
    /\ note[n].pc # "idle" => note[n].probe \in Probes /\ note[n].entries # {}
    /\ note[n].accepted # {} => note[n].entries # {}

ProbeFacts ==
  /\ OperationHolds /\ OneCreator /\ OneOpenProbe /\ LeavesOpen
  /\ NotifiedOnceVerified /\ ForgottenEnds
  /\ FailuresHaveACause /\ CleanupHasACause /\ ToldOfTheEnd

ProbeInv == ProbeTypes /\ ProbeFacts

ProbeRecord ==
  {r \in [status : {"none", "pending_subscribe", "active", "pending_unsubscribe",
                    "unsubscribed", "failed"},
          cleanup : BOOLEAN, mayExist : BOOLEAN, verification : {None, "subscribe"},
          dispatch : [attempt : Operations \cup {None},
                      mode : {None, "subscribe", "unsubscribe"},
                      status : {"none", "started", "accepted"}, stale : BOOLEAN]] :
     ValidProbe(r)}

Aged(r) == [r EXCEPT !.dispatch.stale = TRUE]
AcceptedRow(r) == [r EXCEPT !.dispatch.status = "accepted"]
Unsubscribing(r, q) ==
  [r EXCEPT !.status = "pending_unsubscribe", !.dispatch = Started(q, "unsubscribe")]

\* What each transition writes is a row assertProbeStateInvariants lets pass.
LEMMA TransitionsAreValid ==
  ASSUME NEW r \in ProbeRecord, NEW q \in Operations
  PROVE  /\ Aged(r) \in ProbeRecord /\ AcceptedRow(r) \in ProbeRecord
         /\ NewProbe(q) \in ProbeRecord
         /\ r.status \in {"active", "pending_unsubscribe"}
              \/ (r.status = "failed" /\ r.cleanup /\ r.mayExist) =>
              Unsubscribing(r, q) \in ProbeRecord
         /\ AfterFailure(r, FALSE) \in ProbeRecord /\ AfterFailure(r, TRUE) \in ProbeRecord
         /\ r.status \in {"pending_subscribe", "active"} => AfterVerification(r) \in ProbeRecord
         /\ r.status \in {"pending_unsubscribe", "unsubscribed"} =>
              AfterConfirmation(r) \in ProbeRecord
<1>1. Aged(r) \in ProbeRecord
  BY DEF ProbeRecord, ValidProbe, Aged
<1>2. AcceptedRow(r) \in ProbeRecord
  BY DEF ProbeRecord, ValidProbe, AcceptedRow
<1>3. NewProbe(q) \in ProbeRecord
  BY DEF ProbeRecord, ValidProbe, NewProbe, Started
<1>4. ASSUME r.status \in {"active", "pending_unsubscribe"}
               \/ (r.status = "failed" /\ r.cleanup /\ r.mayExist)
      PROVE  Unsubscribing(r, q) \in ProbeRecord
  BY <1>4 DEF ProbeRecord, ValidProbe, Unsubscribing, Started
<1>5. AfterFailure(r, FALSE) \in ProbeRecord
  BY DEF ProbeRecord, ValidProbe, AfterFailure
<1>6. AfterFailure(r, TRUE) \in ProbeRecord
  BY DEF ProbeRecord, ValidProbe, AfterFailure
<1>7. ASSUME r.status \in {"pending_subscribe", "active"} PROVE AfterVerification(r) \in ProbeRecord
  BY <1>7, ProbeAssumption DEF ProbeRecord, ValidProbe, AfterVerification
<1>8. ASSUME r.status \in {"pending_unsubscribe", "unsubscribed"}
      PROVE  AfterConfirmation(r) \in ProbeRecord
  BY <1>8 DEF ProbeRecord, ValidProbe, AfterConfirmation
<1> QED
  BY <1>1, <1>2, <1>3, <1>4, <1>5, <1>6, <1>7, <1>8

LEMMA ProbeTableIsOfRecords == ProbeTable = [Probes -> ProbeRecord]
BY DEF ProbeTable, ProbeRecord

LEMMA ProbeTyped ==
  ASSUME ProbeTypes
  PROVE  /\ row \in [Probes -> ProbeRecord] /\ doing \in [Operations -> OperationRecord]
         /\ check \in [Operations -> {"none", "owed", "answered", "dropped"}]
         /\ notifies \in [Probes -> BOOLEAN] /\ faults \in Nat
BY ProbeTableIsOfRecords DEF ProbeTypes

\* Answers the hub is waiting to hear of are not touched by a step on another request.
LEMMA HeardStays ==
  ASSUME ProbeTypes, NEW q \in Operations, NEW p \in Probes, NEW mode,
         \A r \in Operations \ {q} : doing'[r] = doing[r] /\ check'[r] = check[r],
         \/ check[q] # "answered" /\ check'[q] # "answered"
         \/ check'[q] = check[q] /\ doing'[q].kind = doing[q].kind /\ doing'[q].probe = doing[q].probe
  PROVE  Heard(p, mode)' <=> Heard(p, mode)
<1>1. ASSUME NEW r \in Operations
      PROVE  (doing'[r].probe = p /\ doing'[r].kind = mode /\ check'[r] = "answered")
               <=> (doing[r].probe = p /\ doing[r].kind = mode /\ check[r] = "answered")
  OBVIOUS
<1> QED
  BY <1>1 DEF Heard

LEMMA CreateKeeps ==
  ASSUME ProbeTypes, ProbeFacts, NEW q \in Operations, Create(q)
  PROVE  ProbeFacts'
<1> USE ProbeTyped DEF ProbeFacts, OperationRecord, ProbeRecord
<1>a. /\ doing[q].pc = "idle" /\ doing[q] = IdleOperation /\ check[q] = "none"
      /\ UNCHANGED <<check, notifies, faults, replaced, untold>>
      /\ \A r \in Operations \ {q} : doing'[r] = doing[r]
  BY DEF Create, OperationHolds, Answer
<1>b. CASE UNCHANGED row
  <2>1. /\ doing'[q].pc = "done" /\ doing'[q].kind = "subscribe" /\ doing'[q].probe = None
        /\ doing'[q].answer = "open_probe_conflict"
    <3>1. ASSUME NEW p \in Probes, row[p].status = "none", row' = [row EXCEPT ![p] = NewProbe(q)]
          PROVE  FALSE
      BY <1>b, <3>1 DEF NewProbe
    <3> QED
      BY <1>a, <3>1 DEF Create, Answer, IdleOperation
  <2>2. OperationHolds' /\ OneCreator' /\ LeavesOpen'
    BY <1>a, <1>b, <2>1, ProbeAssumption DEF OperationHolds, OneCreator, LeavesOpen
  <2>3. OneOpenProbe' /\ NotifiedOnceVerified'
    BY <1>a, <1>b, <2>1 DEF OneOpenProbe, IsOpen, CleanupEligible, NotifiedOnceVerified
  <2>4. ForgottenEnds'
    BY <1>a, <1>b, HeardStays DEF ForgottenEnds
  <2>5. FailuresHaveACause' /\ CleanupHasACause' /\ ToldOfTheEnd'
    BY <1>a, <1>b, <2>1 DEF FailuresHaveACause, CleanupHasACause, CleanupEligible, ToldOfTheEnd, Ended
  <2> QED
    BY <2>2, <2>3, <2>4, <2>5
<1>c. CASE ~UNCHANGED row
  <2>1. PICK p \in Probes :
          /\ row[p].status = "none" /\ ~ \E x \in Probes : IsOpen(x)
          /\ row' = [row EXCEPT ![p] = NewProbe(q)]
          /\ doing' = [doing EXCEPT ![q] = [IdleOperation EXCEPT
                 !.pc = "hub", !.kind = "subscribe", !.probe = p]]
    BY <1>c DEF Create
  <2>2. /\ row'[p].status = "pending_subscribe" /\ row'[p].mayExist
        /\ row'[p].dispatch.attempt = q /\ row'[p].dispatch.mode = "subscribe"
        /\ row'[p].dispatch.status = "started"
        /\ \A x \in Probes \ {p} : row'[x] = row[x]
    BY <2>1 DEF NewProbe, Started
  <2>3. /\ doing'[q].pc = "hub" /\ doing'[q].kind = "subscribe" /\ doing'[q].probe = p
        /\ doing'[q].answer = None
    BY <2>1 DEF IdleOperation
  <2>4. OperationHolds' /\ OneCreator' /\ LeavesOpen'
    BY <1>a, <2>1, <2>2, <2>3 DEF OperationHolds, OneCreator, LeavesOpen
  <2>5. OneOpenProbe'
    BY <2>1, <2>2 DEF IsOpen, CleanupEligible, OneOpenProbe
  <2>6. NotifiedOnceVerified'
    BY <1>a, <2>1, <2>2, <2>3 DEF NotifiedOnceVerified
  <2>7. ForgottenEnds'
    BY <1>a, <2>2, HeardStays DEF ForgottenEnds
  <2>10. \A r \in Operations \ {q} : doing[r].probe \in Probes => doing[r].probe # p
    BY <2>1 DEF OperationHolds
  <2>8. FailuresHaveACause'
    BY <1>a, <2>1, <2>2, <2>3, <2>10 DEF OperationHolds, FailuresHaveACause
  <2>11. CleanupHasACause'
    <3>1. \A x \in Probes : CleanupEligible(x)' => CleanupEligible(x)
      BY <2>2 DEF CleanupEligible
    <3>2. ASSUME NEW r \in Operations, doing'[r].answer \in {"cleanup_required", "cleanup_pending"}
          PROVE  r # q /\ doing'[r] = doing[r]
      BY <1>a, <2>3, <3>2, ProbeAssumption
    <3>3. ASSUME NEW r \in Operations, doing[r].answer = "cleanup_pending"
          PROVE  doing[r].probe \in Probes
      BY <3>3 DEF ToldOfTheEnd
    <3>4. ASSUME NEW r \in Operations, r # q, doing[r].answer = "cleanup_pending"
          PROVE  row'[doing[r].probe] = row[doing[r].probe]
      BY <2>2, <2>10, <3>3, <3>4
    <3> QED
      BY <1>a, <3>1, <3>2, <3>4 DEF CleanupHasACause
  <2>9. ToldOfTheEnd'
    BY <1>a, <2>1, <2>2, <2>3, ProbeAssumption DEF ToldOfTheEnd, Ended
  <2> QED
    BY <2>4, <2>5, <2>6, <2>7, <2>8, <2>9, <2>11
<1> QED
  BY <1>b, <1>c

LEMMA AskUnsubscribeKeeps ==
  ASSUME ProbeTypes, ProbeFacts, NEW q \in Operations, NEW p \in Probes, AskUnsubscribe(q, p)
  PROVE  ProbeFacts'
<1> USE ProbeTyped DEF AskUnsubscribe, IdleOperation, ProbeFacts, OperationRecord, ProbeRecord
<1>1. OperationHolds'
  BY ProbeAssumption DEF OperationHolds
<1>2. OneCreator'
  BY ProbeAssumption DEF OperationHolds, OneCreator
<1>3. OneOpenProbe'
  BY ProbeAssumption DEF OperationHolds, OneOpenProbe, LeavesOpen, IsOpen, CleanupEligible
<1>4. LeavesOpen'
  BY ProbeAssumption DEF OperationHolds, OneCreator, LeavesOpen
<1>5. NotifiedOnceVerified'
  BY ProbeAssumption DEF OperationHolds, NotifiedOnceVerified
<1>6. ForgottenEnds'
  BY ProbeAssumption DEF OperationHolds, NotifiedOnceVerified, ForgottenEnds, Heard
<1>7. FailuresHaveACause'
  BY ProbeAssumption DEF OperationHolds, OneCreator, FailuresHaveACause
<1>8. CleanupHasACause'
  BY ProbeAssumption DEF OperationHolds, FailuresHaveACause, CleanupHasACause, CleanupEligible
<1>9. ToldOfTheEnd'
  BY ProbeAssumption DEF OperationHolds, LeavesOpen, ToldOfTheEnd, Ended
<1> QED
  BY <1>1, <1>2, <1>3, <1>4, <1>5, <1>6, <1>7, <1>8, <1>9 DEF ProbeFacts

LEMMA MarkUnsubscribeDispatchedKeeps ==
  ASSUME ProbeTypes, ProbeFacts, NEW q \in Operations, MarkUnsubscribeDispatched(q)
  PROVE  ProbeFacts'
<1> USE ProbeTyped DEF ProbeFacts, OperationRecord, ProbeRecord
<1> DEFINE p == doing[q].probe
<1>a. /\ doing[q].pc = "mark" /\ doing[q].kind = "unsubscribe" /\ check[q] = "none"
      /\ p \in Probes /\ row[p].status # "none"
      /\ UNCHANGED <<check, notifies, faults, untold>>
      /\ \A r \in Operations \ {q} : doing'[r] = doing[r]
      /\ doing'[q].kind = doing[q].kind /\ doing'[q].probe = p
  BY DEF MarkUnsubscribeDispatched, OperationHolds, Answer
<1>b. CASE ~ Unsubscribable(p)
  <2>1. /\ doing'[q].pc = "done" /\ doing'[q].answer = "state_conflict"
        /\ UNCHANGED <<row, replaced>>
    BY <1>b DEF MarkUnsubscribeDispatched, Answer
  <2>2. OperationHolds'
    BY <1>a, <2>1 DEF OperationHolds
  <2>8. OneCreator'
    BY <1>a DEF OneCreator
  <2>6. LeavesOpen'
    BY <1>a, <2>1 DEF LeavesOpen
  <2>3. OneOpenProbe' /\ NotifiedOnceVerified'
    BY <1>a, <2>1 DEF OneOpenProbe, IsOpen, CleanupEligible, NotifiedOnceVerified
  <2>4. ForgottenEnds'
    BY <1>a, <2>1, HeardStays DEF ForgottenEnds
  <2>9. \A r \in Operations : doing'[r] = doing[r] \/ doing'[r].answer = "state_conflict"
    BY <1>a, <2>1
  <2>5. CleanupHasACause'
    BY <1>a, <2>1, <2>9 DEF CleanupHasACause, CleanupEligible
  <2>10. ToldOfTheEnd'
    BY <1>a, <2>1, <2>9 DEF ToldOfTheEnd, Ended
  <2>7. FailuresHaveACause'
    BY <1>a, <2>1 DEF FailuresHaveACause
  <2> QED
    BY <2>2, <2>3, <2>4, <2>5, <2>6, <2>7, <2>8, <2>10
<1>c. CASE Unsubscribable(p)
  <2>1. /\ row[p].status \in {"active", "pending_unsubscribe"} \/ CleanupEligible(p)
        /\ row[p].dispatch.mode # "unsubscribe"
        /\ row[p].dispatch.status # "started" \/ row[p].dispatch.stale
    BY <1>c DEF Unsubscribable, Replaceable
  <2>2. /\ row' = [row EXCEPT ![p].status = "pending_unsubscribe",
                             ![p].dispatch = Started(q, "unsubscribe")]
        /\ doing' = [doing EXCEPT ![q].pc = "hub"]
        /\ replaced' = IF row[p].dispatch.status = "started" THEN replaced \cup {p} ELSE replaced
    BY <1>c DEF MarkUnsubscribeDispatched
  <2>3. /\ row'[p].status = "pending_unsubscribe"
        /\ row'[p].cleanup = row[p].cleanup /\ row'[p].mayExist = row[p].mayExist
        /\ \A x \in Probes \ {p} : row'[x] = row[x]
    BY <1>a, <2>2
  <2>4. doing'[q].pc = "hub" /\ doing'[q].answer = doing[q].answer
    BY <2>2
  <2>5. OperationHolds' /\ OneCreator'
    BY <1>a, <2>3, <2>4 DEF OperationHolds, OneCreator
  <2>6. LeavesOpen'
    <3>1. ASSUME NEW r \in Operations, doing'[r].pc \in {"hub", "accept", "reject", "cleanup"}
          PROVE  doing'[r].probe \in Probes /\ (r # q => doing[r] = doing'[r])
      BY <1>a, <3>1 DEF OperationHolds
    <3> QED
      BY <1>a, <2>3, <2>4, <3>1 DEF LeavesOpen
  <2>7. OneOpenProbe'
    <3>1. \A x \in Probes : IsOpen(x)' => IsOpen(x)
      BY <1>a, <2>1, <2>3 DEF IsOpen, CleanupEligible
    <3> QED
      BY <3>1 DEF OneOpenProbe
  <2>11. NotifiedOnceVerified'
    <3>1. \A r \in Operations : doing'[r].probe = doing[r].probe
      BY <1>a
    <3>2. \A x \in Probes : row'[x].status \in {"none", "pending_subscribe"} => row'[x] = row[x]
      BY <2>3
    <3> QED
      BY <1>a, <3>1, <3>2 DEF NotifiedOnceVerified
  <2>8. ForgottenEnds'
    BY <1>a, <2>3, HeardStays DEF ForgottenEnds
  <2>9. FailuresHaveACause'
    <3>1. row[p].dispatch.status = "started" => p \in replaced'
      BY <2>2
    <3>2. replaced \subseteq replaced'
      BY <2>2
    <3>3. \A r \in Operations \ {q} : doing[r].pc \in {"hub", "accept", "reject", "cleanup"} =>
            doing[r].probe \in Probes
      BY DEF OperationHolds
    <3>4. /\ row'[p].dispatch.attempt = q /\ row'[p].dispatch.mode = "unsubscribe"
          /\ row'[p].dispatch.status = "started"
      BY <1>a, <2>2 DEF Started
    <3>5. ASSUME NEW r \in Operations \ {q}, doing[r].pc \in {"hub", "accept"},
                 doing[r].kind = "unsubscribe", faults = 0, doing[r].probe \notin replaced
          PROVE  row'[doing[r].probe] = row[doing[r].probe]
      BY <2>1, <2>3, <3>3, <3>5 DEF FailuresHaveACause
    <3>6. ASSUME NEW r \in Operations \ {q}, doing[r].pc \in {"hub", "accept"},
                 doing[r].kind = "subscribe", faults = 0, doing[r].probe \notin replaced'
          PROVE  row'[doing[r].probe] = row[doing[r].probe]
      BY <2>3, <3>1, <3>2, <3>3, <3>6 DEF FailuresHaveACause
    <3> QED
      BY <1>a, <2>3, <2>4, <3>2, <3>4, <3>5, <3>6 DEF FailuresHaveACause
  <2>10. CleanupHasACause'
    <3>1. \A x \in Probes : CleanupEligible(x)' => CleanupEligible(x)
      BY <2>3 DEF CleanupEligible
    <3>2. replaced \subseteq replaced'
      BY <2>2
    <3>3. \A r \in Operations : /\ doing'[r].answer = doing[r].answer
                                /\ doing'[r].probe = doing[r].probe
      BY <1>a, <2>4
    <3>4. row[p].status # "unsubscribed"
      BY <2>1 DEF CleanupEligible
    <3>5. ASSUME NEW r \in Operations, doing[r].answer = "cleanup_pending",
                 row[doing[r].probe].status = "unsubscribed"
          PROVE  row'[doing[r].probe].status = "unsubscribed"
      BY <2>3, <3>4, <3>5 DEF ToldOfTheEnd
    <3> QED
      BY <1>a, <3>1, <3>2, <3>3, <3>5 DEF CleanupHasACause
  <2>12. ToldOfTheEnd'
    BY <1>a, <2>2, <2>3, <2>4 DEF ToldOfTheEnd, Ended
  <2> QED
    BY <2>5, <2>6, <2>7, <2>8, <2>9, <2>10, <2>11, <2>12
<1> QED
  BY <1>b, <1>c

LEMMA HubTakesKeeps ==
  ASSUME ProbeTypes, ProbeFacts, NEW q \in Operations, HubTakes(q)
  PROVE  ProbeFacts'
<1> USE ProbeTyped DEF HubTakes, ProbeFacts, OperationRecord, ProbeRecord
<1>1. OperationHolds'
  BY ProbeAssumption DEF OperationHolds
<1>2. OneCreator'
  BY ProbeAssumption DEF OperationHolds, OneCreator
<1>3. OneOpenProbe'
  BY ProbeAssumption DEF OperationHolds, OneOpenProbe, LeavesOpen, IsOpen, CleanupEligible
<1>4. LeavesOpen'
  BY ProbeAssumption DEF OperationHolds, OneCreator, LeavesOpen
<1>5. NotifiedOnceVerified'
  BY ProbeAssumption DEF OperationHolds, NotifiedOnceVerified
<1>6. ForgottenEnds'
  BY ProbeAssumption DEF OperationHolds, NotifiedOnceVerified, ForgottenEnds, Heard
<1>7. FailuresHaveACause'
  BY ProbeAssumption DEF OperationHolds, OneCreator, FailuresHaveACause
<1>8. CleanupHasACause'
  BY ProbeAssumption DEF OperationHolds, FailuresHaveACause, CleanupHasACause, CleanupEligible
<1>9. ToldOfTheEnd'
  BY ProbeAssumption DEF OperationHolds, LeavesOpen, ToldOfTheEnd, Ended
<1> QED
  BY <1>1, <1>2, <1>3, <1>4, <1>5, <1>6, <1>7, <1>8, <1>9 DEF ProbeFacts

LEMMA HubRefusesKeeps ==
  ASSUME ProbeTypes, ProbeFacts, NEW q \in Operations, HubRefuses(q)
  PROVE  ProbeFacts'
<1> USE ProbeTyped DEF HubRefuses, Fault, ProbeFacts, OperationRecord, ProbeRecord
<1>1. OperationHolds'
  BY ProbeAssumption DEF OperationHolds
<1>2. OneCreator'
  BY ProbeAssumption DEF OperationHolds, OneCreator
<1>3. OneOpenProbe'
  BY ProbeAssumption DEF OperationHolds, OneOpenProbe, LeavesOpen, IsOpen, CleanupEligible
<1>4. LeavesOpen'
  BY ProbeAssumption DEF OperationHolds, OneCreator, LeavesOpen
<1>5. NotifiedOnceVerified'
  BY ProbeAssumption DEF OperationHolds, NotifiedOnceVerified
<1>6. ForgottenEnds'
  BY ProbeAssumption DEF OperationHolds, NotifiedOnceVerified, ForgottenEnds, Heard
<1>7. FailuresHaveACause'
  BY ProbeAssumption DEF OperationHolds, OneCreator, FailuresHaveACause
<1>8. CleanupHasACause'
  BY ProbeAssumption DEF OperationHolds, FailuresHaveACause, CleanupHasACause, CleanupEligible
<1>9. ToldOfTheEnd'
  BY ProbeAssumption DEF OperationHolds, LeavesOpen, ToldOfTheEnd, Ended
<1> QED
  BY <1>1, <1>2, <1>3, <1>4, <1>5, <1>6, <1>7, <1>8, <1>9 DEF ProbeFacts

LEMMA MarkSubscribeFailedKeeps ==
  ASSUME ProbeTypes, ProbeFacts, NEW q \in Operations, MarkSubscribeFailed(q)
  PROVE  ProbeFacts'
<1> USE ProbeTyped DEF MarkSubscribeFailed, Failable, Failed, AfterFailure, Answer, ProbeFacts,
                       OperationRecord, ProbeRecord
<1>1. OperationHolds'
  BY ProbeAssumption DEF OperationHolds
<1>2. OneCreator'
  BY ProbeAssumption DEF OperationHolds, OneCreator
<1>3. OneOpenProbe'
  BY ProbeAssumption DEF OperationHolds, OneOpenProbe, LeavesOpen, IsOpen, CleanupEligible
<1>4. LeavesOpen'
  BY ProbeAssumption DEF OperationHolds, OneCreator, LeavesOpen
<1>5. NotifiedOnceVerified'
  BY ProbeAssumption DEF OperationHolds, NotifiedOnceVerified
<1>6. ForgottenEnds'
  <2>1. /\ doing[q].pc = "reject" /\ doing[q].probe \in Probes
        /\ UNCHANGED <<check, notifies, untold>>
        /\ \A r \in Operations \ {q} : doing'[r] = doing[r]
        /\ doing'[q].kind = doing[q].kind /\ doing'[q].probe = doing[q].probe
    BY DEF OperationHolds
  <2>2. \A p \in Probes : row'[p] = row[p] \/ row[p].status = "pending_subscribe"
    OBVIOUS
  <2>3. \A p \in Probes, mode \in {"subscribe", "unsubscribe"} : Heard(p, mode)' <=> Heard(p, mode)
    BY <2>1, HeardStays
  <2>4. \A p \in Probes : row[p].status = "pending_subscribe" => ~notifies[p] /\ ~Heard(p, "subscribe")
    BY DEF NotifiedOnceVerified, Heard
  <2> QED
    BY <2>1, <2>2, <2>3, <2>4 DEF ForgottenEnds
<1>7. FailuresHaveACause'
  BY ProbeAssumption DEF OperationHolds, OneCreator, FailuresHaveACause
<1>8. CleanupHasACause'
  BY ProbeAssumption DEF OperationHolds, FailuresHaveACause, CleanupHasACause, CleanupEligible
<1>9. ToldOfTheEnd'
  BY ProbeAssumption DEF OperationHolds, LeavesOpen, ToldOfTheEnd, Ended
<1> QED
  BY <1>1, <1>2, <1>3, <1>4, <1>5, <1>6, <1>7, <1>8, <1>9 DEF ProbeFacts



LEMMA AcceptedKeeps ==
  ASSUME ProbeTypes, ProbeFacts, NEW q \in Operations,
         MarkSubscribeAccepted(q) \/ MarkUnsubscribeAccepted(q)
  PROVE  ProbeFacts'
<1> USE ProbeTyped DEF ProbeFacts, OperationRecord, ProbeRecord
<1> DEFINE p == doing[q].probe
<1>a. /\ doing[q].pc = "accept" /\ doing[q].kind \in {"subscribe", "unsubscribe"}
      /\ p \in Probes /\ row[p].status # "none"
      /\ UNCHANGED <<check, notifies, faults, replaced, untold>>
      /\ \A r \in Operations \ {q} : doing'[r] = doing[r]
      /\ doing'[q].kind = doing[q].kind /\ doing'[q].probe = p
  BY DEF MarkSubscribeAccepted, MarkUnsubscribeAccepted, OperationHolds, Answer
<1>b. /\ row'[p].status = row[p].status /\ row'[p].cleanup = row[p].cleanup
      /\ row'[p].mayExist = row[p].mayExist
      /\ \A x \in Probes \ {p} : row'[x] = row[x]
      /\ \/ UNCHANGED row
         \/ row[p].dispatch.attempt = q
  BY <1>a DEF MarkSubscribeAccepted, MarkUnsubscribeAccepted, Accept, Acceptable, IsOwnDispatch
<1>c. \/ doing'[q].pc = "cleanup" /\ doing'[q].answer = doing[q].answer
         /\ doing[q].kind = "subscribe" /\ ~ Acceptable(q)
      \/ doing'[q].pc = "done" /\ doing'[q].answer = "subscribe_pending"
      \/ /\ doing'[q].pc = "done" /\ doing[q].kind = "unsubscribe"
         /\ doing'[q].answer \in {"unsubscribe_pending", "cleanup_pending"}
  BY <1>a DEF MarkSubscribeAccepted, MarkUnsubscribeAccepted, Answer
<1>1. OperationHolds'
  BY <1>a, <1>b, <1>c DEF OperationHolds
<1>2. OneCreator'
  BY <1>a DEF OneCreator
<1>3. OneOpenProbe'
  BY <1>b DEF OneOpenProbe, IsOpen, CleanupEligible
<1>4. LeavesOpen'
  <2>1. ASSUME NEW r \in Operations, doing'[r].pc \in {"hub", "accept", "reject", "cleanup"}
        PROVE  /\ doing[r].pc \in {"hub", "accept", "reject", "cleanup"}
               /\ doing'[r].kind = doing[r].kind /\ doing'[r].probe = doing[r].probe
               /\ doing[r].probe \in Probes
    BY <1>a, <1>c, <2>1 DEF OperationHolds
  <2>2. \A x \in Probes : row'[x].status = row[x].status /\ row'[x].cleanup = row[x].cleanup
    BY <1>b
  <2> QED
    BY <2>1, <2>2 DEF LeavesOpen
<1>5. NotifiedOnceVerified'
  BY <1>a, <1>b DEF NotifiedOnceVerified
<1>6. ForgottenEnds'
  BY <1>a, <1>b, HeardStays DEF ForgottenEnds
<1>7. FailuresHaveACause'
  <2>1. ASSUME doing'[q].pc = "cleanup" PROVE faults > 0 \/ p \in replaced
    <3>1. doing[q].kind = "subscribe" /\ ~ Acceptable(q)
      BY <1>c, <2>1
    <3>2. row[p].status = "active" => row[p].verification = "subscribe"
      BY <1>a DEF ValidProbe
    <3> QED
      BY <1>a, <3>1, <3>2 DEF FailuresHaveACause, Acceptable, IsOwnDispatch
  <2>2. ASSUME NEW r \in Operations \ {q}, doing[r].pc \in {"hub", "accept"},
               doing[r].kind \in {"subscribe", "unsubscribe"},
               faults = 0, doing[r].probe \notin replaced
        PROVE  row'[doing[r].probe] = row[doing[r].probe]
    <3>1. row[doing[r].probe].dispatch.attempt = r /\ doing[r].probe \in Probes
      BY <2>2 DEF FailuresHaveACause, OperationHolds
    <3> QED
      BY <1>b, <3>1
  <2>3. ASSUME NEW r \in Operations \ {q}, doing[r].pc \in {"hub", "accept"},
               doing[r].kind = "subscribe"
        PROVE  \/ faults > 0 \/ doing[r].probe \in replaced
               \/ LET x == row'[doing[r].probe]
                  IN  /\ x.status \in {"pending_subscribe", "active"}
                      /\ x.dispatch.attempt = r /\ x.dispatch.mode = "subscribe"
                      /\ x.dispatch.status = "started"
    BY <2>2, <2>3 DEF FailuresHaveACause
  <2>4. ASSUME NEW r \in Operations \ {q}, doing[r].pc \in {"hub", "accept"},
               doing[r].kind = "unsubscribe"
        PROVE  \/ faults > 0 \/ doing[r].probe \in replaced
               \/ LET x == row'[doing[r].probe]
                  IN  /\ x.status \in {"pending_unsubscribe", "unsubscribed"}
                      /\ x.dispatch.attempt = r /\ x.dispatch.mode = "unsubscribe"
                      /\ x.dispatch.status = "started"
    BY <2>2, <2>4 DEF FailuresHaveACause
  <2> QED
    BY <1>a, <1>c, <2>1, <2>3, <2>4 DEF FailuresHaveACause
<1>8. CleanupHasACause'
  <2>1. \A x \in Probes : CleanupEligible(x)' <=> CleanupEligible(x)
    BY <1>b DEF CleanupEligible
  <2>2. \A x \in Probes : row'[x].status = row[x].status
    BY <1>b
  <2>3. ASSUME doing'[q].answer = "cleanup_pending", doing'[q].answer # doing[q].answer
        PROVE  faults > 0 \/ p \in replaced \/ row[p].status = "unsubscribed"
    <3>1. doing[q].kind = "unsubscribe" /\ ~ Acceptable(q)
      BY <1>a, <2>3 DEF MarkSubscribeAccepted, MarkUnsubscribeAccepted, Answer
    <3> QED
      BY <1>a, <3>1 DEF FailuresHaveACause, Acceptable, IsOwnDispatch
  <2>4. ASSUME NEW r \in Operations, doing[r].answer = "cleanup_pending"
        PROVE  doing[r].probe \in Probes
    BY <2>4 DEF ToldOfTheEnd
  <2>5. ASSUME doing'[q].answer \in {"cleanup_required", "cleanup_pending"},
               doing'[q].answer # doing[q].answer
        PROVE  doing'[q].answer = "cleanup_pending"
    BY <1>c, <2>5
  <2> QED
    BY <1>a, <2>1, <2>2, <2>3, <2>4, <2>5 DEF CleanupHasACause
<1>9. ToldOfTheEnd'
  <2>1. doing[q].kind = "unsubscribe" => Ended(row[p])
    BY <1>a DEF LeavesOpen, Ended
  <2>2. Ended(row'[p]) <=> Ended(row[p])
    BY <1>b DEF Ended
  <2>3. \A x \in Probes : Ended(row[x]) => Ended(row'[x])
    BY <1>b, <2>2
  <2> QED
    BY <1>a, <1>c, <2>1, <2>3 DEF ToldOfTheEnd
<1> QED
  BY <1>1, <1>2, <1>3, <1>4, <1>5, <1>6, <1>7, <1>8, <1>9 DEF ProbeFacts

LEMMA MarkCleanupRequiredKeeps ==
  ASSUME ProbeTypes, ProbeFacts, NEW q \in Operations, MarkCleanupRequired(q)
  PROVE  ProbeFacts'
<1> USE ProbeTyped DEF MarkCleanupRequired, Failed, AfterFailure, Answer, ProbeFacts,
                       OperationRecord, ProbeRecord
<1>1. OperationHolds'
  BY ProbeAssumption DEF OperationHolds
<1>2. OneCreator'
  BY ProbeAssumption DEF OperationHolds, OneCreator
<1>3. OneOpenProbe'
  <2>1. doing[q].pc \in {"cleanup", "reject"} /\ doing[q].probe \in Probes
    BY DEF OperationHolds
  <2>2. row[doing[q].probe].status \notin {"none", "unsubscribed"} => IsOpen(doing[q].probe)
    <3>1. ASSUME row[doing[q].probe].status = "failed" PROVE row[doing[q].probe].cleanup
      BY <2>1, <3>1 DEF LeavesOpen
    <3> QED
      BY <2>1, <3>1 DEF IsOpen, CleanupEligible, ValidProbe
  <2>3. row[doing[q].probe].status # "none"
    BY <2>1 DEF OperationHolds
  <2>4. \A x \in Probes : IsOpen(x)' => IsOpen(x)
    BY <2>1, <2>2, <2>3 DEF IsOpen, CleanupEligible
  <2> QED
    BY <2>4 DEF OneOpenProbe
<1>4. LeavesOpen'
  BY ProbeAssumption DEF OperationHolds, OneCreator, LeavesOpen
<1>5. NotifiedOnceVerified'
  BY ProbeAssumption DEF OperationHolds, NotifiedOnceVerified
<1>6. ForgottenEnds'
  <2>1. /\ UNCHANGED <<check, notifies, untold>>
        /\ \A r \in Operations \ {q} : doing'[r] = doing[r]
        /\ doing'[q].kind = doing[q].kind /\ doing'[q].probe = doing[q].probe
    OBVIOUS
  <2>2. \A p \in Probes : row'[p] = row[p] \/ row'[p].mayExist
    <3>1. doing[q].probe \in Probes
      BY DEF OperationHolds
    <3> QED
      BY <3>1
  <2> QED
    BY <2>1, <2>2, HeardStays DEF ForgottenEnds
<1>7. FailuresHaveACause'
  BY ProbeAssumption DEF OperationHolds, OneCreator, FailuresHaveACause
<1>8. CleanupHasACause'
  BY ProbeAssumption DEF OperationHolds, FailuresHaveACause, CleanupHasACause, CleanupEligible
<1>9. ToldOfTheEnd'
  BY ProbeAssumption DEF OperationHolds, LeavesOpen, ToldOfTheEnd, Ended
<1> QED
  BY <1>1, <1>2, <1>3, <1>4, <1>5, <1>6, <1>7, <1>8, <1>9 DEF ProbeFacts

LEMMA StatementFailsKeeps ==
  ASSUME ProbeTypes, ProbeFacts, NEW q \in Operations, StatementFails(q)
  PROVE  ProbeFacts'
<1> USE ProbeTyped DEF StatementFails, Fault, Answer, ProbeFacts, OperationRecord, ProbeRecord
<1>1. OperationHolds'
  BY ProbeAssumption DEF OperationHolds
<1>2. OneCreator'
  BY ProbeAssumption DEF OperationHolds, OneCreator
<1>3. OneOpenProbe'
  BY ProbeAssumption DEF OperationHolds, OneOpenProbe, LeavesOpen, IsOpen, CleanupEligible
<1>4. LeavesOpen'
  BY ProbeAssumption DEF OperationHolds, OneCreator, LeavesOpen
<1>5. NotifiedOnceVerified'
  BY ProbeAssumption DEF OperationHolds, NotifiedOnceVerified
<1>6. ForgottenEnds'
  <2>1. /\ UNCHANGED <<check, notifies, untold>>
        /\ \A r \in Operations \ {q} : doing'[r] = doing[r]
        /\ doing'[q].kind = doing[q].kind /\ doing'[q].probe = doing[q].probe
    OBVIOUS
  <2>2. \A p \in Probes : row'[p].mayExist = row[p].mayExist \/ row'[p].mayExist
    OBVIOUS
  <2> QED
    BY <2>1, <2>2, HeardStays DEF ForgottenEnds
<1>7. FailuresHaveACause'
  BY ProbeAssumption DEF OperationHolds, OneCreator, FailuresHaveACause
<1>8. CleanupHasACause'
  BY ProbeAssumption DEF OperationHolds, FailuresHaveACause, CleanupHasACause, CleanupEligible
<1>9. ToldOfTheEnd'
  BY ProbeAssumption DEF OperationHolds, LeavesOpen, ToldOfTheEnd, Ended
<1> QED
  BY <1>1, <1>2, <1>3, <1>4, <1>5, <1>6, <1>7, <1>8, <1>9 DEF ProbeFacts

LEMMA ProcessDiesKeeps ==
  ASSUME ProbeTypes, ProbeFacts, NEW q \in Operations, ProcessDies(q)
  PROVE  ProbeFacts'
<1> USE ProbeTyped DEF ProcessDies, Fault, ProbeFacts, OperationRecord, ProbeRecord
<1>1. OperationHolds'
  BY ProbeAssumption DEF OperationHolds
<1>2. OneCreator'
  BY ProbeAssumption DEF OperationHolds, OneCreator
<1>3. OneOpenProbe'
  BY ProbeAssumption DEF OperationHolds, OneOpenProbe, LeavesOpen, IsOpen, CleanupEligible
<1>4. LeavesOpen'
  BY ProbeAssumption DEF OperationHolds, OneCreator, LeavesOpen
<1>5. NotifiedOnceVerified'
  BY ProbeAssumption DEF OperationHolds, NotifiedOnceVerified
<1>6. ForgottenEnds'
  BY ProbeAssumption DEF OperationHolds, NotifiedOnceVerified, ForgottenEnds, Heard
<1>7. FailuresHaveACause'
  BY ProbeAssumption DEF OperationHolds, OneCreator, FailuresHaveACause
<1>8. CleanupHasACause'
  BY ProbeAssumption DEF OperationHolds, FailuresHaveACause, CleanupHasACause, CleanupEligible
<1>9. ToldOfTheEnd'
  BY ProbeAssumption DEF OperationHolds, LeavesOpen, ToldOfTheEnd, Ended
<1> QED
  BY <1>1, <1>2, <1>3, <1>4, <1>5, <1>6, <1>7, <1>8, <1>9 DEF ProbeFacts

LEMMA ProbeDispatchAgesKeeps ==
  ASSUME ProbeTypes, ProbeFacts, NEW p \in Probes, ProbeDispatchAges(p)
  PROVE  ProbeFacts'
<1> USE ProbeTyped DEF ProbeDispatchAges, ProbeFacts, OperationRecord, ProbeRecord
<1>1. OperationHolds'
  BY ProbeAssumption DEF OperationHolds
<1>2. OneCreator'
  BY ProbeAssumption DEF OperationHolds, OneCreator
<1>3. OneOpenProbe'
  BY ProbeAssumption DEF OperationHolds, OneOpenProbe, LeavesOpen, IsOpen, CleanupEligible
<1>4. LeavesOpen'
  BY ProbeAssumption DEF OperationHolds, OneCreator, LeavesOpen
<1>5. NotifiedOnceVerified'
  BY ProbeAssumption DEF OperationHolds, NotifiedOnceVerified
<1>6. ForgottenEnds'
  BY ProbeAssumption DEF OperationHolds, NotifiedOnceVerified, ForgottenEnds, Heard
<1>7. FailuresHaveACause'
  BY ProbeAssumption DEF OperationHolds, OneCreator, FailuresHaveACause
<1>8. CleanupHasACause'
  BY ProbeAssumption DEF OperationHolds, FailuresHaveACause, CleanupHasACause, CleanupEligible
<1>9. ToldOfTheEnd'
  BY ProbeAssumption DEF OperationHolds, LeavesOpen, ToldOfTheEnd, Ended
<1> QED
  BY <1>1, <1>2, <1>3, <1>4, <1>5, <1>6, <1>7, <1>8, <1>9 DEF ProbeFacts

LEMMA VerifyCallbackKeeps ==
  ASSUME ProbeTypes, ProbeFacts, NEW q \in Operations, VerifyCallback(q)
  PROVE  ProbeFacts'
<1> USE ProbeTyped DEF VerifyCallback, Verifiable, Confirmable, AfterVerification,
                       AfterConfirmation, ProbeFacts, OperationRecord, ProbeRecord
<1>1. OperationHolds'
  BY ProbeAssumption DEF OperationHolds
<1>2. OneCreator'
  BY ProbeAssumption DEF OperationHolds, OneCreator
<1>3. OneOpenProbe'
  BY ProbeAssumption DEF OperationHolds, OneOpenProbe, LeavesOpen, IsOpen, CleanupEligible
<1>4. LeavesOpen'
  BY ProbeAssumption DEF OperationHolds, OneCreator, LeavesOpen
<1>5. NotifiedOnceVerified'
  BY ProbeAssumption DEF OperationHolds, NotifiedOnceVerified
<1>6. ForgottenEnds'
  BY ProbeAssumption DEF OperationHolds, NotifiedOnceVerified, ForgottenEnds, Heard
<1>7. FailuresHaveACause'
  BY ProbeAssumption DEF OperationHolds, OneCreator, FailuresHaveACause
<1>8. CleanupHasACause'
  BY ProbeAssumption DEF OperationHolds, FailuresHaveACause, CleanupHasACause, CleanupEligible
<1>9. ToldOfTheEnd'
  BY ProbeAssumption DEF OperationHolds, LeavesOpen, ToldOfTheEnd, Ended
<1> QED
  BY <1>1, <1>2, <1>3, <1>4, <1>5, <1>6, <1>7, <1>8, <1>9 DEF ProbeFacts

LEMMA HubHearsKeeps ==
  ASSUME ProbeTypes, ProbeFacts, NEW q \in Operations, HubHears(q)
  PROVE  ProbeFacts'
<1> USE ProbeTyped DEF HubHears, ProbeFacts, OperationRecord, ProbeRecord
<1>1. OperationHolds'
  BY ProbeAssumption DEF OperationHolds
<1>2. OneCreator'
  BY ProbeAssumption DEF OperationHolds, OneCreator
<1>3. OneOpenProbe'
  BY ProbeAssumption DEF OperationHolds, OneOpenProbe, LeavesOpen, IsOpen, CleanupEligible
<1>4. LeavesOpen'
  BY ProbeAssumption DEF OperationHolds, OneCreator, LeavesOpen
<1>5. NotifiedOnceVerified'
  BY ProbeAssumption DEF OperationHolds, NotifiedOnceVerified
<1>6. ForgottenEnds'
  BY ProbeAssumption DEF OperationHolds, NotifiedOnceVerified, ForgottenEnds, Heard
<1>7. FailuresHaveACause'
  BY ProbeAssumption DEF OperationHolds, OneCreator, FailuresHaveACause
<1>8. CleanupHasACause'
  BY ProbeAssumption DEF OperationHolds, FailuresHaveACause, CleanupHasACause, CleanupEligible
<1>9. ToldOfTheEnd'
  BY ProbeAssumption DEF OperationHolds, LeavesOpen, ToldOfTheEnd, Ended
<1> QED
  BY <1>1, <1>2, <1>3, <1>4, <1>5, <1>6, <1>7, <1>8, <1>9 DEF ProbeFacts

LEMMA AnswerLostKeeps ==
  ASSUME ProbeTypes, ProbeFacts, NEW q \in Operations, AnswerLost(q)
  PROVE  ProbeFacts'
<1> USE ProbeTyped DEF AnswerLost, Fault, ProbeFacts, OperationRecord, ProbeRecord
<1>1. OperationHolds'
  BY ProbeAssumption DEF OperationHolds
<1>2. OneCreator'
  BY ProbeAssumption DEF OperationHolds, OneCreator
<1>3. OneOpenProbe'
  BY ProbeAssumption DEF OperationHolds, OneOpenProbe, LeavesOpen, IsOpen, CleanupEligible
<1>4. LeavesOpen'
  BY ProbeAssumption DEF OperationHolds, OneCreator, LeavesOpen
<1>5. NotifiedOnceVerified'
  BY ProbeAssumption DEF OperationHolds, NotifiedOnceVerified
<1>6. ForgottenEnds'
  BY ProbeAssumption DEF OperationHolds, NotifiedOnceVerified, ForgottenEnds, Heard
<1>7. FailuresHaveACause'
  BY ProbeAssumption DEF OperationHolds, OneCreator, FailuresHaveACause
<1>8. CleanupHasACause'
  BY ProbeAssumption DEF OperationHolds, FailuresHaveACause, CleanupHasACause, CleanupEligible
<1>9. ToldOfTheEnd'
  BY ProbeAssumption DEF OperationHolds, LeavesOpen, ToldOfTheEnd, Ended
<1> QED
  BY <1>1, <1>2, <1>3, <1>4, <1>5, <1>6, <1>7, <1>8, <1>9 DEF ProbeFacts
-----------------------------------------------------------------------------
\* The lifecycle's steps leave the notifications alone, and theirs the lifecycle.
probeState == <<row, doing, check, notifies, faults, replaced, untold>>

LEMMA ProbeInitial == ProbeInit => ProbeInv /\ NoteHolds /\ AcceptedBodyIsObserved
<1> SUFFICES ASSUME ProbeInit PROVE ProbeInv /\ NoteHolds /\ AcceptedBodyIsObserved
  OBVIOUS
<1> USE ProbeAssumption DEF ProbeInit, NoRow, IdleOperation, IdleNote
<1>1. row \in ProbeTable
  <2>1. NoRow \in ProbeRecord
    BY DEF ProbeRecord, ValidProbe, Undispatched
  <2> QED
    BY <2>1, ProbeTableIsOfRecords
<1>2. ProbeTypes
  BY <1>1 DEF ProbeTypes, ObservationTable, OperationRecord, OperationPC, NoteRecord
<1>3. OperationHolds /\ OneCreator /\ LeavesOpen /\ NotifiedOnceVerified
  BY DEF OperationHolds, OneCreator, LeavesOpen, NotifiedOnceVerified
<1>4. OneOpenProbe /\ ForgottenEnds /\ CleanupHasACause
  BY DEF OneOpenProbe, IsOpen, CleanupEligible, ForgottenEnds, Heard, CleanupHasACause
<1>5. FailuresHaveACause /\ ToldOfTheEnd /\ NoteHolds /\ AcceptedBodyIsObserved
  BY DEF FailuresHaveACause, ToldOfTheEnd, NoteHolds, AcceptedBodyIsObserved
<1> QED
  BY <1>2, <1>3, <1>4, <1>5 DEF ProbeInv, ProbeFacts

\* One record is replaced by another.
LEMMA RowReplaced ==
  ASSUME ProbeTypes, NEW p \in Probes, NEW r \in ProbeRecord, row' = [row EXCEPT ![p] = r]
  PROVE  row' \in ProbeTable
BY ProbeTableIsOfRecords, ProbeTyped

LEMMA AnswerTypes ==
  ASSUME ProbeTypes, NEW q \in Operations, NEW answer \in OperationAnswer, doing' = Answer(q, answer)
  PROVE  doing' \in [Operations -> OperationRecord]
<1> DEFINE u == [doing[q] EXCEPT !.pc = "done", !.answer = answer]
<1>1. doing \in [Operations -> OperationRecord] /\ doing' = [doing EXCEPT ![q] = u]
  BY DEF ProbeTypes, Answer
<1>2. u \in OperationRecord
  BY <1>1 DEF OperationRecord, OperationPC
<1> QED
  BY <1>1, <1>2

LEMMA OperationTypes ==
  ASSUME ProbeInv, NEW q \in Operations, OperationStep(q)
  PROVE  ProbeTypes'
<1> USE ProbeTyped DEF ProbeInv, OperationRecord, OperationPC, OperationAnswer
<1>0. UNCHANGED <<notifies, note, obs>>
  BY DEF OperationStep, Create, AskUnsubscribe, MarkUnsubscribeDispatched, HubTakes, HubRefuses,
         MarkSubscribeFailed, MarkSubscribeAccepted, MarkUnsubscribeAccepted, MarkCleanupRequired,
         StatementFails, ProcessDies, noteVars
<1>3. check' \in [Operations -> {"none", "owed", "answered", "dropped"}] /\ faults' \in Nat
  <2>1. \/ UNCHANGED check
        \/ check' = [check EXCEPT ![q] = "owed"]
    BY DEF OperationStep, Create, AskUnsubscribe, MarkUnsubscribeDispatched, HubTakes, HubRefuses,
           MarkSubscribeFailed, MarkSubscribeAccepted, MarkUnsubscribeAccepted,
           MarkCleanupRequired, StatementFails, ProcessDies
  <2>2. faults' = faults \/ faults' = faults + 1
    BY DEF OperationStep, Create, AskUnsubscribe, MarkUnsubscribeDispatched, HubTakes, HubRefuses,
           MarkSubscribeFailed, MarkSubscribeAccepted, MarkUnsubscribeAccepted,
           MarkCleanupRequired, StatementFails, ProcessDies, Fault
  <2> QED
    BY <2>1, <2>2
<1>1. doing' \in [Operations -> OperationRecord]
  <2>1. CASE Create(q)
    <3>1. ASSUME NEW p \in Probes,
                 doing' = [doing EXCEPT ![q] = [IdleOperation EXCEPT
                             !.pc = "hub", !.kind = "subscribe", !.probe = p]]
          PROVE  doing' \in [Operations -> OperationRecord]
      BY <3>1 DEF IdleOperation
    <3>2. ASSUME doing' = [Answer(q, "open_probe_conflict") EXCEPT ![q].kind = "subscribe"]
          PROVE  doing' \in [Operations -> OperationRecord]
      <4> DEFINE u == [doing[q] EXCEPT !.pc = "done", !.answer = "open_probe_conflict"]
      <4>1. doing[q] \in OperationRecord /\ Answer(q, "open_probe_conflict") = [doing EXCEPT ![q] = u]
        BY DEF Answer
      <4>2. u \in OperationRecord /\ [u EXCEPT !.kind = "subscribe"] \in OperationRecord
        BY <4>1
      <4>3. [doing EXCEPT ![q] = u] \in [Operations -> OperationRecord]
        BY <4>2
      <4>4. [doing EXCEPT ![q] = u][q] = u
        OBVIOUS
      <4>5. doing' = [[doing EXCEPT ![q] = u] EXCEPT ![q] = [u EXCEPT !.kind = "subscribe"]]
        BY <3>2, <4>1, <4>4
      <4> QED
        BY <4>2, <4>3, <4>5
    <3> QED
      BY <2>1, <3>1, <3>2 DEF Create
  <2>2. ASSUME NEW p \in Probes, AskUnsubscribe(q, p) PROVE doing' \in [Operations -> OperationRecord]
    BY <2>2 DEF AskUnsubscribe, IdleOperation
  <2>3. ASSUME NEW pc \in OperationPC, doing' = [doing EXCEPT ![q].pc = pc]
        PROVE  doing' \in [Operations -> OperationRecord]
    BY <2>3
  <2>4. CASE MarkUnsubscribeDispatched(q) \/ HubTakes(q) \/ HubRefuses(q) \/ ProcessDies(q)
    BY <2>3, <2>4, AnswerTypes DEF MarkUnsubscribeDispatched, HubTakes, HubRefuses, ProcessDies
  <2>5. CASE MarkSubscribeFailed(q) \/ MarkSubscribeAccepted(q) \/ MarkUnsubscribeAccepted(q)
    BY <2>3, <2>5, AnswerTypes
       DEF MarkSubscribeFailed, MarkSubscribeAccepted, MarkUnsubscribeAccepted
  <2>6. CASE MarkCleanupRequired(q) \/ StatementFails(q)
    BY <2>3, <2>6, AnswerTypes DEF MarkCleanupRequired, StatementFails
  <2> QED
    BY <2>1, <2>2, <2>4, <2>5, <2>6 DEF OperationStep
<1> DEFINE p == doing[q].probe
<1>2. row' \in ProbeTable
  <2>0. \A x \in Probes : row[x] \in ProbeRecord
    OBVIOUS
  <2>1. CASE UNCHANGED row
    BY <2>1, ProbeTableIsOfRecords
  <2>2. CASE Create(q) /\ ~UNCHANGED row
    <3>1. PICK x \in Probes : row' = [row EXCEPT ![x] = NewProbe(q)]
      BY <2>2 DEF Create
    <3>2. NewProbe(q) \in ProbeRecord
      BY <2>0, TransitionsAreValid
    <3> QED
      BY <3>1, <3>2, RowReplaced
  <2>3. CASE MarkUnsubscribeDispatched(q) /\ ~UNCHANGED row
    <3>1. p \in Probes
      BY <2>3 DEF MarkUnsubscribeDispatched, ProbeFacts, OperationHolds
    <3>2. Unsubscribable(p) /\ row' = [row EXCEPT ![p] = Unsubscribing(row[p], q)]
      BY <2>3, <3>1 DEF MarkUnsubscribeDispatched, Unsubscribing
    <3>3. Unsubscribing(row[p], q) \in ProbeRecord
      BY <2>0, <3>1, <3>2, TransitionsAreValid DEF Unsubscribable, CleanupEligible
    <3> QED
      BY <3>1, <3>2, <3>3, RowReplaced
  <2>4. CASE (MarkSubscribeFailed(q) \/ MarkCleanupRequired(q)) /\ ~UNCHANGED row
    <3>1. p \in Probes
      BY <2>4 DEF MarkSubscribeFailed, MarkCleanupRequired, ProbeFacts, OperationHolds
    <3>2. \/ row' = [row EXCEPT ![p] = AfterFailure(row[p], FALSE)]
          \/ row' = [row EXCEPT ![p] = AfterFailure(row[p], TRUE)]
      BY <2>4, <3>1 DEF MarkSubscribeFailed, MarkCleanupRequired, Failed
    <3>3. AfterFailure(row[p], FALSE) \in ProbeRecord /\ AfterFailure(row[p], TRUE) \in ProbeRecord
      BY <2>0, <3>1, TransitionsAreValid
    <3> QED
      BY <3>1, <3>2, <3>3, RowReplaced
  <2>5. CASE (MarkSubscribeAccepted(q) \/ MarkUnsubscribeAccepted(q)) /\ ~UNCHANGED row
    <3>1. p \in Probes
      BY <2>5 DEF MarkSubscribeAccepted, MarkUnsubscribeAccepted, ProbeFacts, OperationHolds
    <3>2. row' = [row EXCEPT ![p] = AcceptedRow(row[p])]
      BY <2>5, <3>1 DEF MarkSubscribeAccepted, MarkUnsubscribeAccepted, Accept, AcceptedRow
    <3>3. AcceptedRow(row[p]) \in ProbeRecord
      BY <2>0, <3>1, TransitionsAreValid
    <3> QED
      BY <3>1, <3>2, <3>3, RowReplaced
  <2> QED
    BY <2>1, <2>2, <2>3, <2>4, <2>5
       DEF OperationStep, AskUnsubscribe, HubTakes, HubRefuses, StatementFails, ProcessDies
<1> QED
  BY <1>0, <1>1, <1>2, <1>3 DEF ProbeTypes

LEMMA HubTypes ==
  ASSUME ProbeInv, NEW q \in Operations, HubStep(q)
  PROVE  ProbeTypes'
<1> USE ProbeTyped DEF ProbeInv
<1> DEFINE p == doing[q].probe
<1>1. CASE VerifyCallback(q)
  <2>1. p \in Probes /\ row[p] \in ProbeRecord
    BY <1>1 DEF VerifyCallback, ProbeFacts, OperationHolds
  <2>2. \/ row' = row
        \/ Verifiable(p) /\ row' = [row EXCEPT ![p] = AfterVerification(row[p])]
        \/ Confirmable(p) /\ row' = [row EXCEPT ![p] = AfterConfirmation(row[p])]
    BY <1>1, <2>1 DEF VerifyCallback
  <2>3. /\ Verifiable(p) => AfterVerification(row[p]) \in ProbeRecord
        /\ Confirmable(p) => AfterConfirmation(row[p]) \in ProbeRecord
    <3>1. PICK a \in Operations : TRUE
      OBVIOUS
    <3> QED
      BY <2>1, TransitionsAreValid DEF Verifiable, Confirmable
  <2>4. row' \in ProbeTable
    BY <2>1, <2>2, <2>3, RowReplaced, ProbeTableIsOfRecords
  <2> QED
    BY <1>1, <2>4 DEF VerifyCallback, ProbeTypes, noteVars
<1>2. CASE HubHears(q) \/ AnswerLost(q)
  <2>1. faults' \in Nat
    BY <1>2 DEF HubHears, AnswerLost, Fault
  <2>4. notifies' \in [Probes -> BOOLEAN]
    <3>1. ASSUME NEW b \in BOOLEAN PROVE [notifies EXCEPT ![p] = b] \in [Probes -> BOOLEAN]
      BY Zenon
    <3>2. (doing[q].kind = "subscribe") \in BOOLEAN
      OBVIOUS
    <3>3. \/ notifies' = notifies
          \/ notifies' = [notifies EXCEPT ![p] = (doing[q].kind = "subscribe")]
      BY <1>2, Zenon DEF HubHears, AnswerLost
    <3> QED
      BY <3>1, <3>2, <3>3, Zenon
  <2>2. check' \in [Operations -> {"none", "owed", "answered", "dropped"}]
    BY <1>2 DEF HubHears, AnswerLost
  <2>3. UNCHANGED <<row, doing, note, obs>>
    BY <1>2 DEF HubHears, AnswerLost, noteVars
  <2> QED
    BY <2>1, <2>2, <2>3, <2>4 DEF ProbeTypes
<1> QED
  BY <1>1, <1>2 DEF HubStep

LEMMA NoteTypes ==
  ASSUME ProbeTypes, NoteHolds, NEW n \in Bodies, NoteStep(n)
  PROVE  ProbeTypes' /\ UNCHANGED probeState
<1>1. UNCHANGED probeState
  BY DEF NoteStep, HubNotifies, ReadProbe, RecordObservations, ObservationFails, probeState
<1>2. note' \in [Bodies -> NoteRecord]
  <2>1. note \in [Bodies -> NoteRecord]
    BY DEF ProbeTypes
  <2>2. ASSUME NEW p \in Probes, HubNotifies(n, p) PROVE note' \in [Bodies -> NoteRecord]
    <3>1. PICK named \in SUBSET Entries :
            note' = [note EXCEPT ![n].pc = "read", ![n].probe = p, ![n].entries = named]
      BY <2>2 DEF HubNotifies
    <3> QED
      BY <2>1, <3>1 DEF NoteRecord
  <2>3. CASE ReadProbe(n) \/ ObservationFails(n)
    BY <2>1, <2>3 DEF ReadProbe, ObservationFails, NoteRecord
  <2>4. CASE RecordObservations(n)
    <3>1. note[n].probe \in Probes
      BY <2>4 DEF RecordObservations, NoteHolds
    <3> QED
      BY <2>1, <2>4, <3>1 DEF RecordObservations, NoteRecord
  <2> QED
    BY <2>2, <2>3, <2>4 DEF NoteStep
<1>3. obs' \in ObservationTable
  <2>1. obs' = obs \/ obs' = Observed(n)
    BY DEF NoteStep, HubNotifies, ReadProbe, RecordObservations, ObservationFails
  <2>2. obs \in ObservationTable
    BY DEF ProbeTypes
  <2>3. Observed(n) \in ObservationTable
    BY <2>2 DEF Observed, ObservationTable
  <2> QED
    BY <2>1, <2>2, <2>3
<1> QED
  BY <1>1, <1>2, <1>3 DEF ProbeTypes, probeState

\* One step of the lifecycle, of the hub or of the clock, or none.
LEMMA LifecycleStep ==
  ASSUME ProbeInv,
         \/ \E q \in Operations : OperationStep(q) \/ HubStep(q)
         \/ \E p \in Probes : ProbeDispatchAges(p)
         \/ UNCHANGED probeState
  PROVE  ProbeFacts'
<1> USE DEF ProbeInv
<1>1. ASSUME NEW q \in Operations, OperationStep(q) PROVE ProbeFacts'
  <2>1. CASE Create(q)
    BY <2>1, CreateKeeps
  <2>2. ASSUME NEW p \in Probes, AskUnsubscribe(q, p) PROVE ProbeFacts'
    BY <2>2, AskUnsubscribeKeeps
  <2>3. CASE MarkUnsubscribeDispatched(q)
    BY <2>3, MarkUnsubscribeDispatchedKeeps
  <2>4. CASE HubTakes(q)
    BY <2>4, HubTakesKeeps
  <2>5. CASE HubRefuses(q)
    BY <2>5, HubRefusesKeeps
  <2>6. CASE MarkSubscribeFailed(q)
    BY <2>6, MarkSubscribeFailedKeeps
  <2>7. CASE MarkSubscribeAccepted(q) \/ MarkUnsubscribeAccepted(q)
    BY <2>7, AcceptedKeeps
  <2>8. CASE MarkCleanupRequired(q)
    BY <2>8, MarkCleanupRequiredKeeps
  <2>9. CASE StatementFails(q)
    BY <2>9, StatementFailsKeeps
  <2>10. CASE ProcessDies(q)
    BY <2>10, ProcessDiesKeeps
  <2> QED
    BY <1>1, <2>1, <2>2, <2>3, <2>4, <2>5, <2>6, <2>7, <2>8, <2>9, <2>10 DEF OperationStep
<1>2. ASSUME NEW q \in Operations, HubStep(q) PROVE ProbeFacts'
  BY <1>2, VerifyCallbackKeeps, HubHearsKeeps, AnswerLostKeeps DEF HubStep
<1>3. ASSUME NEW p \in Probes, ProbeDispatchAges(p) PROVE ProbeFacts'
  BY <1>3, ProbeDispatchAgesKeeps
<1>4. CASE UNCHANGED probeState
  BY <1>4 DEF probeState, ProbeFacts, OperationHolds, OneCreator, OneOpenProbe, IsOpen,
              CleanupEligible, LeavesOpen, NotifiedOnceVerified, ForgottenEnds, Heard,
              FailuresHaveACause, CleanupHasACause, ToldOfTheEnd, Ended
<1> QED
  BY <1>1, <1>2, <1>3, <1>4

LEMMA ProbeStepKeeps ==
  ASSUME ProbeInv, NoteHolds, [ProbeNext]_probeVars
  PROVE  ProbeInv'
<1>1. ASSUME NEW q \in Operations, OperationStep(q) PROVE ProbeInv'
  BY <1>1, OperationTypes, LifecycleStep DEF ProbeInv
<1>2. ASSUME NEW q \in Operations, HubStep(q) PROVE ProbeInv'
  BY <1>2, HubTypes, LifecycleStep DEF ProbeInv
<1>3. ASSUME NEW p \in Probes, ProbeDispatchAges(p) PROVE ProbeInv'
  <2>1. ProbeTypes /\ row[p] \in ProbeRecord
    BY ProbeTyped DEF ProbeInv
  <2>2. Aged(row[p]) \in ProbeRecord
    <3>1. CASE Operations = {}
      BY <2>1, <3>1 DEF ProbeRecord, ValidProbe, Aged
    <3>2. CASE Operations # {}
      BY <2>1, <3>2, TransitionsAreValid
    <3> QED
      BY <3>1, <3>2
  <2>3. row' = [row EXCEPT ![p] = Aged(row[p])]
    BY <1>3, <2>1, ProbeTyped DEF ProbeDispatchAges, Aged
  <2>4. row' \in ProbeTable
    BY <2>1, <2>2, <2>3, RowReplaced
  <2>5. ProbeTypes'
    BY <1>3, <2>1, <2>4 DEF ProbeDispatchAges, ProbeTypes, noteVars
  <2> QED
    BY <1>3, <2>5, LifecycleStep DEF ProbeInv
<1>4. ASSUME NEW n \in Bodies, NoteStep(n) PROVE ProbeInv'
  BY <1>4, NoteTypes, LifecycleStep DEF ProbeInv
<1>5. CASE UNCHANGED probeVars
  <2>1. UNCHANGED probeState /\ UNCHANGED <<note, obs>>
    BY <1>5 DEF probeVars, probeState, noteVars
  <2> QED
    BY <2>1, LifecycleStep DEF ProbeInv, ProbeTypes, probeState
<1> QED
  BY <1>1, <1>2, <1>3, <1>4, <1>5 DEF ProbeNext

\* The other steps do not touch the notifications.
LEMMA OnlyNotesTouchNotes ==
  ASSUME ProbeNext PROVE UNCHANGED noteVars \/ \E n \in Bodies : NoteStep(n)
<1>1. ASSUME NEW q \in Operations, OperationStep(q) PROVE UNCHANGED noteVars
  BY <1>1 DEF OperationStep, Create, AskUnsubscribe, MarkUnsubscribeDispatched, HubTakes,
              HubRefuses, MarkSubscribeFailed, MarkSubscribeAccepted, MarkUnsubscribeAccepted,
              MarkCleanupRequired, StatementFails, ProcessDies
<1>2. ASSUME NEW q \in Operations, HubStep(q) PROVE UNCHANGED noteVars
  BY <1>2 DEF HubStep, VerifyCallback, HubHears, AnswerLost
<1>3. ASSUME NEW p \in Probes, ProbeDispatchAges(p) PROVE UNCHANGED noteVars
  BY <1>3 DEF ProbeDispatchAges
<1> QED
  BY <1>1, <1>2, <1>3 DEF ProbeNext

\* A body names its entries once and for all as soon as one probe accepted it, and an entry's
\* first body is never overwritten.
LEMMA NoteStepKeeps ==
  ASSUME ProbeTypes, NoteHolds, AcceptedBodyIsObserved, [ProbeNext]_probeVars
  PROVE  NoteHolds' /\ AcceptedBodyIsObserved'
<1>1. note \in [Bodies -> NoteRecord] /\ obs \in [Probes -> [Entries -> Bodies \cup {None}]]
  BY DEF ProbeTypes, ObservationTable
<1>2. CASE UNCHANGED noteVars
  BY <1>2 DEF noteVars, NoteHolds, AcceptedBodyIsObserved
<1>3. ASSUME NEW n \in Bodies, NoteStep(n) PROVE NoteHolds' /\ AcceptedBodyIsObserved'
  <2> USE <1>1 DEF NoteRecord
  <2>1. ASSUME NEW p \in Probes, HubNotifies(n, p) PROVE NoteHolds' /\ AcceptedBodyIsObserved'
    <3>1. PICK named \in (SUBSET Entries) \ {{}} :
            /\ note[n].entries \in {{}, named}
            /\ note' = [note EXCEPT ![n].pc = "read", ![n].probe = p, ![n].entries = named]
      BY <2>1 DEF HubNotifies
    <3>2. /\ note'[n].probe = p /\ note'[n].entries = named
          /\ note'[n].accepted = note[n].accepted
          /\ \A m \in Bodies \ {n} : note'[m] = note[m]
      BY <3>1
    <3>6. named # {}
      OBVIOUS
    <3>3. NoteHolds'
      <4>1. ASSUME NEW m \in Bodies
            PROVE  /\ note'[m].pc # "idle" => note'[m].probe \in Probes /\ note'[m].entries # {}
                   /\ note'[m].accepted # {} => note'[m].entries # {}
        <5>1. CASE m = n
          BY <3>2, <3>6, <5>1
        <5>2. CASE m # n
          BY <3>2, <5>2 DEF NoteHolds
        <5> QED
          BY <5>1, <5>2
      <4> QED
        BY <4>1 DEF NoteHolds
    <3>4. note[n].accepted # {} => note[n].entries = named
      BY <3>1 DEF NoteHolds
    <3>5. obs' = obs
      BY <2>1 DEF HubNotifies
    <3> QED
      BY <3>2, <3>3, <3>4, <3>5 DEF AcceptedBodyIsObserved
  <2>2. CASE ReadProbe(n) \/ ObservationFails(n) \/ (RecordObservations(n) /\ ~Observable(n))
    <3>1. /\ note'[n].probe = note[n].probe /\ note'[n].entries = note[n].entries
          /\ note'[n].accepted = note[n].accepted /\ note[n].pc # "idle" /\ obs' = obs
          /\ \A m \in Bodies \ {n} : note'[m] = note[m]
      BY <2>2 DEF ReadProbe, ObservationFails, RecordObservations
    <3>2. NoteHolds'
      BY <3>1 DEF NoteHolds
    <3> QED
      BY <3>1, <3>2 DEF AcceptedBodyIsObserved
  <2>3. CASE RecordObservations(n) /\ Observable(n)
    <3> DEFINE p == note[n].probe
    <3>1. p \in Probes /\ note[n].entries # {}
      BY <2>3 DEF RecordObservations, NoteHolds
    <3>2. /\ note'[n].pc = "idle" /\ note'[n].entries = note[n].entries
          /\ note'[n].accepted = note[n].accepted \cup {p}
          /\ \A m \in Bodies \ {n} : note'[m] = note[m]
      BY <2>3 DEF RecordObservations
    <3>3. /\ obs' = Observed(n)
          /\ \A e \in note[n].entries : obs[p][e] \in {None, n}
      BY <2>3 DEF RecordObservations, Observable
    <3>4. /\ \A x \in Probes \ {p} : obs'[x] = obs[x]
          /\ \A e \in Entries :
               obs'[p][e] = IF e \in note[n].entries /\ obs[p][e] = None THEN n ELSE obs[p][e]
      BY <3>1, <3>3 DEF Observed
    <3>5. NoteHolds'
      BY <3>1, <3>2 DEF NoteHolds
    <3>6. ASSUME NEW m \in Bodies, NEW x \in note'[m].accepted, NEW e \in note'[m].entries
          PROVE  obs'[x][e] = m
      <4>1. m = n \/ m # n
        OBVIOUS
      <4>2. e \in note[m].entries /\ e \in Entries /\ m # None
        BY <3>2, <1>1, ProbeAssumption
      <4>3. x \in Probes /\ (x \in note[m].accepted \/ (m = n /\ x = p))
        BY <3>1, <3>2
      <4>4. CASE x \in note[m].accepted
        <5>1. obs[x][e] = m
          BY <4>2, <4>4 DEF AcceptedBodyIsObserved
        <5> QED
          BY <3>4, <4>2, <4>3, <5>1
      <4>5. CASE m = n /\ x = p
        BY <3>3, <3>4, <4>2, <4>5
      <4> QED
        BY <4>3, <4>4, <4>5
    <3> QED
      BY <3>5, <3>6 DEF AcceptedBodyIsObserved
  <2> QED
    BY <1>3, <2>1, <2>2, <2>3 DEF NoteStep
<1>4. UNCHANGED noteVars \/ \E n \in Bodies : NoteStep(n)
  <2>1. CASE ProbeNext
    BY <2>1, OnlyNotesTouchNotes
  <2>2. CASE UNCHANGED probeVars
    BY <2>2 DEF probeVars, noteVars
  <2> QED
    BY <2>1, <2>2
<1> QED
  BY <1>2, <1>3, <1>4

LEMMA ProbeInvariant == ProbeSpec => [](ProbeInv /\ NoteHolds /\ AcceptedBodyIsObserved)
<1>1. ProbeInit => ProbeInv /\ NoteHolds /\ AcceptedBodyIsObserved
  BY ProbeInitial
<1>2. ProbeInv /\ NoteHolds /\ AcceptedBodyIsObserved /\ [ProbeNext]_probeVars
        => ProbeInv' /\ NoteHolds' /\ AcceptedBodyIsObserved'
  BY ProbeStepKeeps, NoteStepKeeps DEF ProbeInv
<1> QED
  BY <1>1, <1>2, PTL DEF ProbeSpec

\* A notification answered 204 is recorded whole (recordNotificationObservation), whatever
\* bodies the hub posts again and whatever lifecycle the probe goes through meanwhile.
THEOREM NotificationsAreKept == ProbeSpec => []AcceptedBodyIsObserved
BY ProbeInvariant, PTL

\* The unique index holds one open probe, a subscription the hub may notify is remembered, and
\* a cleanup is asked for only after something failed or was replaced when stale; except that
\* an unsubscribe verified before its 202 is told cleanup_pending of a row that has ended.
THEOREM CleanupCorrect == ProbeSpec => []CleanupIsExact
<1>1. ASSUME ProbeInv PROVE CleanupIsExact
  <2> USE <1>1 DEF ProbeInv, ProbeFacts
  <2>1. Cardinality({p \in Probes : IsOpen(p)}) <= 1
    BY AtMostOne DEF OneOpenProbe
  <2>2. ProbeTypeOK
    BY <2>1, ProbeTyped DEF ProbeTypeOK, ProbeTypes
  <2>3. SubscriptionIsRemembered
    BY ProbeTyped DEF SubscriptionIsRemembered, ForgottenEnds, Heard
  <2> QED
    BY <2>2, <2>3 DEF CleanupIsExact
<1> QED
  BY <1>1, ProbeInvariant, PTL

\* No step opens a closed probe again, and none records an observation of a probe whose
\* operator was told that it is being unsubscribed.
LEMMA EndedProbeStep ==
  ASSUME ProbeInv, NoteHolds, [ProbeNext]_probeVars, NEW p \in Probes
  PROVE  /\ Closed(p) => Closed(p)'
         /\ (\E q \in Operations : doing[q].probe = p /\ doing[q].answer \in
               {"unsubscribe_pending", "cleanup_pending", "unsubscribed"}) => obs'[p] = obs[p]
<1> USE ProbeTyped DEF ProbeInv, ProbeFacts
<1>1. ASSUME Closed(p) PROVE Closed(p)'
  <2> USE <1>1 DEF Closed, IsOpen, CleanupEligible, ProbeRecord, ValidProbe
  <2>1. \/ row[p].status = "unsubscribed"
        \/ row[p].status = "failed" /\ ~row[p].cleanup
    OBVIOUS
  <2>2. CASE row'[p] = row[p]
    BY <2>2
  <2>3. ASSUME NEW q \in Operations, OperationStep(q), row'[p] # row[p] PROVE Closed(p)'
    <3>1. CASE Create(q)
      BY <2>1, <2>3, <3>1 DEF Create
    <3>2. CASE doing[q].pc \in {"mark", "accept", "reject", "cleanup"} /\ doing[q].probe \in Probes
               /\ doing[q].probe # p
      BY <2>3, <3>2 DEF OperationStep, Create, AskUnsubscribe, MarkUnsubscribeDispatched, HubTakes, HubRefuses,
         MarkSubscribeFailed, MarkSubscribeAccepted, MarkUnsubscribeAccepted, MarkCleanupRequired,
         StatementFails, ProcessDies, Failed, Accept
    <3>3. CASE MarkUnsubscribeDispatched(q) /\ doing[q].probe = p
      BY <2>1, <2>3, <3>3 DEF MarkUnsubscribeDispatched, Unsubscribable
    <3>4. CASE MarkSubscribeFailed(q) /\ doing[q].probe = p
      BY <2>1, <2>3, <3>4 DEF MarkSubscribeFailed, Failable
    <3>5. CASE (MarkSubscribeAccepted(q) \/ MarkUnsubscribeAccepted(q)) /\ doing[q].probe = p
      <4>1. row'[p].status = row[p].status /\ row'[p].cleanup = row[p].cleanup
            /\ row'[p].mayExist = row[p].mayExist
        BY <3>5 DEF MarkSubscribeAccepted, MarkUnsubscribeAccepted, Accept
      <4> QED
        BY <4>1
    <3>6. CASE MarkCleanupRequired(q) /\ doing[q].probe = p
      <4>1. row[p].status = "unsubscribed"
        BY <2>1, <3>6 DEF MarkCleanupRequired, LeavesOpen, OperationHolds
      <4> QED
        BY <2>3, <3>6, <4>1 DEF MarkCleanupRequired
    <3>7. \/ Create(q)
          \/ MarkUnsubscribeDispatched(q)
          \/ MarkSubscribeFailed(q)
          \/ MarkSubscribeAccepted(q) \/ MarkUnsubscribeAccepted(q)
          \/ MarkCleanupRequired(q)
      BY <2>3 DEF OperationStep, AskUnsubscribe, HubTakes, HubRefuses, StatementFails, ProcessDies
    <3>8. Create(q) \/ (doing[q].pc \in {"mark", "accept", "reject", "cleanup"}
                        /\ doing[q].probe \in Probes)
      BY <3>7 DEF MarkUnsubscribeDispatched, MarkSubscribeFailed, MarkSubscribeAccepted,
                  MarkUnsubscribeAccepted, MarkCleanupRequired, OperationHolds
    <3> QED
      BY <3>1, <3>2, <3>3, <3>4, <3>5, <3>6, <3>7, <3>8
  <2>4. ASSUME NEW q \in Operations, HubStep(q), row'[p] # row[p] PROVE Closed(p)'
    <3>1. VerifyCallback(q)
      BY <2>4 DEF HubStep, HubHears, AnswerLost
    <3>2. doing[q].probe = p
      BY <2>4, <3>1 DEF VerifyCallback, OperationHolds
    <3>3. row[p].status = "unsubscribed" /\ row' = [row EXCEPT ![p] = AfterConfirmation(@)]
      BY <2>1, <2>4, <3>1, <3>2 DEF VerifyCallback, Verifiable, Confirmable
    <3> QED
      BY <3>3 DEF AfterConfirmation
  <2>5. ASSUME NEW x \in Probes, ProbeDispatchAges(x), row'[p] # row[p] PROVE Closed(p)'
    <3>1. /\ row'[p].status = row[p].status /\ row'[p].cleanup = row[p].cleanup
          /\ row'[p].mayExist = row[p].mayExist
      BY <2>5 DEF ProbeDispatchAges
    <3> QED
      BY <3>1
  <2>6. ASSUME NEW n \in Bodies, NoteStep(n) PROVE Closed(p)'
    <3>1. row'[p] = row[p]
      BY <2>6, NoteTypes DEF probeState
    <3> QED
      BY <3>1
  <2>7. CASE UNCHANGED probeVars
    BY <2>7 DEF probeVars
  <2> QED
    BY <2>2, <2>3, <2>4, <2>5, <2>6, <2>7 DEF ProbeNext
<1>2. ASSUME NEW q \in Operations, doing[q].probe = p,
             doing[q].answer \in {"unsubscribe_pending", "cleanup_pending", "unsubscribed"}
      PROVE  obs'[p] = obs[p]
  <2>1. row[p].status # "active"
    BY <1>2 DEF ToldOfTheEnd, Ended
  <2>2. CASE UNCHANGED noteVars
    BY <2>2 DEF noteVars
  <2>3. ASSUME NEW n \in Bodies, NoteStep(n) PROVE obs'[p] = obs[p]
    <3>1. obs' = obs \/ (Observable(n) /\ obs' = Observed(n))
      BY <2>3 DEF NoteStep, HubNotifies, ReadProbe, RecordObservations, ObservationFails
    <3>2. CASE Observable(n) /\ obs' = Observed(n)
      <4>1. note[n].probe # p /\ obs \in [Probes -> [Entries -> Bodies \cup {None}]]
        BY <2>1, <3>2 DEF Observable, ProbeTypes, ObservationTable
      <4> QED
        BY <3>2, <4>1 DEF Observed
    <3> QED
      BY <3>1, <3>2
  <2> QED
    BY <2>2, <2>3, OnlyNotesTouchNotes DEF probeVars
<1> QED
  BY <1>1, <1>2

\* A probe that ended stays quiet: a late answer, verification or cleanup does not open it
\* again, and no notification read before the unsubscription is recorded after it.
THEOREM EndedProbesAreQuiet == ProbeSpec => EndedProbesStayQuiet
<1>1. ProbeInv /\ NoteHolds /\ [ProbeNext]_probeVars =>
        [\A p \in Probes : Closed(p) => Closed(p)']_probeVars
  BY EndedProbeStep
<1>2. ProbeInv /\ NoteHolds /\ [ProbeNext]_probeVars =>
        [\A p \in Probes :
           (\E q \in Operations : doing[q].probe = p /\ doing[q].answer \in
              {"unsubscribe_pending", "cleanup_pending", "unsubscribed"})
           => obs'[p] = obs[p]]_probeVars
  BY EndedProbeStep
<1>3. ProbeSpec => ClosedStaysClosed
  BY <1>1, ProbeInvariant, PTL DEF ProbeSpec, ClosedStaysClosed
<1>4. ProbeSpec => NothingObservedAfterUnsubscribe
  BY <1>2, ProbeInvariant, PTL DEF ProbeSpec, NothingObservedAfterUnsubscribe
<1> QED
  BY <1>3, <1>4 DEF EndedProbesStayQuiet

=============================================================================
