------------------------- MODULE TierInventoryProofs -------------------------
(* The safety properties of TierInventory for every event, every number of      *)
(* handlers and every quantity.  A pool's counter alone does not say how many   *)
(* units are out: a handler that exceeded the quantity has raised it and has    *)
(* not given its unit back, and never will if it ends there.  The invariant     *)
(* counts those handlers, and keeps what a handler knows of the pools it has    *)
(* passed, of the certificate it has to issue and of the scan it serves.        *)
EXTENDS TierInventory, FiniteSetTheorems, TLAPS

Handler == [pc : {"idle", "repeat", "enter", "ask", "take", "undo", "store",
                  "member", "enrol", "number", "issue"},
            kind : {"scan", "join"}, scan : Scan \cup {None},
            phone : Phone \cup {None}, rung : 1 .. 4, pool : 1 .. 3,
            tier : Outcome, no : Nat]

\* A handler stands at a pool of a ladder of its vertical.
Fits(u) ==
  /\ u.rung \in DOMAIN Ladders[vertical]
  /\ u.pool \in DOMAIN Ladders[vertical][u.rung]

\* The pools it has passed are handed out.
Passed(u) ==
  \A j \in 1 .. 3 :
    j < u.pool => granted[Ladders[vertical][u.rung][j]] = Quantity[Ladders[vertical][u.rung][j]]

\* It gives back only what has an end.
UndoesLimited(u) == u.pc = "undo" => ~Unlimited(Ladders[vertical][u.rung][u.pool])

Sound(u) == Fits(u) /\ Passed(u) /\ UndoesLimited(u)

\* The handlers about to give a unit of p back.
Undoing(p) == {r \in Request : req[r].pc = "undo" /\ PoolOf(r) = p}

\* Up to its quantity a pool's counter is what was handed out; from then on the
\* counter is no smaller than the quantity and the units still to be given back.
Account(p) ==
  \/ Unlimited(p)
  \/ granted[p] = counter[p] /\ granted[p] <= Quantity[p] /\ Undoing(p) = {}
  \/ granted[p] = Quantity[p] /\ counter[p] >= Quantity[p] + Cardinality(Undoing(p))

Stock ==
  /\ TypeOK
  /\ \A r \in Request : Sound(req[r])
  /\ \A p \in Pool : Account(p)
  /\ FallsOnlyWhenGone

\* Only codePerks takes a telephone; a handler at work has what its request brought.
Named(u) ==
  /\ u.kind = "join" => vertical = "codeperks" /\ u.phone \in Phone
  /\ u.kind = "scan" /\ u.pc # "idle" => u.scan \in Scan
  /\ u.pc \in {"member", "enrol", "number", "issue"} => u.kind = "join"
  /\ u.pc \in {"repeat", "enter"} => u.kind = "scan"

RequestsAreNamed == \A r \in Request : Named(req[r])

IInv == Stock /\ RequestsAreNamed

------------------------------------------------------------------------------
(* The ladders *)

LEMMA LadderShape ==
  ASSUME NEW v \in DOMAIN Ladders
  PROVE  /\ Len(Ladders[v]) \in 1 .. 4
         /\ DOMAIN Ladders[v] = 1 .. Len(Ladders[v])
         /\ \A i \in DOMAIN Ladders[v] :
              /\ Len(Ladders[v][i]) \in 1 .. 3
              /\ DOMAIN Ladders[v][i] = 1 .. Len(Ladders[v][i])
              /\ \A j \in DOMAIN Ladders[v][i] : Ladders[v][i][j] \in Pool
PROOF
  <1>1. v \in {"codeperks", "codepod", "codeclip"}
    BY DEF Ladders
  <1>2. CASE v = "codeperks"
    <2>1. Ladders[v] = << <<"gold", "silver", "standard">> >>
      BY <1>2 DEF Ladders
    <2> QED BY <2>1 DEF Pool
  <1>3. CASE v = "codepod"
    <2>1. Ladders[v] = << <<"goldXtra">>, <<"gold", "silver", "general">> >>
      BY <1>3 DEF Ladders
    <2> QED BY <2>1 DEF Pool
  <1>4. CASE v = "codeclip"
    <2>1. Ladders[v] = << <<"clipPlus">>, <<"clip">>, <<"openClip">>, <<"clipXtra">> >>
      BY <1>4 DEF Ladders
    <2> QED BY <2>1 DEF Pool
  <1> QED BY <1>1, <1>2, <1>3, <1>4

LEMMA FirstPool ==
  ASSUME NEW v \in DOMAIN Ladders, NEW i \in DOMAIN Ladders[v]
  PROVE  1 \in DOMAIN Ladders[v][i]
PROOF
  <1>1. PICK n \in 1 .. 3 : DOMAIN Ladders[v][i] = 1 .. n
    BY LadderShape
  <1> QED BY <1>1

\* No pool stands twice in the ladders of a vertical.
LEMMA PoolsAreDistinct ==
  ASSUME NEW v \in DOMAIN Ladders,
         NEW i \in DOMAIN Ladders[v], NEW j \in DOMAIN Ladders[v][i],
         NEW h \in DOMAIN Ladders[v], NEW k \in DOMAIN Ladders[v][h],
         Ladders[v][i][j] = Ladders[v][h][k]
  PROVE  i = h /\ j = k
PROOF
  <1>1. v \in {"codeperks", "codepod", "codeclip"}
    BY DEF Ladders
  <1>2. CASE v = "codeperks"
    <2>1. Ladders[v] = << <<"gold", "silver", "standard">> >>
      BY <1>2 DEF Ladders
    <2> QED BY <2>1
  <1>3. CASE v = "codepod"
    <2>1. Ladders[v] = << <<"goldXtra">>, <<"gold", "silver", "general">> >>
      BY <1>3 DEF Ladders
    <2> QED BY <2>1
  <1>4. CASE v = "codeclip"
    <2>1. Ladders[v] = << <<"clipPlus">>, <<"clip">>, <<"openClip">>, <<"clipXtra">> >>
      BY <1>4 DEF Ladders
    <2> QED BY <2>1
  <1> QED BY <1>1, <1>2, <1>3, <1>4

\* Only the last pool of a ladder may be without an end.
LEMMA UpperPoolsAreLimited ==
  ASSUME NEW v \in DOMAIN Ladders, NEW i \in DOMAIN Ladders[v],
         NEW j \in DOMAIN Ladders[v][i], NEW k \in DOMAIN Ladders[v][i], j < k
  PROVE  ~Unlimited(Ladders[v][i][j])
PROOF
  <1>1. v \in {"codeperks", "codepod", "codeclip"}
    BY DEF Ladders
  <1>2. CASE v = "codeperks"
    <2>1. Ladders[v] = << <<"gold", "silver", "standard">> >>
      BY <1>2 DEF Ladders
    <2>2. Ladders[v][i][j] \in {"gold", "silver"}
      BY <2>1
    <2> QED BY <2>2 DEF Unlimited, Uncounted
  <1>3. CASE v = "codepod"
    <2>1. Ladders[v] = << <<"goldXtra">>, <<"gold", "silver", "general">> >>
      BY <1>3 DEF Ladders
    <2>2. Ladders[v][i][j] \in {"gold", "silver"}
      BY <2>1
    <2> QED BY <2>2 DEF Unlimited, Uncounted
  <1>4. CASE v = "codeclip"
    <2>1. Ladders[v] = << <<"clipPlus">>, <<"clip">>, <<"openClip">>, <<"clipXtra">> >>
      BY <1>4 DEF Ladders
    <2> QED BY <2>1
  <1> QED BY <1>1, <1>2, <1>3, <1>4

------------------------------------------------------------------------------
(* Where a handler goes *)

\* Handler r alone moves: it stays at its pool, or begins a ladder.
Moves(r) ==
  /\ req' \in [Request -> Handler]
  /\ \A q \in Request \ {r} : req'[q] = req[q]
  /\ \/ req'[r].rung = req[r].rung /\ req'[r].pool = req[r].pool
     \/ req'[r].rung \in DOMAIN Ladders[vertical] /\ req'[r].pool = 1

\* Or it goes on to the next pool of its ladder.
GoesOn(r) ==
  /\ req' \in [Request -> Handler]
  /\ \A q \in Request \ {r} : req'[q] = req[q]
  /\ req'[r].rung = req[r].rung
  /\ req'[r].pool = req[r].pool + 1
  /\ req[r].pool + 1 \in DOMAIN Ladders[vertical][req[r].rung]

LEMMA LadderOfHandler ==
  ASSUME TypeOK, NEW r \in Request, Fits(req[r])
  PROVE  /\ vertical \in DOMAIN Ladders
         /\ DOMAIN Ladders[vertical] = 1 .. Len(Ladders[vertical])
         /\ Len(Ladders[vertical]) \in 1 .. 4
         /\ DOMAIN Ladder(r) = 1 .. Len(Ladder(r))
         /\ Len(Ladder(r)) \in 1 .. 3
         /\ PoolOf(r) \in Pool
PROOF
  <1>1. vertical \in DOMAIN Ladders
    BY VerticalsAreKnown DEF TypeOK
  <1> QED BY <1>1, LadderShape DEF Fits, Ladder, PoolOf

LEMMA IdleIsHandler == Idle \in Handler
PROOF BY DEF Idle, Handler, Outcome

LEMMA AnswerMoves ==
  ASSUME TypeOK, NEW r \in Request, Fits(req[r]), Answer(r)
  PROVE  Moves(r) /\ req'[r] = Idle
PROOF
  <1>1. req \in [Request -> Handler]
    BY DEF TypeOK, Handler
  <1>2. 1 \in DOMAIN Ladders[vertical]
    BY LadderOfHandler
  <1> QED BY <1>1, <1>2, IdleIsHandler DEF Answer, Moves, Idle

LEMMA GoMoves ==
  ASSUME TypeOK, NEW r \in Request,
         NEW pc \in {"repeat", "enter", "ask", "take", "undo", "store", "member", "enrol",
                     "number", "issue"},
         Go(r, pc)
  PROVE  Moves(r) /\ req'[r] = [req[r] EXCEPT !.pc = pc]
PROOF
  <1>1. req \in [Request -> Handler]
    BY DEF TypeOK, Handler
  <1>2. [req[r] EXCEPT !.pc = pc] \in Handler
    BY <1>1 DEF Handler
  <1>3. req' = [req EXCEPT ![r] = [req[r] EXCEPT !.pc = pc]]
    BY DEF Go
  <1>4. req'[r] = [req[r] EXCEPT !.pc = pc]
    BY <1>1, <1>3
  <1>5. req'[r].rung = req[r].rung /\ req'[r].pool = req[r].pool
    BY <1>1, <1>4 DEF Handler
  <1> QED BY <1>1, <1>2, <1>3, <1>4, <1>5 DEF Moves

LEMMA LeaveMoves ==
  ASSUME TypeOK, NEW r \in Request, Fits(req[r]), NEW tier \in Outcome, Leave(r, tier)
  PROVE  Moves(r) /\ req'[r].pc # "undo"
PROOF
  <1>1. req \in [Request -> Handler]
    BY DEF TypeOK, Handler
  <1>2. CASE req[r].kind = "join"
    <2> DEFINE u == [req[r] EXCEPT !.pc = "issue", !.tier = tier]
    <2>1. req' = [req EXCEPT ![r] = u]
      BY <1>2 DEF Leave
    <2>2. u \in Handler /\ u.rung = req[r].rung /\ u.pool = req[r].pool /\ u.pc = "issue"
      BY <1>1 DEF Handler
    <2> HIDE DEF u
    <2> QED BY <1>1, <2>1, <2>2 DEF Moves
  <1>3. CASE req[r].kind # "join" /\ req' = [req EXCEPT ![r] = Idle]
    <2>1. Moves(r) /\ req'[r] = Idle
      BY <1>3, AnswerMoves DEF Answer
    <2> QED BY <2>1 DEF Idle
  <1>4. CASE /\ req[r].kind # "join" /\ req[r].rung # Len(Ladders[vertical])
             /\ req' = [req EXCEPT ![r].pc = "ask", ![r].pool = 1, ![r].rung = @ + 1]
    <2> DEFINE u == [req[r] EXCEPT !.pc = "ask", !.pool = 1, !.rung = req[r].rung + 1]
    <2> DEFINE n == Len(Ladders[vertical])
    <2>4. DOMAIN Ladders[vertical] = 1 .. n /\ n \in 1 .. 4
      BY LadderOfHandler
    <2>5. req[r].rung \in 1 .. n /\ req[r].rung # n
      BY <1>4, <2>4 DEF Fits
    <2>1. req[r].rung + 1 \in DOMAIN Ladders[vertical] /\ req[r].rung + 1 \in 1 .. 4
      <3> HIDE DEF n
      <3>1. \A i \in 1 .. n : i # n => i + 1 \in 1 .. n /\ i + 1 \in 1 .. 4
        BY <2>4
      <3> QED BY <3>1, <2>4, <2>5
    <2>2. req' = [req EXCEPT ![r] = u]
      BY <1>1, <1>4 DEF Handler
    <2>3. u \in Handler /\ u.rung = req[r].rung + 1 /\ u.pool = 1 /\ u.pc = "ask"
      <3>1. req[r] \in Handler /\ 1 \in 1 .. 3
        BY <1>1
      <3> QED BY <3>1, <2>1 DEF Handler
    <2> HIDE DEF u
    <2> QED BY <1>1, <2>1, <2>2, <2>3 DEF Moves
  <1> QED BY <1>2, <1>3, <1>4 DEF Leave

LEMMA FallMoves ==
  ASSUME TypeOK, NEW r \in Request, Fits(req[r]), Fall(r)
  PROVE  (Moves(r) \/ GoesOn(r)) /\ req'[r].pc # "undo"
PROOF
  <1>1. req \in [Request -> Handler]
    BY DEF TypeOK, Handler
  <1>2. CASE req[r].pool < Len(Ladder(r))
    <2> DEFINE u == [req[r] EXCEPT !.pc = "take", !.pool = req[r].pool + 1]
    <2>1. req[r].pool + 1 \in DOMAIN Ladders[vertical][req[r].rung] /\ req[r].pool + 1 \in 1 .. 3
      BY <1>1, <1>2, LadderOfHandler DEF Fits, Ladder, Handler
    <2>2. req' = [req EXCEPT ![r] = u]
      BY <1>1, <1>2 DEF Fall, Handler
    <2>3. u \in Handler /\ u.rung = req[r].rung /\ u.pool = req[r].pool + 1 /\ u.pc = "take"
      BY <1>1, <2>1 DEF Handler
    <2> HIDE DEF u
    <2> QED BY <1>1, <2>1, <2>2, <2>3 DEF GoesOn
  <1>3. CASE ~(req[r].pool < Len(Ladder(r))) /\ PoolOf(r) = "general"
    <2> DEFINE u == [req[r] EXCEPT !.pc = "store", !.tier = "exhausted"]
    <2>1. req' = [req EXCEPT ![r] = u]
      BY <1>3 DEF Fall
    <2>2. u \in Handler /\ u.rung = req[r].rung /\ u.pool = req[r].pool /\ u.pc = "store"
      BY <1>1 DEF Handler, Outcome
    <2> HIDE DEF u
    <2> QED BY <1>1, <2>1, <2>2 DEF Moves
  <1>4. CASE ~(req[r].pool < Len(Ladder(r))) /\ PoolOf(r) # "general"
    BY <1>4, LeaveMoves DEF Fall, Outcome
  <1> QED BY <1>2, <1>3, <1>4

------------------------------------------------------------------------------
(* What a step does to the invariant *)

\* Nobody else's pool changes.
LEMMA OthersStay ==
  ASSUME TypeOK, NEW r \in Request, NEW q \in Request \ {r},
         \A s \in Request \ {r} : req'[s] = req[s], vertical' = vertical
  PROVE  PoolOf(q)' = PoolOf(q) /\ (Fits(req[q]) => Fits(req[q])')
PROOF BY DEF PoolOf, Ladder, Fits

\* A handler that is not at its DECR after the step is nobody more to count.
LEMMA UndoingShrinks ==
  ASSUME TypeOK, NEW r \in Request, NEW p \in Pool, req'[r].pc # "undo",
         \A s \in Request \ {r} : req'[s] = req[s], vertical' = vertical
  PROVE  /\ Undoing(p)' \subseteq Undoing(p)
         /\ IsFiniteSet(Undoing(p)) /\ IsFiniteSet(Undoing(p)')
         /\ Cardinality(Undoing(p)) \in Nat /\ Cardinality(Undoing(p)') \in Nat
         /\ Cardinality(Undoing(p)') <= Cardinality(Undoing(p))
PROOF
  <1>1. Undoing(p)' \subseteq Undoing(p)
    BY OthersStay DEF Undoing
  <1>2. IsFiniteSet(Undoing(p))
    BY RequestsFinite, FS_Subset DEF Undoing
  <1>3. IsFiniteSet(Undoing(p)') /\ Cardinality(Undoing(p)') <= Cardinality(Undoing(p))
    BY <1>1, <1>2, FS_Subset
  <1> QED BY <1>1, <1>2, <1>3, FS_CardinalityType

\* A handler that begins a ladder, stays at its pool or passes one that is handed out
\* knows nothing false, and the others know what they knew.
LEMMA MovesKeepSound ==
  ASSUME Stock, NEW r \in Request, UNCHANGED <<vertical, granted>>, req'[r].pc # "undo",
         Moves(r) \/ (GoesOn(r) /\ granted[PoolOf(r)] = Quantity[PoolOf(r)])
  PROVE  \A q \in Request : Sound(req[q])'
PROOF
  <1>0. TypeOK /\ \A q \in Request : Sound(req[q])
    BY DEF Stock
  <1> SUFFICES ASSUME NEW q \in Request PROVE Sound(req[q])'
    OBVIOUS
  <1>1. CASE q # r
    <2>1. req'[q] = req[q]
      BY <1>1 DEF Moves, GoesOn
    <2> QED BY <2>1, <1>0 DEF Sound, Fits, Passed, UndoesLimited
  <1>2. CASE q = r /\ req'[r].rung = req[r].rung /\ req'[r].pool = req[r].pool
    BY <1>2, <1>0 DEF Sound, Fits, Passed, UndoesLimited
  <1>3. CASE q = r /\ req'[r].rung \in DOMAIN Ladders[vertical] /\ req'[r].pool = 1
    <2>1. 1 \in DOMAIN Ladders[vertical][req'[r].rung]
      BY <1>3, <1>0, FirstPool, VerticalsAreKnown DEF TypeOK
    <2>2. \A j \in 1 .. 3 : ~(j < 1)
      OBVIOUS
    <2> QED BY <1>3, <2>1, <2>2 DEF Sound, Fits, Passed, UndoesLimited
  <1>4. CASE q = r /\ GoesOn(r) /\ granted[PoolOf(r)] = Quantity[PoolOf(r)]
    <2>1. req[r].pool \in 1 .. 3
      BY <1>0 DEF TypeOK
    <2>2. ASSUME NEW j \in 1 .. 3, j < req[r].pool + 1
          PROVE  granted[Ladders[vertical][req[r].rung][j]]
                   = Quantity[Ladders[vertical][req[r].rung][j]]
      <3>1. CASE j < req[r].pool
        BY <3>1, <1>0 DEF Sound, Passed
      <3>2. CASE j = req[r].pool
        BY <3>2, <1>4 DEF PoolOf, Ladder
      <3> QED BY <2>1, <2>2, <3>1, <3>2
    <2> QED BY <1>0, <1>4, <2>2 DEF Sound, Fits, Passed, UndoesLimited, GoesOn
  <1> QED BY <1>1, <1>2, <1>3, <1>4 DEF Moves

\* So such a step keeps the invariant when it leaves counters and grants alone.
LEMMA QuietStep ==
  ASSUME Stock, NEW r \in Request, req'[r].pc # "undo", TypeOK',
         UNCHANGED <<vertical, counter, granted>>,
         Moves(r) \/ (GoesOn(r) /\ granted[PoolOf(r)] = Quantity[PoolOf(r)])
  PROVE  Stock'
PROOF
  <1>1. \A q \in Request : Sound(req[q])'
    BY MovesKeepSound
  <1>2. ASSUME NEW p \in Pool PROVE Account(p)'
    <2>1. Undoing(p)' \subseteq Undoing(p)
          /\ Cardinality(Undoing(p)) \in Nat /\ Cardinality(Undoing(p)') \in Nat
          /\ Cardinality(Undoing(p)') <= Cardinality(Undoing(p))
      BY UndoingShrinks DEF Moves, GoesOn, Stock
    <2>2. counter[p] \in Nat /\ Quantity[p] \in Nat
      BY QuantitiesAreNatural DEF TypeOK, Stock
    <2>3. Account(p)
      BY DEF Stock
    <2> QED BY <2>1, <2>2, <2>3 DEF Account
  <1>3. FallsOnlyWhenGone'
    BY DEF Stock, FallsOnlyWhenGone
  <1> QED BY <1>1, <1>2, <1>3 DEF Stock

\* A unit of a limited pool is granted only while some are left.
LEMMA GrantLeavesNone ==
  ASSUME TypeOK, NEW p \in Pool, Account(p), ~Unlimited(p), Grants(p, counter[p] + 1)
  PROVE  /\ granted[p] = counter[p] /\ granted[p] < Quantity[p]
         /\ Undoing(p) = {}
PROOF
  <1>1. counter[p] \in Nat /\ granted[p] \in Nat /\ Quantity[p] \in Nat
    BY QuantitiesAreNatural DEF TypeOK
  <1>2. counter[p] + 1 <= Quantity[p]
    BY DEF Grants
  <1>3. Undoing(p) \subseteq Request
    BY DEF Undoing
  <1>4. Cardinality(Undoing(p)) \in Nat
    BY <1>3, RequestsFinite, FS_Subset, FS_CardinalityType
  <1> QED BY <1>1, <1>2, <1>4 DEF Account

\* TakeUnit with a grant: nobody has passed the pool, so nothing a handler knows is lost.
LEMMA GrantKeeps ==
  ASSUME Stock, NEW r \in Request, Moves(r), req'[r].pc # "undo", TypeOK',
         vertical' = vertical,
         Grants(PoolOf(r), counter[PoolOf(r)] + 1),
         counter' = [counter EXCEPT ![PoolOf(r)] = @ + 1],
         granted' = [granted EXCEPT ![PoolOf(r)] = @ + 1],
         req'[r].rung = req[r].rung \/ req'[r].pool = 1
  PROVE  Stock'
PROOF
  <1> DEFINE p == PoolOf(r)
  <1>0. TypeOK /\ (\A q \in Request : Sound(req[q])) /\ FallsOnlyWhenGone
    BY DEF Stock
  <1>1. p \in Pool /\ Account(p) /\ vertical \in DOMAIN Ladders
    BY <1>0, LadderOfHandler DEF Stock, Sound
  <1>2. ~Unlimited(p) => granted[p] = counter[p] /\ granted[p] < Quantity[p] /\ Undoing(p) = {}
    BY <1>0, <1>1, GrantLeavesNone
  <1>3. counter \in [Pool -> Nat] /\ granted \in [Pool -> Nat] /\ Quantity \in [Pool -> Nat]
    BY <1>0, QuantitiesAreNatural DEF TypeOK
  <1>4. \A o \in Pool \ {p} : granted'[o] = granted[o] /\ counter'[o] = counter[o]
    BY <1>1, <1>3
  <1>5. granted'[p] = granted[p] + 1 /\ counter'[p] = counter[p] + 1
    BY <1>1, <1>3
  <1>6. \A i \in DOMAIN Ladders[vertical] : \A j, k \in DOMAIN Ladders[vertical][i] :
          /\ Ladders[vertical][i][j] \in Pool /\ j \in 1 .. 3
          /\ j < k => ~Unlimited(Ladders[vertical][i][j])
    <2>1. ASSUME NEW i \in DOMAIN Ladders[vertical]
          PROVE  /\ \A j \in DOMAIN Ladders[vertical][i] :
                      Ladders[vertical][i][j] \in Pool /\ j \in 1 .. 3
                 /\ DOMAIN Ladders[vertical][i] \subseteq 1 .. 3
      <3> DEFINE l == Ladders[vertical][i]
      <3>1. DOMAIN l = 1 .. Len(l) /\ Len(l) \in 1 .. 3 /\ \A j \in DOMAIN l : l[j] \in Pool
        BY <1>1, LadderShape
      <3> QED BY <3>1
    <2> QED BY <2>1, <1>1, UpperPoolsAreLimited
  \* What was handed out to the last unit stays so.
  <1>7. \A i \in DOMAIN Ladders[vertical] : \A j, k \in DOMAIN Ladders[vertical][i] :
          (j < k /\ granted[Ladders[vertical][i][j]] = Quantity[Ladders[vertical][i][j]])
            => /\ Ladders[vertical][i][j] # p
               /\ granted'[Ladders[vertical][i][j]] = Quantity[Ladders[vertical][i][j]]
    BY <1>2, <1>3, <1>4, <1>6
  <1>8. ASSUME NEW q \in Request PROVE Sound(req[q])'
    <2>1. CASE req'[q].rung = req[q].rung /\ req'[q].pool = req[q].pool
      <3>1. Fits(req[q])'
        BY <2>1, <1>0 DEF Sound, Fits
      <3>2. ASSUME NEW j \in 1 .. 3, j < req[q].pool
            PROVE  granted'[Ladders[vertical][req[q].rung][j]]
                     = Quantity[Ladders[vertical][req[q].rung][j]]
        <4>1. req[q].rung \in DOMAIN Ladders[vertical]
              /\ req[q].pool \in DOMAIN Ladders[vertical][req[q].rung]
          BY <1>0 DEF Sound, Fits
        <4>2. DOMAIN Ladders[vertical][req[q].rung] = 1 .. Len(Ladders[vertical][req[q].rung])
              /\ Len(Ladders[vertical][req[q].rung]) \in 1 .. 3
          BY <4>1, <1>1, LadderShape
        <4>3. j \in DOMAIN Ladders[vertical][req[q].rung]
          BY <3>2, <4>1, <4>2
        <4>4. granted[Ladders[vertical][req[q].rung][j]]
                = Quantity[Ladders[vertical][req[q].rung][j]]
          BY <3>2, <1>0 DEF Sound, Passed
        <4> QED BY <3>2, <4>1, <4>3, <4>4, <1>7
      <3>3. UndoesLimited(req[q])'
        <4>1. CASE q = r
          BY <4>1 DEF UndoesLimited
        <4>2. CASE q # r
          <5>1. req'[q] = req[q]
            BY <4>2 DEF Moves
          <5> QED BY <5>1, <1>0 DEF Sound, UndoesLimited
        <4> QED BY <4>1, <4>2
      <3>4. Passed(req[q])'
        BY <3>2, <2>1 DEF Passed
      <3> QED BY <3>1, <3>3, <3>4 DEF Sound
    <2>2. CASE q = r /\ req'[r].rung \in DOMAIN Ladders[vertical] /\ req'[r].pool = 1
      <3>1. 1 \in DOMAIN Ladders[vertical][req'[r].rung]
        BY <2>2, <1>1, FirstPool
      <3>2. \A j \in 1 .. 3 : ~(j < 1)
        OBVIOUS
      <3> QED BY <2>2, <3>1, <3>2 DEF Sound, Fits, Passed, UndoesLimited
    <2>3. CASE q # r
      <3>1. req'[q] = req[q]
        BY <2>3 DEF Moves
      <3> QED BY <3>1, <2>1
    <2> QED BY <2>1, <2>2, <2>3 DEF Moves
  <1>9. ASSUME NEW o \in Pool PROVE Account(o)'
    <2>1. Undoing(o)' \subseteq Undoing(o)
          /\ Cardinality(Undoing(o)) \in Nat /\ Cardinality(Undoing(o)') \in Nat
          /\ Cardinality(Undoing(o)') <= Cardinality(Undoing(o))
      BY <1>0, UndoingShrinks DEF Moves
    <2>2. CASE o = p
      <3>1. Unlimited(p) \/ (/\ granted'[p] = counter'[p] /\ granted'[p] <= Quantity[p]
                             /\ Undoing(o)' = {})
        BY <1>1, <1>2, <1>3, <1>5, <2>1, <2>2
      <3> QED BY <3>1, <2>2 DEF Account
    <2>3. CASE o # p
      <3>1. counter[o] \in Nat /\ Quantity[o] \in Nat
        BY <1>3
      <3>2. granted'[o] = granted[o] /\ counter'[o] = counter[o]
        BY <2>3, <1>4
      <3>3. Account(o)
        BY DEF Stock
      <3> QED BY <2>1, <3>1, <3>2, <3>3 DEF Account
    <2> QED BY <2>2, <2>3
  <1>10. FallsOnlyWhenGone'
    <2> SUFFICES ASSUME NEW i \in DOMAIN Ladders[vertical],
                        NEW j \in DOMAIN Ladders[vertical][i],
                        NEW k \in DOMAIN Ladders[vertical][i],
                        j < k, granted'[Ladders[vertical][i][k]] > 0
                 PROVE  granted'[Ladders[vertical][i][j]] = Quantity[Ladders[vertical][i][j]]
      BY DEF FallsOnlyWhenGone
    <2>1. CASE Ladders[vertical][i][k] = p
      <3>1. i = req[r].rung /\ k = req[r].pool
        <4>1. req[r].rung \in DOMAIN Ladders[vertical]
              /\ req[r].pool \in DOMAIN Ladders[vertical][req[r].rung]
          BY <1>0 DEF Sound, Fits
        <4>2. Ladders[vertical][i][k] = Ladders[vertical][req[r].rung][req[r].pool]
          BY <2>1 DEF PoolOf, Ladder
        <4> QED BY <4>1, <4>2, <1>1, PoolsAreDistinct
      <3>2. granted[Ladders[vertical][i][j]] = Quantity[Ladders[vertical][i][j]]
        BY <3>1, <1>0, <1>6 DEF Sound, Passed
      <3> QED BY <3>2, <1>7
    <2>2. CASE Ladders[vertical][i][k] # p
      <3>1. granted[Ladders[vertical][i][k]] > 0
        BY <2>2, <1>4, <1>6
      <3>2. granted[Ladders[vertical][i][j]] = Quantity[Ladders[vertical][i][j]]
        BY <3>1, <1>0 DEF FallsOnlyWhenGone
      <3> QED BY <3>2, <1>7
    <2> QED BY <2>1, <2>2
  <1> QED BY <1>8, <1>9, <1>10 DEF Stock

\* TakeUnit without a grant: one handler more has a unit to give back.
LEMMA RefusalKeeps ==
  ASSUME Stock, NEW r \in Request, Moves(r), TypeOK', vertical' = vertical,
         req[r].pc # "undo", req'[r] = [req[r] EXCEPT !.pc = "undo"],
         ~Grants(PoolOf(r), counter[PoolOf(r)] + 1),
         counter' = [counter EXCEPT ![PoolOf(r)] = @ + 1], granted' = granted
  PROVE  Stock'
PROOF
  <1>0. TypeOK /\ (\A q \in Request : Sound(req[q])) /\ FallsOnlyWhenGone
    BY DEF Stock
  <1>1. PICK p \in Pool : p = PoolOf(r)
    BY <1>0, LadderOfHandler DEF Sound
  <1>2. p \in Pool /\ Account(p) /\ ~Unlimited(p) /\ ~Grants(p, counter[p] + 1)
    BY <1>1 DEF Stock, Grants
  <1>3. counter \in [Pool -> Nat] /\ granted \in [Pool -> Nat] /\ Quantity \in [Pool -> Nat]
    BY <1>0, QuantitiesAreNatural DEF TypeOK
  <1>4. req'[r].pc = "undo" /\ req'[r].rung = req[r].rung /\ req'[r].pool = req[r].pool
    BY <1>0 DEF TypeOK
  <1>5. p = PoolOf(r)'
    BY <1>4, <1>1 DEF PoolOf, Ladder
  <1>6. ASSUME NEW q \in Request PROVE Sound(req[q])'
    <2>1. CASE q = r
      BY <2>1, <1>0, <1>2, <1>4, <1>1 DEF Sound, Fits, Passed, UndoesLimited, PoolOf, Ladder
    <2>2. CASE q # r
      <3>1. req'[q] = req[q]
        BY <2>2 DEF Moves
      <3> QED BY <3>1, <1>0 DEF Sound, Fits, Passed, UndoesLimited
    <2> QED BY <2>1, <2>2
  <1>7. ASSUME NEW o \in Pool PROVE Account(o)'
    <2>1. IsFiniteSet(Undoing(o)) /\ Cardinality(Undoing(o)) \in Nat
      BY RequestsFinite, FS_Subset, FS_CardinalityType DEF Undoing
    <2>2. CASE o = p
      <3>1. Undoing(p)' = Undoing(p) \cup {r} /\ r \notin Undoing(p)
        <4>1. ASSUME NEW q \in Request
              PROVE  q \in Undoing(p)' <=> (q \in Undoing(p) \/ q = r)
          BY <1>0, <1>4, <1>5, OthersStay DEF Undoing, Moves
        <4>2. r \notin Undoing(p)
          BY DEF Undoing
        <4> QED BY <4>1, <4>2 DEF Undoing
      <3>2. Cardinality(Undoing(p)') = Cardinality(Undoing(p)) + 1
        BY <2>1, <2>2, <3>1, FS_AddElement
      <3>3. counter'[p] = counter[p] + 1 /\ counter[p] \in Nat /\ Quantity[p] \in Nat
        BY <1>2, <1>3, <1>1
      <3>4. counter[p] + 1 > Quantity[p]
        BY <1>2, <3>3 DEF Grants
      <3>5. CASE granted[p] = counter[p] /\ granted[p] <= Quantity[p] /\ Undoing(p) = {}
        <4>1. Cardinality(Undoing(p)) = 0
          BY <3>5, FS_EmptySet
        <4> QED BY <2>2, <3>2, <3>3, <3>4, <3>5, <4>1 DEF Account
      <3>6. CASE granted[p] = Quantity[p] /\ counter[p] >= Quantity[p] + Cardinality(Undoing(p))
        BY <2>1, <2>2, <3>2, <3>3, <3>6 DEF Account
      <3> QED BY <1>2, <3>5, <3>6 DEF Account
    <2>3. CASE o # p
      <3>1. Undoing(o)' = Undoing(o)
        <4>1. ASSUME NEW q \in Request
              PROVE  q \in Undoing(o)' <=> q \in Undoing(o)
          BY <1>0, <1>4, <1>5, <2>3, OthersStay DEF Undoing, Moves
        <4> QED BY <4>1 DEF Undoing
      <3>2. counter'[o] = counter[o]
        BY <2>3, <1>3, <1>1
      <3>3. Account(o)
        BY DEF Stock
      <3> QED BY <3>1, <3>2, <3>3 DEF Account
    <2> QED BY <2>2, <2>3
  <1>8. FallsOnlyWhenGone'
    BY <1>0 DEF FallsOnlyWhenGone
  <1> QED BY <1>6, <1>7, <1>8 DEF Stock

\* Who gives back stands at a pool that is handed out, below its counter.
LEMMA GiversAreCounted ==
  ASSUME Stock, NEW r \in Request, req[r].pc = "undo"
  PROVE  /\ PoolOf(r) \in Pool
         /\ IsFiniteSet(Undoing(PoolOf(r))) /\ r \in Undoing(PoolOf(r))
         /\ granted[PoolOf(r)] = Quantity[PoolOf(r)]
         /\ counter[PoolOf(r)] \in Nat
         /\ counter[PoolOf(r)] >= Quantity[PoolOf(r)] + Cardinality(Undoing(PoolOf(r)))
         /\ Cardinality(Undoing(PoolOf(r))) \in Nat \ {0}
PROOF
  <1> DEFINE p == PoolOf(r)
  <1>1. p \in Pool /\ ~Unlimited(p)
    BY LadderOfHandler DEF Stock, Sound, UndoesLimited, PoolOf, Ladder
  <1>2. IsFiniteSet(Undoing(p)) /\ r \in Undoing(p)
    BY RequestsFinite, FS_Subset DEF Undoing
  <1>3. Cardinality(Undoing(p)) \in Nat \ {0}
    BY <1>2, FS_CardinalityType, FS_EmptySet
  <1>4. Account(p) /\ counter[p] \in Nat
    BY <1>1 DEF Stock, TypeOK
  <1> QED BY <1>1, <1>2, <1>3, <1>4 DEF Account

\* GiveBack: the unit that exceeded the quantity is off the counter, the handler off the list.
LEMMA GiveBackKeeps ==
  ASSUME Stock, NEW r \in Request, Moves(r) \/ GoesOn(r), TypeOK',
         UNCHANGED <<vertical, granted>>, req[r].pc = "undo", req'[r].pc # "undo",
         counter' = [counter EXCEPT ![PoolOf(r)] = @ - 1]
  PROVE  Stock'
PROOF
  <1>0. TypeOK
    BY DEF Stock
  <1>1. PICK p \in Pool : p = PoolOf(r)
    BY GiversAreCounted
  <1>2. /\ IsFiniteSet(Undoing(p)) /\ r \in Undoing(p)
        /\ granted[p] = Quantity[p] /\ counter[p] \in Nat /\ Quantity[p] \in Nat
        /\ counter[p] >= Quantity[p] + Cardinality(Undoing(p))
        /\ Cardinality(Undoing(p)) \in Nat \ {0}
    BY <1>1, GiversAreCounted, QuantitiesAreNatural
  <1>3. \A q \in Request : Sound(req[q])'
    BY <1>1, <1>2, MovesKeepSound
  <1>4. counter \in [Pool -> Nat]
    BY <1>0 DEF TypeOK
  <1>5. ASSUME NEW o \in Pool PROVE Account(o)'
    <2>1. Undoing(o)' \subseteq Undoing(o)
          /\ Cardinality(Undoing(o)) \in Nat /\ Cardinality(Undoing(o)') \in Nat
          /\ Cardinality(Undoing(o)') <= Cardinality(Undoing(o))
      BY <1>0, UndoingShrinks DEF Moves, GoesOn
    <2>2. CASE o = p
      <3>1. Undoing(p)' \subseteq Undoing(p) \ {r}
        BY <2>1, <2>2 DEF Undoing
      <3>2. /\ IsFiniteSet(Undoing(p) \ {r})
            /\ Cardinality(Undoing(p) \ {r}) = Cardinality(Undoing(p)) - 1
        BY <1>2, FS_RemoveElement
      <3>3. Cardinality(Undoing(p)') <= Cardinality(Undoing(p)) - 1
        BY <3>1, <3>2, FS_Subset
      <3>4. counter'[p] = counter[p] - 1
        BY <1>1, <1>4
      <3>5. counter'[p] >= Quantity[p] + Cardinality(Undoing(p)')
        BY <1>2, <2>1, <2>2, <3>3, <3>4
      <3> QED BY <1>2, <2>2, <3>5 DEF Account
    <2>3. CASE o # p
      <3>1. counter'[o] = counter[o] /\ counter[o] \in Nat /\ Quantity[o] \in Nat
        BY <1>1, <1>4, <2>3, QuantitiesAreNatural
      <3>2. Account(o)
        BY DEF Stock
      <3> QED BY <2>1, <3>1, <3>2 DEF Account
    <2> QED BY <2>2, <2>3
  <1>6. FallsOnlyWhenGone'
    BY DEF Stock, FallsOnlyWhenGone
  <1> QED BY <1>3, <1>5, <1>6 DEF Stock

------------------------------------------------------------------------------
(* The initial state and the steps *)

\* What a request brought stays with its handler.
LEMMA NamesStay ==
  ASSUME Stock, RequestsAreNamed, Next
  PROVE  RequestsAreNamed'
PROOF
  <1>0. req \in [Request -> Handler]
    BY DEF Stock, TypeOK, Handler
  <1>1. CASE WindowMoves
    BY <1>1 DEF WindowMoves, RequestsAreNamed, Named
  <1>2. ASSUME NEW r \in Request, NEW s \in Scan, ScanArrives(r, s) PROVE RequestsAreNamed'
    BY <1>0, <1>2 DEF ScanArrives, RequestsAreNamed, Named, Idle
  <1>3. ASSUME NEW r \in Request, NEW ph \in Phone, NEW s \in Scan \cup {None}, JoinArrives(r, ph, s)
        PROVE  RequestsAreNamed'
    BY <1>0, <1>3 DEF JoinArrives, RequestsAreNamed, Named, Idle
  <1>4. ASSUME NEW r \in Request, Handle(r) \/ Abort(r) \/ XtraFails(r) PROVE RequestsAreNamed'
    <2>1. vertical' = vertical
      BY <1>4 DEF Handle, CheckRepeat, EnterScan, AskStored, SkipUncounted, TakeUnit, GiveBack,
                  StoreOutcome, CheckMember, Enrol, NumberCertificate, IssueCertificate, Abort,
                  XtraFails
    <2>2. Named(req[r])
      BY DEF RequestsAreNamed
    <2>3. ASSUME NEW tier, Leave(r, tier), ~At(r, "idle") PROVE RequestsAreNamed'
      BY <1>0, <2>1, <2>2, <2>3 DEF Leave, At, RequestsAreNamed, Named, Idle
    <2>4. ASSUME Fall(r), ~At(r, "idle"), ~At(r, "member"), ~At(r, "enrol") PROVE RequestsAreNamed'
      <3>1. CASE req' = [req EXCEPT ![r].pc = "take", ![r].pool = @ + 1]
        BY <1>0, <2>1, <2>2, <2>4, <3>1 DEF At, RequestsAreNamed, Named
      <3>2. CASE req' = [req EXCEPT ![r].pc = "store", ![r].tier = "exhausted"]
        BY <1>0, <2>1, <2>2, <2>4, <3>2 DEF At, RequestsAreNamed, Named
      <3>3. CASE Leave(r, None)
        BY <2>3, <2>4, <3>3
      <3> QED BY <2>4, <3>1, <3>2, <3>3 DEF Fall
    <2>5. CASE Answer(r)
      BY <1>0, <2>1, <2>5 DEF Answer, RequestsAreNamed, Named, Idle
    <2>6. ASSUME NEW pc \in {"ask", "take", "undo"}, Go(r, pc), ~At(r, "idle")
          PROVE  RequestsAreNamed'
      BY <1>0, <2>1, <2>2, <2>6 DEF Go, At, RequestsAreNamed, Named
    <2>7. CASE CheckRepeat(r) \/ EnterScan(r) \/ AskStored(r)
      <3>1. ~At(r, "idle")
        BY <2>7 DEF CheckRepeat, EnterScan, AskStored, At
      <3>2. \/ Answer(r) \/ (At(r, "repeat") /\ Go(r, "enter"))
            \/ Go(r, "ask") \/ Go(r, "take") \/ Leave(r, stored[KeyOf(r)])
        BY <2>7 DEF CheckRepeat, EnterScan, AskStored
      <3>3. ASSUME At(r, "repeat"), Go(r, "enter") PROVE RequestsAreNamed'
        BY <1>0, <2>1, <2>2, <3>3 DEF Go, At, RequestsAreNamed, Named
      <3> QED BY <2>3, <2>5, <2>6, <3>1, <3>2, <3>3
    <2>8. CASE SkipUncounted(r) \/ GiveBack(r)
      BY <2>4, <2>8 DEF SkipUncounted, GiveBack, At
    <2>9. CASE TakeUnit(r)
      <3>1. ASSUME NEW p, req' = [req EXCEPT ![r].pc = "store", ![r].tier = p]
            PROVE  RequestsAreNamed'
        BY <1>0, <2>1, <2>2, <2>9, <3>1 DEF TakeUnit, At, RequestsAreNamed, Named
      <3> QED BY <2>3, <2>6, <2>9, <3>1 DEF TakeUnit, At
    <2>10. CASE StoreOutcome(r)
      BY <2>3, <2>10 DEF StoreOutcome, At
    <2>11. CASE CheckMember(r) \/ Enrol(r)
      <3>1. req[r].kind = "join"
        BY <2>2, <2>11 DEF CheckMember, Enrol, At, Named
      <3>2. ASSUME NEW pc \in {"enrol", "number"}, Go(r, pc) PROVE RequestsAreNamed'
        BY <1>0, <2>1, <2>2, <3>1, <3>2 DEF Go, RequestsAreNamed, Named
      <3> QED BY <2>5, <2>11, <3>2 DEF CheckMember, Enrol
    <2>12. CASE NumberCertificate(r)
      BY <1>0, <2>1, <2>2, <2>12 DEF NumberCertificate, At, RequestsAreNamed, Named
    <2>13. CASE IssueCertificate(r) \/ Abort(r)
      BY <2>5, <2>13 DEF IssueCertificate, Abort
    <2>14. CASE XtraFails(r)
      BY <1>0, <2>1, <2>2, <2>14 DEF XtraFails, RequestsAreNamed, Named
    <2> QED BY <1>4, <2>7, <2>8, <2>9, <2>10, <2>11, <2>12, <2>13, <2>14 DEF Handle
  <1> QED BY <1>1, <1>2, <1>3, <1>4 DEF Next

LEMMA InitStock == Init => Stock
PROOF
  <1> SUFFICES ASSUME Init PROVE Stock
    OBVIOUS
  <1>1. vertical \in DOMAIN Ladders
    BY VerticalsAreKnown DEF Init
  <1>2. 1 \in DOMAIN Ladders[vertical]
    <2>1. PICK n \in 1 .. 4 : DOMAIN Ladders[vertical] = 1 .. n
      BY <1>1, LadderShape
    <2> QED BY <2>1
  <1>3. TypeOK
    BY IdleIsHandler DEF Init, TypeOK, Handler, Outcome
  <1>4. ASSUME NEW r \in Request PROVE Sound(req[r])
    <2>1. req[r].rung = 1 /\ req[r].pool = 1 /\ req[r].pc = "idle"
      BY DEF Init, Idle
    <2>2. \A j \in 1 .. 3 : ~(j < 1)
      OBVIOUS
    <2> QED BY <1>1, <1>2, <2>1, <2>2, FirstPool DEF Sound, Fits, Passed, UndoesLimited
  <1>5. ASSUME NEW p \in Pool PROVE Account(p)
    <2>1. Undoing(p) = {}
      BY DEF Undoing, Init, Idle
    <2>2. granted[p] = 0 /\ counter[p] = 0 /\ Quantity[p] \in Nat
      BY QuantitiesAreNatural DEF Init
    <2> QED BY <2>1, <2>2 DEF Account
  <1>6. FallsOnlyWhenGone
    <2> SUFFICES ASSUME NEW i \in DOMAIN Ladders[vertical],
                        NEW k \in DOMAIN Ladders[vertical][i]
                 PROVE  ~(granted[Ladders[vertical][i][k]] > 0)
      BY DEF FallsOnlyWhenGone
    <2>1. Ladders[vertical][i][k] \in Pool
      BY <1>1, LadderShape
    <2> QED BY <2>1 DEF Init
  <1> QED BY <1>3, <1>4, <1>5, <1>6 DEF Stock

\* A request that arrives stands at the first pool of the first ladder.
LEMMA ArrivalMoves ==
  ASSUME TypeOK, NEW r \in Request, Fits(req[r]), NEW u \in Handler,
         u.rung = 1, u.pool = 1, req' = [req EXCEPT ![r] = u]
  PROVE  Moves(r) /\ req'[r] = u
PROOF
  <1>1. req \in [Request -> Handler]
    BY DEF TypeOK, Handler
  <1>2. 1 \in DOMAIN Ladders[vertical]
    BY LadderOfHandler
  <1> QED BY <1>1, <1>2 DEF Moves

\* The steps that neither take nor give back a unit.
LEMMA ArrivalKeeps ==
  ASSUME Stock, NEW r \in Request,
         \/ \E s \in Scan : ScanArrives(r, s)
         \/ \E ph \in Phone, s \in Scan \cup {None} : JoinArrives(r, ph, s)
  PROVE  Stock'
PROOF
  <1>0. TypeOK /\ Fits(req[r])
    BY DEF Stock, Sound
  <1>1. ASSUME NEW s \in Scan, ScanArrives(r, s) PROVE Stock'
    <2> DEFINE u == [Idle EXCEPT !.pc = IF vertical = "codepod" THEN "repeat" ELSE "enter",
                                 !.scan = s]
    <2>1. u \in Handler /\ u.rung = 1 /\ u.pool = 1 /\ u.pc # "undo"
      BY IdleIsHandler DEF Idle, Handler
    <2>2. req' = [req EXCEPT ![r] = u]
      BY <1>1 DEF ScanArrives
    <2> HIDE DEF u
    <2>3. Moves(r) /\ req'[r] = u
      BY <1>0, <2>1, <2>2, ArrivalMoves
    <2>4. TypeOK'
      <3>1. arrived' \in Nat
        <4>1. arrived \in Nat
          BY <1>0 DEF TypeOK
        <4>2. arrived' = arrived + 1
          BY <1>1 DEF ScanArrives
        <4> QED BY <4>1, <4>2
      <3>2. troubled' \subseteq Scan
        BY <1>0, <1>1 DEF TypeOK, ScanArrives
      <3> QED BY <1>0, <1>1, <2>3, <3>1, <3>2 DEF TypeOK, ScanArrives, shop, circle, Moves, Handler
    <2> QED BY <1>1, <2>1, <2>3, <2>4, QuietStep DEF ScanArrives, shop
  <1>2. ASSUME NEW ph \in Phone, NEW s \in Scan \cup {None}, JoinArrives(r, ph, s) PROVE Stock'
    <2> DEFINE u == [Idle EXCEPT !.pc = "member", !.kind = "join", !.phone = ph, !.scan = s]
    <2>1. u \in Handler /\ u.rung = 1 /\ u.pool = 1 /\ u.pc # "undo"
      BY IdleIsHandler DEF Idle, Handler
    <2>2. req' = [req EXCEPT ![r] = u]
      BY <1>2 DEF JoinArrives
    <2> HIDE DEF u
    <2>3. Moves(r) /\ req'[r] = u
      BY <1>0, <2>1, <2>2, ArrivalMoves
    <2>4. TypeOK'
      <3>1. arrived' \in Nat
        <4>1. arrived \in Nat
          BY <1>0 DEF TypeOK
        <4>2. arrived' = arrived + 1
          BY <1>2 DEF JoinArrives
        <4> QED BY <4>1, <4>2
      <3> QED BY <1>0, <1>2, <2>3, <3>1 DEF TypeOK, JoinArrives, shop, circle, Moves, Handler
    <2> QED BY <1>2, <2>1, <2>3, <2>4, QuietStep DEF JoinArrives, shop
  <1> QED BY <1>1, <1>2

\* Where an answer or a new program counter is all a handler gets.
LEMMA PlainStep ==
  ASSUME TypeOK, NEW r \in Request, Fits(req[r]),
         \/ Answer(r)
         \/ Go(r, "enter") \/ Go(r, "ask") \/ Go(r, "take")
         \/ Go(r, "enrol") \/ Go(r, "number")
  PROVE  Moves(r) /\ req'[r].pc # "undo"
PROOF
  <1>1. req[r] \in Handler
    BY DEF TypeOK, Handler
  <1>2. ASSUME NEW pc \in {"enter", "ask", "take", "enrol", "number"}, Go(r, pc)
        PROVE  Moves(r) /\ req'[r].pc # "undo"
    BY <1>1, <1>2, GoMoves DEF Handler
  <1>3. CASE Answer(r)
    BY <1>3, AnswerMoves DEF Idle
  <1> QED BY <1>2, <1>3

LEMMA HandlingKeeps ==
  ASSUME Stock, RequestsAreNamed, NEW r \in Request,
         \/ CheckRepeat(r) \/ EnterScan(r) \/ AskStored(r) \/ StoreOutcome(r)
         \/ CheckMember(r) \/ Enrol(r) \/ NumberCertificate(r) \/ IssueCertificate(r)
         \/ Abort(r) \/ XtraFails(r)
  PROVE  Stock'
PROOF
  <1>0. TypeOK /\ Fits(req[r])
    BY DEF Stock, Sound
  <1>11. req \in [Request -> Handler] /\ req[r] \in Handler
    BY <1>0 DEF TypeOK, Handler
  <1>12. Named(req[r])
    BY DEF RequestsAreNamed
  <1>1. CASE CheckRepeat(r)
    <2>1. Moves(r) /\ req'[r].pc # "undo"
      BY <1>0, <1>1, PlainStep DEF CheckRepeat
    <2>2. TypeOK'
      BY <1>0, <1>1, <2>1 DEF TypeOK, CheckRepeat, shop, circle, Moves, Handler
    <2> QED BY <1>1, <2>1, <2>2, QuietStep DEF CheckRepeat, shop
  <1>2. CASE EnterScan(r)
    <2>1. Moves(r) /\ req'[r].pc # "undo"
      BY <1>0, <1>2, PlainStep DEF EnterScan
    <2>2. TypeOK'
      <3>1. seen' \subseteq Scan
        BY <1>0, <1>2, <1>12 DEF TypeOK, EnterScan, At, Named
      <3> QED BY <1>0, <1>2, <2>1, <3>1 DEF TypeOK, EnterScan, shop, circle, Moves, Handler
    <2> QED BY <1>2, <2>1, <2>2, QuietStep DEF EnterScan, shop
  <1>3. CASE AskStored(r)
    <2>1. ASSUME req[r].scan # None, stored[KeyOf(r)] # None
          PROVE  Moves(r) /\ req'[r].pc # "undo"
      <3>1. KeyOf(r) \in Key
        BY <1>11, <2>1 DEF KeyOf, Key, Handler
      <3>2. stored[KeyOf(r)] \in Outcome
        BY <1>0, <3>1 DEF TypeOK
      <3> QED BY <1>0, <1>3, <2>1, <3>2, LeaveMoves DEF AskStored
    <2>2. ASSUME ~(req[r].scan # None /\ stored[KeyOf(r)] # None)
          PROVE  Moves(r) /\ req'[r].pc # "undo"
      BY <1>0, <1>3, <2>2, PlainStep DEF AskStored
    <2>4. Moves(r) /\ req'[r].pc # "undo"
      BY <2>1, <2>2
    <2>5. TypeOK'
      BY <1>0, <1>3, <2>4 DEF TypeOK, AskStored, shop, circle, Moves, Handler
    <2> QED BY <1>3, <2>4, <2>5, QuietStep DEF AskStored, shop
  <1>4. CASE StoreOutcome(r)
    <2>1. Moves(r) /\ req'[r].pc # "undo"
      BY <1>0, <1>11, <1>4, LeaveMoves DEF StoreOutcome, Handler
    <2>2. TypeOK'
      BY <1>0, <1>11, <1>4, <2>1 DEF TypeOK, StoreOutcome, circle, Moves, Handler
    <2> QED BY <1>4, <2>1, <2>2, QuietStep DEF StoreOutcome
  <1>5. CASE CheckMember(r)
    <2>1. Moves(r) /\ req'[r].pc # "undo"
      BY <1>0, <1>5, PlainStep DEF CheckMember
    <2>2. TypeOK'
      BY <1>0, <1>5, <2>1 DEF TypeOK, CheckMember, shop, circle, Moves, Handler
    <2> QED BY <1>5, <2>1, <2>2, QuietStep DEF CheckMember, shop
  <1>6. CASE Enrol(r)
    <2>1. Moves(r) /\ req'[r].pc # "undo"
      BY <1>0, <1>6, PlainStep DEF Enrol
    <2>2. TypeOK'
      <3>1. members' \subseteq Phone
        BY <1>0, <1>6, <1>12 DEF TypeOK, Enrol, At, Named
      <3> QED BY <1>0, <1>6, <2>1, <3>1 DEF TypeOK, Enrol, shop, Moves, Handler
    <2> QED BY <1>6, <2>1, <2>2, QuietStep DEF Enrol, shop
  <1>7. CASE NumberCertificate(r)
    <2> DEFINE u == [req[r] EXCEPT !.pc = "ask", !.no = joins + 1]
    <2>1. u \in Handler /\ u.rung = req[r].rung /\ u.pool = req[r].pool /\ u.pc = "ask"
      <3>1. joins + 1 \in Nat
        BY <1>0 DEF TypeOK
      <3> QED BY <1>11, <3>1 DEF Handler
    <2>2. req' = [req EXCEPT ![r] = u]
      BY <1>7 DEF NumberCertificate
    <2> HIDE DEF u
    <2>3. Moves(r) /\ req'[r].pc # "undo"
      BY <1>11, <2>1, <2>2 DEF Moves
    <2>4. TypeOK'
      BY <1>0, <1>7, <2>3 DEF TypeOK, NumberCertificate, shop, Moves, Handler
    <2> QED BY <1>7, <2>3, <2>4, QuietStep DEF NumberCertificate, shop
  <1>8. CASE IssueCertificate(r)
    <2>1. Moves(r) /\ req'[r].pc # "undo"
      BY <1>0, <1>8, PlainStep DEF IssueCertificate
    <2>2. TypeOK'
      BY <1>0, <1>8, <2>1 DEF TypeOK, IssueCertificate, shop, Moves, Handler
    <2> QED BY <1>8, <2>1, <2>2, QuietStep DEF IssueCertificate, shop
  <1>9. CASE Abort(r)
    <2>1. Moves(r) /\ req'[r].pc # "undo"
      BY <1>0, <1>9, PlainStep DEF Abort
    <2>2. TypeOK'
      <3>1. troubled' \subseteq Scan
        BY <1>0, <1>9, <1>12 DEF TypeOK, Abort, At, Named
      <3>2. lost' \subseteq Phone \cup {None}
        BY <1>0, <1>11, <1>9 DEF TypeOK, Abort, Handler
      <3> QED BY <1>0, <1>9, <2>1, <3>1, <3>2 DEF TypeOK, Abort, shop, circle, Moves, Handler
    <2> QED BY <1>9, <2>1, <2>2, QuietStep DEF Abort, shop
  <1>10. CASE XtraFails(r)
    <2> DEFINE u == [req[r] EXCEPT !.pc = "ask", !.rung = 2, !.pool = 1, !.tier = None]
    <2>1. u \in Handler /\ u.rung = 2 /\ u.pool = 1 /\ u.pc = "ask"
      <3>1. 2 \in 1 .. 4 /\ 1 \in 1 .. 3 /\ None \in Outcome
        BY DEF Outcome
      <3> QED BY <1>11, <3>1 DEF Handler
    <2>2. req' = [req EXCEPT ![r] = u]
      BY <1>10 DEF XtraFails
    <2>3. 2 \in DOMAIN Ladders[vertical]
      BY <1>10 DEF XtraFails, Ladders
    <2> HIDE DEF u
    <2>4. Moves(r) /\ req'[r].pc # "undo"
      BY <1>11, <2>1, <2>2, <2>3 DEF Moves
    <2>5. TypeOK'
      <3>1. troubled' \subseteq Scan
        <4>1. req[r].kind = "scan"
          BY <1>10, <1>11, <1>12 DEF XtraFails, Named, Handler
        <4> QED BY <1>0, <1>10, <1>12, <4>1 DEF TypeOK, XtraFails, Named
      <3> QED BY <1>0, <1>10, <2>4, <3>1 DEF TypeOK, XtraFails, shop, circle, Moves, Handler
    <2> QED BY <1>10, <2>4, <2>5, QuietStep DEF XtraFails, shop
  <1> QED BY <1>1, <1>2, <1>3, <1>4, <1>5, <1>6, <1>7, <1>8, <1>9, <1>10

LEMMA UnitsKeep ==
  ASSUME Stock, NEW r \in Request, SkipUncounted(r) \/ TakeUnit(r) \/ GiveBack(r)
  PROVE  Stock'
PROOF
  <1>0. TypeOK /\ Fits(req[r]) /\ Sound(req[r])
    BY DEF Stock, Sound
  <1>1. req \in [Request -> Handler] /\ req[r] \in Handler
    BY <1>0 DEF TypeOK, Handler
  <1>2. PICK p \in Pool : p = PoolOf(r)
    BY <1>0, LadderOfHandler
  <1>3. Account(p) /\ counter[p] \in Nat /\ granted[p] \in Nat /\ Quantity[p] \in Nat
    BY QuantitiesAreNatural DEF Stock, TypeOK
  <1>4. CASE SkipUncounted(r)
    <2>1. (Moves(r) \/ GoesOn(r)) /\ req'[r].pc # "undo"
      BY <1>0, <1>4, FallMoves DEF SkipUncounted
    <2>2. TypeOK'
      BY <1>0, <1>4, <2>1 DEF TypeOK, SkipUncounted, shop, circle, Moves, GoesOn, Handler
    <2>3. Quantity[p] = 0 /\ ~Unlimited(p)
      BY <1>2, <1>4 DEF SkipUncounted, Uncounted, Unlimited
    <2>4. granted[p] = Quantity[p]
      BY <1>3, <2>3 DEF Account
    <2> QED BY <1>2, <1>4, <2>1, <2>2, <2>4, QuietStep DEF SkipUncounted, shop
  <1>5. CASE GiveBack(r)
    <2>1. (Moves(r) \/ GoesOn(r)) /\ req'[r].pc # "undo"
      BY <1>0, <1>5, FallMoves DEF GiveBack
    <2>2. counter' \in [Pool -> Nat]
      <3>1. counter[p] - 1 \in Nat
        BY <1>2, <1>5, GiversAreCounted, QuantitiesAreNatural DEF GiveBack, At
      <3>2. counter' = [counter EXCEPT ![p] = counter[p] - 1]
        BY <1>2, <1>5 DEF GiveBack
      <3> QED BY <1>0, <3>1, <3>2 DEF TypeOK
    <2>3. TypeOK'
      BY <1>0, <1>5, <2>1, <2>2 DEF TypeOK, GiveBack, circle, Moves, GoesOn, Handler
    <2> QED BY <1>5, <2>1, <2>3, GiveBackKeeps DEF GiveBack, At
  <1>6. CASE TakeUnit(r)
    <2>1. counter' = [counter EXCEPT ![p] = counter[p] + 1] /\ counter' \in [Pool -> Nat]
      <3>1. counter' = [counter EXCEPT ![p] = counter[p] + 1]
        BY <1>2, <1>6 DEF TakeUnit
      <3>2. counter[p] + 1 \in Nat /\ counter \in [Pool -> Nat]
        BY <1>0, <1>3 DEF TypeOK
      <3> QED BY <3>1, <3>2
    <2>2. CASE Grants(p, counter[p] + 1)
      <3>1. granted' = [granted EXCEPT ![p] = granted[p] + 1] /\ granted' \in [Pool -> Nat]
        <4>1. granted' = [granted EXCEPT ![p] = granted[p] + 1]
          BY <1>2, <1>6, <2>2 DEF TakeUnit
        <4>2. granted[p] + 1 \in Nat /\ granted \in [Pool -> Nat]
          BY <1>0, <1>3 DEF TypeOK
        <4> QED BY <4>1, <4>2
      <3>2. Moves(r) /\ req'[r].pc # "undo" /\ units' \in [Key -> Nat]
        <4>1. ASSUME req[r].kind = "join" PROVE Moves(r) /\ req'[r].pc # "undo" /\ units' = units
          <5>1. Leave(r, p) /\ units' = units
            BY <1>2, <1>6, <2>2, <4>1 DEF TakeUnit
          <5>2. p \in Outcome
            BY DEF Outcome
          <5> QED BY <1>0, <5>1, <5>2, LeaveMoves
        <4>2. ASSUME req[r].kind # "join"
              PROVE  Moves(r) /\ req'[r].pc # "undo" /\ units' \in [Key -> Nat]
          <5> DEFINE u == [req[r] EXCEPT !.pc = "store", !.tier = p]
          <5>1. u \in Handler /\ u.rung = req[r].rung /\ u.pool = req[r].pool /\ u.pc = "store"
            BY <1>1 DEF Handler, Outcome
          <5>2. /\ req' = [req EXCEPT ![r] = u]
                /\ units' = [units EXCEPT ![KeyOf(r)] = @ + 1]
            BY <1>2, <1>6, <2>2, <4>2 DEF TakeUnit
          <5> HIDE DEF u
          <5>3. units' \in [Key -> Nat]
            <6>1. units \in [Key -> Nat]
              BY <1>0 DEF TypeOK
            <6>2. units' = [k \in Key |-> IF k = KeyOf(r) THEN units[k] + 1 ELSE units[k]]
              BY <5>2, <6>1
            <6>3. \A k \in Key : units[k] \in Nat /\ units[k] + 1 \in Nat
              BY <6>1
            <6> QED BY <6>2, <6>3
          <5> QED BY <1>1, <5>1, <5>2, <5>3 DEF Moves
        <4> QED BY <1>0, <4>1, <4>2 DEF TypeOK
      <3>3. TypeOK'
        BY <1>0, <1>6, <2>1, <3>1, <3>2 DEF TypeOK, TakeUnit, circle, Moves, Handler
      <3>4. vertical' = vertical
        BY <1>6 DEF TakeUnit
      <3> QED BY <1>2, <2>1, <2>2, <3>1, <3>2, <3>3, <3>4, GrantKeeps DEF Moves
    <2>3. CASE ~Grants(p, counter[p] + 1)
      <3>1. Go(r, "undo") /\ UNCHANGED <<granted, units>>
        BY <1>2, <1>6, <2>3 DEF TakeUnit
      <3>2. Moves(r) /\ req'[r] = [req[r] EXCEPT !.pc = "undo"]
        BY <1>0, <3>1, GoMoves
      <3>3. TypeOK'
        BY <1>0, <1>6, <2>1, <3>1, <3>2 DEF TypeOK, TakeUnit, circle, Moves, Handler
      <3>4. vertical' = vertical /\ req[r].pc # "undo"
        BY <1>6 DEF TakeUnit, At
      <3> QED BY <1>2, <2>1, <2>3, <3>1, <3>2, <3>3, <3>4, RefusalKeeps
    <2> QED BY <2>2, <2>3
  <1> QED BY <1>4, <1>5, <1>6

LEMMA WindowKeeps ==
  ASSUME Stock, WindowMoves
  PROVE  Stock'
PROOF
  <1>1. TypeOK'
    BY DEF Stock, TypeOK, WindowMoves, shop, circle
  <1>2. UNCHANGED <<vertical, counter, granted, req>>
    BY DEF WindowMoves, shop
  <1> QED BY <1>1, <1>2 DEF Stock, Sound, Fits, Passed, UndoesLimited, Account, Undoing, PoolOf,
                            Ladder, FallsOnlyWhenGone

LEMMA StepKeepsIInv == IInv /\ [Next]_vars => IInv'
PROOF
  <1> SUFFICES ASSUME IInv, [Next]_vars PROVE IInv'
    OBVIOUS
  <1>1. Stock /\ RequestsAreNamed
    BY DEF IInv
  <1>2. CASE UNCHANGED vars
    BY <1>1, <1>2 DEF vars, IInv, Stock, TypeOK, RequestsAreNamed, Named, Sound, Fits, Passed,
                      UndoesLimited, Account, Undoing, PoolOf, Ladder, FallsOnlyWhenGone
  <1>3. CASE Next
    <2>1. Stock'
      BY <1>1, <1>3, WindowKeeps, ArrivalKeeps, HandlingKeeps, UnitsKeep DEF Next, Handle
    <2> QED BY <1>1, <1>3, <2>1, NamesStay DEF IInv
  <1> QED BY <1>2, <1>3

LEMMA InitIInv == Init => IInv
PROOF
  <1> SUFFICES ASSUME Init PROVE RequestsAreNamed
    BY InitStock DEF IInv
  <1> QED BY DEF Init, Idle, RequestsAreNamed, Named

LEMMA StockIsExact == IInv => UnitsAreExact
PROOF
  <1> SUFFICES ASSUME Stock PROVE NeverOversold
    BY DEF IInv, Stock, UnitsAreExact
  <1> SUFFICES ASSUME NEW p \in Pool PROVE Unlimited(p) \/ granted[p] <= Quantity[p]
    BY DEF NeverOversold
  <1>1. Account(p) /\ Quantity[p] \in Nat
    BY QuantitiesAreNatural DEF Stock
  <1> QED BY <1>1 DEF Account

------------------------------------------------------------------------------
\* For every vertical, every set of requests, scans and telephones and all
\* quantities: whatever the interleaving of the Redis commands of the /scan and
\* /inner-circle handlers, and wherever one of them ends, no pool hands out more
\* than its quantity and nobody falls past a pool that has units left.
THEOREM UnitsStayExact == Spec => []UnitsAreExact
PROOF
  <1>1. Init => IInv
    BY InitIInv
  <1>2. IInv /\ [Next]_vars => IInv'
    BY StepKeepsIInv
  <1>3. IInv => UnitsAreExact
    BY StockIsExact
  <1> QED BY <1>1, <1>2, <1>3, PTL DEF Spec

------------------------------------------------------------------------------
(* Certificates *)

\* A handler that SADD answered to: the certificate is its business.
Enrolled(r) == req[r].kind = "join" /\ req[r].pc \notin {"idle", "member", "enrol"}

\* Members, handlers and certificates agree on telephones and numbers.
OwnersAgree ==
  /\ \A r \in Request : Enrolled(r) =>
       req[r].phone \in members /\ \A c \in certs : c.phone # req[r].phone
  /\ \A r, q \in Request :
       Enrolled(r) /\ Enrolled(q) /\ req[r].phone = req[q].phone => r = q
  /\ \A c \in certs : c.phone \in members
  /\ \A c, d \in certs : c.phone = d.phone => c = d
  /\ \A ph \in members :
       \/ \E c \in certs : c.phone = ph
       \/ \E r \in Request : Enrolled(r) /\ req[r].phone = ph
       \/ ph \in lost

NumbersAgree ==
  /\ \A r \in Request :
       /\ req[r].no \in 0 .. joins
       /\ req[r].no > 0 <=> Enrolled(r) /\ req[r].pc # "number"
       /\ \A c \in certs : c.no # req[r].no
  /\ \A r, q \in Request : req[r].no = req[q].no /\ req[r].no > 0 => r = q
  /\ \A c \in certs : c.no \in 1 .. joins
  /\ \A c, d \in certs : c.no = d.no => c = d

CInv == OwnersAgree /\ NumbersAgree

\* Handler r alone moves, and has the certificate it had to issue, or none before and after.
KeepsBusiness(r) ==
  /\ \A q \in Request \ {r} : req'[q] = req[q]
  /\ \/ /\ req'[r].kind = req[r].kind /\ req'[r].phone = req[r].phone
        /\ req'[r].no = req[r].no
        /\ Enrolled(r)' <=> Enrolled(r)
        /\ req'[r].pc = "number" <=> req[r].pc = "number"
     \/ ~Enrolled(r) /\ ~Enrolled(r)' /\ req'[r].no = 0

\* A step that leaves the circle alone and keeps a handler's business keeps both.
LEMMA BusinessAsBefore ==
  ASSUME CInv, NEW r \in Request, KeepsBusiness(r),
         UNCHANGED <<members, joins, certs, lost>>
  PROVE  CInv'
PROOF
  <1>1. \A q \in Request : q # r => req'[q] = req[q] /\ (Enrolled(q)' <=> Enrolled(q))
    BY DEF Enrolled, KeepsBusiness
  <1>2. CASE /\ req'[r].kind = req[r].kind /\ req'[r].phone = req[r].phone
             /\ req'[r].no = req[r].no
             /\ Enrolled(r)' <=> Enrolled(r)
             /\ req'[r].pc = "number" <=> req[r].pc = "number"
    <2>1. \A q \in Request :
            /\ Enrolled(q)' <=> Enrolled(q)
            /\ req'[q].phone = req[q].phone /\ req'[q].no = req[q].no
            /\ req'[q].pc = "number" <=> req[q].pc = "number"
      BY <1>1, <1>2
    <2>2. OwnersAgree'
      BY <2>1 DEF CInv, OwnersAgree
    <2>3. NumbersAgree'
      BY <2>1 DEF CInv, NumbersAgree
    <2> QED BY <2>2, <2>3 DEF CInv
  <1>3. CASE ~Enrolled(r) /\ ~Enrolled(r)' /\ req'[r].no = 0
    <2>1. req[r].no = 0
      BY <1>3 DEF CInv, NumbersAgree
    <2>2. \A q \in Request :
            /\ Enrolled(q)' <=> Enrolled(q)
            /\ req'[q].no = req[q].no
            /\ Enrolled(q) => req'[q] = req[q]
      BY <1>1, <1>3, <2>1
    <2>3. OwnersAgree'
      BY <2>2 DEF CInv, OwnersAgree
    <2>4. NumbersAgree'
      BY <2>2 DEF CInv, NumbersAgree
    <2> QED BY <2>3, <2>4 DEF CInv
  <1> QED BY <1>2, <1>3 DEF KeepsBusiness

LEMMA EnrolAgrees ==
  ASSUME IInv, CInv, NEW r \in Request, Enrol(r)
  PROVE  CInv'
PROOF
  <1>1. req \in [Request -> Handler] /\ joins \in Nat /\ Named(req[r])
    BY DEF IInv, Stock, TypeOK, Handler, RequestsAreNamed
  <1>2. ~Enrolled(r) /\ req[r].kind = "join" /\ req[r].no = 0
    BY <1>1 DEF Enrol, At, Enrolled, Named, CInv, NumbersAgree
  <1>3. CASE req[r].phone \in members
    <2>1. req'[r] = Idle /\ (\A q \in Request \ {r} : req'[q] = req[q]) /\ members' = members
      BY <1>1, <1>3 DEF Enrol, Answer
    <2>2. ~Enrolled(r)' /\ req'[r].no = 0
      BY <2>1 DEF Enrolled, Idle
    <2> QED BY <1>2, <2>1, <2>2, BusinessAsBefore DEF Enrol, KeepsBusiness
  <1>4. CASE req[r].phone \notin members
    <2>1. /\ req'[r] = [req[r] EXCEPT !.pc = "number"]
          /\ \A q \in Request \ {r} : req'[q] = req[q]
          /\ members' = members \cup {req[r].phone}
          /\ UNCHANGED <<joins, certs, lost>>
      BY <1>1, <1>4 DEF Enrol, Go
    <2>2. /\ Enrolled(r)' /\ req'[r].phone = req[r].phone /\ req'[r].no = 0
          /\ req'[r].pc = "number"
      BY <1>1, <1>2, <2>1 DEF Enrolled, Handler
    <2>3. \A q \in Request \ {r} : (Enrolled(q)' <=> Enrolled(q))
      BY <2>1 DEF Enrolled
    <2>4. \A q \in Request \ {r} : Enrolled(q) => req[q].phone # req[r].phone
      BY <1>4 DEF CInv, OwnersAgree
    <2>5. \A c \in certs : c.phone # req[r].phone
      BY <1>4 DEF CInv, OwnersAgree
    <2>6. OwnersAgree'
      <3>1. \A q \in Request : Enrolled(q)' =>
              req'[q].phone \in members' /\ \A c \in certs' : c.phone # req'[q].phone
        BY <2>1, <2>2, <2>3, <2>5 DEF CInv, OwnersAgree
      <3>2. \A q, s \in Request :
              Enrolled(q)' /\ Enrolled(s)' /\ req'[q].phone = req'[s].phone => q = s
        BY <2>1, <2>2, <2>3, <2>4 DEF CInv, OwnersAgree
      <3>3. \A ph \in members' :
              \/ \E c \in certs' : c.phone = ph
              \/ \E q \in Request : Enrolled(q)' /\ req'[q].phone = ph
              \/ ph \in lost'
        <4> SUFFICES ASSUME NEW ph \in members'
                     PROVE  \/ \E c \in certs' : c.phone = ph
                            \/ \E q \in Request : Enrolled(q)' /\ req'[q].phone = ph
                            \/ ph \in lost'
          OBVIOUS
        <4>1. CASE ph = req[r].phone
          BY <2>2, <4>1
        <4>2. CASE ph \in members
          BY <1>2, <2>1, <2>3, <4>2 DEF CInv, OwnersAgree
        <4> QED BY <2>1, <4>1, <4>2
      <3>4. (\A c \in certs' : c.phone \in members')
            /\ \A c, d \in certs' : c.phone = d.phone => c = d
        BY <2>1 DEF CInv, OwnersAgree
      <3> QED BY <3>1, <3>2, <3>3, <3>4 DEF OwnersAgree
    <2>7. NumbersAgree'
      <3>1. \A q \in Request : req'[q].no = req[q].no
        BY <1>2, <2>1, <2>2
      <3>2. \A q \in Request : req'[q].no > 0 <=> Enrolled(q)' /\ req'[q].pc # "number"
        BY <1>2, <2>1, <2>2, <2>3 DEF CInv, NumbersAgree
      <3> QED BY <2>1, <3>1, <3>2 DEF CInv, NumbersAgree
    <2> QED BY <2>6, <2>7 DEF CInv
  <1> QED BY <1>3, <1>4

LEMMA NumberAgrees ==
  ASSUME IInv, CInv, NEW r \in Request, NumberCertificate(r)
  PROVE  CInv'
PROOF
  <1>1. req \in [Request -> Handler] /\ joins \in Nat /\ Named(req[r])
    BY DEF IInv, Stock, TypeOK, Handler, RequestsAreNamed
  <1>2. Enrolled(r) /\ req[r].no = 0
    BY <1>1 DEF NumberCertificate, At, Enrolled, Named, CInv, NumbersAgree
  <1>3. /\ \A q \in Request \ {r} : req'[q] = req[q]
        /\ joins' = joins + 1 /\ UNCHANGED <<members, certs, lost>>
    BY <1>1 DEF NumberCertificate
  <1>4. /\ req'[r].no = joins + 1 /\ req'[r].pc = "ask"
        /\ req'[r].kind = req[r].kind /\ req'[r].phone = req[r].phone
    BY <1>1 DEF NumberCertificate, Handler
  <1>5. \A q \in Request : Enrolled(q)' <=> Enrolled(q)
    BY <1>2, <1>3, <1>4 DEF Enrolled
  <1>6. OwnersAgree'
    <2>1. \A q \in Request : req'[q].phone = req[q].phone
      BY <1>3, <1>4
    <2> QED BY <1>3, <1>5, <2>1 DEF CInv, OwnersAgree
  <1>7. NumbersAgree'
    <2>1. ASSUME NEW q \in Request
          PROVE  /\ req'[q].no \in 0 .. joins'
                 /\ req'[q].no > 0 <=> Enrolled(q)' /\ req'[q].pc # "number"
                 /\ \A c \in certs' : c.no # req'[q].no
      <3>1. CASE q = r
        BY <1>1, <1>2, <1>3, <1>4, <1>5, <3>1 DEF CInv, NumbersAgree
      <3>2. CASE q # r
        BY <1>1, <1>3, <1>5, <3>2 DEF CInv, NumbersAgree
      <3> QED BY <3>1, <3>2
    <2>2. \A q, s \in Request : req'[q].no = req'[s].no /\ req'[q].no > 0 => q = s
      <3>1. \A q \in Request \ {r} : req'[q].no = req[q].no /\ req[q].no \in 0 .. joins
        BY <1>3 DEF CInv, NumbersAgree
      <3>2. \A q, s \in Request : req[q].no = req[s].no /\ req[q].no > 0 => q = s
        BY DEF CInv, NumbersAgree
      <3> QED BY <1>1, <1>4, <3>1, <3>2
    <2>3. (\A c \in certs' : c.no \in 1 .. joins') /\ \A c, d \in certs' : c.no = d.no => c = d
      BY <1>1, <1>3 DEF CInv, NumbersAgree
    <2> QED BY <2>1, <2>2, <2>3 DEF NumbersAgree
  <1> QED BY <1>6, <1>7 DEF CInv

LEMMA IssueAgrees ==
  ASSUME IInv, CInv, NEW r \in Request, IssueCertificate(r)
  PROVE  CInv'
PROOF
  <1> DEFINE new == [no |-> req[r].no, phone |-> req[r].phone, tier |-> req[r].tier]
  <1>1. req \in [Request -> Handler] /\ joins \in Nat /\ Named(req[r])
    BY DEF IInv, Stock, TypeOK, Handler, RequestsAreNamed
  <1>2. Enrolled(r) /\ req[r].no > 0 /\ req[r].no \in 1 .. joins /\ req[r].phone \in members
    BY <1>1 DEF IssueCertificate, At, Enrolled, Named, CInv, NumbersAgree, OwnersAgree
  <1>3. /\ req'[r] = Idle /\ \A q \in Request \ {r} : req'[q] = req[q]
        /\ certs' = certs \cup {new} /\ UNCHANGED <<members, joins, lost>>
    BY <1>1 DEF IssueCertificate, Answer
  <1>4. ~Enrolled(r)' /\ req'[r].no = 0 /\ \A q \in Request \ {r} : (Enrolled(q)' <=> Enrolled(q))
    BY <1>3 DEF Enrolled, Idle
  <1>5. new.no = req[r].no /\ new.phone = req[r].phone
    OBVIOUS
  <1> HIDE DEF new
  <1>6. OwnersAgree'
    <2>1. \A q \in Request : Enrolled(q)' =>
            q # r /\ req'[q] = req[q] /\ Enrolled(q) /\ req[q].phone # req[r].phone
      BY <1>2, <1>3, <1>4 DEF CInv, OwnersAgree
    <2>2. \A q \in Request : Enrolled(q)' =>
            req'[q].phone \in members' /\ \A c \in certs' : c.phone # req'[q].phone
      BY <1>3, <1>5, <2>1 DEF CInv, OwnersAgree
    <2>3. \A q, s \in Request :
            Enrolled(q)' /\ Enrolled(s)' /\ req'[q].phone = req'[s].phone => q = s
      BY <2>1 DEF CInv, OwnersAgree
    <2>4. \A c \in certs' : c.phone \in members'
      BY <1>2, <1>3, <1>5 DEF CInv, OwnersAgree
    <2>5. \A c, d \in certs' : c.phone = d.phone => c = d
      BY <1>2, <1>3, <1>5 DEF CInv, OwnersAgree
    <2>6. \A ph \in members' :
            \/ \E c \in certs' : c.phone = ph
            \/ \E q \in Request : Enrolled(q)' /\ req'[q].phone = ph
            \/ ph \in lost'
      <3> SUFFICES ASSUME NEW ph \in members
                   PROVE  \/ \E c \in certs' : c.phone = ph
                          \/ \E q \in Request : Enrolled(q)' /\ req'[q].phone = ph
                          \/ ph \in lost'
        BY <1>3
      <3>1. CASE ph = req[r].phone
        BY <1>3, <1>5, <3>1
      <3>2. CASE ph # req[r].phone
        BY <1>3, <1>4, <3>2 DEF CInv, OwnersAgree
      <3> QED BY <3>1, <3>2
    <2> QED BY <2>2, <2>3, <2>4, <2>5, <2>6 DEF OwnersAgree
  <1>7. NumbersAgree'
    <2>1. ASSUME NEW q \in Request
          PROVE  /\ req'[q].no \in 0 .. joins'
                 /\ req'[q].no > 0 <=> Enrolled(q)' /\ req'[q].pc # "number"
                 /\ \A c \in certs' : c.no # req'[q].no
      <3>1. CASE q = r
        BY <1>1, <1>2, <1>3, <1>4, <1>5, <3>1 DEF CInv, NumbersAgree
      <3>2. CASE q # r
        BY <1>1, <1>2, <1>3, <1>4, <1>5, <3>2 DEF CInv, NumbersAgree
      <3> QED BY <3>1, <3>2
    <2>2. \A q, s \in Request : req'[q].no = req'[s].no /\ req'[q].no > 0 => q = s
      BY <1>3, <1>4 DEF CInv, NumbersAgree
    <2>3. \A c \in certs' : c.no \in 1 .. joins'
      BY <1>2, <1>3, <1>5 DEF CInv, NumbersAgree
    <2>4. \A c, d \in certs' : c.no = d.no => c = d
      BY <1>3, <1>5 DEF CInv, NumbersAgree
    <2> QED BY <2>1, <2>2, <2>3, <2>4 DEF NumbersAgree
  <1> QED BY <1>6, <1>7 DEF CInv

LEMMA AbortAgrees ==
  ASSUME IInv, CInv, NEW r \in Request, Abort(r)
  PROVE  CInv'
PROOF
  <1>1. req \in [Request -> Handler] /\ Named(req[r])
    BY DEF IInv, Stock, TypeOK, Handler, RequestsAreNamed
  <1>2. /\ req'[r] = Idle /\ \A q \in Request \ {r} : req'[q] = req[q]
        /\ UNCHANGED <<members, joins, certs>>
    BY <1>1 DEF Abort, Answer, circle
  <1>3. ~Enrolled(r)' /\ req'[r].no = 0 /\ \A q \in Request \ {r} : (Enrolled(q)' <=> Enrolled(q))
    BY <1>2 DEF Enrolled, Idle
  <1>4. CASE ~Enrolled(r)
    <2>1. req[r].pc # "number" /\ req[r].no = 0
      BY <1>1, <1>4 DEF Enrolled, Named, CInv, NumbersAgree
    <2>2. lost' = lost
      BY <2>1 DEF Abort, At
    <2> QED BY <1>2, <1>3, <1>4, <2>2, BusinessAsBefore DEF KeepsBusiness
  <1>5. CASE Enrolled(r)
    <2>1. lost' = lost \cup {req[r].phone}
      BY <1>5 DEF Abort, At, CInv, NumbersAgree
    <2>2. OwnersAgree'
      BY <1>2, <1>3, <2>1 DEF CInv, OwnersAgree
    <2>3. NumbersAgree'
      <3>1. joins \in Nat
        BY DEF IInv, Stock, TypeOK
      <3>2. ASSUME NEW q \in Request
            PROVE  /\ req'[q].no \in 0 .. joins'
                   /\ req'[q].no > 0 <=> Enrolled(q)' /\ req'[q].pc # "number"
                   /\ \A c \in certs' : c.no # req'[q].no
        <4>1. CASE q = r
          BY <1>2, <1>3, <3>1, <4>1 DEF CInv, NumbersAgree
        <4>2. CASE q # r
          BY <1>2, <1>3, <4>2 DEF CInv, NumbersAgree
        <4> QED BY <4>1, <4>2
      <3>3. \A q, s \in Request : req'[q].no = req'[s].no /\ req'[q].no > 0 => q = s
        BY <1>2, <1>3 DEF CInv, NumbersAgree
      <3> QED BY <1>2, <3>2, <3>3 DEF CInv, NumbersAgree
    <2> QED BY <2>2, <2>3 DEF CInv
  <1> QED BY <1>4, <1>5

\* While a ladder is walked nothing happens to the certificate.
LEMMA LadderKeepsBusiness ==
  ASSUME IInv, CInv, NEW r \in Request, req[r].pc \in {"ask", "take", "undo", "store"},
         \/ \E tier \in Outcome : Leave(r, tier)
         \/ Fall(r) \/ Go(r, "take") \/ Go(r, "undo")
         \/ \E p \in Pool : req' = [req EXCEPT ![r].pc = "store", ![r].tier = p]
  PROVE  KeepsBusiness(r)
PROOF
  <1>1. req \in [Request -> Handler] /\ req[r] \in Handler
    BY DEF IInv, Stock, TypeOK, Handler
  <1>2. ~Enrolled(r) => req[r].kind = "scan" /\ req[r].no = 0
    BY <1>1 DEF Enrolled, Handler, CInv, NumbersAgree
  <1>3. ASSUME NEW u, u.kind = req[r].kind, u.phone = req[r].phone, u.no = req[r].no,
               u.pc \in {"ask", "take", "undo", "store", "issue"}, req' = [req EXCEPT ![r] = u]
        PROVE  KeepsBusiness(r)
    <2>1. req'[r] = u /\ \A q \in Request \ {r} : req'[q] = req[q]
      BY <1>1, <1>3
    <2>2. Enrolled(r)' <=> Enrolled(r)
      BY <1>3, <2>1 DEF Enrolled
    <2> QED BY <1>3, <2>1, <2>2 DEF KeepsBusiness
  <1>4. ASSUME NEW tier, Leave(r, tier) PROVE KeepsBusiness(r)
    <2>1. CASE req[r].kind = "join"
      <3> DEFINE u == [req[r] EXCEPT !.pc = "issue", !.tier = tier]
      <3>1. req' = [req EXCEPT ![r] = u]
        BY <1>4, <2>1 DEF Leave
      <3>2. /\ u.kind = req[r].kind /\ u.phone = req[r].phone /\ u.no = req[r].no
            /\ u.pc = "issue"
        BY <1>1 DEF Handler
      <3> HIDE DEF u
      <3> QED BY <1>3, <3>1, <3>2
    <2>2. CASE req[r].kind # "join" /\ req' = [req EXCEPT ![r] = Idle]
      <3>1. ~Enrolled(r)
        BY <2>2 DEF Enrolled
      <3>2. req'[r] = Idle /\ \A q \in Request \ {r} : req'[q] = req[q]
        BY <1>1, <2>2
      <3>3. ~Enrolled(r)' /\ req'[r].no = 0
        BY <3>2 DEF Enrolled, Idle
      <3> QED BY <3>1, <3>2, <3>3 DEF KeepsBusiness
    <2>3. CASE req' = [req EXCEPT ![r].pc = "ask", ![r].pool = 1, ![r].rung = @ + 1]
      <3> DEFINE u == [req[r] EXCEPT !.pc = "ask", !.pool = 1, !.rung = req[r].rung + 1]
      <3>1. req' = [req EXCEPT ![r] = u]
        BY <1>1, <2>3 DEF Handler
      <3>2. /\ u.kind = req[r].kind /\ u.phone = req[r].phone /\ u.no = req[r].no
            /\ u.pc = "ask"
        BY <1>1 DEF Handler
      <3> HIDE DEF u
      <3> QED BY <1>3, <3>1, <3>2
    <2> QED BY <1>4, <2>1, <2>2, <2>3 DEF Leave
  <1>5. ASSUME NEW pc \in {"take", "undo"}, Go(r, pc) PROVE KeepsBusiness(r)
    <2> DEFINE u == [req[r] EXCEPT !.pc = pc]
    <2>1. req' = [req EXCEPT ![r] = u]
      BY <1>5 DEF Go
    <2>2. u.kind = req[r].kind /\ u.phone = req[r].phone /\ u.no = req[r].no /\ u.pc = pc
      BY <1>1 DEF Handler
    <2> HIDE DEF u
    <2> QED BY <1>3, <2>1, <2>2
  <1>6. ASSUME NEW tier, req' = [req EXCEPT ![r].pc = "store", ![r].tier = tier]
        PROVE  KeepsBusiness(r)
    <2> DEFINE u == [req[r] EXCEPT !.pc = "store", !.tier = tier]
    <2>1. req' = [req EXCEPT ![r] = u]
      BY <1>6
    <2>2. u.kind = req[r].kind /\ u.phone = req[r].phone /\ u.no = req[r].no /\ u.pc = "store"
      BY <1>1 DEF Handler
    <2> HIDE DEF u
    <2> QED BY <1>3, <2>1, <2>2
  <1>7. ASSUME Fall(r) PROVE KeepsBusiness(r)
    <2>1. CASE req' = [req EXCEPT ![r].pc = "take", ![r].pool = @ + 1]
      <3> DEFINE u == [req[r] EXCEPT !.pc = "take", !.pool = req[r].pool + 1]
      <3>1. req' = [req EXCEPT ![r] = u]
        BY <1>1, <2>1 DEF Handler
      <3>2. /\ u.kind = req[r].kind /\ u.phone = req[r].phone /\ u.no = req[r].no
            /\ u.pc = "take"
        BY <1>1 DEF Handler
      <3> HIDE DEF u
      <3> QED BY <1>3, <3>1, <3>2
    <2> QED BY <1>4, <1>6, <1>7, <2>1 DEF Fall
  <1> QED BY <1>4, <1>5, <1>6, <1>7

LEMMA CertificatesStep == IInv /\ CInv /\ [Next]_vars => CInv'
PROOF
  <1> SUFFICES ASSUME IInv, CInv, [Next]_vars PROVE CInv'
    OBVIOUS
  <1>1. TypeOK /\ req \in [Request -> Handler] /\ \A r \in Request : req[r] \in Handler /\ Named(req[r])
    BY DEF IInv, Stock, TypeOK, Handler, RequestsAreNamed
  <1>2. CASE UNCHANGED vars \/ WindowMoves
    BY <1>2 DEF vars, WindowMoves, circle, CInv, OwnersAgree, NumbersAgree, Enrolled
  <1>3. ASSUME NEW r \in Request, NEW s \in Scan, ScanArrives(r, s) PROVE CInv'
    <2>1. KeepsBusiness(r)
      BY <1>1, <1>3 DEF ScanArrives, At, KeepsBusiness, Enrolled, Idle
    <2> QED BY <1>3, <2>1, BusinessAsBefore DEF ScanArrives, circle
  <1>4. ASSUME NEW r \in Request, NEW ph \in Phone, NEW s \in Scan \cup {None}, JoinArrives(r, ph, s)
        PROVE  CInv'
    <2>1. KeepsBusiness(r)
      BY <1>1, <1>4 DEF JoinArrives, At, KeepsBusiness, Enrolled, Idle
    <2> QED BY <1>4, <2>1, BusinessAsBefore DEF JoinArrives, circle
  <1>5. ASSUME NEW r \in Request, CheckRepeat(r) \/ EnterScan(r) PROVE CInv'
    <2>1. ~Enrolled(r) /\ req[r].no = 0 /\ req[r].kind = "scan"
      BY <1>1, <1>5 DEF CheckRepeat, EnterScan, At, Enrolled, Named, CInv, NumbersAgree
    <2>2. \/ req' = [req EXCEPT ![r] = Idle]
          \/ \E pc \in {"enter", "ask"} : req' = [req EXCEPT ![r].pc = pc]
      BY <1>5 DEF CheckRepeat, EnterScan, Answer, Go
    <2>3. KeepsBusiness(r)
      BY <1>1, <2>1, <2>2 DEF KeepsBusiness, Enrolled, Idle, Handler
    <2> QED BY <1>5, <2>3, BusinessAsBefore DEF CheckRepeat, EnterScan, circle
  <1>6. ASSUME NEW r \in Request, AskStored(r) PROVE CInv'
    <2>1. CASE Leave(r, stored[KeyOf(r)]) /\ req[r].scan # None
      <3>1. KeyOf(r) \in Key
        BY <1>1, <2>1 DEF KeyOf, Key, Handler
      <3>2. stored[KeyOf(r)] \in Outcome
        BY <1>1, <3>1 DEF TypeOK
      <3>3. KeepsBusiness(r)
        BY <1>6, <2>1, <3>2, LadderKeepsBusiness DEF AskStored, At
      <3> QED BY <1>6, <3>3, BusinessAsBefore DEF AskStored, circle
    <2>2. CASE Go(r, "take")
      <3>1. KeepsBusiness(r)
        BY <1>6, <2>2, LadderKeepsBusiness DEF AskStored, At
      <3> QED BY <1>6, <3>1, BusinessAsBefore DEF AskStored, circle
    <2>3. CASE req[r].kind = "scan" /\ Answer(r)
      <3>1. KeepsBusiness(r)
        BY <1>1, <2>3 DEF KeepsBusiness, Answer, Enrolled, Idle
      <3> QED BY <1>6, <3>1, BusinessAsBefore DEF AskStored, circle
    <2> QED BY <1>6, <2>1, <2>2, <2>3 DEF AskStored
  <1>7. ASSUME NEW r \in Request, SkipUncounted(r) \/ GiveBack(r) PROVE CInv'
    <2>1. KeepsBusiness(r)
      BY <1>7, LadderKeepsBusiness DEF SkipUncounted, GiveBack, At
    <2> QED BY <1>7, <2>1, BusinessAsBefore DEF SkipUncounted, GiveBack, circle
  <1>8. ASSUME NEW r \in Request, TakeUnit(r) PROVE CInv'
    <2>1. PoolOf(r) \in Pool /\ PoolOf(r) \in Outcome
      BY <1>1, LadderOfHandler DEF IInv, Stock, Sound, Outcome
    <2>2. \/ Leave(r, PoolOf(r)) \/ Go(r, "undo")
          \/ req' = [req EXCEPT ![r].pc = "store", ![r].tier = PoolOf(r)]
      BY <1>8 DEF TakeUnit
    <2>3. KeepsBusiness(r)
      BY <1>8, <2>1, <2>2, LadderKeepsBusiness DEF TakeUnit, At
    <2> QED BY <1>8, <2>3, BusinessAsBefore DEF TakeUnit, circle
  <1>9. ASSUME NEW r \in Request, StoreOutcome(r) PROVE CInv'
    <2>1. req[r].tier \in Outcome
      BY <1>1 DEF Handler
    <2>2. KeepsBusiness(r)
      BY <1>9, <2>1, LadderKeepsBusiness DEF StoreOutcome, At
    <2> QED BY <1>9, <2>2, BusinessAsBefore DEF StoreOutcome, circle
  <1>10. ASSUME NEW r \in Request, CheckMember(r) PROVE CInv'
    <2>1. ~Enrolled(r) /\ req[r].no = 0
      BY <1>10 DEF CheckMember, At, Enrolled, CInv, NumbersAgree
    <2>2. \/ req' = [req EXCEPT ![r] = Idle]
          \/ req' = [req EXCEPT ![r].pc = "enrol"]
      BY <1>10 DEF CheckMember, Answer, Go
    <2>3. KeepsBusiness(r)
      <3>1. ~(req[r].no > 0)
        BY <2>1
      <3> QED BY <1>1, <2>1, <2>2 DEF KeepsBusiness, Enrolled, Idle, Handler
    <2> QED BY <1>10, <2>3, BusinessAsBefore DEF CheckMember, circle
  <1>11. ASSUME NEW r \in Request, XtraFails(r) PROVE CInv'
    <2>1. req[r].kind = "scan"
      BY <1>1, <1>11 DEF XtraFails, Named, Handler
    <2>2. ~Enrolled(r) /\ req[r].no = 0
      BY <1>1, <2>1 DEF Enrolled, CInv, NumbersAgree, Handler
    <2> DEFINE u == [req[r] EXCEPT !.pc = "ask", !.rung = 2, !.pool = 1, !.tier = None]
    <2>3. req' = [req EXCEPT ![r] = u]
      BY <1>11 DEF XtraFails
    <2>4. u.kind = "scan" /\ u.no = 0
      BY <1>1, <2>1, <2>2 DEF Handler
    <2> HIDE DEF u
    <2>5. KeepsBusiness(r)
      BY <1>1, <2>2, <2>3, <2>4 DEF KeepsBusiness, Enrolled
    <2> QED BY <1>11, <2>5, BusinessAsBefore DEF XtraFails, circle
  <1> QED BY <1>2, <1>3, <1>4, <1>5, <1>6, <1>7, <1>8, <1>9, <1>10, <1>11,
             EnrolAgrees, NumberAgrees, IssueAgrees, AbortAgrees DEF Next, Handle

\* For every number of requests and telephones: of the requests that register one
\* telephone exactly one issues its certificate, no number is given twice, and a
\* member without a certificate has a handler at work on it or lost it with one.
THEOREM CertificatesStayMatched == Spec => []CertificatesMatchMembers
PROOF
  <1>1. Init => IInv /\ CInv
    <2>1. Init => CInv
      BY DEF Init, Idle, CInv, OwnersAgree, NumbersAgree, Enrolled
    <2> QED BY <2>1, InitIInv
  <1>2. IInv /\ CInv /\ [Next]_vars => IInv' /\ CInv'
    BY StepKeepsIInv, CertificatesStep
  <1>3. CInv => CertificatesMatchMembers
    BY DEF CInv, OwnersAgree, NumbersAgree, CertificatesMatchMembers, Enrolled
  <1> QED BY <1>1, <1>2, <1>3, PTL DEF Spec

------------------------------------------------------------------------------
(* Second units *)

\* Handler r works on scan s.
Serves(r, s) == req[r].kind = "scan" /\ req[r].pc # "idle" /\ req[r].scan = s

\* An untroubled scan has one handler, and a unit of it is stored or about to be:
\* so a handler that walks a ladder has none of it yet.
ScanIsSingle(s) ==
  /\ \A r, q \in Request : Serves(r, s) /\ Serves(q, s) => r = q
  /\ \A i \in 1 .. 4 :
       /\ units[<<i, s>>] <= 1
       /\ units[<<i, s>>] > 0 =>
            \/ stored[<<i, s>>] # None
            \/ \E r \in Request : Serves(r, s) /\ req[r].pc = "store" /\ req[r].rung = i
  /\ \A r \in Request : Serves(r, s) /\ req[r].pc \in {"take", "undo"} => units[<<req[r].rung, s>>] = 0

\* What is about to be stored is an outcome.
StoresOutcome == \A r \in Request : req[r].pc = "store" => req[r].tier # None

SInv == StoresOutcome /\ \A s \in Scan \ troubled : ScanIsSingle(s)

\* A step of r that takes nothing, stores nothing and does not begin a walk: what it
\* serves after the step it served before, unless it has arrived alone.
LEMMA SingleStays ==
  ASSUME NEW r \in Request, NEW s \in Scan, ScanIsSingle(s),
         \A q \in Request \ {r} : req'[q] = req[q], UNCHANGED <<units, stored>>,
         Serves(r, s)' => Serves(r, s) \/ \A q \in Request : ~Serves(q, s),
         Serves(r, s) => req[r].pc # "store",
         Serves(r, s)' /\ req'[r].pc \in {"take", "undo"} => units[<<req'[r].rung, s>>] = 0
  PROVE  ScanIsSingle(s)'
PROOF
  <1>1. \A q \in Request : q # r => (Serves(q, s)' <=> Serves(q, s)) /\ req'[q] = req[q]
    BY DEF Serves
  <1>2. \A q, p \in Request : Serves(q, s)' /\ Serves(p, s)' => q = p
    BY <1>1 DEF ScanIsSingle
  <1>3. ASSUME NEW i \in 1 .. 4
        PROVE  /\ units'[<<i, s>>] <= 1
               /\ units'[<<i, s>>] > 0 =>
                    \/ stored'[<<i, s>>] # None
                    \/ \E q \in Request : Serves(q, s)' /\ req'[q].pc = "store" /\ req'[q].rung = i
    BY <1>1 DEF ScanIsSingle
  <1>4. \A q \in Request : Serves(q, s)' /\ req'[q].pc \in {"take", "undo"}
          => units'[<<req'[q].rung, s>>] = 0
    BY <1>1 DEF ScanIsSingle
  <1> QED BY <1>2, <1>3, <1>4 DEF ScanIsSingle

\* Handler r leaves its ladder or goes down it: what its program counter is then.
LEMMA WalkGoesOn ==
  ASSUME IInv, NEW r \in Request, req[r].pc \in {"ask", "take", "undo", "store"},
         Fall(r) \/ \E tier \in Outcome : Leave(r, tier)
  PROVE  /\ \A q \in Request \ {r} : req'[q] = req[q]
         /\ \A s \in Scan : Serves(r, s)' => Serves(r, s)
         /\ req'[r].pc = "store" => req'[r].tier # None /\ Fall(r)
         /\ req'[r].pc # "undo"
         /\ req'[r].pc = "take" => req'[r].rung = req[r].rung /\ Fall(r)
PROOF
  <1>1. req \in [Request -> Handler] /\ req[r] \in Handler
    BY DEF IInv, Stock, TypeOK, Handler
  <1>2. ASSUME NEW tier, Leave(r, tier)
        PROVE  /\ \A q \in Request \ {r} : req'[q] = req[q]
               /\ \A s \in Scan : Serves(r, s)' => Serves(r, s)
               /\ req'[r].pc \in {"issue", "idle", "ask"}
    <2>1. CASE req' = [req EXCEPT ![r] = Idle]
      BY <1>1, <2>1 DEF Serves, Idle
    <2>2. CASE req' = [req EXCEPT ![r].pc = "issue", ![r].tier = tier]
      BY <1>1, <2>2 DEF Serves, Handler
    <2>3. CASE req' = [req EXCEPT ![r].pc = "ask", ![r].pool = 1, ![r].rung = @ + 1]
      BY <1>1, <2>3 DEF Serves, Handler
    <2> QED BY <1>2, <2>1, <2>2, <2>3 DEF Leave
  <1>3. CASE req' = [req EXCEPT ![r].pc = "take", ![r].pool = @ + 1] /\ Fall(r)
    BY <1>1, <1>3 DEF Serves, Handler
  <1>4. CASE req' = [req EXCEPT ![r].pc = "store", ![r].tier = "exhausted"] /\ Fall(r)
    BY <1>1, <1>4, NoneIsNothing DEF Serves, Handler
  <1> QED BY <1>2, <1>3, <1>4 DEF Fall

LEMMA ArrivalIsSingle ==
  ASSUME IInv, SInv, NEW r \in Request,
         \/ \E s \in Scan : ScanArrives(r, s)
         \/ \E ph \in Phone, s \in Scan \cup {None} : JoinArrives(r, ph, s)
  PROVE  SInv'
PROOF
  <1>1. req \in [Request -> Handler]
    BY DEF IInv, Stock, TypeOK, Handler
  <1>2. UNCHANGED <<units, stored>> /\ \A q \in Request \ {r} : req'[q] = req[q]
    BY <1>1 DEF ScanArrives, JoinArrives, shop
  <1>3. req[r].pc = "idle" /\ req'[r].pc \in {"repeat", "enter", "member"}
    BY <1>1 DEF ScanArrives, JoinArrives, At, Idle
  <1>4. troubled \subseteq troubled'
    BY DEF ScanArrives, JoinArrives
  <1>5. ASSUME NEW s \in Scan \ troubled' PROVE ScanIsSingle(s)'
    <2>1. ASSUME Serves(r, s)' PROVE \A q \in Request : ~Serves(q, s)
      <3>1. ScanArrives(r, s)
        <4>1. ASSUME NEW z \in Scan, ScanArrives(r, z) PROVE z = s
          BY <1>1, <2>1, <4>1 DEF ScanArrives, Serves, Idle
        <4>2. ASSUME NEW ph \in Phone, NEW z \in Scan \cup {None}, JoinArrives(r, ph, z) PROVE FALSE
          BY <1>1, <2>1, <4>2 DEF JoinArrives, Serves, Idle
        <4> QED BY <4>1, <4>2
      <3>2. ~Overlap(r, s)
        BY <1>5, <3>1 DEF ScanArrives
      <3> QED BY <1>3, <3>2 DEF Overlap, Serves
    <2>2. ScanIsSingle(s)
      BY <1>4 DEF SInv
    <2> QED BY <1>2, <1>3, <2>1, <2>2, SingleStays
  <1>6. StoresOutcome'
    BY <1>2, <1>3 DEF SInv, StoresOutcome
  <1> QED BY <1>5, <1>6 DEF SInv

\* A handler that ends or loses its assignment midway leaves a troubled scan.
LEMMA TroubleIsNoted ==
  ASSUME IInv, SInv, NEW r \in Request, Abort(r) \/ XtraFails(r)
  PROVE  SInv'
PROOF
  <1>1. req \in [Request -> Handler] /\ Named(req[r]) /\ req[r] \in Handler
    BY DEF IInv, Stock, TypeOK, Handler, RequestsAreNamed
  <1>2. UNCHANGED <<units, stored>> /\ \A q \in Request \ {r} : req'[q] = req[q]
    BY <1>1 DEF Abort, XtraFails, Answer, shop
  <1>3. troubled \subseteq troubled' /\ (req[r].kind = "scan" => req[r].scan \in troubled')
    BY <1>1 DEF Abort, XtraFails, Named, Handler
  <1>4. req'[r].pc \in {"idle", "ask"} /\ (req'[r].pc = "ask" => req'[r].kind = req[r].kind /\ req'[r].scan = req[r].scan)
    BY <1>1 DEF Abort, XtraFails, Answer, Idle, Handler
  <1>5. ASSUME NEW s \in Scan \ troubled' PROVE ScanIsSingle(s)'
    <2>1. ~Serves(r, s) /\ ~Serves(r, s)'
      BY <1>3, <1>4, <1>5 DEF Serves
    <2>2. ScanIsSingle(s)
      BY <1>3 DEF SInv
    <2> QED BY <1>2, <2>1, <2>2, SingleStays
  <1>6. StoresOutcome'
    BY <1>2, <1>4 DEF SInv, StoresOutcome
  <1> QED BY <1>5, <1>6 DEF SInv

\* The steps before and beside the ladder.
LEMMA BesideTheLadder ==
  ASSUME IInv, SInv, NEW r \in Request,
         \/ CheckRepeat(r) \/ EnterScan(r) \/ CheckMember(r) \/ Enrol(r)
         \/ NumberCertificate(r) \/ IssueCertificate(r)
  PROVE  SInv'
PROOF
  <1>1. req \in [Request -> Handler] /\ req[r] \in Handler
    BY DEF IInv, Stock, TypeOK, Handler
  <1>2. UNCHANGED <<units, stored, troubled>> /\ \A q \in Request \ {r} : req'[q] = req[q]
    BY <1>1 DEF CheckRepeat, EnterScan, CheckMember, Enrol, NumberCertificate, IssueCertificate,
                Answer, Go, shop
  <1>3. /\ req[r].pc \in {"repeat", "enter", "member", "enrol", "number", "issue"}
        /\ req'[r].pc \in {"idle", "enter", "ask", "enrol", "number"}
        /\ req'[r].pc # "idle" => req'[r].kind = req[r].kind /\ req'[r].scan = req[r].scan
    BY <1>1 DEF CheckRepeat, EnterScan, CheckMember, Enrol, NumberCertificate, IssueCertificate,
                Answer, Go, At, Idle, Handler
  <1>4. ASSUME NEW s \in Scan \ troubled' PROVE ScanIsSingle(s)'
    <2>1. Serves(r, s)' => Serves(r, s)
      BY <1>3 DEF Serves
    <2>2. ScanIsSingle(s)
      BY <1>2, <1>4 DEF SInv
    <2> QED BY <1>2, <1>3, <2>1, <2>2, SingleStays
  <1>5. StoresOutcome'
    BY <1>2, <1>3 DEF SInv, StoresOutcome
  <1> QED BY <1>4, <1>5 DEF SInv

LEMMA AskIsSingle ==
  ASSUME IInv, SInv, NEW r \in Request, AskStored(r)
  PROVE  SInv'
PROOF
  <1>1. req \in [Request -> Handler] /\ req[r] \in Handler
    BY DEF IInv, Stock, TypeOK, Handler
  <1>2. UNCHANGED <<units, stored, troubled>> /\ req[r].pc = "ask"
    BY DEF AskStored, At, shop
  <1>3. \/ req'[r].pc \in {"idle", "issue", "ask"}
        \/ req'[r].pc = "take" /\ req'[r].rung = req[r].rung
           /\ ~(req[r].scan # None /\ stored[KeyOf(r)] # None)
    <2>1. CASE Go(r, "take")
      BY <1>1, <2>1 DEF AskStored, Go, Leave, Idle, Handler
    <2>2. CASE Answer(r)
      BY <1>1, <2>2 DEF Answer, Idle
    <2>3. CASE Leave(r, stored[KeyOf(r)])
      BY <1>1, <2>3 DEF Leave, Idle
    <2> QED BY <2>1, <2>2, <2>3 DEF AskStored
  <1>4. /\ \A q \in Request \ {r} : req'[q] = req[q]
        /\ req'[r].pc # "idle" => req'[r].kind = req[r].kind /\ req'[r].scan = req[r].scan
    BY <1>1 DEF AskStored, Go, Answer, Leave, Idle, Handler
  <1>5. ASSUME NEW s \in Scan \ troubled' PROVE ScanIsSingle(s)'
    <2>1. ScanIsSingle(s)
      BY <1>2, <1>5 DEF SInv
    <2>2. Serves(r, s)' => Serves(r, s)
      BY <1>2, <1>4 DEF Serves
    <2>3. ASSUME Serves(r, s)', req'[r].pc \in {"take", "undo"}
          PROVE  units[<<req'[r].rung, s>>] = 0
      <3>1. Serves(r, s) /\ req[r].scan = s /\ s # None /\ req[r].rung \in 1 .. 4
        BY <1>1, <2>2, <2>3, NoneIsNothing DEF Serves, Handler
      <3>2. stored[<<req[r].rung, s>>] = None /\ req'[r].rung = req[r].rung
        BY <1>3, <2>3, <3>1 DEF KeyOf
      <3>3. ~\E q \in Request : Serves(q, s) /\ req[q].pc = "store" /\ req[q].rung = req[r].rung
        BY <1>2, <2>1, <3>1 DEF ScanIsSingle
      <3>4. ~(units[<<req[r].rung, s>>] > 0)
        BY <2>1, <3>1, <3>2, <3>3 DEF ScanIsSingle
      <3>5. units[<<req[r].rung, s>>] \in Nat
        BY <3>1 DEF IInv, Stock, TypeOK, Key
      <3> QED BY <3>2, <3>4, <3>5
    <2> QED BY <1>2, <1>4, <2>1, <2>2, <2>3, SingleStays
  <1>6. StoresOutcome'
    BY <1>3, <1>4 DEF SInv, StoresOutcome
  <1> QED BY <1>5, <1>6 DEF SInv

LEMMA FallIsSingle ==
  ASSUME IInv, SInv, NEW r \in Request, SkipUncounted(r) \/ GiveBack(r)
  PROVE  SInv'
PROOF
  <1>1. Fall(r) /\ req[r].pc \in {"take", "undo"} /\ UNCHANGED <<units, stored, troubled>>
    BY DEF SkipUncounted, GiveBack, At, shop
  <1>2. /\ \A q \in Request \ {r} : req'[q] = req[q]
        /\ \A s \in Scan : Serves(r, s)' => Serves(r, s)
        /\ req'[r].pc = "store" => req'[r].tier # None
        /\ req'[r].pc # "undo"
        /\ req'[r].pc = "take" => req'[r].rung = req[r].rung
    BY <1>1, WalkGoesOn
  <1>3. ASSUME NEW s \in Scan \ troubled' PROVE ScanIsSingle(s)'
    <2>1. ScanIsSingle(s)
      BY <1>1, <1>3 DEF SInv
    <2>2. ASSUME Serves(r, s)', req'[r].pc \in {"take", "undo"}
          PROVE  units[<<req'[r].rung, s>>] = 0
      BY <1>1, <1>2, <2>1, <2>2 DEF ScanIsSingle
    <2> QED BY <1>1, <1>2, <2>1, <2>2, SingleStays
  <1>4. StoresOutcome'
    BY <1>2 DEF SInv, StoresOutcome
  <1> QED BY <1>3, <1>4 DEF SInv

\* The unit a handler takes is the first of its scan on that ladder.
LEMMA UnitIsSingle ==
  ASSUME IInv, SInv, NEW r \in Request, TakeUnit(r)
  PROVE  SInv'
PROOF
  <1>1. /\ req \in [Request -> Handler] /\ req[r] \in Handler
        /\ units \in [Key -> Nat] /\ req[r].pc = "take"
    BY DEF IInv, Stock, TypeOK, Handler, TakeUnit, At
  <1>2. UNCHANGED <<stored, troubled>>
    BY DEF TakeUnit
  <1>3. PICK p \in Pool : p = PoolOf(r)
    BY LadderOfHandler DEF IInv, Stock, Sound
  <1>4. CASE Leave(r, p) /\ req[r].kind = "join" /\ units' = units
    <2>1. req' = [req EXCEPT ![r].pc = "issue", ![r].tier = p]
      BY <1>4 DEF Leave
    <2>2. /\ \A q \in Request \ {r} : req'[q] = req[q]
          /\ req'[r].kind = "join" /\ req'[r].pc = "issue"
      BY <1>1, <1>4, <2>1 DEF Handler
    <2>3. ASSUME NEW s \in Scan \ troubled' PROVE ScanIsSingle(s)'
      <3>1. ~Serves(r, s) /\ ~Serves(r, s)' /\ ScanIsSingle(s)
        BY <1>2, <1>4, <2>2, <2>3 DEF Serves, SInv
      <3> QED BY <1>2, <1>4, <2>2, <3>1, SingleStays
    <2>4. StoresOutcome'
      BY <2>2 DEF SInv, StoresOutcome
    <2> QED BY <2>3, <2>4 DEF SInv
  <1>5. CASE Go(r, "undo") /\ units' = units
    <2>1. /\ \A q \in Request \ {r} : req'[q] = req[q]
          /\ req'[r].kind = req[r].kind /\ req'[r].scan = req[r].scan
          /\ req'[r].rung = req[r].rung /\ req'[r].pc = "undo"
      BY <1>1, <1>5 DEF Go, Handler
    <2>2. ASSUME NEW s \in Scan \ troubled' PROVE ScanIsSingle(s)'
      <3>1. ScanIsSingle(s)
        BY <1>2, <2>2 DEF SInv
      <3>2. Serves(r, s)' => Serves(r, s)
        BY <1>1, <2>1 DEF Serves
      <3>3. Serves(r, s) => units[<<req'[r].rung, s>>] = 0
        BY <1>1, <2>1, <3>1 DEF ScanIsSingle
      <3> QED BY <1>1, <1>2, <1>5, <2>1, <3>1, <3>2, <3>3, SingleStays
    <2>3. StoresOutcome'
      BY <2>1 DEF SInv, StoresOutcome
    <2> QED BY <2>2, <2>3 DEF SInv
  <1>6. CASE /\ req[r].kind # "join"
             /\ req' = [req EXCEPT ![r].pc = "store", ![r].tier = p]
             /\ units' = [units EXCEPT ![KeyOf(r)] = @ + 1]
    <2>1. /\ \A q \in Request \ {r} : req'[q] = req[q]
          /\ req'[r].kind = "scan" /\ req[r].kind = "scan" /\ req'[r].scan = req[r].scan
          /\ req'[r].rung = req[r].rung /\ req[r].rung \in 1 .. 4
          /\ req'[r].pc = "store" /\ req'[r].tier = p
      BY <1>1, <1>6 DEF Handler
    <2>2. \A q \in Request, s \in Scan : Serves(q, s)' <=> Serves(q, s)
      BY <1>1, <2>1 DEF Serves
    <2>3. \A i \in 1 .. 4, s \in Scan :
            units'[<<i, s>>] = IF i = req[r].rung /\ s = req[r].scan
                               THEN units[<<i, s>>] + 1 ELSE units[<<i, s>>]
      BY <1>1, <1>6 DEF KeyOf, Key
    <2>4. ASSUME NEW s \in Scan \ troubled' PROVE ScanIsSingle(s)'
      <3>1. ScanIsSingle(s)
        BY <1>2, <2>4 DEF SInv
      <3>2. CASE s # req[r].scan
        <4>1. ~Serves(r, s)
          BY <3>2 DEF Serves
        <4>2. \A i \in 1 .. 4 : units'[<<i, s>>] = units[<<i, s>>]
          BY <2>3, <3>2
        <4>3. \A q \in Request : Serves(q, s) => q # r /\ req'[q] = req[q] /\ req[q].rung \in 1 .. 4
          BY <1>1, <2>1, <4>1 DEF Handler
        <4> QED BY <1>2, <2>2, <3>1, <4>2, <4>3 DEF ScanIsSingle
      <3>3. CASE s = req[r].scan
        <4>1. Serves(r, s) /\ \A q \in Request : Serves(q, s) => q = r
          BY <1>1, <2>1, <3>1, <3>3 DEF Serves, ScanIsSingle
        <4>2. units[<<req[r].rung, s>>] = 0
          BY <1>1, <3>1, <4>1 DEF ScanIsSingle
        <4>3. \A i \in 1 .. 4 : i # req[r].rung => units'[<<i, s>>] = units[<<i, s>>]
          BY <2>3
        <4>4. units'[<<req[r].rung, s>>] = 1
          BY <2>1, <2>3, <3>3, <4>2
        <4>5. ASSUME NEW i \in 1 .. 4
              PROVE  /\ units'[<<i, s>>] <= 1
                     /\ units'[<<i, s>>] > 0 =>
                          \/ stored'[<<i, s>>] # None
                          \/ \E q \in Request : /\ Serves(q, s)' /\ req'[q].pc = "store"
                                                /\ req'[q].rung = i
          <5>1. CASE i = req[r].rung
            BY <2>1, <2>2, <4>1, <4>4, <5>1
          <5>2. CASE i # req[r].rung
            BY <1>1, <1>2, <3>1, <4>1, <4>3, <5>2 DEF ScanIsSingle
          <5> QED BY <5>1, <5>2
        <4>6. \A q \in Request : Serves(q, s)' => req'[q].pc \notin {"take", "undo"}
          BY <2>1, <2>2, <4>1
        <4> QED BY <2>2, <4>1, <4>5, <4>6 DEF ScanIsSingle
      <3> QED BY <3>2, <3>3
    <2>5. StoresOutcome'
      BY <2>1, NoneIsNothing DEF SInv, StoresOutcome
    <2> QED BY <2>4, <2>5 DEF SInv
  <1> QED BY <1>3, <1>4, <1>5, <1>6 DEF TakeUnit

\* What is stored takes the place of the handler that was about to store it.
LEMMA StoredIsSingle ==
  ASSUME IInv, SInv, NEW r \in Request, StoreOutcome(r)
  PROVE  SInv'
PROOF
  <1>1. /\ req \in [Request -> Handler] /\ req[r] \in Handler /\ req[r].pc = "store"
        /\ stored \in [Key -> Outcome] /\ req[r].tier \in Outcome /\ req[r].tier # None
    BY DEF IInv, Stock, TypeOK, Handler, StoreOutcome, At, SInv, StoresOutcome
  <1>2. /\ Leave(r, req[r].tier) /\ UNCHANGED <<units, troubled>>
        /\ stored' = [stored EXCEPT ![KeyOf(r)] = req[r].tier]
    BY DEF StoreOutcome
  <1>3. /\ \A q \in Request \ {r} : req'[q] = req[q]
        /\ \A s \in Scan : Serves(r, s)' => Serves(r, s)
        /\ req'[r].pc # "undo"
    BY <1>1, <1>2, WalkGoesOn
  <1>4. req'[r].pc \in {"issue", "idle", "ask"}
    BY <1>1, <1>2 DEF Leave, Idle
  <1>5. \A k \in Key : stored[k] # None => stored'[k] # None
    BY <1>1, <1>2
  <1>6. ASSUME NEW s \in Scan \ troubled' PROVE ScanIsSingle(s)'
    <2>1. ScanIsSingle(s)
      BY <1>2, <1>6 DEF SInv
    <2>2. \A q \in Request \ {r} : Serves(q, s)' <=> Serves(q, s)
      BY <1>3 DEF Serves
    <2>3. \A q, z \in Request : Serves(q, s)' /\ Serves(z, s)' => q = z
      BY <1>3, <2>1, <2>2 DEF ScanIsSingle
    <2>4. ASSUME NEW i \in 1 .. 4
          PROVE  /\ units'[<<i, s>>] <= 1
                 /\ units'[<<i, s>>] > 0 =>
                      \/ stored'[<<i, s>>] # None
                      \/ \E q \in Request : Serves(q, s)' /\ req'[q].pc = "store" /\ req'[q].rung = i
      <3>1. <<i, s>> \in Key
        BY DEF Key
      <3>2. CASE Serves(r, s) /\ req[r].rung = i
        <4>1. stored'[<<i, s>>] # None
          BY <1>1, <1>2, <3>1, <3>2 DEF Serves, KeyOf
        <4> QED BY <1>2, <2>1, <4>1 DEF ScanIsSingle
      <3>3. CASE ~(Serves(r, s) /\ req[r].rung = i)
        BY <1>2, <1>3, <1>5, <2>1, <2>2, <3>1, <3>3 DEF ScanIsSingle
      <3> QED BY <3>2, <3>3
    <2>5. \A q \in Request : Serves(q, s)' /\ req'[q].pc \in {"take", "undo"}
            => units'[<<req'[q].rung, s>>] = 0
      BY <1>2, <1>3, <1>4, <2>1, <2>2 DEF ScanIsSingle
    <2> QED BY <2>3, <2>4, <2>5 DEF ScanIsSingle
  <1>7. StoresOutcome'
    BY <1>3, <1>4 DEF SInv, StoresOutcome
  <1> QED BY <1>6, <1>7 DEF SInv

LEMMA SingleStep == IInv /\ SInv /\ [Next]_vars => SInv'
PROOF
  <1> SUFFICES ASSUME IInv, SInv, [Next]_vars PROVE SInv'
    OBVIOUS
  <1>1. CASE UNCHANGED vars \/ WindowMoves
    BY <1>1 DEF vars, WindowMoves, shop, SInv, StoresOutcome, ScanIsSingle, Serves
  <1> QED BY <1>1, ArrivalIsSingle, TroubleIsNoted, BesideTheLadder, AskIsSingle, FallIsSingle,
             UnitIsSingle, StoredIsSingle DEF Next, Handle

\* For every number of requests and scans: a scan takes a second unit of a ladder
\* only if two of its requests overlapped or one of them ended early.
THEOREM SecondUnitsAreTroubled == Spec => []SecondUnitNeedsTrouble
PROOF
  <1>1. Init => IInv /\ SInv
    <2>1. ASSUME Init PROVE SInv
      <3>1. \A r \in Request : req[r].pc = "idle"
        BY <2>1 DEF Init, Idle
      <3>2. \A k \in Key : units[k] = 0
        BY <2>1 DEF Init
      <3> QED BY <3>1, <3>2 DEF SInv, StoresOutcome, ScanIsSingle, Serves, Key
    <2> QED BY <2>1, InitIInv
  <1>2. IInv /\ SInv /\ [Next]_vars => IInv' /\ SInv'
    BY StepKeepsIInv, SingleStep
  <1>3. IInv /\ SInv => SecondUnitNeedsTrouble
    <2> SUFFICES ASSUME IInv, SInv, NEW i \in 1 .. 4, NEW s \in Scan, units[<<i, s>>] > 1
                 PROVE  s \in troubled
      BY DEF SecondUnitNeedsTrouble, Key
    <2>1. units[<<i, s>>] \in Nat
      BY DEF IInv, Stock, TypeOK, Key
    <2>2. s \notin troubled => units[<<i, s>>] <= 1
      BY DEF SInv, ScanIsSingle
    <2> QED BY <2>1, <2>2
  <1> QED BY <1>1, <1>2, <1>3, PTL DEF Spec

==============================================================================
