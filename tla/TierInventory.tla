---------------------------- MODULE TierInventory ----------------------------
(* The handlers that hand out limited benefits, over Redis: POST /scan of     *)
(* codePerks, codePod and codeClip and POST /inner-circle of codePerks.  A    *)
(* handler is asynchronous: between two Redis commands any other handler may  *)
(* run, in this process or another, so each command is an action.  A benefit  *)
(* with a quantity is a pool with a counter; a unit is taken by INCR and, when *)
(* the answer exceeds the quantity, given back by DECR.  The verticals differ  *)
(* in the order of their pools (Ladders) and share that protocol.              *)
EXTENDS Integers, FiniteSets, Sequences

CONSTANTS Verticals,   \* the verticals whose event is considered
          Quantity,    \* Quantity[p]: the quantity the event gives pool p
          Request,     \* the handlers that can be in progress at once
          Scan,        \* scan ids
          Phone,       \* telephone numbers
          MaxRequests, \* bound: requests received
          None

\* A ladder is tried from its first pool on until one grants a unit, and the
\* outcome is stored under one key per scan.
Ladders ==
  [ codeperks |-> << <<"gold", "silver", "standard">> >>,
    codepod   |-> << <<"goldXtra">>, <<"gold", "silver", "general">> >>,
    codeclip  |-> << <<"clipPlus">>, <<"clip">>, <<"openClip">>, <<"clipXtra">> >> ]

Pool == {"gold", "silver", "standard", "general", "goldXtra",
         "clipPlus", "clip", "openClip", "clipXtra"}

ASSUME RequestsFinite == IsFiniteSet(Request)
ASSUME QuantitiesAreNatural == Quantity \in [Pool -> Nat]
ASSUME VerticalsAreKnown == Verticals \subseteq DOMAIN Ladders
ASSUME NoneIsNothing == None \notin Scan \cup Pool \cup {"exhausted"}

\* Without a quantity these pools use no counter: all are closed but openClip,
\* which everybody gets ...
Uncounted(p) == Quantity[p] = 0 /\ p \in {"gold", "silver", "goldXtra", "clipXtra", "openClip"}
\* ... and these count without an end.
Unlimited(p) == p = "standard" \/ (Quantity[p] = 0 /\ ~Uncounted(p))

VARIABLES vertical, \* the event's vertical
          window,   \* not_open, open or closed, by the clock
          counter,  \* pool -> the Redis counter
          stored,   \* <<ladder, scan>> -> the stored outcome
          seen,     \* uniqueScanIds
          members,  \* uniquePhones
          joins,    \* innerCircleJoinCount
          certs,    \* the ownership list
          req,      \* the handlers in progress
          arrived,  \* requests received (bounded)
          granted,  \* history: pool -> units taken and kept
          units,    \* history: <<ladder, scan>> -> units taken by /scan
          troubled, \* history: scans that had two handlers at once or lost one
          lost      \* history: members whose handler ended before the certificate

vars == <<vertical, window, counter, stored, seen, members, joins, certs, req,
          arrived, granted, units, troubled, lost>>

shop  == <<counter, stored, granted, units>>
circle == <<members, joins, certs>>

Idle == [pc |-> "idle", kind |-> "scan", scan |-> None, phone |-> None,
         rung |-> 1, pool |-> 1, tier |-> None, no |-> 0]

Key == (1 .. 4) \X Scan
Outcome == Pool \cup {"exhausted", None}

Init ==
  /\ vertical \in Verticals
  /\ window \in {"not_open", "open"}
  /\ counter = [p \in Pool |-> 0]
  /\ stored = [k \in Key |-> None]
  /\ seen = {} /\ members = {} /\ joins = 0 /\ certs = {}
  /\ req = [r \in Request |-> Idle]
  /\ arrived = 0
  /\ granted = [p \in Pool |-> 0]
  /\ units = [k \in Key |-> 0]
  /\ troubled = {} /\ lost = {}

Ladder(r) == Ladders[vertical][req[r].rung]
PoolOf(r) == Ladder(r)[req[r].pool]
KeyOf(r) == <<req[r].rung, req[r].scan>>
At(r, pc) == req[r].pc = pc
Go(r, pc) == req' = [req EXCEPT ![r].pc = pc]
Answer(r) == req' = [req EXCEPT ![r] = Idle]

\* Where a handler goes when its ladder is over: the first grant ends a
\* codePerks or codePod scan; codeClip goes through all its pools.
Leave(r, tier) ==
  LET last == req[r].rung = Len(Ladders[vertical])
      done == vertical # "codeclip" /\ tier # None
  IN  req' = IF req[r].kind = "join"
             THEN [req EXCEPT ![r].pc = "issue", ![r].tier = tier]
             ELSE IF last \/ done
             THEN [req EXCEPT ![r] = Idle]
             ELSE [req EXCEPT ![r].pc = "ask", ![r].pool = 1, ![r].rung = @ + 1]

------------------------------------------------------------------------------
(* POST /scan *)

Overlap(r, s) == \E q \in Request \ {r} : req[q].pc # "idle" /\ req[q].scan = s

ScanArrives(r, s) ==
  /\ At(r, "idle") /\ arrived < MaxRequests
  /\ arrived' = arrived + 1
  /\ req' = [req EXCEPT ![r] = [Idle EXCEPT !.pc = IF vertical = "codepod"
                                                   THEN "repeat" ELSE "enter",
                                            !.scan = s]]
  /\ troubled' = IF Overlap(r, s) THEN troubled \cup {s} ELSE troubled
  /\ UNCHANGED <<vertical, window, shop, circle, seen, lost>>

\* codePod answers a repeated scan from what is stored.
CheckRepeat(r) ==
  /\ At(r, "repeat")
  /\ IF req[r].scan \in seen THEN Answer(r) ELSE Go(r, "enter")
  /\ UNCHANGED <<vertical, window, shop, circle, seen, arrived, troubled, lost>>

\* The scan is counted before any window is looked at: a codePod scan that finds
\* the window shut is refused, and has participated.
Refused == (vertical = "codepod" /\ window # "open") \/ (vertical = "codeclip" /\ window = "closed")

EnterScan(r) ==
  /\ At(r, "enter")
  /\ seen' = seen \cup {req[r].scan}
  /\ IF Refused THEN Answer(r) ELSE Go(r, "ask")
  /\ UNCHANGED <<vertical, window, shop, circle, arrived, troubled, lost>>

------------------------------------------------------------------------------
(* One ladder *)

\* GET of the stored outcome.  codePerks assigns only while the window is open.
AskStored(r) ==
  /\ At(r, "ask")
  /\ IF req[r].scan # None /\ stored[KeyOf(r)] # None
     THEN Leave(r, stored[KeyOf(r)])
     ELSE IF vertical = "codeperks" /\ req[r].kind = "scan" /\ window # "open"
     THEN Answer(r)
     ELSE Go(r, "take")
  /\ UNCHANGED <<vertical, window, shop, circle, seen, arrived, troubled, lost>>

\* The next pool of the ladder, or, past the last one, the end: codePod stores
\* that nothing was left.
Fall(r) ==
  IF req[r].pool < Len(Ladder(r))
  THEN req' = [req EXCEPT ![r].pc = "take", ![r].pool = @ + 1]
  ELSE IF PoolOf(r) = "general"
  THEN req' = [req EXCEPT ![r].pc = "store", ![r].tier = "exhausted"]
  ELSE Leave(r, None)

SkipUncounted(r) ==
  /\ At(r, "take") /\ Uncounted(PoolOf(r))
  /\ Fall(r)
  /\ UNCHANGED <<vertical, window, shop, circle, seen, arrived, troubled, lost>>

\* Mutant: one unit too many.
GrantsOneMore(p, n) == Unlimited(p) \/ n <= Quantity[p] + 1

Grants(p, n) == Unlimited(p) \/ n <= Quantity[p]

\* INCR: within the quantity the unit is this handler's.
TakeUnit(r) ==
  LET p == PoolOf(r)
      n == counter[p] + 1
  IN  /\ At(r, "take") /\ ~Uncounted(p)
      /\ counter' = [counter EXCEPT ![p] = n]
      /\ IF Grants(p, n)
         THEN /\ granted' = [granted EXCEPT ![p] = @ + 1]
              /\ IF req[r].kind = "join"
                 THEN Leave(r, p) /\ UNCHANGED units
                 ELSE /\ req' = [req EXCEPT ![r].pc = "store", ![r].tier = p]
                      /\ units' = [units EXCEPT ![KeyOf(r)] = @ + 1]
         ELSE /\ Go(r, "undo")
              /\ UNCHANGED <<granted, units>>
      /\ UNCHANGED <<vertical, window, stored, circle, seen, arrived, troubled, lost>>

\* DECR: what exceeded the quantity is given back.
GiveBack(r) ==
  /\ At(r, "undo")
  /\ counter' = [counter EXCEPT ![PoolOf(r)] = @ - 1]
  /\ Fall(r)
  /\ UNCHANGED <<vertical, window, stored, granted, units, circle, seen, arrived,
                 troubled, lost>>

\* Mutant: the outcome of a codePod or codePerks scan is not stored.
ForgetOutcome(r) ==
  /\ At(r, "store")
  /\ Leave(r, req[r].tier)
  /\ UNCHANGED <<vertical, window, shop, circle, seen, arrived, troubled, lost>>

\* SET of the outcome, without NX.
StoreOutcome(r) ==
  /\ At(r, "store")
  /\ stored' = [stored EXCEPT ![KeyOf(r)] = req[r].tier]
  /\ Leave(r, req[r].tier)
  /\ UNCHANGED <<vertical, window, counter, granted, units, circle, seen, arrived,
                 troubled, lost>>

------------------------------------------------------------------------------
(* POST /inner-circle *)

JoinArrives(r, ph, s) ==
  /\ At(r, "idle") /\ arrived < MaxRequests
  /\ vertical = "codeperks"
  /\ arrived' = arrived + 1
  /\ req' = [req EXCEPT ![r] = [Idle EXCEPT !.pc = "member", !.kind = "join",
                                            !.phone = ph, !.scan = s]]
  /\ UNCHANGED <<vertical, window, shop, circle, seen, troubled, lost>>

\* SISMEMBER: outside the window only a member is served.
CheckMember(r) ==
  /\ At(r, "member")
  /\ IF req[r].phone \notin members /\ window # "open"
     THEN Answer(r) ELSE Go(r, "enrol")
  /\ UNCHANGED <<vertical, window, shop, circle, seen, arrived, troubled, lost>>

\* Mutant: what SISMEMBER answered decides, not SADD.
EnrolByMember(r) ==
  /\ At(r, "enrol")
  /\ Go(r, "number")
  /\ members' = members \cup {req[r].phone}
  /\ UNCHANGED <<vertical, window, shop, joins, certs, seen, arrived, troubled, lost>>

\* SADD decides who issues the certificate; the others look it up and answer.
Enrol(r) ==
  /\ At(r, "enrol")
  /\ IF req[r].phone \in members THEN Answer(r) ELSE Go(r, "number")
  /\ members' = members \cup {req[r].phone}
  /\ UNCHANGED <<vertical, window, shop, joins, certs, seen, arrived, troubled, lost>>

\* INCR of the join count gives the certificate its number.
NumberCertificate(r) ==
  /\ At(r, "number")
  /\ joins' = joins + 1
  /\ req' = [req EXCEPT ![r].pc = "ask", ![r].no = joins + 1]
  /\ UNCHANGED <<vertical, window, shop, members, certs, seen, arrived, troubled, lost>>

IssueCertificate(r) ==
  /\ At(r, "issue")
  /\ certs' = certs \cup {[no |-> req[r].no, phone |-> req[r].phone, tier |-> req[r].tier]}
  /\ Answer(r)
  /\ UNCHANGED <<vertical, window, shop, members, joins, seen, arrived, troubled, lost>>

------------------------------------------------------------------------------
(* The environment *)

\* The clock passes the start or the end of the campaign.
WindowMoves ==
  /\ \/ window = "not_open" /\ window' = "open"
     \/ window = "open" /\ window' = "closed"
  /\ UNCHANGED <<vertical, shop, circle, seen, req, arrived, troubled, lost>>

\* A Redis command raises, or the process dies: the handler ends where it is.
Abort(r) ==
  /\ ~At(r, "idle")
  /\ Answer(r)
  /\ troubled' = IF req[r].kind = "scan" THEN troubled \cup {req[r].scan} ELSE troubled
  /\ lost' = IF At(r, "number") \/ req[r].no > 0
             THEN lost \cup {req[r].phone} ELSE lost
  /\ UNCHANGED <<vertical, window, shop, circle, seen, arrived>>

\* assignCodePodGoldXtra swallows an error: the scan goes on to its souvenir.
XtraFails(r) ==
  /\ vertical = "codepod" /\ req[r].rung = 1
  /\ req[r].pc \in {"ask", "take", "undo", "store"}
  /\ req' = [req EXCEPT ![r].pc = "ask", ![r].rung = 2, ![r].pool = 1, ![r].tier = None]
  /\ troubled' = troubled \cup {req[r].scan}
  /\ UNCHANGED <<vertical, window, shop, circle, seen, arrived, lost>>

Handle(r) ==
  \/ CheckRepeat(r) \/ EnterScan(r)
  \/ AskStored(r) \/ SkipUncounted(r) \/ TakeUnit(r) \/ GiveBack(r) \/ StoreOutcome(r)
  \/ CheckMember(r) \/ Enrol(r) \/ NumberCertificate(r) \/ IssueCertificate(r)

Next ==
  \/ \E r \in Request :
       \/ \E s \in Scan : ScanArrives(r, s)
       \/ \E ph \in Phone, s \in Scan \cup {None} : JoinArrives(r, ph, s)
       \/ Handle(r) \/ Abort(r) \/ XtraFails(r)
  \/ WindowMoves

Spec == Init /\ [][Next]_vars

------------------------------------------------------------------------------
TypeOK ==
  /\ vertical \in Verticals /\ window \in {"not_open", "open", "closed"}
  /\ counter \in [Pool -> Nat] /\ granted \in [Pool -> Nat]
  /\ stored \in [Key -> Outcome] /\ units \in [Key -> Nat]
  /\ seen \subseteq Scan /\ members \subseteq Phone /\ joins \in Nat
  /\ req \in [Request -> [pc : {"idle", "repeat", "enter", "ask", "take", "undo", "store",
                                "member", "enrol", "number", "issue"},
                          kind : {"scan", "join"}, scan : Scan \cup {None},
                          phone : Phone \cup {None}, rung : 1 .. 4, pool : 1 .. 3,
                          tier : Outcome, no : Nat]]
  /\ arrived \in Nat /\ troubled \subseteq Scan /\ lost \subseteq Phone \cup {None}

\* However the handlers interleave, and wherever one stops, no pool hands out more
\* units than its quantity: the INCR/DECR protocol of the three verticals.
NeverOversold == \A p \in Pool : Unlimited(p) \/ granted[p] <= Quantity[p]

\* A visitor falls to a lower pool of a ladder only when the higher one has been
\* handed out to the last unit: the units that are about to be given back, or were
\* never given back, do not take a gold from anybody.
FallsOnlyWhenGone ==
  \A i \in DOMAIN Ladders[vertical] : \A j, k \in DOMAIN Ladders[vertical][i] :
    (j < k /\ granted[Ladders[vertical][i][k]] > 0)
      => granted[Ladders[vertical][i][j]] = Quantity[Ladders[vertical][i][j]]

\* A scan takes a second unit of a ladder only if two of its requests overlapped
\* or one of them ended early: the key is read before the counter and written after.
SecondUnitNeedsTrouble ==
  \A k \in Key : units[k] > 1 => k[2] \in troubled

\* Of the requests that register one telephone exactly one issues the certificate,
\* with a number of its own, and a member without one has a handler at work on it,
\* unless that handler ended early (it is then never issued).
CertificatesMatchMembers ==
  /\ \A c, d \in certs : (c.no = d.no \/ c.phone = d.phone) => c = d
  /\ \A ph \in members :
       \/ \E c \in certs : c.phone = ph
       \/ \E r \in Request : req[r].phone = ph /\ req[r].pc \notin {"idle", "member", "enrol"}
       \/ ph \in lost

\* Units are handed out exactly: never more than there are, and none of a lower pool while the
\* higher one has units left.
UnitsAreExact == TypeOK /\ NeverOversold /\ FallsOnlyWhenGone

==============================================================================
