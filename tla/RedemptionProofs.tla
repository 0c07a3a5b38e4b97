-------------------------- MODULE RedemptionProofs --------------------------
(***************************************************************************)
(* Theorems about Redemption for any coupons, certificates and handlers,   *)
(* each kind of coupon and any number of requests.                         *)
(***************************************************************************)
EXTENDS Redemption, TLAPS

-----------------------------------------------------------------------------
(***************************************************************************)
(* Types.                                                                  *)
(***************************************************************************)

\* Handlers that make a coupon, and those of codePerks; the handlers that hold a copy.
Making == {"reserve", "document", "link", "mail", "mint", "persist"}
OfPerks == {"reserve", "document", "link", "mail", "lookup", "use", "readstatus", "writestatus"}
OfRows == {"mint", "persist", "update", "attempt"}
Copying == {"link", "mail", "use", "writestatus", "mark"}
Pcs == OfPerks \cup OfRows \cup {"idle", "refresh", "cache", "mark"}

RequestRow == [pc : Pcs, coupon : Coupon \cup {None}, cert : Certificate \cup {None},
               copy : Document \cup {None}]

TypeInv ==
  /\ kind \in {"codeperks", "goldxtra", "clipxtra"} /\ kind \in Kinds /\ expired \in BOOLEAN
  /\ claimOf \in [Certificate -> Coupon \cup {None}]
  /\ book \in [Coupon -> Document \cup {None}]
  /\ linked \subseteq Coupon
  /\ row \in Rows
  /\ req \in [Request -> RequestRow]
  /\ arrived \in Nat /\ uses \in [Coupon -> Nat]

-----------------------------------------------------------------------------
(***************************************************************************)
(* What a handler's program counter tells.  One that makes a coupon is the *)
(* only one that does, and until it has saved the document nobody has; a    *)
(* copy is as old as its version says.                                     *)
(***************************************************************************)

\* The copy of a document: of an earlier version, or what the document says of its use.
CopyOf(d, b) == d.version <= b.version /\ (d.version = b.version => d.used = b.used)

RightKind(pc) ==
  /\ pc \in OfPerks => kind = "codeperks"
  /\ pc \in OfRows => kind # "codeperks"
  /\ pc = "refresh" => kind = "goldxtra"
  /\ pc \in {"cache", "mark"} => kind = "clipxtra"

\* q is a handler's row: what it says holds of the stores.
Knows(q) ==
  /\ RightKind(q.pc)
  /\ q.pc # "idle" => q.coupon \in Coupon
  /\ q.pc \in Making => q.cert \in Certificate
  /\ q.pc \in {"reserve", "document", "mint"} => book[q.coupon] = None
  /\ q.pc = "reserve" => \A x \in Certificate : claimOf[x] # q.coupon
  /\ q.pc \in {"document", "link"} => claimOf[q.cert] = q.coupon
  /\ q.pc \in {"persist", "link", "mail"} => book[q.coupon] \in Document /\ book[q.coupon].cert = q.cert
  /\ q.pc \in Copying => /\ q.copy \in Document /\ book[q.coupon] \in Document
                         /\ CopyOf(q.copy, book[q.coupon])
  /\ q.pc \in {"use", "mark"} => ~q.copy.used
  /\ q.pc = "readstatus" => book[q.coupon] \in Document
  /\ q.pc = "refresh" => row[q.coupon] = "redeemed" /\ book[q.coupon] \in Document

Handlers ==
  /\ \A r \in Request : Knows(req[r])
  /\ \A q, r \in Request : q # r /\ req[q].pc \in Making /\ req[r].pc \in Making
                             => req[q].coupon # req[r].coupon

-----------------------------------------------------------------------------
(***************************************************************************)
(* Whose a coupon is.                                                      *)
(***************************************************************************)

Claims ==
  /\ \A x, y \in Certificate : claimOf[x] = claimOf[y] /\ claimOf[x] # None => x = y
  /\ kind = "codeperks" => \A c \in Coupon : /\ book[c] # None => claimOf[book[c].cert] = c
                                             /\ c \in linked => book[c] # None
  /\ kind # "codeperks" =>
       /\ linked = {}
       /\ \A x \in Certificate : claimOf[x] # None =>
            book[claimOf[x]] # None /\ book[claimOf[x]].cert = x
       /\ \A c \in Coupon : row[c] # "absent" => book[c] # None /\ claimOf[book[c].cert] = c

\* A certificate that is taken has a coupon, a handler at work on it, or lost its handler.
Taken ==
  kind = "codeperks" => \A x \in Certificate : claimOf[x] # None =>
    \/ claimOf[x] \in linked
    \/ \E r \in Request : req[r].coupon = claimOf[x] /\ req[r].pc \in {"document", "link"}
    \/ x \in broken

-----------------------------------------------------------------------------
(***************************************************************************)
(* What has been used.                                                     *)
(***************************************************************************)

Uses ==
  /\ bycache # {} => kind = "clipxtra"
  /\ kind = "codeperks" => \A c \in Coupon :
       /\ uses[c] > 0 => book[c] # None /\ (book[c].used \/ c \in stale)
       /\ uses[c] > 1 => c \in stale
  /\ kind # "codeperks" => \A c \in Coupon :
       c \notin bycache => uses[c] = IF row[c] = "redeemed" THEN 1 ELSE 0

Refreshed ==
  kind = "goldxtra" => \A c \in Coupon : row[c] = "redeemed" =>
    \/ book[c] # None /\ book[c].used
    \/ c \in behind
    \/ \E r \in Request : req[r].coupon = c /\ req[r].pc = "refresh"

Inv == Handlers /\ Claims /\ Taken /\ Uses /\ Refreshed

-----------------------------------------------------------------------------
(***************************************************************************)
(* Documents, and what a step makes of a handler's row.                    *)
(***************************************************************************)

LEMMA FreshIsDocument ==
  ASSUME NEW x \in Certificate
  PROVE  /\ Fresh(x) \in Document /\ ~Fresh(x).used /\ Fresh(x).version = 0 /\ Fresh(x).cert = x
         /\ Fresh(x) # None
<1>1. Fresh(x) \in Document
  BY DEF Fresh, Document, Statuses
<1> QED
  BY <1>1, NoneIsNothing DEF Fresh

LEMMA DocumentShape ==
  ASSUME NEW d \in Document
  PROVE  /\ d.used \in BOOLEAN /\ d.status \in Statuses /\ d.version \in Nat /\ d.cert \in Certificate
         /\ d # None
BY NoneIsNothing DEF Document

LEMMA RowShape ==
  ASSUME NEW u \in RequestRow
  PROVE  /\ u.pc \in Pcs /\ u.coupon \in Coupon \cup {None} /\ u.cert \in Certificate \cup {None}
         /\ u.copy \in Document \cup {None}
BY DEF RequestRow

LEMMA IdleShape == Idle \in RequestRow /\ Idle.pc = "idle"
BY DEF Idle, RequestRow, Pcs

\* The handler r moves to the counter pc with the copy it then holds, and nobody else moves.
Becomes(r, pc, c, x, d) ==
  /\ req' \in [Request -> RequestRow]
  /\ \A q \in Request \ {r} : req'[q] = req[q]
  /\ req'[r].pc = pc /\ req'[r].coupon = c /\ req'[r].cert = x /\ req'[r].copy = d

LEMMA Moved ==
  ASSUME TypeInv, NEW r \in Request, NEW u \in RequestRow, req' = [req EXCEPT ![r] = u]
  PROVE  Becomes(r, u.pc, u.coupon, u.cert, u.copy)
BY DEF TypeInv, Becomes

LEMMA Answered ==
  ASSUME TypeInv, NEW r \in Request, Answer(r)
  PROVE  Becomes(r, "idle", None, None, None)
<1>1. Becomes(r, Idle.pc, Idle.coupon, Idle.cert, Idle.copy)
  BY IdleShape, Moved DEF Answer
<1> QED
  BY <1>1 DEF Idle

LEMMA Gone ==
  ASSUME TypeInv, NEW r \in Request, NEW pc \in Pcs, Go(r, pc)
  PROVE  Becomes(r, pc, req[r].coupon, req[r].cert, req[r].copy)
<1> DEFINE u == [req[r] EXCEPT !.pc = pc]
<1>0. req[r] \in RequestRow
  BY DEF TypeInv
<1>1. /\ u \in RequestRow /\ u.pc = pc /\ u.coupon = req[r].coupon /\ u.cert = req[r].cert
      /\ u.copy = req[r].copy
  BY <1>0 DEF RequestRow
<1>2. req' = [req EXCEPT ![r] = u]
  BY DEF Go, TypeInv
<1> HIDE DEF u
<1> QED
  BY <1>1, <1>2, Moved

\* A handler that reads its document, or goes on with a copy d of its own.
LEMMA Copied ==
  ASSUME TypeInv, NEW r \in Request, NEW pc \in Pcs, NEW d \in Document \cup {None},
         req' = [req EXCEPT ![r].pc = pc, ![r].copy = d]
  PROVE  Becomes(r, pc, req[r].coupon, req[r].cert, d)
<1> DEFINE u == [req[r] EXCEPT !.pc = pc, !.copy = d]
<1>0. req[r] \in RequestRow
  BY DEF TypeInv
<1>1. u \in RequestRow /\ u.pc = pc /\ u.coupon = req[r].coupon /\ u.cert = req[r].cert /\ u.copy = d
  BY <1>0 DEF RequestRow
<1>2. req' = [req EXCEPT ![r] = u]
  BY DEF TypeInv
<1> HIDE DEF u
<1> QED
  BY <1>1, <1>2, Moved

LEMMA Arrived ==
  ASSUME TypeInv, NEW r \in Request, NEW pc \in Pcs, NEW c \in Coupon, NEW x \in Certificate \cup {None},
         Arrives(r, pc, c, x)
  PROVE  Becomes(r, pc, c, x, None) /\ req[r].pc = "idle"
<1> DEFINE u == [Idle EXCEPT !.pc = pc, !.coupon = c, !.cert = x]
<1>1. u \in RequestRow /\ u.pc = pc /\ u.coupon = c /\ u.cert = x /\ u.copy = None
  BY DEF RequestRow, Idle
<1>2. req' = [req EXCEPT ![r] = u]
  BY DEF Arrives
<1> HIDE DEF u
<1> QED
  BY <1>1, <1>2, Moved DEF Arrives, At

\* SET of a whole document.
LEMMA Overwritten ==
  ASSUME TypeInv, NEW c \in Coupon, book[c] \in Document, NEW copy \in Document,
         NEW used \in BOOLEAN, NEW status \in Statuses, Overwrite(c, copy, used, status)
  PROVE  /\ book' \in [Coupon -> Document \cup {None}]
         /\ book'[c] \in Document /\ book'[c].used = used
         /\ book'[c].version = book[c].version + 1 /\ book'[c].cert = book[c].cert
         /\ \A d \in Coupon : d # c => book'[d] = book[d]
         /\ stale \subseteq stale' /\ (copy.version # book[c].version => c \in stale')
         /\ \A d : d # c => (d \in stale' <=> d \in stale)
<1> DEFINE u == [used |-> used, status |-> status, version |-> book[c].version + 1, cert |-> book[c].cert]
<1>1. book[c].version + 1 \in Nat /\ book[c].cert \in Certificate
  BY DocumentShape
<1>2. /\ u \in Document /\ u.used = used /\ u.version = book[c].version + 1 /\ u.cert = book[c].cert
  BY <1>1 DEF Document
<1>3. book' = [book EXCEPT ![c] = u]
  BY DEF Overwrite
<1> HIDE DEF u
<1>4. stale' = IF copy.version # book[c].version THEN stale \cup {c} ELSE stale
  BY DEF Overwrite
<1> QED
  BY <1>2, <1>3, <1>4 DEF TypeInv

-----------------------------------------------------------------------------
(***************************************************************************)
(* What a step of one handler leaves of the others' knowledge.             *)
(***************************************************************************)

\* What every step does to the stores: a claim stays, a document keeps its certificate and is
\* changed only under a new version (or where nobody copies), and a redeemed row stays one.
Grows ==
  /\ kind' = kind
  /\ \A x \in Certificate : claimOf[x] # None => claimOf'[x] = claimOf[x]
  /\ \A c \in Coupon : book[c] \in Document =>
       /\ book'[c] \in Document /\ book'[c].cert = book[c].cert
       /\ book'[c] = book[c] \/ kind = "goldxtra" \/ book[c].version < book'[c].version
  /\ \A c \in Coupon : row[c] = "redeemed" => row'[c] = "redeemed"

LEMMA CopiesAge ==
  ASSUME NEW d \in Document, NEW b \in Document, NEW a \in Document, CopyOf(d, b),
         a = b \/ b.version < a.version
  PROVE  CopyOf(d, a)
<1>1. d.version \in Nat /\ b.version \in Nat /\ a.version \in Nat
  BY DocumentShape
<1>2. CASE a = b
  BY <1>2
<1>3. CASE b.version < a.version
  <2>1. d.version <= a.version /\ d.version # a.version
    BY <1>1, <1>3 DEF CopyOf
  <2> QED
    BY <2>1 DEF CopyOf
<1> QED
  BY <1>2, <1>3

LEMMA KnowsKept ==
  ASSUME TypeInv, NEW q \in Request, Knows(req[q]), req'[q] = req[q], Grows,
         req[q].pc \in Making /\ book[req[q].coupon] = None => book'[req[q].coupon] = None,
         req[q].pc = "reserve" => \A x \in Certificate : claimOf'[x] # req[q].coupon
  PROVE  Knows(req[q])'
<1> DEFINE u == req[q]
           c == req[q].coupon
<1>0. u \in RequestRow
  BY DEF TypeInv
<1>1. u.pc # "idle" => c \in Coupon
  BY DEF Knows
<1>2. RightKind(u.pc) /\ kind' = kind
  BY DEF Knows, Grows
<1>3. RightKind(u.pc)'
  BY <1>2 DEF RightKind
<1>4. u.pc \in {"document", "link"} => claimOf'[u.cert] = c
  BY <1>1, NoneIsNothing DEF Knows, Grows, Making
<1>5. u.pc \in {"persist", "link", "mail"} => book'[c] \in Document /\ book'[c].cert = u.cert
  BY <1>1 DEF Knows, Grows
<1>6. u.pc \in Copying => u.copy \in Document /\ book'[c] \in Document /\ CopyOf(u.copy, book'[c])
  <2> SUFFICES ASSUME u.pc \in Copying
               PROVE  u.copy \in Document /\ book'[c] \in Document /\ CopyOf(u.copy, book'[c])
    OBVIOUS
  <2>1. c \in Coupon /\ u.copy \in Document /\ book[c] \in Document /\ CopyOf(u.copy, book[c])
    BY <1>1 DEF Knows, Copying
  <2>2. kind # "goldxtra"
    BY <1>2 DEF RightKind, Copying, OfPerks
  <2>3. book'[c] \in Document /\ (book'[c] = book[c] \/ book[c].version < book'[c].version)
    BY <2>1, <2>2 DEF Grows
  <2> HIDE DEF c, u
  <2> QED
    BY <2>1, <2>3, CopiesAge
<1>7. u.pc = "readstatus" => book'[c] \in Document
  BY <1>1 DEF Knows, Grows
<1>8. u.pc = "refresh" => row'[c] = "redeemed" /\ book'[c] \in Document
  BY <1>1 DEF Knows, Grows
<1>9. u.pc \in {"reserve", "document", "mint"} => book'[c] = None
  BY DEF Knows, Making
<1>10. /\ u.pc \in Making => u.cert \in Certificate
       /\ u.pc \in {"use", "mark"} => ~u.copy.used
  BY DEF Knows
<1>11. CopyOf(u.copy, book'[c]) => CopyOf(req[q].copy, book[req[q].coupon])'
  BY DEF CopyOf
<1> QED
  BY <1>1, <1>3, <1>4, <1>5, <1>6, <1>7, <1>8, <1>9, <1>10, <1>11 DEF Knows

LEMMA HandlersStep ==
  ASSUME TypeInv, Handlers, NEW r \in Request, Grows, Knows(req[r])',
         \A q \in Request \ {r} : req'[q] = req[q],
         req'[r].pc \in Making => req[r].pc \in Making /\ req'[r].coupon = req[r].coupon,
         \A c \in Coupon : book[c] = None => \/ book'[c] = None
                                             \/ req[r].pc \in Making /\ req[r].coupon = c,
         \A x \in Certificate : \/ claimOf'[x] = claimOf[x]
                                \/ req[r].pc \in Making /\ claimOf'[x] = req[r].coupon
  PROVE  Handlers'
<1>1. ASSUME NEW q \in Request, q # r PROVE Knows(req[q])'
  <2>1. Knows(req[q]) /\ req'[q] = req[q]
    BY <1>1 DEF Handlers
  <2>2. req[q].pc \in Making => req[q].coupon \in Coupon
    BY <2>1 DEF Knows, Making
  <2>3. req[q].pc \in Making /\ req[r].pc \in Making => req[q].coupon # req[r].coupon
    BY <1>1 DEF Handlers
  <2>4. req[q].pc \in Making /\ book[req[q].coupon] = None => book'[req[q].coupon] = None
    BY <2>2, <2>3
  <2>5. req[q].pc = "reserve" => \A x \in Certificate : claimOf'[x] # req[q].coupon
    BY <2>1, <2>3 DEF Knows, Making
  <2> QED
    BY <2>1, <2>4, <2>5, KnowsKept
<1>2. \A p, q \in Request : p # q /\ req'[p].pc \in Making /\ req'[q].pc \in Making
                              => req'[p].coupon # req'[q].coupon
  BY DEF Handlers
<1> QED
  BY <1>1, <1>2 DEF Handlers

\* Steps that leave the stores alone.
LEMMA HandlersQuiet ==
  ASSUME TypeInv, Handlers, NEW r \in Request, Knows(req[r])',
         UNCHANGED <<kind, claimOf, book, row>>,
         \A q \in Request \ {r} : req'[q] = req[q],
         req'[r].pc \in Making => req[r].pc \in Making /\ req'[r].coupon = req[r].coupon
  PROVE  Handlers'
<1>1. Grows
  BY DEF Grows
<1> QED
  BY <1>1, HandlersStep

LEMMA IdleKnows ==
  ASSUME NEW r \in Request, req'[r].pc = "idle"
  PROVE  Knows(req[r])'
BY DEF Knows, RightKind, OfPerks, OfRows, Making, Copying

LEMMA ClaimsKept == ASSUME Claims, UNCHANGED <<kind, claimOf, book, linked, row>> PROVE Claims'
BY DEF Claims

LEMMA UsesKept ==
  ASSUME Uses, UNCHANGED <<kind, book, row, uses, stale, bycache>>
  PROVE  Uses'
BY DEF Uses

LEMMA TakenKept ==
  ASSUME Taken, kind' = kind, claimOf' = claimOf, linked \subseteq linked', broken \subseteq broken',
         NEW r \in Request, \A q \in Request \ {r} : req'[q] = req[q],
         req[r].pc \in {"document", "link"} =>
           \/ req'[r].pc \in {"document", "link"} /\ req'[r].coupon = req[r].coupon
           \/ req[r].coupon \in linked'
           \/ \A x \in Certificate : claimOf[x] = req[r].coupon => x \in broken'
  PROVE  Taken'
<1> SUFFICES ASSUME kind = "codeperks", NEW x \in Certificate, claimOf[x] # None
             PROVE  \/ claimOf[x] \in linked'
                    \/ \E q \in Request : req'[q].coupon = claimOf[x] /\ req'[q].pc \in {"document", "link"}
                    \/ x \in broken'
  BY DEF Taken
<1>1. CASE claimOf[x] \in linked \/ x \in broken
  BY <1>1
<1>2. ASSUME NEW q \in Request, req[q].coupon = claimOf[x], req[q].pc \in {"document", "link"}
      PROVE  \/ claimOf[x] \in linked'
             \/ \E p \in Request : req'[p].coupon = claimOf[x] /\ req'[p].pc \in {"document", "link"}
             \/ x \in broken'
  <2>1. CASE q = r
    BY <1>2, <2>1
  <2>2. CASE q # r
    <3>1. req'[q] = req[q]
      BY <2>2
    <3> QED
      BY <1>2, <3>1
  <2> QED
    BY <2>1, <2>2
<1> QED
  BY <1>1, <1>2 DEF Taken

LEMMA TakenElse == ASSUME kind' # "codeperks" PROVE Taken'
BY DEF Taken

LEMMA RefreshedKept ==
  ASSUME Refreshed, kind' = kind, row' = row, book' = book, behind \subseteq behind',
         NEW r \in Request, \A q \in Request \ {r} : req'[q] = req[q],
         req[r].pc = "refresh" => \/ req'[r].pc = "refresh" /\ req'[r].coupon = req[r].coupon
                                  \/ req[r].coupon \in behind'
  PROVE  Refreshed'
<1> SUFFICES ASSUME kind = "goldxtra", NEW c \in Coupon, row[c] = "redeemed"
             PROVE  \/ book[c] # None /\ book[c].used
                    \/ c \in behind'
                    \/ \E q \in Request : req'[q].coupon = c /\ req'[q].pc = "refresh"
  BY DEF Refreshed
<1>1. ASSUME NEW q \in Request, req[q].coupon = c, req[q].pc = "refresh"
      PROVE  c \in behind' \/ \E p \in Request : req'[p].coupon = c /\ req'[p].pc = "refresh"
  <2>1. CASE q = r
    BY <1>1, <2>1
  <2>2. CASE q # r
    <3>1. req'[q] = req[q]
      BY <2>2
    <3> QED
      BY <1>1, <3>1
  <2> QED
    BY <2>1, <2>2
<1> QED
  BY <1>1 DEF Refreshed

LEMMA RefreshedElse == ASSUME kind' # "goldxtra" PROVE Refreshed'
BY DEF Refreshed

\* A step that only moves a handler on, or lets it arrive or end.
LEMMA QuietStep ==
  ASSUME TypeInv, Inv, NEW r \in Request, NEW pc, NEW c, NEW x, NEW d, Becomes(r, pc, c, x, d),
         Knows(req[r])', UNCHANGED <<kind, claimOf, book, linked, row, uses, stale, bycache>>,
         broken \subseteq broken', behind \subseteq behind',
         arrived' \in Nat, expired' \in BOOLEAN,
         pc \in Making => req[r].pc \in Making /\ c = req[r].coupon,
         req[r].pc \in {"document", "link"} =>
           \A y \in Certificate : claimOf[y] = req[r].coupon => y \in broken',
         req[r].pc = "refresh" => req[r].coupon \in behind'
  PROVE  TypeInv' /\ Inv'
<1>1. /\ req' \in [Request -> RequestRow] /\ \A q \in Request \ {r} : req'[q] = req[q]
      /\ req'[r].pc = pc /\ req'[r].coupon = c
  BY DEF Becomes
<1>2. TypeInv'
  BY <1>1 DEF TypeInv
<1>3. Handlers' /\ Claims' /\ Uses'
  BY <1>1, HandlersQuiet, ClaimsKept, UsesKept DEF Inv
<1>4. Taken' /\ Refreshed'
  BY <1>1, TakenKept, RefreshedKept DEF Inv
<1> QED
  BY <1>2, <1>3, <1>4 DEF Inv

-----------------------------------------------------------------------------
(***************************************************************************)
(* Steps of the handlers' own.                                             *)
(***************************************************************************)

\* A coupon nobody has drawn is not made by anybody, and none of the claims' either.
LEMMA ArrivalStep ==
  ASSUME TypeInv, Inv, NEW r \in Request, NEW c \in Coupon,
         \/ RedeemArrives(r, c) \/ StatusArrives(r, c)
         \/ \E x \in Certificate : ClaimArrives(r, x, c) \/ GrantArrives(r, c, x)
  PROVE  TypeInv' /\ Inv'
<1>1. PICK pc \in {"reserve", "lookup", "update", "readstatus", "mint"}, x \in Certificate \cup {None} :
        /\ Arrives(r, pc, c, x)
        /\ pc \in {"reserve", "lookup", "readstatus"} <=> kind = "codeperks"
        /\ pc \in {"reserve", "mint"} => x \in Certificate /\ Unissued(c)
        /\ pc = "readstatus" => book[c] # None
  BY DEF RedeemArrives, StatusArrives, ClaimArrives, GrantArrives
<1>2. pc \in Pcs
  BY DEF Pcs, OfPerks, OfRows
<1>3. Becomes(r, pc, c, x, None) /\ req[r].pc = "idle"
  BY <1>1, <1>2, Arrived
<1>4. /\ UNCHANGED <<kind, claimOf, book, linked, row, uses, stale, bycache, broken, behind, expired>>
      /\ arrived' = arrived + 1
  BY <1>1 DEF Arrives, hist
<1>5. Knows(req[r])'
  <2>1. /\ req'[r].pc = pc /\ req'[r].coupon = c /\ req'[r].cert = x
    BY <1>3 DEF Becomes
  <2>2. RightKind(pc)'
    BY <1>1, <1>4 DEF RightKind, OfPerks, OfRows
  <2>3. /\ pc \in {"reserve", "mint"} => book[c] = None /\ \A y \in Certificate : claimOf[y] # c
        /\ pc = "readstatus" => book[c] \in Document
    BY <1>1 DEF Unissued, TypeInv
  <2>4. pc \notin Copying /\ (pc \in Making => pc \in {"reserve", "mint"})
    BY DEF Copying, Making
  <2> QED
    BY <1>1, <1>4, <2>1, <2>2, <2>3, <2>4 DEF Knows, Copying, Making, RightKind
<1>6. /\ req' \in [Request -> RequestRow] /\ \A q \in Request \ {r} : req'[q] = req[q]
      /\ req'[r].pc = pc /\ req'[r].coupon = c
  BY <1>3 DEF Becomes
<1>7. TypeInv'
  BY <1>4, <1>6 DEF TypeInv
<1>8. Handlers'
  <2>1. Grows
    BY <1>4 DEF Grows
  <2>2. ASSUME NEW q \in Request, q # r PROVE Knows(req[q])'
    <3>1. Knows(req[q]) /\ req'[q] = req[q]
      BY <1>6, <2>2 DEF Inv, Handlers
    <3>2. req[q].pc = "reserve" => \A y \in Certificate : claimOf'[y] # req[q].coupon
      BY <1>4, <3>1 DEF Knows
    <3> QED
      BY <1>4, <2>1, <3>1, <3>2, KnowsKept
  <2>3. pc \in Making => \A q \in Request : req[q].coupon # c
    BY <1>1 DEF Unissued, Making
  <2>4. \A p, q \in Request : p # q /\ req'[p].pc \in Making /\ req'[q].pc \in Making
                                => req'[p].coupon # req'[q].coupon
    BY <1>6, <2>3 DEF Inv, Handlers
  <2> QED
    BY <1>5, <2>2, <2>4 DEF Handlers
<1>9. Claims' /\ Uses' /\ Taken' /\ Refreshed'
  BY <1>3, <1>4, <1>6, ClaimsKept, UsesKept, TakenKept, RefreshedKept DEF Inv
<1> QED
  BY <1>7, <1>8, <1>9 DEF Inv

\* A handler that answers.
LEMMA AnswerStep ==
  ASSUME TypeInv, Inv, NEW r \in Request, Answer(r),
         UNCHANGED <<kind, claimOf, book, linked, row, uses, stale, bycache, arrived, expired>>,
         broken \subseteq broken', behind \subseteq behind',
         req[r].pc \in {"document", "link"} =>
           \A y \in Certificate : claimOf[y] = req[r].coupon => y \in broken',
         req[r].pc = "refresh" => req[r].coupon \in behind'
  PROVE  TypeInv' /\ Inv'
<1>1. Becomes(r, "idle", None, None, None)
  BY Answered
<1>2. Knows(req[r])'
  BY <1>1, IdleKnows DEF Becomes
<1>3. "idle" \notin Making /\ arrived' \in Nat /\ expired' \in BOOLEAN
  BY DEF Making, TypeInv
<1> QED
  BY <1>1, <1>2, <1>3, QuietStep

LEMMA AbortStep ==
  ASSUME TypeInv, Inv, NEW r \in Request, Abort(r)
  PROVE  TypeInv' /\ Inv'
<1>1. req[r].pc \in {"document", "link"} =>
        \A y \in Certificate : claimOf[y] = req[r].coupon => y \in broken'
  <2> SUFFICES ASSUME req[r].pc \in {"document", "link"}, NEW y \in Certificate,
                      claimOf[y] = req[r].coupon
               PROVE  y \in broken'
    OBVIOUS
  <2>1. Knows(req[r])
    BY DEF Inv, Handlers
  <2>2. /\ req[r].coupon \in Coupon /\ req[r].cert \in Certificate /\ claimOf[req[r].cert] = req[r].coupon
    BY <2>1 DEF Knows, Making
  <2>3. y = req[r].cert
    BY <2>2, NoneIsNothing DEF Inv, Claims
  <2> QED
    BY <2>3 DEF Abort
<1>2. /\ Answer(r) /\ broken \subseteq broken' /\ behind \subseteq behind'
      /\ UNCHANGED <<kind, claimOf, book, linked, row, uses, stale, bycache, arrived, expired>>
      /\ req[r].pc = "refresh" => req[r].coupon \in behind'
  BY DEF Abort, At
<1> QED
  BY <1>1, <1>2, AnswerStep

LEMMA ReadCopyStep ==
  ASSUME TypeInv, Inv, NEW r \in Request, NEW pc \in {"use", "writestatus", "mark"}, ReadCopy(r, pc),
         RightKind(pc), req[r].pc \notin {"idle", "document", "link", "refresh"},
         book[req[r].coupon] \in Document, pc # "writestatus" => ~book[req[r].coupon].used,
         UNCHANGED <<kind, expired, claimOf, book, linked, row, arrived, hist, broken>>
  PROVE  TypeInv' /\ Inv'
<1> DEFINE c == req[r].coupon
           d == book[c]
<1>1. pc \in Pcs /\ d \in Document \cup {None}
  BY DEF Pcs, OfPerks
<1>2. req' = [req EXCEPT ![r].pc = pc, ![r].copy = d]
  BY DEF ReadCopy
<1>3. Becomes(r, pc, c, req[r].cert, d)
  BY <1>1, <1>2, Copied
<1>4. c \in Coupon /\ d.version \in Nat
  BY DocumentShape DEF Inv, Handlers, Knows
<1>5. UNCHANGED <<kind, claimOf, book, linked, row, uses, stale, bycache, broken, behind, arrived, expired>>
  BY DEF hist
<1>6. RightKind(pc)'
  BY <1>5 DEF RightKind
<1>7. Knows(req[r])'
  <2>1. req'[r].pc = pc /\ req'[r].coupon = c /\ req'[r].copy = d
    BY <1>3 DEF Becomes
  <2>2. book'[c] = d /\ CopyOf(d, d)
    BY <1>4, <1>5 DEF CopyOf
  <2>3. d \in Document /\ (pc # "writestatus" => ~d.used)
    OBVIOUS
  <2> HIDE DEF c, d
  <2> QED
    BY <1>4, <1>6, <2>1, <2>2, <2>3 DEF Knows, Making, Copying, CopyOf, RightKind
<1>8. pc \notin Making
  BY DEF Making
<1> QED
  BY <1>3, <1>5, <1>7, <1>8, QuietStep DEF TypeInv

\* Handlers that look, and those that end with nothing done.
LEMMA LookStep ==
  ASSUME TypeInv, Inv, NEW r \in Request,
         LookUp(r) \/ ReadStatus(r) \/ ReadCache(r) \/ MailFails(r)
  PROVE  TypeInv' /\ Inv'
<1>1. /\ UNCHANGED <<kind, expired, claimOf, book, linked, row, arrived, hist, broken>>
      /\ req[r].pc \in {"lookup", "readstatus", "cache", "mail"}
  BY DEF LookUp, ReadStatus, ReadCache, MailFails, At
<1>2. UNCHANGED <<kind, claimOf, book, linked, row, uses, stale, bycache, broken, behind, arrived, expired>>
  BY <1>1 DEF hist
<1>3. Knows(req[r]) /\ req[r].coupon \in Coupon
  BY <1>1 DEF Inv, Handlers, Knows
<1>4. CASE Answer(r)
  BY <1>1, <1>2, <1>4, AnswerStep
<1>5. CASE LookUp(r) /\ ~Answer(r)
  <2>1. /\ req[r].coupon \in linked /\ ~book[req[r].coupon].used /\ req[r].pc = "lookup"
        /\ ReadCopy(r, "use")
    BY <1>5 DEF LookUp, At
  <2>2. RightKind("use") /\ kind = "codeperks"
    BY <1>3, <2>1 DEF Knows, RightKind, OfPerks, OfRows
  <2>3. book[req[r].coupon] \in Document
    BY <1>3, <2>1, <2>2 DEF Inv, Claims, TypeInv
  <2> QED
    BY <1>1, <1>5, <2>1, <2>2, <2>3, ReadCopyStep
<1>6. CASE ReadStatus(r) /\ ReadCopy(r, "writestatus")
  <2>1. req[r].pc = "readstatus"
    BY <1>6 DEF ReadStatus, At
  <2>2. RightKind("writestatus") /\ book[req[r].coupon] \in Document
    BY <1>3, <2>1 DEF Knows, RightKind, OfPerks, OfRows
  <2> QED
    BY <1>1, <1>6, <2>1, <2>2, ReadCopyStep
<1>7. CASE ReadCache(r) /\ ~Answer(r)
  <2>1. /\ req[r].pc = "cache" /\ book[req[r].coupon] # None /\ ~book[req[r].coupon].used
        /\ ReadCopy(r, "mark")
    BY <1>7 DEF ReadCache, At
  <2>2. RightKind("mark") /\ book[req[r].coupon] \in Document
    BY <1>3, <2>1 DEF Knows, RightKind, OfPerks, OfRows, TypeInv
  <2> QED
    BY <1>1, <2>1, <2>2, ReadCopyStep
<1> QED
  BY <1>4, <1>5, <1>6, <1>7 DEF LookUp, ReadStatus, ReadCache, MailFails

LEMMA AttemptStep ==
  ASSUME TypeInv, Inv, NEW r \in Request, CountAttempt(r)
  PROVE  TypeInv' /\ Inv'
<1> DEFINE c == req[r].coupon
<1>1. /\ UNCHANGED <<kind, expired, claimOf, book, linked, row, arrived, hist, broken>>
      /\ req[r].pc = "attempt"
  BY DEF CountAttempt, At
<1>2. UNCHANGED <<kind, claimOf, book, linked, row, uses, stale, bycache, broken, behind, arrived, expired>>
  BY <1>1 DEF hist
<1>3. c \in Coupon /\ kind # "codeperks"
  BY <1>1 DEF Inv, Handlers, Knows, RightKind, OfRows
<1>4. CASE Answer(r)
  BY <1>1, <1>2, <1>4, AnswerStep
<1>5. ASSUME NEW pc \in {"refresh", "cache"}, Go(r, pc), RightKind(pc), pc = "refresh" => row[c] = "redeemed"
      PROVE  TypeInv' /\ Inv'
  <2>1. pc \in Pcs /\ pc \notin Making /\ pc \notin Copying
    BY DEF Pcs, Making, Copying
  <2>2. Becomes(r, pc, c, req[r].cert, req[r].copy)
    BY <1>5, <2>1, Gone
  <2>3. req'[r].pc = pc /\ req'[r].coupon = c
    BY <2>2 DEF Becomes
  <2>4. pc = "refresh" => book[c] \in Document
    BY <1>3, <1>5 DEF Inv, Claims, TypeInv
  <2>5. RightKind(pc)'
    BY <1>2, <1>5 DEF RightKind
  <2>6. Knows(req[r])'
    BY <1>2, <1>3, <1>5, <2>1, <2>3, <2>4, <2>5 DEF Knows, Making, Copying, RightKind
  <2> QED
    BY <1>1, <1>2, <2>1, <2>2, <2>6, QuietStep DEF TypeInv
<1>6. \/ Answer(r)
      \/ row[c] = "redeemed" /\ kind = "goldxtra" /\ Go(r, "refresh")
      \/ kind = "clipxtra" /\ Go(r, "cache")
  BY DEF CountAttempt
<1>7. /\ kind = "goldxtra" => RightKind("refresh")
      /\ kind = "clipxtra" => RightKind("cache")
  BY DEF RightKind, OfPerks, OfRows
<1> QED
  BY <1>4, <1>5, <1>6, <1>7

\* A use of a document is read off the copy: what the copy does not say, a newer version says.
LEMMA WriteStep ==
  ASSUME TypeInv, Inv, NEW r \in Request, req[r].pc \in {"mail", "use", "writestatus", "mark"},
         NEW used \in BOOLEAN, NEW status \in Statuses,
         Overwrite(req[r].coupon, req[r].copy, used, status), Answer(r), req[r].copy.used => used,
         UNCHANGED <<kind, expired, claimOf, linked, row, arrived, behind, broken>>,
         \/ uses' = uses /\ kind = "codeperks"
         \/ uses' = [uses EXCEPT ![req[r].coupon] = @ + 1] /\ used /\ ~req[r].copy.used,
         \/ bycache' = bycache /\ kind = "codeperks"
         \/ bycache' = bycache \cup {req[r].coupon} /\ kind = "clipxtra"
  PROVE  TypeInv' /\ Inv'
<1> DEFINE c == req[r].coupon
           copy == req[r].copy
<1>1. /\ c \in Coupon /\ copy \in Document /\ book[c] \in Document /\ CopyOf(copy, book[c])
      /\ kind # "goldxtra"
  BY DEF Inv, Handlers, Knows, Copying, RightKind, OfPerks
<1>2. /\ book' \in [Coupon -> Document \cup {None}]
      /\ book'[c] \in Document /\ book'[c].used = used
      /\ book'[c].version = book[c].version + 1 /\ book'[c].cert = book[c].cert
      /\ \A d \in Coupon : d # c => book'[d] = book[d]
      /\ stale \subseteq stale' /\ (copy.version # book[c].version => c \in stale')
  BY <1>1, Overwritten
<1>3. book[c].version \in Nat /\ book[c].version < book'[c].version /\ book'[c] # None /\ book[c] # None
  BY <1>1, <1>2, DocumentShape
<1>4. /\ req' \in [Request -> RequestRow] /\ \A q \in Request \ {r} : req'[q] = req[q]
      /\ req'[r].pc = "idle"
  BY Answered DEF Becomes
<1>5. uses' \in [Coupon -> Nat] /\ (\A d \in Coupon : d # c => uses'[d] = uses[d])
      /\ uses[c] \in Nat /\ (uses'[c] = uses[c] \/ uses'[c] = uses[c] + 1)
  BY <1>1 DEF TypeInv
<1> HIDE DEF c, copy
<1>6. TypeInv'
  BY <1>2, <1>4, <1>5 DEF TypeInv
<1>7. Handlers'
  <2>1. Grows
    BY <1>1, <1>2, <1>3 DEF Grows
  <2>2. Knows(req[r])'
    BY <1>4, IdleKnows
  <2>3. \A d \in Coupon : book[d] = None => book'[d] = None
    BY <1>2, <1>3
  <2> QED
    BY <1>4, <2>1, <2>2, <2>3, HandlersStep DEF Inv, Making
<1>8. Claims'
  <2>1. \A d \in Coupon : (book'[d] # None <=> book[d] # None) /\ (book[d] # None => book'[d].cert = book[d].cert)
    BY <1>2, <1>3
  <2> QED
    BY <2>1 DEF Inv, Claims, TypeInv
<1>9. Taken'
  BY <1>4, TakenKept DEF Inv
<1>10. Uses'
  <2>1. bycache' # {} => kind = "clipxtra"
    BY DEF Inv, Uses
  <2>2. ASSUME kind = "codeperks", NEW d \in Coupon
        PROVE  /\ uses'[d] > 0 => book'[d] # None /\ (book'[d].used \/ d \in stale')
               /\ uses'[d] > 1 => d \in stale'
    <3>1. /\ uses[d] > 0 => book[d] # None /\ (book[d].used \/ d \in stale)
          /\ uses[d] > 1 => d \in stale
      BY <2>2 DEF Inv, Uses
    <3>2. CASE d # c
      BY <1>2, <1>5, <3>1, <3>2
    <3>3. CASE d = c
      <4>1. book[c].used /\ ~copy.used => c \in stale'
        BY <1>1, <1>2 DEF CopyOf
      <4>2. uses[c] > 0 => used \/ c \in stale'
        BY <1>1, <1>2, <3>1, <3>3, <4>1 DEF copy
      <4>3. uses' = uses \/ (used /\ ~copy.used /\ uses'[c] = uses[c] + 1)
        BY <1>1, <1>5 DEF c, copy, TypeInv
      <4>4. uses'[c] > 1 => c \in stale'
        <5>1. CASE uses' = uses
          BY <1>2, <3>1, <3>3, <5>1
        <5>2. CASE used /\ ~copy.used /\ uses'[c] = uses[c] + 1
          <6>1. uses'[c] > 1 => uses[c] > 0
            BY <1>5, <5>2
          <6> QED
            BY <1>2, <3>1, <3>3, <4>1, <5>2, <6>1
        <5> QED
          BY <4>3, <5>1, <5>2
      <4> QED
        BY <1>2, <1>3, <3>3, <4>2, <4>3, <4>4
    <3> QED
      BY <3>2, <3>3
  <2>3. ASSUME kind # "codeperks", NEW d \in Coupon, d \notin bycache'
        PROVE  uses'[d] = IF row'[d] = "redeemed" THEN 1 ELSE 0
    <3>1. d # c /\ d \notin bycache
      BY <2>3 DEF c
    <3> QED
      BY <1>5, <2>3, <3>1 DEF Inv, Uses
  <2> QED
    BY <2>1, <2>2, <2>3 DEF Uses
<1>11. Refreshed'
  BY <1>1, RefreshedElse
<1> QED
  BY <1>6, <1>7, <1>8, <1>9, <1>10, <1>11 DEF Inv

LEMMA WriteSteps ==
  ASSUME TypeInv, Inv, NEW r \in Request,
         SaveAfterMail(r) \/ UseClaim(r) \/ WriteStatus(r) \/ MarkCache(r)
  PROVE  TypeInv' /\ Inv'
<1>1. /\ req[r].pc \in {"mail", "use", "writestatus", "mark"} /\ Answer(r)
      /\ UNCHANGED <<kind, expired, claimOf, linked, row, arrived, behind, broken>>
  BY DEF SaveAfterMail, UseClaim, WriteStatus, MarkCache, At
<1>2. /\ Knows(req[r]) /\ req[r].copy \in Document
      /\ req[r].pc \in {"use", "mark"} => ~req[r].copy.used
      /\ req[r].pc # "mark" => kind = "codeperks"
      /\ req[r].pc = "mark" => kind = "clipxtra"
  BY <1>1 DEF Inv, Handlers, Knows, Copying, RightKind, OfPerks
<1>3. req[r].copy.used \in BOOLEAN /\ req[r].copy.status \in Statuses /\ "fulfilled" \in Statuses
  BY <1>2, DocumentShape DEF Statuses
<1>4. CASE SaveAfterMail(r) \/ WriteStatus(r)
  <2>1. PICK status \in Statuses : Overwrite(req[r].coupon, req[r].copy, req[r].copy.used, status)
    BY <1>3, <1>4 DEF SaveAfterMail, WriteStatus
  <2>2. uses' = uses /\ bycache' = bycache /\ kind = "codeperks"
    BY <1>2, <1>4 DEF SaveAfterMail, WriteStatus, At
  <2> QED
    BY <1>1, <1>3, <2>1, <2>2, WriteStep
<1>5. CASE UseClaim(r)
  BY <1>1, <1>2, <1>3, <1>5, WriteStep DEF UseClaim, At
<1>6. CASE MarkCache(r)
  BY <1>1, <1>2, <1>3, <1>6, WriteStep DEF MarkCache, At
<1> QED
  BY <1>4, <1>5, <1>6

-----------------------------------------------------------------------------
(***************************************************************************)
(* A codePerks claim is made.                                              *)
(***************************************************************************)

LEMMA ReserveStep ==
  ASSUME TypeInv, Inv, NEW r \in Request, Reserve(r)
  PROVE  TypeInv' /\ Inv'
<1> DEFINE c == req[r].coupon
           x == req[r].cert
<1>1. /\ req[r].pc = "reserve" /\ UNCHANGED <<kind, expired, book, linked, row, arrived, hist, broken>>
      /\ UNCHANGED <<uses, stale, bycache, behind>>
  BY DEF Reserve, At, hist
<1>2. /\ c \in Coupon /\ x \in Certificate /\ book[c] = None /\ kind = "codeperks"
      /\ \A y \in Certificate : claimOf[y] # c
  BY <1>1 DEF Inv, Handlers, Knows, Making, RightKind, OfPerks
<1>3. CASE ~Unclaimed(x)
  BY <1>1, <1>3, AnswerStep DEF Reserve
<1>4. CASE Unclaimed(x)
  <2>1. /\ claimOf[x] = None /\ claimOf' = [claimOf EXCEPT ![x] = c] /\ Go(r, "document")
    BY <1>4 DEF Reserve, Unclaimed
  <2>2. Becomes(r, "document", c, x, req[r].copy)
    BY <2>1, Gone DEF Pcs, OfPerks
  <2>3. /\ req' \in [Request -> RequestRow] /\ \A q \in Request \ {r} : req'[q] = req[q]
        /\ req'[r].pc = "document" /\ req'[r].coupon = c /\ req'[r].cert = x
    BY <2>2 DEF Becomes
  <2>4. /\ claimOf' \in [Certificate -> Coupon \cup {None}]
        /\ claimOf'[x] = c /\ \A y \in Certificate : y # x => claimOf'[y] = claimOf[y]
    BY <1>2, <2>1 DEF TypeInv
  <2>0. c # None
    BY <1>2, NoneIsNothing
  <2> HIDE DEF c, x
  <2>5. TypeInv'
    BY <1>1, <2>3, <2>4 DEF TypeInv
  <2>6. Handlers'
    <3>1. Grows
      BY <1>1, <2>1, <2>4 DEF Grows
    <3>2. Knows(req[r])'
      BY <1>1, <1>2, <2>3, <2>4 DEF Knows, RightKind, OfPerks, OfRows, Making, Copying
    <3>3. req[r].pc \in Making /\ req[r].coupon = c
      BY <1>1 DEF Making, c
    <3> QED
      BY <1>1, <2>3, <2>4, <3>1, <3>2, <3>3, HandlersStep DEF Inv
  <2>7. Claims'
    <3>1. \A y, z \in Certificate : claimOf'[y] = claimOf'[z] /\ claimOf'[y] # None => y = z
      BY <1>2, <2>4 DEF Inv, Claims
    <3>2. ASSUME NEW d \in Coupon, book[d] # None PROVE claimOf'[book[d].cert] = d
      <4>1. claimOf[book[d].cert] = d /\ book[d].cert \in Certificate
        BY <1>2, <3>2, DocumentShape DEF Inv, Claims, TypeInv
      <4>2. book[d].cert # x
        BY <2>1, <4>1, NoneIsNothing
      <4> QED
        BY <2>4, <4>1, <4>2
    <3> QED
      BY <1>1, <1>2, <3>1, <3>2 DEF Inv, Claims
  <2>8. Taken'
    <3> SUFFICES ASSUME NEW y \in Certificate, claimOf'[y] # None
                 PROVE  \/ claimOf'[y] \in linked
                        \/ \E q \in Request : req'[q].coupon = claimOf'[y] /\ req'[q].pc \in {"document", "link"}
                        \/ y \in broken
      BY <1>1 DEF Taken
    <3>1. CASE y = x
      BY <2>3, <2>4, <3>1
    <3>2. CASE y # x
      <4>1. \/ claimOf[y] \in linked
            \/ \E q \in Request : req[q].coupon = claimOf[y] /\ req[q].pc \in {"document", "link"}
            \/ y \in broken
        BY <1>2, <2>4, <3>2 DEF Inv, Taken
      <4>2. ASSUME NEW q \in Request, req[q].coupon = claimOf[y], req[q].pc \in {"document", "link"}
            PROVE  req'[q].coupon = claimOf'[y] /\ req'[q].pc \in {"document", "link"}
        BY <1>1, <2>3, <2>4, <3>2, <4>2
      <4> QED
        BY <2>4, <3>2, <4>1, <4>2
    <3> QED
      BY <3>1, <3>2
  <2>9. Uses' /\ Refreshed'
    BY <1>1, <1>2, UsesKept, RefreshedElse DEF Inv
  <2> QED
    BY <2>5, <2>6, <2>7, <2>8, <2>9 DEF Inv
<1> QED
  BY <1>3, <1>4

\* A document is saved where there was none: of a claim, or of a token.
LEMMA SaveStep ==
  ASSUME TypeInv, Inv, NEW r \in Request, NEW pc \in {"link", "persist"}, NEW d,
         Becomes(r, pc, req[r].coupon, req[r].cert, d),
         req[r].pc = IF pc = "link" THEN "document" ELSE "mint",
         pc = "link" => d = Fresh(req[r].cert),
         book' = [book EXCEPT ![req[r].coupon] = Fresh(req[r].cert)],
         UNCHANGED <<kind, expired, claimOf, linked, row, arrived, uses, stale, bycache, behind, broken>>
  PROVE  TypeInv' /\ Inv'
<1> DEFINE c == req[r].coupon
           x == req[r].cert
           f == Fresh(x)
<1>1. /\ c \in Coupon /\ x \in Certificate /\ book[c] = None
      /\ pc = "link" => kind = "codeperks" /\ claimOf[x] = c
      /\ pc = "persist" => kind # "codeperks"
  BY DEF Inv, Handlers, Knows, Making, RightKind, OfPerks, OfRows
<1>2. /\ req' \in [Request -> RequestRow] /\ \A q \in Request \ {r} : req'[q] = req[q]
      /\ req'[r].pc = pc /\ req'[r].coupon = c /\ req'[r].cert = x /\ req'[r].copy = d
  BY DEF Becomes
<1>3. f \in Document /\ ~f.used /\ f.version = 0 /\ f.cert = x /\ f # None
  BY <1>1, FreshIsDocument
<1>0. pc = "link" => d = f
  OBVIOUS
<1> HIDE DEF f
<1>4. /\ book' \in [Coupon -> Document \cup {None}] /\ book'[c] = f
      /\ \A b \in Coupon : b # c => book'[b] = book[b]
  BY <1>1, <1>3 DEF f, TypeInv
<1>9. req[r].pc \in {"document", "mint"} /\ req[r].pc \in Making /\ req[r].coupon = c
  BY DEF Making
<1> HIDE DEF c, x
<1>5. TypeInv'
  BY <1>2, <1>4 DEF TypeInv
<1>6. Handlers'
  <2>1. Grows
    BY <1>1, <1>4, NoneIsNothing DEF Grows
  <2>2. Knows(req[r])'
    <3>1. CopyOf(f, f)
      BY <1>3 DEF CopyOf
    <3> QED
      BY <1>0, <1>1, <1>2, <1>3, <1>4, <3>1 DEF Knows, RightKind, OfPerks, OfRows, Making, Copying, CopyOf
  <2>3. \A b \in Coupon : book[b] = None => book'[b] = None \/ b = c
    BY <1>4
  <2> QED
    BY <1>2, <1>9, <2>1, <2>2, <2>3, HandlersStep DEF Inv
<1>7. Claims'
  <2>1. CASE pc = "link"
    <3>1. \A b \in Coupon : /\ book'[b] # None => claimOf[book'[b].cert] = b
                            /\ b \in linked => book'[b] # None
      BY <1>1, <1>3, <1>4, <2>1 DEF Inv, Claims
    <3> QED
      BY <1>1, <2>1, <3>1 DEF Inv, Claims
  <2>2. CASE pc = "persist"
    <3>1. ASSUME NEW y \in Certificate, claimOf[y] # None
          PROVE  book'[claimOf[y]] # None /\ book'[claimOf[y]].cert = y
      <4>1. claimOf[y] \in Coupon /\ book[claimOf[y]] # None /\ book[claimOf[y]].cert = y
        BY <1>1, <2>2, <3>1 DEF Inv, Claims, TypeInv
      <4> QED
        BY <1>1, <1>4, <4>1
    <3>2. ASSUME NEW b \in Coupon, row[b] # "absent"
          PROVE  book'[b] # None /\ claimOf[book'[b].cert] = b
      <4>1. book[b] # None /\ claimOf[book[b].cert] = b
        BY <1>1, <2>2, <3>2 DEF Inv, Claims
      <4> QED
        BY <1>1, <1>4, <4>1
    <3> QED
      BY <1>1, <2>2, <3>1, <3>2 DEF Inv, Claims
  <2> QED
    BY <2>1, <2>2
<1>8. Taken'
  <2>1. CASE pc = "link"
    BY <1>2, <1>9, <2>1, TakenKept DEF Inv
  <2>2. CASE pc = "persist"
    BY <1>1, <2>2, TakenElse
  <2> QED
    BY <2>1, <2>2
<1>10. Uses'
  <2>1. ASSUME kind = "codeperks", NEW b \in Coupon
        PROVE  /\ uses[b] > 0 => book'[b] # None /\ (book'[b].used \/ b \in stale)
               /\ uses[b] > 1 => b \in stale
    BY <1>1, <1>4, <2>1 DEF Inv, Uses
  <2> QED
    BY <2>1 DEF Inv, Uses
<1>11. Refreshed'
  <2> SUFFICES ASSUME kind = "goldxtra", NEW b \in Coupon, row[b] = "redeemed"
               PROVE  \/ book'[b] # None /\ book'[b].used
                      \/ b \in behind
                      \/ \E q \in Request : req'[q].coupon = b /\ req'[q].pc = "refresh"
    BY DEF Refreshed
  <2>1. book[b] # None
    BY DEF Inv, Claims
  <2>2. b # c
    BY <1>1, <2>1
  <2>3. \A q \in Request : req[q].pc = "refresh" => req'[q] = req[q]
    BY <1>2, <1>9
  <2> QED
    BY <1>4, <2>2, <2>3 DEF Inv, Refreshed
<1> QED
  BY <1>5, <1>6, <1>7, <1>8, <1>10, <1>11 DEF Inv

LEMMA MakingSteps ==
  ASSUME TypeInv, Inv, NEW r \in Request, SaveClaim(r) \/ MintToken(r)
  PROVE  TypeInv' /\ Inv'
<1>1. CASE SaveClaim(r)
  <2>1. req[r].pc = "document" /\ req[r].cert \in Certificate
    BY <1>1 DEF SaveClaim, At, Inv, Handlers, Knows, Making
  <2>2. Fresh(req[r].cert) \in Document
    BY <2>1, FreshIsDocument
  <2>3. req' = [req EXCEPT ![r].pc = "link", ![r].copy = Fresh(req[r].cert)]
    BY <1>1 DEF SaveClaim
  <2>4. Becomes(r, "link", req[r].coupon, req[r].cert, Fresh(req[r].cert))
    BY <2>2, <2>3, Copied DEF Pcs, OfPerks
  <2> QED
    BY <1>1, <2>1, <2>4, SaveStep DEF SaveClaim, hist
<1>2. CASE MintToken(r)
  <2>1. req[r].pc = "mint" /\ Go(r, "persist")
    BY <1>2 DEF MintToken, At
  <2>2. Becomes(r, "persist", req[r].coupon, req[r].cert, req[r].copy)
    BY <2>1, Gone DEF Pcs, OfRows
  <2> QED
    BY <1>2, <2>1, <2>2, SaveStep DEF MintToken, hist
<1> QED
  BY <1>1, <1>2

LEMMA LinkStep ==
  ASSUME TypeInv, Inv, NEW r \in Request, LinkToken(r)
  PROVE  TypeInv' /\ Inv'
<1> DEFINE c == req[r].coupon
<1>1. /\ req[r].pc = "link" /\ Go(r, "mail") /\ linked' = linked \cup {c}
      /\ UNCHANGED <<kind, expired, claimOf, book, row, arrived, uses, stale, bycache, behind, broken>>
  BY DEF LinkToken, At, hist
<1>2. Knows(req[r]) /\ kind = "codeperks" /\ c \in Coupon
  BY <1>1 DEF Inv, Handlers, Knows, RightKind, OfPerks
<1>3. Becomes(r, "mail", c, req[r].cert, req[r].copy)
  BY <1>1, Gone DEF Pcs, OfPerks
<1>4. /\ req' \in [Request -> RequestRow] /\ \A q \in Request \ {r} : req'[q] = req[q]
      /\ req'[r].pc = "mail" /\ req'[r].coupon = c /\ req'[r].cert = req[r].cert
      /\ req'[r].copy = req[r].copy
  BY <1>3 DEF Becomes
<1>5. TypeInv'
  BY <1>1, <1>2, <1>4 DEF TypeInv
<1>6. Handlers'
  <2>1. Knows(req[r])'
    BY <1>1, <1>2, <1>4 DEF Knows, RightKind, OfPerks, OfRows, Making, Copying, CopyOf
  <2> QED
    BY <1>1, <1>4, <2>1, HandlersQuiet DEF Inv, Making
<1>7. Claims'
  <2>1. book[c] # None
    BY <1>1, <1>2, NoneIsNothing DEF Knows
  <2> QED
    BY <1>1, <1>2, <2>1 DEF Inv, Claims
<1>8. Taken'
  BY <1>1, <1>4, TakenKept DEF Inv
<1>9. Uses' /\ Refreshed'
  BY <1>1, <1>2, UsesKept, RefreshedElse DEF Inv
<1> QED
  BY <1>5, <1>6, <1>7, <1>8, <1>9 DEF Inv

-----------------------------------------------------------------------------
(***************************************************************************)
(* Rows.                                                                   *)
(***************************************************************************)

\* The row of a scan is inserted: the scan had none, so neither had its token.
LEMMA RowInserted ==
  ASSUME TypeInv, Inv, NEW c \in Coupon, book[c] \in Document, kind # "codeperks",
         SaveRow(c, book[c].cert), UNCHANGED <<kind, book, linked, uses, bycache>>
  PROVE  /\ claimOf' \in [Certificate -> Coupon \cup {None}] /\ row' \in Rows
         /\ Grows /\ Claims' /\ Uses'
         /\ \A d \in Coupon : row'[d] = "redeemed" <=> row[d] = "redeemed"
<1> DEFINE x == book[c].cert
<1>1. CASE claimOf[x] # None
  <2>1. UNCHANGED <<row, claimOf>>
    BY <1>1 DEF SaveRow
  <2> QED
    BY <2>1 DEF Inv, TypeInv, Grows, Claims, Uses
<1>2. CASE claimOf[x] = None
  <2>1. row' = [row EXCEPT ![c] = "assigned"] /\ claimOf' = [claimOf EXCEPT ![x] = c]
    BY <1>2 DEF SaveRow
  <2>2. x \in Certificate /\ c # None /\ book[c] # None
    BY DocumentShape, NoneIsNothing
  <2>3. book[c].cert = x /\ book' = book /\ linked' = linked
    OBVIOUS
  <2> HIDE DEF x
  <2>4. /\ claimOf' \in [Certificate -> Coupon \cup {None}]
        /\ claimOf'[x] = c /\ \A y \in Certificate : y # x => claimOf'[y] = claimOf[y]
    BY <2>1, <2>2 DEF TypeInv
  <2>5. /\ row' \in Rows
        /\ row'[c] = "assigned" /\ \A d \in Coupon : d # c => row'[d] = row[d]
    BY <2>1 DEF TypeInv, Rows
  <2>6. row[c] = "absent"
    BY <1>2, <2>2, <2>3 DEF Inv, Claims
  <2>7. \A d \in Coupon : row'[d] = "redeemed" <=> row[d] = "redeemed"
    BY <2>5, <2>6
  <2>8. Grows
    BY <1>2, <2>4, <2>7 DEF Grows
  <2>9. Claims'
    <3>1. \A y \in Certificate : claimOf[y] # c
      <4> SUFFICES ASSUME NEW y \in Certificate, claimOf[y] = c PROVE FALSE
        OBVIOUS
      <4>1. y = x
        BY <2>2, <2>3 DEF Inv, Claims
      <4> QED
        BY <1>2, <2>2, <4>1
    <3>2. \A y, z \in Certificate : claimOf'[y] = claimOf'[z] /\ claimOf'[y] # None => y = z
      BY <2>4, <3>1 DEF Inv, Claims
    <3>3. \A y \in Certificate : claimOf'[y] # None =>
            book[claimOf'[y]] # None /\ book[claimOf'[y]].cert = y
      BY <2>2, <2>3, <2>4 DEF Inv, Claims
    <3>4. ASSUME NEW d \in Coupon, row'[d] # "absent"
          PROVE  book[d] # None /\ claimOf'[book[d].cert] = d
      <4>1. CASE d = c
        BY <2>2, <2>3, <2>4, <4>1
      <4>2. CASE d # c
        <5>1. book[d] # None /\ claimOf[book[d].cert] = d
          BY <2>5, <3>4, <4>2 DEF Inv, Claims
        <5>2. book[d].cert \in Certificate
          BY <5>1, DocumentShape DEF TypeInv
        <5>3. book[d].cert # x
          BY <1>2, <5>1, NoneIsNothing
        <5> QED
          BY <2>4, <5>1, <5>2, <5>3
      <4> QED
        BY <4>1, <4>2
    <3> QED
      BY <2>3, <3>2, <3>3, <3>4 DEF Inv, Claims
  <2>10. Uses'
    BY <2>7 DEF Inv, Uses
  <2> QED
    BY <2>4, <2>5, <2>7, <2>8, <2>9, <2>10
<1> QED
  BY <1>1, <1>2

\* The rest of the invariant, where rows are inserted and a handler may end.
LEMMA RowStep ==
  ASSUME TypeInv, Inv, NEW c \in Coupon, book[c] \in Document, kind # "codeperks",
         SaveRow(c, book[c].cert),
         UNCHANGED <<kind, expired, book, linked, arrived, uses, stale, bycache, behind, broken>>,
         req' \in [Request -> RequestRow],
         \A q \in Request : req'[q] = req[q] \/ (req'[q].pc = "idle" /\ req[q].pc = "persist")
  PROVE  TypeInv' /\ Inv'
<1>1. /\ claimOf' \in [Certificate -> Coupon \cup {None}] /\ row' \in Rows
      /\ Grows /\ Claims' /\ Uses'
      /\ \A d \in Coupon : row'[d] = "redeemed" <=> row[d] = "redeemed"
  BY RowInserted
<1>2. TypeInv'
  BY <1>1 DEF TypeInv
<1>3. Handlers'
  <2>1. ASSUME NEW q \in Request PROVE Knows(req[q])'
    <3>1. CASE req'[q].pc = "idle"
      BY <3>1, IdleKnows
    <3>2. CASE req'[q] = req[q]
      <4>1. Knows(req[q]) /\ req[q].pc # "reserve"
        BY DEF Inv, Handlers, Knows, RightKind, OfPerks
      <4> QED
        BY <1>1, <3>2, <4>1, KnowsKept
    <3> QED
      BY <3>1, <3>2
  <2>2. \A q \in Request : req'[q].pc \in Making => req'[q] = req[q]
    BY DEF Making
  <2> QED
    BY <2>1, <2>2 DEF Inv, Handlers
<1>4. Taken'
  BY TakenElse
<1>5. Refreshed'
  <2>1. \A q \in Request : req[q].pc = "refresh" => req'[q] = req[q]
    OBVIOUS
  <2> QED
    BY <1>1, <2>1 DEF Inv, Refreshed
<1> QED
  BY <1>1, <1>2, <1>3, <1>4, <1>5 DEF Inv

LEMMA PersistStep ==
  ASSUME TypeInv, Inv, NEW r \in Request, PersistRow(r)
  PROVE  TypeInv' /\ Inv'
<1>1. /\ req[r].pc = "persist" /\ Answer(r)
      /\ UNCHANGED <<kind, expired, book, linked, arrived, uses, stale, bycache, behind, broken>>
  BY DEF PersistRow, At, hist
<1>2. CASE UNCHANGED <<row, claimOf>>
  BY <1>1, <1>2, AnswerStep
<1>3. CASE SaveRow(req[r].coupon, req[r].cert)
  <2>1. /\ req[r].coupon \in Coupon /\ book[req[r].coupon] \in Document
        /\ book[req[r].coupon].cert = req[r].cert /\ kind # "codeperks"
    BY <1>1 DEF Inv, Handlers, Knows, RightKind, OfRows
  <2>2. SaveRow(req[r].coupon, book[req[r].coupon].cert)
    BY <1>3, <2>1
  <2>3. /\ req' \in [Request -> RequestRow]
        /\ \A q \in Request : req'[q] = req[q] \/ (req'[q].pc = "idle" /\ req[q].pc = "persist")
    BY <1>1, Answered DEF Becomes
  <2> QED
    BY <1>1, <2>1, <2>2, <2>3, RowStep
<1> QED
  BY <1>2, <1>3 DEF PersistRow

LEMMA RecoverStep ==
  ASSUME TypeInv, Inv, NEW c \in Coupon, RecoverRow(c)
  PROVE  TypeInv' /\ Inv'
<1>1. /\ kind # "codeperks" /\ book[c] \in Document /\ SaveRow(c, book[c].cert) /\ req' = req
      /\ UNCHANGED <<kind, expired, book, linked, arrived, uses, stale, bycache, behind, broken>>
  BY DEF RecoverRow, hist, TypeInv
<1>2. req' \in [Request -> RequestRow]
  BY <1>1 DEF TypeInv
<1> QED
  BY <1>1, <1>2, RowStep

\* A row that is redeemed was not redeemed before, and is used once.
LEMMA UpdateStep ==
  ASSUME TypeInv, Inv, NEW r \in Request, UpdateRow(r)
  PROVE  TypeInv' /\ Inv'
<1> DEFINE c == req[r].coupon
<1>1. /\ req[r].pc = "update"
      /\ UNCHANGED <<kind, expired, claimOf, book, linked, arrived, stale, bycache, behind, broken>>
  BY DEF UpdateRow, At
<1>2. Knows(req[r]) /\ kind # "codeperks" /\ c \in Coupon
  BY <1>1 DEF Inv, Handlers, Knows, RightKind, OfRows
<1>3. CASE ~Unredeemed(c)
  <2>1. Go(r, "attempt") /\ UNCHANGED <<row, uses>>
    BY <1>3 DEF UpdateRow
  <2>2. Becomes(r, "attempt", c, req[r].cert, req[r].copy)
    BY <2>1, Gone DEF Pcs, OfRows
  <2>3. Knows(req[r])'
    BY <1>1, <1>2, <2>2 DEF Becomes, Knows, RightKind, OfPerks, OfRows, Making, Copying
  <2> QED
    BY <1>1, <2>1, <2>2, <2>3, QuietStep DEF Making, TypeInv
<1>4. CASE Unredeemed(c)
  <2>1. /\ row[c] = "assigned" /\ row' = [row EXCEPT ![c] = "redeemed"]
        /\ uses' = [uses EXCEPT ![c] = @ + 1]
        /\ IF kind = "goldxtra" THEN Go(r, "refresh") ELSE Answer(r)
    BY <1>4 DEF UpdateRow, Unredeemed
  <2>2. /\ row' \in Rows /\ row'[c] = "redeemed" /\ \A d \in Coupon : d # c => row'[d] = row[d]
    BY <1>2, <2>1 DEF TypeInv, Rows
  <2>3. /\ uses' \in [Coupon -> Nat] /\ uses'[c] = uses[c] + 1
        /\ \A d \in Coupon : d # c => uses'[d] = uses[d]
    BY <1>2, <2>1 DEF TypeInv
  <2>4. book[c] \in Document
    BY <1>2, <2>1 DEF Inv, Claims, TypeInv
  <2>5. /\ req' \in [Request -> RequestRow] /\ \A q \in Request \ {r} : req'[q] = req[q]
        /\ kind = "goldxtra" => req'[r].pc = "refresh" /\ req'[r].coupon = c
        /\ kind # "goldxtra" => req'[r].pc = "idle"
    <3>1. CASE kind = "goldxtra"
      <4>1. Becomes(r, "refresh", c, req[r].cert, req[r].copy)
        BY <2>1, <3>1, Gone DEF Pcs
      <4> QED
        BY <3>1, <4>1 DEF Becomes
    <3>2. CASE kind # "goldxtra"
      BY <2>1, <3>2, Answered DEF Becomes
    <3> QED
      BY <3>1, <3>2
  <2> HIDE DEF c
  <2>6. TypeInv'
    BY <1>1, <2>2, <2>3, <2>5 DEF TypeInv
  <2>7. Handlers'
    <3>1. Grows
      BY <1>1, <2>2 DEF Grows
    <3>2. Knows(req[r])'
      <4>1. CASE kind = "goldxtra"
        BY <1>1, <1>2, <2>2, <2>4, <2>5, <4>1
           DEF Knows, RightKind, OfPerks, OfRows, Making, Copying
      <4>2. CASE kind # "goldxtra"
        BY <2>5, <4>2, IdleKnows
      <4> QED
        BY <4>1, <4>2
    <3>3. req'[r].pc \notin Making
      BY <2>5 DEF Making
    <3> QED
      BY <1>1, <2>5, <3>1, <3>2, <3>3, HandlersStep DEF Inv
  <2>8. Claims'
    <3>1. \A d \in Coupon : row'[d] # "absent" => row[d] # "absent"
      BY <2>1, <2>2
    <3> QED
      BY <1>1, <1>2, <3>1 DEF Inv, Claims
  <2>9. Taken'
    BY <1>1, <1>2, TakenElse
  <2>10. Uses'
    <3>1. ASSUME NEW d \in Coupon, d \notin bycache
          PROVE  uses'[d] = IF row'[d] = "redeemed" THEN 1 ELSE 0
      <4>1. uses[d] = IF row[d] = "redeemed" THEN 1 ELSE 0
        BY <1>2, <3>1 DEF Inv, Uses
      <4> QED
        BY <2>1, <2>2, <2>3, <4>1
    <3> QED
      BY <1>1, <1>2, <3>1 DEF Inv, Uses
  <2>11. Refreshed'
    <3> SUFFICES ASSUME kind = "goldxtra", NEW d \in Coupon, row'[d] = "redeemed"
                 PROVE  \/ book[d] # None /\ book[d].used
                        \/ d \in behind
                        \/ \E q \in Request : req'[q].coupon = d /\ req'[q].pc = "refresh"
      BY <1>1 DEF Refreshed
    <3>1. CASE d = c
      BY <2>5, <3>1
    <3>2. CASE d # c
      <4>1. row[d] = "redeemed" /\ \A q \in Request : req[q].pc = "refresh" => req'[q] = req[q]
        BY <1>1, <2>2, <2>5, <3>2
      <4> QED
        BY <4>1 DEF Inv, Refreshed
    <3> QED
      BY <3>1, <3>2
  <2> QED
    BY <2>6, <2>7, <2>8, <2>9, <2>10, <2>11 DEF Inv
<1> QED
  BY <1>3, <1>4

\* The copy in Redis takes over the row's state, or stays behind it.
LEMMA RefreshStep ==
  ASSUME TypeInv, Inv, NEW r \in Request, RefreshToken(r)
  PROVE  TypeInv' /\ Inv'
<1> DEFINE c == req[r].coupon
<1>1. /\ req[r].pc = "refresh" /\ Answer(r)
      /\ UNCHANGED <<kind, expired, claimOf, linked, row, arrived, uses, stale, bycache, broken>>
      /\ \/ book' = [book EXCEPT ![c].used = row[c] = "redeemed"] /\ behind' = behind
         \/ book' = book /\ behind' = behind \cup {c}
  BY DEF RefreshToken, At
<1>2. /\ kind = "goldxtra" /\ c \in Coupon /\ row[c] = "redeemed" /\ book[c] \in Document
  BY <1>1 DEF Inv, Handlers, Knows, RightKind
<1>3. CASE book' = book /\ behind' = behind \cup {c}
  <2>1. /\ behind \subseteq behind' /\ req[r].coupon \in behind'
        /\ req[r].pc \notin {"document", "link"} /\ book' = book
    BY <1>1, <1>3
  <2> QED
    BY <1>1, <2>1, AnswerStep
<1>4. CASE book' = [book EXCEPT ![c].used = row[c] = "redeemed"] /\ behind' = behind
  <2> DEFINE u == [book[c] EXCEPT !.used = TRUE]
  <2>1. u \in Document /\ u.used /\ u.cert = book[c].cert
    BY <1>2 DEF Document
  <2>2. book' = [book EXCEPT ![c] = u]
    BY <1>2, <1>4 DEF TypeInv
  <2> HIDE DEF u
  <2>3. /\ book' \in [Coupon -> Document \cup {None}] /\ book'[c] = u
        /\ \A d \in Coupon : d # c => book'[d] = book[d]
    BY <1>2, <2>1, <2>2 DEF TypeInv
  <2>4. u # None /\ book[c] # None
    BY <1>2, <2>1, DocumentShape
  <2>5. /\ req' \in [Request -> RequestRow] /\ \A q \in Request \ {r} : req'[q] = req[q]
        /\ req'[r].pc = "idle"
    BY <1>1, Answered DEF Becomes
  <2>6. req[r].coupon = c
    OBVIOUS
  <2> HIDE DEF c
  <2>7. TypeInv'
    BY <1>1, <1>4, <2>3, <2>5 DEF TypeInv
  <2>8. Handlers'
    <3>1. Grows
      BY <1>1, <1>2, <2>1, <2>3 DEF Grows
    <3>2. Knows(req[r])'
      BY <2>5, IdleKnows
    <3>3. \A d \in Coupon : book[d] = None => book'[d] = None
      BY <2>3, <2>4
    <3> QED
      BY <1>1, <2>5, <3>1, <3>2, <3>3, HandlersStep DEF Inv, Making
  <2>9. Claims'
    <3>1. \A d \in Coupon : (book[d] # None => book'[d] # None /\ book'[d].cert = book[d].cert)
      BY <2>1, <2>3, <2>4
    <3> QED
      BY <1>1, <1>2, <3>1 DEF Inv, Claims, TypeInv
  <2>10. Taken'
    BY <1>1, <1>2, TakenElse
  <2>11. Uses'
    BY <1>1, <1>2 DEF Inv, Uses
  <2>12. Refreshed'
    <3> SUFFICES ASSUME NEW d \in Coupon, row[d] = "redeemed"
                 PROVE  \/ book'[d] # None /\ book'[d].used
                        \/ d \in behind
                        \/ \E q \in Request : req'[q].coupon = d /\ req'[q].pc = "refresh"
      BY <1>1, <1>4 DEF Refreshed
    <3>1. CASE d = c
      BY <2>1, <2>3, <2>4, <3>1
    <3>2. CASE d # c
      <4>1. \A q \in Request : req[q].pc = "refresh" /\ req[q].coupon = d => req'[q] = req[q]
        BY <2>5, <2>6, <3>2
      <4> QED
        BY <1>2, <2>3, <3>2, <4>1 DEF Inv, Refreshed
    <3> QED
      BY <3>1, <3>2
  <2> QED
    BY <2>7, <2>8, <2>9, <2>10, <2>11, <2>12 DEF Inv
<1> QED
  BY <1>1, <1>3, <1>4

-----------------------------------------------------------------------------
(***************************************************************************)
(* The invariant.                                                          *)
(***************************************************************************)

LEMMA InvInit == Init => TypeInv /\ Inv
<1> SUFFICES ASSUME Init PROVE TypeInv /\ Inv
  OBVIOUS
<1>1. TypeInv
  <2>1. req \in [Request -> RequestRow]
    BY IdleShape DEF Init
  <2> QED
    BY <2>1, KindsAreKnown DEF Init, TypeInv, Rows
<1>2. \A r \in Request : req[r].pc = "idle"
  BY IdleShape DEF Init
<1>3. Handlers
  BY <1>2 DEF Handlers, Knows, RightKind, OfPerks, OfRows, Making, Copying
<1>4. Claims /\ Taken /\ Uses /\ Refreshed
  BY DEF Init, Claims, Taken, Uses, Refreshed
<1> QED
  BY <1>1, <1>3, <1>4 DEF Inv

LEMMA StutterStep ==
  ASSUME TypeInv, Inv, expired' \in BOOLEAN,
         UNCHANGED <<kind, claimOf, book, linked, row, req, arrived, uses, stale, bycache, behind, broken>>
  PROVE  TypeInv' /\ Inv'
<1>1. TypeInv'
  BY DEF TypeInv
<1>2. Handlers'
  BY DEF Inv, Handlers, Knows, RightKind, CopyOf
<1>3. Claims' /\ Uses'
  BY ClaimsKept, UsesKept DEF Inv
<1>4. Taken' /\ Refreshed'
  BY DEF Inv, Taken, Refreshed
<1> QED
  BY <1>1, <1>2, <1>3, <1>4 DEF Inv

LEMMA InvNext == TypeInv /\ Inv /\ [Next]_vars => TypeInv' /\ Inv'
<1> SUFFICES ASSUME TypeInv, Inv, [Next]_vars PROVE TypeInv' /\ Inv'
  OBVIOUS
<1>1. ASSUME NEW r \in Request, NEW c \in Coupon,
             \/ RedeemArrives(r, c) \/ StatusArrives(r, c)
             \/ \E x \in Certificate : ClaimArrives(r, x, c) \/ GrantArrives(r, c, x)
      PROVE  TypeInv' /\ Inv'
  BY <1>1, ArrivalStep
<1>2. ASSUME NEW r \in Request, Abort(r) PROVE TypeInv' /\ Inv'
  BY <1>2, AbortStep
<1>3. ASSUME NEW r \in Request, Handle(r) PROVE TypeInv' /\ Inv'
  <2>1. CASE Reserve(r) \/ SaveClaim(r) \/ LinkToken(r) \/ MintToken(r)
    BY <2>1, ReserveStep, MakingSteps, LinkStep
  <2>2. CASE MailFails(r) \/ LookUp(r) \/ ReadStatus(r) \/ ReadCache(r)
    BY <2>2, LookStep
  <2>3. CASE SaveAfterMail(r) \/ UseClaim(r) \/ WriteStatus(r) \/ MarkCache(r)
    BY <2>3, WriteSteps
  <2>4. CASE PersistRow(r) \/ UpdateRow(r) \/ CountAttempt(r) \/ RefreshToken(r)
    BY <2>4, PersistStep, UpdateStep, AttemptStep, RefreshStep
  <2> QED
    BY <1>3, <2>1, <2>2, <2>3, <2>4 DEF Handle
<1>4. ASSUME NEW c \in Coupon, RecoverRow(c) PROVE TypeInv' /\ Inv'
  BY <1>4, RecoverStep
<1>5. CASE DeadlinePasses
  <2>1. expired' = TRUE
    BY <1>5 DEF DeadlinePasses
  <2> QED
    BY <1>5, <2>1, StutterStep DEF DeadlinePasses, hist
<1>6. CASE UNCHANGED vars
  <2>1. expired' \in BOOLEAN
    BY <1>6 DEF vars, TypeInv
  <2> QED
    BY <1>6, <2>1, StutterStep DEF vars
<1> QED
  BY <1>1, <1>2, <1>3, <1>4, <1>5, <1>6 DEF Next

THEOREM InvHolds == Spec => [](TypeInv /\ Inv)
BY InvInit, InvNext, PTL DEF Spec

-----------------------------------------------------------------------------
(***************************************************************************)
(* What follows.                                                           *)
(***************************************************************************)

LEMMA OneClaim == TypeInv /\ Inv => CertificateHasOneClaim
<1> SUFFICES ASSUME TypeInv, Inv PROVE CertificateHasOneClaim
  OBVIOUS
<1>1. TypeOK
  BY DEF TypeInv, TypeOK
<1>2. \A x, y \in Certificate : (x # y /\ claimOf[x] # None) => claimOf[x] # claimOf[y]
  BY DEF Inv, Claims
<1>3. ASSUME NEW c \in linked PROVE \E x \in Certificate : claimOf[x] = c
  <2>1. c \in Coupon /\ kind = "codeperks"
    BY <1>3 DEF TypeInv, Inv, Claims
  <2>2. book[c] # None /\ claimOf[book[c].cert] = c
    BY <1>3, <2>1 DEF Inv, Claims
  <2>3. book[c].cert \in Certificate
    BY <2>1, <2>2, DocumentShape DEF TypeInv
  <2> QED
    BY <2>2, <2>3
<1>4. \A x \in Certificate : (kind = "codeperks" /\ claimOf[x] # None) =>
        \/ claimOf[x] \in linked
        \/ \E r \in Request : req[r].coupon = claimOf[x] /\ req[r].pc \in {"document", "link"}
        \/ x \in broken
  BY DEF Inv, Taken
<1> QED
  BY <1>1, <1>2, <1>3, <1>4 DEF CertificateHasOneClaim

\* A row that is redeemed by itself: used once, and its coupon is the one of its scan.
LEMMA RowDecides ==
  ASSUME TypeInv, Inv, kind # "codeperks", NEW c \in Coupon, c \notin bycache
  PROVE  /\ ~(uses[c] > 1)
         /\ uses[c] > 0 => /\ row[c] = "redeemed" /\ book[c] # None
                           /\ claimOf[book[c].cert] = c
<1>1. uses[c] = IF row[c] = "redeemed" THEN 1 ELSE 0
  BY DEF Inv, Uses
<1>2. row[c] # "absent" => book[c] # None /\ claimOf[book[c].cert] = c
  BY DEF Inv, Claims
<1> QED
  BY <1>1, <1>2

LEMMA UsesExplained == TypeInv /\ Inv => UsesAreAccountedFor
<1> SUFFICES ASSUME TypeInv, Inv PROVE UsesAreAccountedFor
  OBVIOUS
<1>0. /\ kind \in {"codeperks", "goldxtra", "clipxtra"}
      /\ kind # "clipxtra" => \A c \in Coupon : c \notin bycache
  BY DEF TypeInv, Inv, Uses
<1>1. ASSUME kind = "codeperks", NEW c \in Coupon
      PROVE  /\ uses[c] > 0 => /\ book[c] # None /\ (book[c].used \/ c \in stale)
                               /\ claimOf[book[c].cert] = c
             /\ uses[c] > 1 => c \in stale
  BY <1>1 DEF Inv, Uses, Claims
<1>2. ASSUME NEW c \in Coupon, uses[c] > 1
      PROVE  \/ kind = "codeperks" /\ c \in stale
             \/ kind = "clipxtra" /\ c \in bycache
  <2>1. CASE kind = "codeperks"
    BY <1>1, <1>2, <2>1
  <2>2. CASE kind # "codeperks"
    <3>1. c \in bycache
      BY <1>2, <2>2, RowDecides
    <3> QED
      BY <1>0, <2>2, <3>1
  <2> QED
    BY <2>1, <2>2
<1>3. ASSUME NEW c \in Coupon, uses[c] > 0, ~ShownUsed(c)
      PROVE  \/ kind = "codeperks" /\ c \in stale
             \/ kind = "goldxtra" /\ \/ c \in behind
                                     \/ \E r \in Request : req[r].coupon = c /\ At(r, "refresh")
             \/ kind = "clipxtra" /\ c \in bycache
  <2>1. CASE kind = "codeperks"
    BY <1>1, <1>3, <2>1 DEF ShownUsed
  <2>2. CASE kind = "goldxtra"
    <3>1. row[c] = "redeemed" /\ book[c] # None
      BY <1>0, <1>3, <2>2, RowDecides
    <3>2. ~book[c].used
      BY <1>3, <2>2, <3>1 DEF ShownUsed
    <3> QED
      BY <2>2, <3>1, <3>2 DEF Inv, Refreshed, At
  <2>3. CASE kind = "clipxtra"
    <3>1. c \notin bycache => row[c] = "redeemed"
      BY <1>3, <2>3, RowDecides
    <3> QED
      BY <1>3, <2>3, <3>1 DEF ShownUsed
  <2> QED
    BY <1>0, <2>1, <2>2, <2>3
<1>4. ASSUME NEW c \in Coupon, NEW d \in Coupon, c # d, uses[c] > 0, uses[d] > 0,
             book[c].cert = book[d].cert
      PROVE  kind = "clipxtra" /\ (c \in bycache \/ d \in bycache)
  <2>1. CASE kind = "codeperks"
    BY <1>1, <1>4, <2>1
  <2>2. CASE kind # "codeperks"
    <3>1. c \in bycache \/ d \in bycache
      BY <1>4, <2>2, RowDecides
    <3> QED
      BY <1>0, <3>1
  <2> QED
    BY <2>1, <2>2
<1>5. SecondUseNeedsCause
  BY <1>2 DEF SecondUseNeedsCause
<1>6. ShownUnusedNeedsCause
  BY <1>3 DEF ShownUnusedNeedsCause
<1>7. OneUsePerScan
  BY <1>4 DEF OneUsePerScan
<1> QED
  BY <1>5, <1>6, <1>7 DEF UsesAreAccountedFor

\* One step forgets a use only by writing back an outdated copy.
LEMMA ForgetStep ==
  ASSUME TypeInv, Inv, [Next]_vars, NEW c \in Coupon, book[c] # None, book[c].used, ~book'[c].used
  PROVE  c \in stale'
<1>0. book[c] \in Document
  BY DEF TypeInv
<1>1. ASSUME NEW r \in Request, req[r].pc \in {"mail", "use", "writestatus", "mark"},
             NEW used \in BOOLEAN, NEW status \in Statuses, req[r].copy.used => used,
             Overwrite(req[r].coupon, req[r].copy, used, status)
      PROVE  c \in stale'
  <2> DEFINE d == req[r].coupon
  <2>1. /\ d \in Coupon /\ req[r].copy \in Document /\ book[d] \in Document
        /\ CopyOf(req[r].copy, book[d])
    BY <1>1 DEF Inv, Handlers, Knows, Copying
  <2>2. /\ book'[d].used = used /\ \A b \in Coupon : b # d => book'[b] = book[b]
        /\ req[r].copy.version # book[d].version => d \in stale'
    BY <1>1, <2>1, Overwritten
  <2>3. c = d
    BY <2>2
  <2>4. req[r].copy.version # book[d].version
    BY <1>1, <2>1, <2>2, <2>3 DEF CopyOf
  <2> QED
    BY <2>2, <2>3, <2>4
<1>2. ASSUME NEW r \in Request, SaveAfterMail(r) \/ UseClaim(r) \/ WriteStatus(r) \/ MarkCache(r)
      PROVE  c \in stale'
  <2>1. req[r].pc \in {"mail", "use", "writestatus", "mark"}
    BY <1>2 DEF SaveAfterMail, UseClaim, WriteStatus, MarkCache, At
  <2>2. req[r].copy \in Document
    BY <2>1 DEF Inv, Handlers, Knows, Copying
  <2>3. req[r].copy.used \in BOOLEAN /\ req[r].copy.status \in Statuses /\ "fulfilled" \in Statuses
    BY <2>2, DocumentShape DEF Statuses
  <2>4. \E used \in BOOLEAN, status \in Statuses :
          (req[r].copy.used => used) /\ Overwrite(req[r].coupon, req[r].copy, used, status)
    BY <1>2, <2>3 DEF SaveAfterMail, UseClaim, WriteStatus, MarkCache
  <2> QED
    BY <1>1, <2>1, <2>4
<1>3. ASSUME NEW r \in Request, SaveClaim(r) \/ MintToken(r) PROVE FALSE
  <2>1. req[r].pc \in {"document", "mint"}
    BY <1>3 DEF SaveClaim, MintToken, At
  <2>2. req[r].coupon \in Coupon /\ book[req[r].coupon] = None
    BY <2>1 DEF Inv, Handlers, Knows
  <2>3. req[r].coupon # c
    BY <2>2
  <2>4. book' = [book EXCEPT ![req[r].coupon] = Fresh(req[r].cert)]
    BY <1>3 DEF SaveClaim, MintToken
  <2>5. book'[c] = book[c]
    BY <2>3, <2>4 DEF TypeInv
  <2> QED
    BY <2>5
<1>4. ASSUME NEW r \in Request, RefreshToken(r) PROVE FALSE
  <2> DEFINE d == req[r].coupon
  <2>1. d \in Coupon /\ row[d] = "redeemed" /\ book[d] \in Document
    BY <1>4 DEF RefreshToken, At, Inv, Handlers, Knows
  <2>2. book' = book \/ book' = [book EXCEPT ![d].used = TRUE]
    BY <1>4, <2>1 DEF RefreshToken
  <2>3. book'[d].used = TRUE \/ book' = book
    BY <2>1, <2>2 DEF TypeInv, Document
  <2>4. c # d => book'[c] = book[c]
    BY <2>2 DEF TypeInv
  <2> QED
    BY <2>3, <2>4
<1>5. ASSUME book' = book PROVE FALSE
  BY <1>5
<1>6. ASSUME NEW r \in Request, Handle(r) PROVE c \in stale'
  <2>1. CASE Reserve(r) \/ LinkToken(r) \/ MailFails(r) \/ LookUp(r) \/ ReadStatus(r) \/ ReadCache(r)
    BY <1>5, <2>1 DEF Reserve, LinkToken, MailFails, LookUp, ReadStatus, ReadCache
  <2>2. CASE PersistRow(r) \/ UpdateRow(r) \/ CountAttempt(r)
    BY <1>5, <2>2 DEF PersistRow, UpdateRow, CountAttempt
  <2> QED
    BY <1>2, <1>3, <1>4, <1>6, <2>1, <2>2 DEF Handle
<1>7. ASSUME NEW r \in Request, NEW d \in Coupon,
             \/ RedeemArrives(r, d) \/ StatusArrives(r, d)
             \/ \E x \in Certificate : ClaimArrives(r, x, d) \/ GrantArrives(r, d, x)
      PROVE  FALSE
  BY <1>5, <1>7 DEF RedeemArrives, StatusArrives, ClaimArrives, GrantArrives, Arrives
<1>8. ASSUME NEW r \in Request, Abort(r) PROVE FALSE
  BY <1>5, <1>8 DEF Abort
<1>9. ASSUME NEW d \in Coupon, RecoverRow(d) PROVE FALSE
  BY <1>5, <1>9 DEF RecoverRow
<1>10. CASE DeadlinePasses \/ UNCHANGED vars
  BY <1>5, <1>10 DEF DeadlinePasses, vars
<1> QED
  BY <1>6, <1>7, <1>8, <1>9, <1>10 DEF Next

-----------------------------------------------------------------------------
(***************************************************************************)
(* Theorems.                                                               *)
(***************************************************************************)

\* A certificate leads to one redeemable claim at most, and one that is taken without it has
\* its handler at work or lost it: SET NX admits one, however many handlers overlap.
THEOREM CertificatesHaveOneClaim == Spec => []CertificateHasOneClaim
<1>1. TypeInv /\ Inv => CertificateHasOneClaim
  BY OneClaim
<1> QED
  BY <1>1, InvHolds, PTL

\* A coupon used twice, shown as unused after its use, or used beside another one of its scan
\* has been through one of the three known races; a GoldXtra is never used twice.
THEOREM UsesStayAccountedFor == Spec => []UsesAreAccountedFor
<1>1. TypeInv /\ Inv => UsesAreAccountedFor
  BY UsesExplained
<1> QED
  BY <1>1, InvHolds, PTL

\* No step makes a used coupon unused but the write of a copy that was read before the use.
THEOREM UsesAreForgottenByStaleCopies == Spec => UseForgottenOnlyByStaleCopy
<1>1. TypeInv /\ Inv /\ [Next]_vars =>
        [\A c \in Coupon :
           (book[c] # None /\ book[c].used /\ ~book'[c].used) => c \in stale']_vars
  BY ForgetStep
<1> QED
  BY <1>1, InvHolds, PTL DEF Spec, UseForgottenOnlyByStaleCopy

=============================================================================
