----------------------------- MODULE Redemption ------------------------------
(* The coupons a visitor shows a partner, and the handlers that use them up:  *)
(* a codePerks claim (a JSON document in Redis, found by its token), a codePod *)
(* GoldXtra (a Postgres row with a copy in Redis) and a codeClip ClipXtra (a    *)
(* row that may be saved late, and a Redis copy that stands in for it).  Every  *)
(* Redis command or SQL statement is an action; handlers interleave between.    *)
EXTENDS Integers, FiniteSets

CONSTANTS Kinds,       \* the kinds of coupon considered
          Coupon,      \* claim ids or redemption tokens
          Certificate, \* codePerks certificates, or scans of the other two
          Request,     \* the handlers that can be in progress at once
          MaxRequests, \* bound: requests received
          None

ASSUME KindsAreKnown == Kinds \subseteq {"codeperks", "goldxtra", "clipxtra"}

VARIABLES kind,    \* the kind of the coupons of this behaviour
          expired, \* whether the redemption deadline has passed
          claimOf, \* certificate or scan -> the coupon that took it (SET NX, unique row)
          book,    \* coupon -> its Redis document, or None
          linked,  \* claims whose token leads to them
          row,     \* coupon -> its Postgres row
          req,     \* the handlers in progress
          arrived, \* requests received (bounded)
          uses,    \* history: coupon -> answers "redeemed"
          stale,   \* history: coupons written over from an outdated copy
          bycache, \* history: coupons used up in Redis alone
          behind,  \* history: coupons whose Redis copy missed their use
          broken   \* history: certificates whose handler ended early

vars == <<kind, expired, claimOf, book, linked, row, req, arrived, uses, stale,
          bycache, behind, broken>>

hist == <<uses, stale, bycache, behind>>

Statuses == {"pending", "approved", "fulfilled", "rejected"}
Document == [used : BOOLEAN, status : Statuses, version : Nat, cert : Certificate]
Fresh(x) == [used |-> FALSE, status |-> "pending", version |-> 0, cert |-> x]
ASSUME NoneIsNothing == None \notin Coupon /\ None \notin Document
\* The table of a kind: its status, absent when there is no row of that token.
Rows == [Coupon -> {"absent", "assigned", "redeemed"}]
Idle == [pc |-> "idle", coupon |-> None, cert |-> None, copy |-> None]

Init ==
  /\ kind \in Kinds
  /\ expired = FALSE
  /\ claimOf = [x \in Certificate |-> None]
  /\ book = [c \in Coupon |-> None]
  /\ linked = {}
  /\ row = [c \in Coupon |-> "absent"]
  /\ req = [r \in Request |-> Idle]
  /\ arrived = 0
  /\ uses = [c \in Coupon |-> 0]
  /\ stale = {} /\ bycache = {} /\ behind = {} /\ broken = {}

At(r, pc) == req[r].pc = pc
Go(r, pc) == req' = [req EXCEPT ![r].pc = pc]
Answer(r) == req' = [req EXCEPT ![r] = Idle]
\* An id or token no handler has drawn yet: they are random.
Unissued(c) ==
  /\ book[c] = None
  /\ \A x \in Certificate : claimOf[x] # c
  /\ \A r \in Request : req[r].coupon # c

Arrives(r, pc, c, x) ==
  /\ At(r, "idle") /\ arrived < MaxRequests
  /\ arrived' = arrived + 1
  /\ req' = [req EXCEPT ![r] = [Idle EXCEPT !.pc = pc, !.coupon = c, !.cert = x]]
  /\ UNCHANGED <<kind, expired, claimOf, book, linked, row, hist, broken>>

\* Mutant: whether a claim is used follows the status that is set.
OverwriteByStatus(c, copy, used, status) ==
  /\ book' = [book EXCEPT ![c] = [used |-> status = "fulfilled", status |-> status,
                                  version |-> book[c].version + 1,
                                  cert |-> book[c].cert]]
  /\ stale' = IF copy.version # book[c].version THEN stale \cup {c} ELSE stale

\* SET of a whole document: what was written since the copy was read is lost.
Overwrite(c, copy, used, status) ==
  /\ book' = [book EXCEPT ![c] = [used |-> used, status |-> status,
                                  version |-> book[c].version + 1,
                                  cert |-> book[c].cert]]
  /\ stale' = IF copy.version # book[c].version THEN stale \cup {c} ELSE stale

\* GET of a whole document: the copy the handler will change.
ReadCopy(r, pc) == req' = [req EXCEPT ![r].pc = pc, ![r].copy = book[req[r].coupon]]

------------------------------------------------------------------------------
(* codePerks: POST /reward-claim *)

ClaimArrives(r, x, c) ==
  /\ kind = "codeperks" /\ Unissued(c)
  /\ Arrives(r, "reserve", c, x)

\* Mutant: SET without NX.
Unreserved(x) == TRUE
Unclaimed(x) == claimOf[x] = None

\* SET NX on the certificate: the second claim is refused.
Reserve(r) ==
  /\ At(r, "reserve")
  /\ IF Unclaimed(req[r].cert)
     THEN /\ claimOf' = [claimOf EXCEPT ![req[r].cert] = req[r].coupon]
          /\ Go(r, "document")
     ELSE Answer(r) /\ UNCHANGED claimOf
  /\ UNCHANGED <<kind, expired, book, linked, row, arrived, hist, broken>>

SaveClaim(r) ==
  /\ At(r, "document")
  /\ book' = [book EXCEPT ![req[r].coupon] = Fresh(req[r].cert)]
  /\ req' = [req EXCEPT ![r].pc = "link", ![r].copy = Fresh(req[r].cert)]
  /\ UNCHANGED <<kind, expired, claimOf, linked, row, arrived, hist, broken>>

\* From here on the token redeems; the e-mail that carries it is still to be sent.
LinkToken(r) ==
  /\ At(r, "link")
  /\ linked' = linked \cup {req[r].coupon}
  /\ Go(r, "mail")
  /\ UNCHANGED <<kind, expired, claimOf, book, row, arrived, hist, broken>>

\* The e-mail fails, or is sent and the handler's own copy is saved once more.
MailFails(r) ==
  /\ At(r, "mail")
  /\ Answer(r)
  /\ UNCHANGED <<kind, expired, claimOf, book, linked, row, arrived, hist, broken>>

SaveAfterMail(r) ==
  /\ At(r, "mail")
  /\ Overwrite(req[r].coupon, req[r].copy, req[r].copy.used, req[r].copy.status)
  /\ Answer(r)
  /\ UNCHANGED <<kind, expired, claimOf, linked, row, arrived, uses, bycache, behind, broken>>

------------------------------------------------------------------------------
(* codePerks: POST /redemption/:token/redeem and POST /reward-claim/:id/status *)

RedeemArrives(r, c) ==
  Arrives(r, IF kind = "codeperks" THEN "lookup" ELSE "update", c, None)

\* GET; a used or expired claim is refused.
LookUp(r) ==
  LET c == req[r].coupon
  IN  /\ At(r, "lookup")
      /\ IF c \notin linked \/ book[c].used \/ expired
         THEN Answer(r) ELSE ReadCopy(r, "use")
      /\ UNCHANGED <<kind, expired, claimOf, book, linked, row, arrived, hist, broken>>

UseClaim(r) ==
  LET c == req[r].coupon
  IN  /\ At(r, "use")
      /\ Overwrite(c, req[r].copy, TRUE, "fulfilled")
      /\ uses' = [uses EXCEPT ![c] = @ + 1]
      /\ Answer(r)
      /\ UNCHANGED <<kind, expired, claimOf, linked, row, arrived, bycache, behind, broken>>

StatusArrives(r, c) ==
  /\ kind = "codeperks" /\ book[c] # None
  /\ Arrives(r, "readstatus", c, None)

ReadStatus(r) ==
  /\ At(r, "readstatus")
  /\ ReadCopy(r, "writestatus")
  /\ UNCHANGED <<kind, expired, claimOf, book, linked, row, arrived, hist, broken>>

\* Any status is accepted for any claim, and redemption does not look at it.
WriteStatus(r) ==
  /\ At(r, "writestatus")
  /\ \E s \in Statuses : Overwrite(req[r].coupon, req[r].copy, req[r].copy.used, s)
  /\ Answer(r)
  /\ UNCHANGED <<kind, expired, claimOf, linked, row, arrived, uses, bycache, behind, broken>>

------------------------------------------------------------------------------
(* GoldXtra and ClipXtra *)

\* A scan creates the token in Redis, and then saves the row; a scan that finds
\* its stored assignment keeps that token, two that overlap create one each.
GrantArrives(r, c, x) ==
  /\ kind # "codeperks" /\ Unissued(c)
  /\ \A d \in Coupon : book[d] # None => book[d].cert # x
  /\ Arrives(r, "mint", c, x)

MintToken(r) ==
  /\ At(r, "mint")
  /\ book' = [book EXCEPT ![req[r].coupon] = Fresh(req[r].cert)]
  /\ Go(r, "persist")
  /\ UNCHANGED <<kind, expired, claimOf, linked, row, arrived, hist, broken>>

\* INSERT ... ON CONFLICT (event_code, scan_id) DO UPDATE: the row of a scan keeps
\* its token and, once redeemed, its status.
SaveRow(c, x) ==
  IF claimOf[x] = None
  THEN /\ row' = [row EXCEPT ![c] = "assigned"]
       /\ claimOf' = [claimOf EXCEPT ![x] = c]
  ELSE UNCHANGED <<row, claimOf>>

\* The row is saved, or the error is swallowed; codePod never tries again.
PersistRow(r) ==
  /\ At(r, "persist")
  /\ \/ SaveRow(req[r].coupon, req[r].cert)
     \/ UNCHANGED <<row, claimOf>>
  /\ Answer(r)
  /\ UNCHANGED <<kind, expired, book, linked, arrived, hist, broken>>

\* The outbox of codeClip saves a row that the scan could not.
RecoverRow(c) ==
  /\ kind = "clipxtra" /\ book[c] # None /\ row[c] = "absent"
  /\ \A r \in Request : ~(At(r, "persist") /\ req[r].coupon = c)
  /\ SaveRow(c, book[c].cert)
  /\ UNCHANGED <<kind, expired, book, linked, req, arrived, hist, broken>>

\* Mutant: WHERE token = $1 alone.
Redeemable(c) == row[c] # "absent"
Unredeemed(c) == row[c] = "assigned"

\* UPDATE ... WHERE redeemed_at IS NULL: one handler gets the row.
UpdateRow(r) ==
  LET c == req[r].coupon
  IN  /\ At(r, "update")
      /\ IF Unredeemed(c)
         THEN /\ row' = [row EXCEPT ![c] = "redeemed"]
              /\ uses' = [uses EXCEPT ![c] = @ + 1]
              /\ IF kind = "goldxtra" THEN Go(r, "refresh") ELSE Answer(r)
         ELSE Go(r, "attempt") /\ UNCHANGED <<row, uses>>
      /\ UNCHANGED <<kind, expired, claimOf, book, linked, arrived, stale, bycache, behind,
                     broken>>

\* The second UPDATE counts the attempt on a redeemed row; without one, ClipXtra
\* turns to Redis.
CountAttempt(r) ==
  /\ At(r, "attempt")
  /\ IF row[req[r].coupon] = "redeemed"
     THEN IF kind = "goldxtra" THEN Go(r, "refresh") ELSE Answer(r)
     ELSE IF kind = "clipxtra" THEN Go(r, "cache") ELSE Answer(r)
  /\ UNCHANGED <<kind, expired, claimOf, book, linked, row, arrived, hist, broken>>

\* GoldXtra copies the row's state to Redis; an error is swallowed.
RefreshToken(r) ==
  LET c == req[r].coupon
  IN  /\ At(r, "refresh")
      /\ \/ /\ book' = [book EXCEPT ![c].used = row[c] = "redeemed"]
            /\ UNCHANGED behind
         \/ behind' = behind \cup {c} /\ UNCHANGED book
      /\ Answer(r)
      /\ UNCHANGED <<kind, expired, claimOf, linked, row, arrived, uses, stale, bycache,
                     broken>>

ReadCache(r) ==
  /\ At(r, "cache")
  /\ IF book[req[r].coupon] = None \/ book[req[r].coupon].used
     THEN Answer(r) ELSE ReadCopy(r, "mark")
  /\ UNCHANGED <<kind, expired, claimOf, book, linked, row, arrived, hist, broken>>

MarkCache(r) ==
  LET c == req[r].coupon
  IN  /\ At(r, "mark")
      /\ Overwrite(c, req[r].copy, TRUE, "fulfilled")
      /\ uses' = [uses EXCEPT ![c] = @ + 1]
      /\ bycache' = bycache \cup {c}
      /\ Answer(r)
      /\ UNCHANGED <<kind, expired, claimOf, linked, row, arrived, behind, broken>>

------------------------------------------------------------------------------
(* GET /redemption/:token *)

\* What a partner is shown.  GoldXtra asks Redis first and the row without a copy,
\* ClipXtra the other way round.
ShownUsed(c) ==
  IF book[c] = None \/ (kind = "clipxtra" /\ row[c] # "absent")
  THEN row[c] = "redeemed" ELSE book[c].used

------------------------------------------------------------------------------
DeadlinePasses ==
  /\ ~expired /\ kind = "codeperks"
  /\ expired' = TRUE
  /\ UNCHANGED <<kind, claimOf, book, linked, row, req, arrived, hist, broken>>

\* A command raises, or the process dies: the handler ends where it is.
Abort(r) ==
  /\ ~At(r, "idle")
  /\ Answer(r)
  /\ broken' = IF req[r].pc \in {"document", "link"}
               THEN broken \cup {req[r].cert} ELSE broken
  /\ behind' = IF At(r, "refresh") THEN behind \cup {req[r].coupon} ELSE behind
  /\ UNCHANGED <<kind, expired, claimOf, book, linked, row, arrived, uses, stale, bycache>>

Handle(r) ==
  \/ Reserve(r) \/ SaveClaim(r) \/ LinkToken(r) \/ MailFails(r) \/ SaveAfterMail(r)
  \/ LookUp(r) \/ UseClaim(r) \/ ReadStatus(r) \/ WriteStatus(r)
  \/ MintToken(r) \/ PersistRow(r) \/ UpdateRow(r) \/ CountAttempt(r)
  \/ RefreshToken(r) \/ ReadCache(r) \/ MarkCache(r)

Next ==
  \/ \E r \in Request :
       \/ \E c \in Coupon : \/ RedeemArrives(r, c) \/ StatusArrives(r, c)
                            \/ \E x \in Certificate :
                                 ClaimArrives(r, x, c) \/ GrantArrives(r, c, x)
       \/ Handle(r) \/ Abort(r)
  \/ \E c \in Coupon : RecoverRow(c)
  \/ DeadlinePasses

Spec == Init /\ [][Next]_vars

------------------------------------------------------------------------------
TypeOK ==
  /\ kind \in Kinds /\ expired \in BOOLEAN
  /\ claimOf \in [Certificate -> Coupon \cup {None}]
  /\ \A c \in Coupon : book[c] = None \/ book[c] \in Document
  /\ linked \subseteq Coupon
  /\ row \in Rows
  /\ uses \in [Coupon -> Nat] /\ arrived \in Nat

\* A coupon is used a second time only after one handler wrote over another's
\* write (codePerks and the Redis side of ClipXtra read, test and write without a
\* lock), or when a use was recorded in Redis alone and the row came later.  A
\* GoldXtra, whose row decides, is never used twice.
SecondUseNeedsCause ==
  \A c \in Coupon : uses[c] > 1 =>
     \/ kind = "codeperks" /\ c \in stale
     \/ kind = "clipxtra" /\ c \in bycache

\* A coupon is shown to a partner as unused after its use only if its copy was
\* written over, or is about to be brought up to date or could not be (the row
\* refuses it then), or if it was used in Redis and the row came later.
ShownUnusedNeedsCause ==
  \A c \in Coupon : (uses[c] > 0 /\ ~ShownUsed(c)) =>
    \/ kind = "codeperks" /\ c \in stale
    \/ kind = "goldxtra" /\ \/ c \in behind
                            \/ \E r \in Request : req[r].coupon = c /\ At(r, "refresh")
    \/ kind = "clipxtra" /\ c \in bycache

\* Of one certificate or scan one coupon is used, also when two overlapping scans
\* made a token each: the row of the scan keeps one of them.  Only a ClipXtra
\* without a row is used in Redis beside it.
OneUsePerScan ==
  \A c, d \in Coupon :
    (c # d /\ uses[c] > 0 /\ uses[d] > 0 /\ book[c].cert = book[d].cert)
      => kind = "clipxtra" /\ (c \in bycache \/ d \in bycache)

\* Every use that is one too many, and every coupon that looks better than it is,
\* has one of the known causes.
UsesAreAccountedFor == SecondUseNeedsCause /\ ShownUnusedNeedsCause /\ OneUsePerScan

\* A used coupon is forgotten, and can be used again, only by a handler that
\* writes back a copy it read before the use.
UseForgottenOnlyByStaleCopy ==
  [][\A c \in Coupon :
       (book[c] # None /\ book[c].used /\ ~book'[c].used) => c \in stale']_vars

\* A certificate leads to at most one redeemable claim, and one that is taken has
\* a redeemable claim, or a handler at work on it, or lost its handler for good:
\* it then refuses every later claim without having one.
CertificateHasOneClaim ==
  /\ TypeOK
  /\ \A x, y \in Certificate : (x # y /\ claimOf[x] # None) => claimOf[x] # claimOf[y]
  /\ \A c \in linked : \E x \in Certificate : claimOf[x] = c
  /\ \A x \in Certificate : (kind = "codeperks" /\ claimOf[x] # None) =>
       \/ claimOf[x] \in linked
       \/ \E r \in Request : req[r].coupon = claimOf[x] /\ req[r].pc \in {"document", "link"}
       \/ x \in broken
==============================================================================
