------------------------ MODULE TikTokConnectProofs ------------------------
(***************************************************************************)
(* Theorems about TikTokConnect for any callbacks, refreshers, states and  *)
(* events, any lifetimes and any number of arrivals, refreshes and faults. *)
(***************************************************************************)
EXTENDS TikTokConnect, SequenceTheorems, TLAPS

-----------------------------------------------------------------------------
(***************************************************************************)
(* Types.                                                                  *)
(***************************************************************************)

\* Callbacks that work under the state's claim, those with a grant, and those that have
\* persisted it; refreshers under the credential's claim, and those with a token in hand.
ClaimPC == {"exchange", "find", "persist"}
GrantPC == {"find", "persist"}
HoldPC == {"read", "call", "complete", "release"}
TokenPC == {"call", "complete"}

Token == [grant : Nat, gen : Nat]
CallbackRow == [pc : {"idle", "claim", "activate"} \cup ClaimPC, state : OAuthStates \cup {None},
                kind : {None, "code", "error", "bare"}, code : Nat, clock : Nat,
                version : Nat, grant : Nat, found : BOOLEAN]
RefresherRow == [pc : {"idle", "inspect", "secrets", "again", "claim"} \cup HoldPC, clock : Nat,
                 read : Token, got : Token,
                 outcome : {None, "failed_retryable", "failed_reauthorization"}]

TypeInv ==
  /\ inspection \in Inspections
  /\ now \in 0 .. MaxTime
  /\ oauth \in [OAuthStates -> OAuthRow]
  /\ \A s \in OAuthStates : oauth[s].status = "claimed" <=> oauth[s].owner # None
  /\ cred \in CredentialRow
  /\ bind \in BindingRow /\ polling \in {"none", "active", "paused"}
  /\ cb \in [Callbacks -> CallbackRow]
  /\ rf \in [Refreshers -> RefresherRow]
  /\ latest \in Seq(Nat) /\ spent \subseteq OAuthStates \X Nat /\ issued \in [OAuthStates -> Nat]
  /\ arrivals \in Nat /\ refreshes \in Nat /\ faults \in Nat
  /\ trouble \subseteq {"connect", "refresh"}

-----------------------------------------------------------------------------
(***************************************************************************)
(* What requests and rows know.  A token's generation is one TikTok gave   *)
(* out; a callback's grant is its own until it is stored; a refresher that *)
(* holds the claim read the stored token, unless a connection replaced it. *)
(***************************************************************************)

InLife(q) == q.clock <= now /\ now < q.clock + AccessLife
GivenOut(t) == t.grant \in 1 .. Len(latest) /\ 1 <= t.gen /\ t.gen <= latest[t.grant]

CallbackKnows(q) ==
  /\ q.pc # "idle" => q.state \in OAuthStates /\ oauth[q.state].status # "none" /\ InLife(q)
  /\ q.pc \in GrantPC => /\ q.grant \in 1 .. Len(latest) /\ latest[q.grant] = 1
                         /\ q.grant # cred.token.grant

RefresherKnows(q) ==
  /\ q.pc # "idle" => cred.status # "none" /\ InLife(q)
  /\ q.pc \in TokenPC => GivenOut(q.read)
  /\ q.pc = "complete" => /\ GivenOut(q.got) /\ q.got.grant = q.read.grant
                          /\ q.read.gen < q.got.gen

CredentialKnows ==
  /\ cred.owner = None <=> cred.until = 0
  /\ cred.status = "none" => cred.token = NoToken /\ cred.owner = None
  /\ cred.status # "none" => GivenOut(cred.token)

\* No two hold the same grant, or the same answer of a refresh.
OwnGrant ==
  \A c \in Callbacks : cb[c].pc \in GrantPC =>
    /\ \A d \in Callbacks : cb[d].pc \in GrantPC /\ cb[d].grant = cb[c].grant => d = c
    /\ \A r \in Refreshers : rf[r].pc \in TokenPC => rf[r].read.grant # cb[c].grant
OwnAnswer ==
  \A q, r \in Refreshers :
    rf[q].pc = "complete" /\ rf[r].pc = "complete" /\ rf[q].got = rf[r].got => q = r

ReadIsStored ==
  \A r \in Refreshers : rf[r].pc \in TokenPC /\ OwnsRefresh(r) =>
    cred.token = rf[r].read \/ cred.token.grant # rf[r].read.grant

Knows ==
  /\ \A c \in Callbacks : CallbackKnows(cb[c])
  /\ \A r \in Refreshers : RefresherKnows(rf[r])
  /\ CredentialKnows /\ OwnGrant /\ OwnAnswer /\ ReadIsStored

-----------------------------------------------------------------------------
(***************************************************************************)
(* What holds while nothing has gone wrong, on either side.                *)
(***************************************************************************)

OwnsState(c) ==
  LET row == oauth[cb[c].state]
  IN  /\ row.status = "claimed" /\ row.owner = c
      /\ row.version = cb[c].version /\ row.until > cb[c].clock

At(s, pcs) == \E c \in Callbacks : cb[c].state = s /\ cb[c].pc \in pcs
Spent(s) == \E code \in spent : code[1] = s

Connecting ==
  "connect" \notin trouble =>
    /\ \A c \in Callbacks : cb[c].pc \in ClaimPC => OwnsState(c)
    /\ \A s \in OAuthStates : Spent(s) =>
         \/ At(s, GrantPC)
         \/ oauth[s].status = "completed" /\ (polling # "none" \/ At(s, {"activate"}))

IsLatest(t) == latest[t.grant] = t.gen

Refreshing ==
  "refresh" \notin trouble =>
    /\ \A r \in Refreshers : rf[r].pc \in HoldPC => OwnsRefresh(r)
    /\ \A r \in Refreshers : rf[r].pc = "call" => IsLatest(rf[r].read)
    /\ \A r \in Refreshers : rf[r].pc = "complete" => IsLatest(rf[r].got)
    /\ cred.status # "none" =>
         \/ IsLatest(cred.token)
         \/ \E r \in Refreshers : rf[r].pc = "complete" /\ rf[r].read = cred.token

\* Without a fault the credential stays active, and what was refreshed is good for its poll.
Undisturbed ==
  "refresh" \notin trouble /\ faults = 0 =>
    /\ cred.status \in {"none", "active"}
    /\ \A r \in Refreshers : rf[r].pc # "release" /\ (rf[r].pc = "again" => cred.expires > rf[r].clock)
    /\ inspection = "injected" => polling # "paused"

\* With the program's own inspection no poll gets as far as the claim of a refresh: what it
\* found unexpired stays so for its clock, since an expiry is only ever written later.
BeforeRefresh == {"idle", "inspect", "secrets"}
Unrefreshed ==
  inspection = "default" =>
    \A r \in Refreshers : /\ rf[r].pc \in BeforeRefresh
                          /\ rf[r].pc = "secrets" => cred.expires > rf[r].clock

PausedByExpiry == inspection = "default" => PauseHasACause

Inv == Knows /\ Connecting /\ Refreshing /\ Undisturbed /\ Unrefreshed /\ PausedByExpiry

-----------------------------------------------------------------------------
(***************************************************************************)
(* Types of the rows, and what a step makes of them.                       *)
(***************************************************************************)

LEMMA RestTypes ==
  /\ IdleCb \in CallbackRow /\ IdleCb.pc = "idle" /\ IdleCb.state = None
  /\ IdleRf \in RefresherRow /\ IdleRf.pc = "idle"
  /\ NoCredential \in CredentialRow /\ NoToken \in Token
BY DEF IdleCb, CallbackRow, IdleRf, RefresherRow, NoCredential, CredentialRow, NoToken, Token,
   ClaimPC, HoldPC, Usable, Inactive

LEMMA TokenTypes ==
  ASSUME NEW g \in Nat
  PROVE  GrantedToken(g) \in Token /\ GrantedToken(g).grant = g /\ GrantedToken(g).gen = 1
BY DEF GrantedToken, Token

\* The fields of rows.
LEMMA CallbackFields ==
  ASSUME TypeInv, NEW c \in Callbacks
  PROVE  /\ cb[c] \in CallbackRow /\ cb[c].clock \in Nat /\ cb[c].grant \in Nat
         /\ cb[c].version \in Nat /\ cb[c].state \in OAuthStates \cup {None}
         /\ cb[c].found \in BOOLEAN /\ cb[c].code \in Nat
BY DEF TypeInv, CallbackRow

LEMMA RefresherFields ==
  ASSUME TypeInv, NEW r \in Refreshers
  PROVE  /\ rf[r] \in RefresherRow /\ rf[r].clock \in Nat
         /\ rf[r].read \in Token /\ rf[r].read.grant \in Nat /\ rf[r].read.gen \in Nat
         /\ rf[r].got \in Token /\ rf[r].got.grant \in Nat /\ rf[r].got.gen \in Nat
BY DEF TypeInv, RefresherRow, Token

LEMMA CredentialFields ==
  ASSUME TypeInv
  PROVE  /\ cred \in CredentialRow /\ cred.token \in Token /\ cred.token.grant \in Nat
         /\ cred.token.gen \in Nat /\ cred.until \in Nat /\ cred.expires \in Nat
         /\ cred.owner \in Refreshers \cup {None} /\ cred.status \in {"none"} \cup Usable \cup Inactive
BY DEF TypeInv, CredentialRow, Token

\* A rotation raises the generation of one grant; an exchange adds a grant.
LEMMA RotationShape ==
  ASSUME NEW s \in Seq(Nat), NEW g
  PROVE  LET t == [s EXCEPT ![g] = @ + 1]
         IN  /\ t \in Seq(Nat) /\ Len(t) = Len(s)
             /\ \A i \in 1 .. Len(s) : t[i] = IF i = g THEN s[i] + 1 ELSE s[i]
<1> DEFINE t == [s EXCEPT ![g] = @ + 1]
<1>1. s \in [1 .. Len(s) -> Nat] /\ Len(s) \in Nat
  OBVIOUS
<1>2. t \in [1 .. Len(s) -> Nat]
  <2>1. CASE g \in 1 .. Len(s)
    <3>1. s[g] + 1 \in Nat
      BY <1>1, <2>1
    <3> QED
      BY <1>1, <2>1, <3>1
  <2>2. CASE g \notin 1 .. Len(s)
    BY <1>1, <2>2
  <2> QED
    BY <2>1, <2>2
<1>3. t \in Seq(Nat) /\ Len(t) = Len(s)
  BY <1>1, <1>2
<1>4. \A i \in 1 .. Len(s) : t[i] = IF i = g THEN s[i] + 1 ELSE s[i]
  BY <1>1
<1> QED
  BY <1>3, <1>4

LEMMA GrantShape ==
  ASSUME NEW s \in Seq(Nat)
  PROVE  /\ Append(s, 1) \in Seq(Nat) /\ Len(Append(s, 1)) = Len(s) + 1
         /\ \A i \in 1 .. Len(s) : Append(s, 1)[i] = s[i]
         /\ Append(s, 1)[Len(s) + 1] = 1
OBVIOUS

\* What the writes of a credential keep and change.
LEMMA WrittenCredential ==
  ASSUME NEW row \in CredentialRow, NEW token \in Token, NEW clock \in Nat
  PROVE  /\ Prepared(row, token, clock) \in CredentialRow
         /\ Prepared(row, token, clock).token = token
         /\ Prepared(row, token, clock).owner = row.owner
         /\ Prepared(row, token, clock).until = row.until
         /\ Prepared(row, token, clock).expires = clock + AccessLife
         /\ Prepared(row, token, clock).status =
              IF row.status = "reauthorization_required" THEN "active" ELSE row.status
         /\ Created(token, clock) \in CredentialRow
         /\ Created(token, clock).token = token
         /\ Created(token, clock).owner = None /\ Created(token, clock).until = 0
         /\ Created(token, clock).expires = clock + AccessLife
         /\ Created(token, clock).status = "active"
<1>1. clock + AccessLife \in Nat
  BY LifetimesAssumption
<1> QED
  BY <1>1, RestTypes DEF Prepared, Created, CredentialRow, NoCredential, Token, Usable, Inactive

LEMMA ReleasedCredential ==
  ASSUME TypeInv
  PROVE  /\ Released \in CredentialRow /\ Released.owner = None /\ Released.until = 0
         /\ Released.token = cred.token /\ Released.status = cred.status
         /\ Released.expires = cred.expires
BY CredentialFields DEF Released, CredentialRow

LEMMA ConnectedCredential ==
  ASSUME TypeInv, NEW c \in Callbacks, CredentialWritable(c)
  PROVE  /\ Connected(c) \in CredentialRow /\ Connected(c).token = GrantedToken(cb[c].grant)
         /\ Connected(c).expires = cb[c].clock + AccessLife /\ Connected(c).status = "active"
         /\ IF cred.status = "none" THEN Connected(c).owner = None /\ Connected(c).until = 0
            ELSE Connected(c).owner = cred.owner /\ Connected(c).until = cred.until
<1>1. GrantedToken(cb[c].grant) \in Token /\ cb[c].clock \in Nat /\ cred \in CredentialRow
  BY CallbackFields, TokenTypes, CredentialFields
<1>2. CASE cb[c].found
  <2>1. Connected(c) = Prepared(cred, GrantedToken(cb[c].grant), cb[c].clock)
    BY <1>2 DEF Connected
  <2>2. cred.status \in Usable
    BY <1>2 DEF CredentialWritable
  <2> QED
    BY <1>1, <2>1, <2>2, WrittenCredential DEF Usable
<1>3. CASE ~cb[c].found
  <2>1. Connected(c) = Created(GrantedToken(cb[c].grant), cb[c].clock)
    BY <1>3 DEF Connected
  <2>2. cred.status = "none"
    BY <1>3 DEF CredentialWritable
  <2> QED
    BY <1>1, <2>1, <2>2, WrittenCredential
<1> QED
  BY <1>2, <1>3

LEMMA RefreshedCredential ==
  ASSUME TypeInv, NEW r \in Refreshers
  PROVE  /\ Refreshed(r) \in CredentialRow /\ Refreshed(r).token = rf[r].got
         /\ Refreshed(r).owner = None /\ Refreshed(r).until = 0
         /\ Refreshed(r).expires = rf[r].clock + AccessLife
         /\ Refreshed(r).status =
              IF cred.status = "reauthorization_required" THEN "active" ELSE cred.status
BY RefresherFields, ReleasedCredential, WrittenCredential DEF Refreshed

-----------------------------------------------------------------------------
(***************************************************************************)
(* What one step does to each variable.                                    *)
(***************************************************************************)

\* A callback: stays, ends, or takes one of its steps.
LEMMA CallbackMoves ==
  ASSUME TypeInv, [Next]_vars, NEW c \in Callbacks
  PROVE  \/ cb'[c] = cb[c]
         \/ cb'[c] = IdleCb
         \/ \E s \in OAuthStates, kind \in {"code", "error", "bare"} :
              \E code \in 0 .. MaxArrivals : CallbackArrives(c, s, kind, code)
         \/ ClaimState(c) \/ Exchange(c) \/ Persist(c)
         \/ FindCredential(c) /\ cb'[c] = [cb[c] EXCEPT !.pc = "persist",
                                                        !.found = cred.status # "none"]
<1> USE DEF TypeInv
<1>1. ASSUME NEW d \in Callbacks, CallbackStep(d)
      PROVE  \/ d # c /\ cb'[c] = cb[c]
             \/ cb'[c] = IdleCb
             \/ d = c /\ \/ \E s \in OAuthStates, kind \in {"code", "error", "bare"} :
                              \E code \in 0 .. MaxArrivals : CallbackArrives(c, s, kind, code)
                         \/ ClaimState(c) \/ Exchange(c) \/ Persist(c)
                         \/ FindCredential(c) /\ cb'[c] = [cb[c] EXCEPT !.pc = "persist",
                                                              !.found = cred.status # "none"]
  <2>1. ASSUME NEW s \in OAuthStates, NEW kind \in {"code", "error", "bare"},
               NEW code \in 0 .. MaxArrivals, CallbackArrives(d, s, kind, code), d # c
        PROVE  cb'[c] = cb[c]
    BY <2>1 DEF CallbackArrives
  <2>2. CASE AnswerAtClaim(d) \/ ExchangeRefused(d) \/ ExchangeFails(d) \/ PersistRefused(d)
             \/ ActivatePolling(d) \/ CallbackLost(d)
    BY <2>2 DEF AnswerAtClaim, ExchangeRefused, ExchangeFails, PersistRefused, ActivatePolling,
                CallbackLost
  <2>3. CASE (ClaimState(d) \/ Exchange(d) \/ Persist(d) \/ FindCredential(d)) /\ d # c
    BY <2>3 DEF ClaimState, Exchange, Persist, FindCredential
  <2>4. CASE FindCredential(d) /\ d = c
    BY <2>4 DEF FindCredential
  <2> QED
    BY <1>1, <2>1, <2>2, <2>3, <2>4 DEF CallbackStep
<1>2. ASSUME NEW r \in Refreshers, RefreshStep(r)
      PROVE  cb' = cb
  BY <1>2 DEF RefreshStep, CycleBegins, Inspect, ReadAccessToken, ClaimRefresh, ReadSecrets,
     TikTokRotates, TikTokRefuses, CallFails, CompleteRefresh, ReleaseRefresh, RefreshLost
<1>3. (\A d \in Callbacks : ~CallbackStep(d)) /\ (\A r \in Refreshers : ~RefreshStep(r)) => cb' = cb
  BY DEF Next, Step, vars, StartConnection, SetStatus, ToggleBinding, Tick
<1> QED
  BY <1>1, <1>2, <1>3

\* A refresher: stays, ends, moves on its way to the claim, or takes one of its steps under it.
Walks(r) ==
  /\ rf'[r].pc \in {"inspect", "secrets", "claim"}
  /\ rf'[r].clock = IF rf[r].pc = "idle" THEN now ELSE rf[r].clock
  /\ rf[r].pc = "idle" => now' = now /\ cred.status # "none"
  /\ rf[r].pc \in {"idle", "inspect", "secrets"} /\ cred' = cred

LEMMA RefresherMoves ==
  ASSUME TypeInv, [Next]_vars, NEW r \in Refreshers
  PROVE  \/ rf'[r] = rf[r]
         \/ rf'[r] = IdleRf
         \/ Walks(r)
         \/ ClaimRefresh(r) /\ rf'[r].pc = "read"
         \/ ReadSecrets(r) \/ TikTokRotates(r) \/ TikTokRefuses(r) \/ CallFails(r)
         \/ CompleteRefresh(r) /\ rf'[r].pc = "again"
<1> USE DEF TypeInv
<1> DEFINE Takes(q) == \/ q # r /\ rf'[r] = rf[r]
                       \/ rf'[r] = IdleRf
                       \/ q = r /\ \/ Walks(r)
                                   \/ ClaimRefresh(r) /\ rf'[r].pc = "read"
                                   \/ ReadSecrets(r) \/ TikTokRotates(r) \/ TikTokRefuses(r)
                                   \/ CallFails(r)
                                   \/ CompleteRefresh(r) /\ rf'[r].pc = "again"
<1>1. ASSUME NEW q \in Refreshers, RefreshStep(q)
      PROVE  Takes(q)
  <2>1. CASE CycleBegins(q)
    BY <2>1 DEF CycleBegins, Walks, IdleRf, credVars
  <2>2. CASE Inspect(q)
    BY <2>2 DEF Inspect, Walks, RefresherRow, HoldPC
  <2>3. CASE ReadAccessToken(q)
    BY <2>3 DEF ReadAccessToken, Walks, RefresherRow, HoldPC
  <2>4. CASE ClaimRefresh(q)
    BY <2>4 DEF ClaimRefresh, RefresherRow
  <2>5. CASE ReleaseRefresh(q) \/ RefreshLost(q)
    BY <2>5 DEF ReleaseRefresh, RefreshLost
  <2>6. CASE CompleteRefresh(q)
    BY <2>6 DEF CompleteRefresh, RefresherRow
  <2>7. ASSUME ReadSecrets(q) \/ TikTokRotates(q) \/ TikTokRefuses(q) \/ CallFails(q), q # r
        PROVE  rf'[r] = rf[r]
    BY <2>7 DEF ReadSecrets, TikTokRotates, TikTokRefuses, CallFails
  <2> QED
    BY <1>1, <2>1, <2>2, <2>3, <2>4, <2>5, <2>6, <2>7 DEF RefreshStep
<1>2. ASSUME NEW c \in Callbacks, CallbackStep(c)
      PROVE  rf' = rf
  BY <1>2 DEF CallbackStep, CallbackArrives, AnswerAtClaim, ClaimState, Exchange, ExchangeRefused,
     ExchangeFails, FindCredential, Persist, PersistRefused, ActivatePolling, CallbackLost
<1>3. (\A d \in Callbacks : ~CallbackStep(d)) /\ (\A q \in Refreshers : ~RefreshStep(q)) => rf' = rf
  BY DEF Next, Step, vars, StartConnection, SetStatus, ToggleBinding, Tick
<1> QED
  BY <1>1, <1>2, <1>3

\* The credential is written by five operations.
LEMMA CredentialMoves ==
  ASSUME [Next]_vars
  PROVE  \/ cred' = cred
         \/ \E c \in Callbacks : Persist(c)
         \/ \E r \in Refreshers :
              \/ ClaimRefresh(r) /\ cred' = ClaimedForRefresh(r)
              \/ CompleteRefresh(r) \/ ReleaseRefresh(r)
         \/ \E to \in Usable \cup Inactive : SetStatus(to)
<1>1. ASSUME NEW d \in Callbacks, CallbackStep(d), ~Persist(d)
      PROVE  cred' = cred
  BY <1>1 DEF CallbackStep, CallbackArrives, AnswerAtClaim, ClaimState, Exchange, ExchangeRefused,
     ExchangeFails, FindCredential, PersistRefused, ActivatePolling, CallbackLost, credVars
<1>2. ASSUME NEW r \in Refreshers, RefreshStep(r), ~CompleteRefresh(r), ~ReleaseRefresh(r),
             ~(ClaimRefresh(r) /\ cred' = ClaimedForRefresh(r))
      PROVE  cred' = cred
  BY <1>2 DEF RefreshStep, CycleBegins, Inspect, ReadAccessToken, ClaimRefresh, ReadSecrets,
     TikTokRotates, TikTokRefuses, CallFails, RefreshLost, credVars
<1>3. (\A d \in Callbacks : ~CallbackStep(d)) /\ (\A q \in Refreshers : ~RefreshStep(q))
        => cred' = cred \/ \E to \in Usable \cup Inactive : SetStatus(to)
  BY DEF Next, Step, vars, StartConnection, ToggleBinding, Tick, credVars
<1> QED
  BY <1>1, <1>2, <1>3

\* The generations: an exchange adds one, a call raises one.
LEMMA LatestMoves ==
  ASSUME [Next]_vars
  PROVE  \/ latest' = latest
         \/ \E c \in Callbacks : Exchange(c)
         \/ \E r \in Refreshers :
              /\ TikTokRotates(r) \/ CallFails(r)
              /\ latest' = [latest EXCEPT ![rf[r].read.grant] = @ + 1]
<1>1. ASSUME NEW d \in Callbacks, CallbackStep(d), ~Exchange(d)
      PROVE  latest' = latest
  BY <1>1 DEF CallbackStep, CallbackArrives, AnswerAtClaim, ClaimState, Persist, ExchangeRefused,
     ExchangeFails, FindCredential, PersistRefused, ActivatePolling, CallbackLost
<1>2. ASSUME NEW r \in Refreshers, RefreshStep(r)
      PROVE  \/ latest' = latest
             \/ /\ TikTokRotates(r) \/ CallFails(r)
                /\ latest' = [latest EXCEPT ![rf[r].read.grant] = @ + 1]
  BY <1>2 DEF RefreshStep, CycleBegins, Inspect, ReadAccessToken, ClaimRefresh, ReadSecrets,
     TikTokRotates, TikTokRefuses, CallFails, CompleteRefresh, ReleaseRefresh, RefreshLost
<1>3. (\A d \in Callbacks : ~CallbackStep(d)) /\ (\A q \in Refreshers : ~RefreshStep(q))
        => latest' = latest
  BY DEF Next, Step, vars, StartConnection, SetStatus, ToggleBinding, Tick
<1> QED
  BY <1>1, <1>2, <1>3

\* The states: started, claimed, completed.
LEMMA StateMoves ==
  ASSUME [Next]_vars
  PROVE  \/ oauth' = oauth
         \/ \E s \in OAuthStates, e \in Events : StartConnection(s, e)
         \/ \E c \in Callbacks : ClaimState(c) \/ Persist(c)
<1>1. ASSUME NEW d \in Callbacks, CallbackStep(d), ~ClaimState(d), ~Persist(d)
      PROVE  oauth' = oauth
  BY <1>1 DEF CallbackStep, CallbackArrives, AnswerAtClaim, Exchange, ExchangeRefused,
     ExchangeFails, FindCredential, PersistRefused, ActivatePolling, CallbackLost
<1>2. ASSUME NEW r \in Refreshers, RefreshStep(r)
      PROVE  oauth' = oauth
  BY <1>2 DEF RefreshStep, CycleBegins, Inspect, ReadAccessToken, ClaimRefresh, ReadSecrets,
     TikTokRotates, TikTokRefuses, CallFails, CompleteRefresh, ReleaseRefresh, RefreshLost
<1>3. (\A d \in Callbacks : ~CallbackStep(d)) /\ (\A q \in Refreshers : ~RefreshStep(q))
        => oauth' = oauth \/ \E s \in OAuthStates, e \in Events : StartConnection(s, e)
  BY DEF Next, Step, vars, SetStatus, ToggleBinding, Tick
<1> QED
  BY <1>1, <1>2, <1>3

\* Trouble and faults stay; time goes on by one.
LEMMA HistoryMoves ==
  ASSUME TypeInv, [Next]_vars
  PROVE  /\ trouble \subseteq trouble' /\ trouble' \subseteq {"connect", "refresh"}
         /\ faults' \in {faults, faults + 1}
         /\ now' = now \/ Tick
         /\ arrivals' \in Nat /\ refreshes' \in Nat
<1> USE DEF TypeInv
<1>1. ASSUME NEW d \in Callbacks, CallbackStep(d)
      PROVE  /\ trouble \subseteq trouble' /\ trouble' \subseteq {"connect", "refresh"}
             /\ faults' \in {faults, faults + 1} /\ now' = now
             /\ arrivals' \in Nat /\ refreshes' = refreshes
  <2>1. ASSUME NEW s \in OAuthStates, NEW kind \in {"code", "error", "bare"},
               NEW code \in 0 .. MaxArrivals, CallbackArrives(d, s, kind, code)
        PROVE  UNCHANGED <<trouble, faults, now, refreshes>> /\ arrivals' \in Nat
    BY <2>1 DEF CallbackArrives
  <2>2. CASE AnswerAtClaim(d) \/ Persist(d) \/ Exchange(d) \/ ExchangeRefused(d)
    BY <2>2 DEF AnswerAtClaim, Persist, Exchange, ExchangeRefused, counters
  <2>3. CASE ClaimState(d) \/ FindCredential(d) \/ PersistRefused(d) \/ ActivatePolling(d)
    BY <2>3 DEF ClaimState, FindCredential, PersistRefused, ActivatePolling, counters
  <2>4. CASE ExchangeFails(d) \/ CallbackLost(d)
    BY <2>4 DEF ExchangeFails, CallbackLost
  <2> QED
    BY <1>1, <2>1, <2>2, <2>3, <2>4 DEF CallbackStep
<1>2. ASSUME NEW r \in Refreshers, RefreshStep(r)
      PROVE  /\ trouble \subseteq trouble' /\ trouble' \subseteq {"connect", "refresh"}
             /\ faults' \in {faults, faults + 1} /\ now' = now
             /\ arrivals' = arrivals /\ refreshes' \in Nat
  BY <1>2 DEF RefreshStep, CycleBegins, Inspect, ReadAccessToken, ClaimRefresh, ReadSecrets,
     TikTokRotates, TikTokRefuses, CallFails, CompleteRefresh, ReleaseRefresh, RefreshLost, counters
<1>3. ASSUME \A d \in Callbacks : ~CallbackStep(d), \A q \in Refreshers : ~RefreshStep(q)
      PROVE  /\ trouble' = trouble /\ faults' \in {faults, faults + 1}
             /\ now' = now \/ Tick
             /\ arrivals' = arrivals /\ refreshes' = refreshes
  BY <1>3 DEF Next, Step, vars, StartConnection, SetStatus, ToggleBinding, Tick, counters
<1> QED
  BY <1>1, <1>2, <1>3

\* The source is paused by a refresher and activated by a callback.
LEMMA PollingMoves ==
  ASSUME TypeInv, [Next]_vars
  PROVE  /\ polling' \in {polling, "active"} \/ (polling = "active" /\ polling' = "paused")
         /\ polling' = "paused" => \/ polling = "paused"
                                   \/ \E r \in Refreshers :
                                        \/ Inspect(r) /\ ~Inspected(r)
                                        \/ /\ ReadAccessToken(r) /\ ~UsableForApi(rf[r].clock)
                                           /\ rf[r].pc = "again" \/ cred.status # "active"
                                        \/ ReleaseRefresh(r)
<1>1. ASSUME NEW d \in Callbacks, CallbackStep(d)
      PROVE  polling' \in {polling, "active"}
  BY <1>1 DEF CallbackStep, CallbackArrives, AnswerAtClaim, ClaimState, Persist, Exchange,
     ExchangeRefused, ExchangeFails, FindCredential, PersistRefused, ActivatePolling, CallbackLost,
     credVars
<1>2. ASSUME NEW r \in Refreshers, RefreshStep(r),
             ~Inspect(r), ~ReadAccessToken(r), ~ReleaseRefresh(r)
      PROVE  polling' = polling
  BY <1>2 DEF RefreshStep, CycleBegins, ClaimRefresh, ReadSecrets, TikTokRotates, TikTokRefuses,
     CallFails, CompleteRefresh, RefreshLost, credVars
<1>3. ASSUME NEW r \in Refreshers, Inspect(r) \/ ReadAccessToken(r) \/ ReleaseRefresh(r)
      PROVE  /\ polling' = polling \/ (polling = "active" /\ polling' = "paused")
             /\ polling' # polling =>
                  \/ Inspect(r) /\ ~Inspected(r)
                  \/ /\ ReadAccessToken(r) /\ ~UsableForApi(rf[r].clock)
                     /\ rf[r].pc = "again" \/ cred.status # "active"
                  \/ ReleaseRefresh(r)
  <2>1. CASE Inspect(r)
    BY <2>1 DEF Inspect, PausePolling
  <2>2. CASE ReadAccessToken(r)
    BY <2>2 DEF ReadAccessToken, PausePolling
  <2>3. CASE ReleaseRefresh(r)
    BY <2>3 DEF ReleaseRefresh, PausePolling
  <2> QED
    BY <1>3, <2>1, <2>2, <2>3
<1>4. (\A d \in Callbacks : ~CallbackStep(d)) /\ (\A q \in Refreshers : ~RefreshStep(q))
        => polling' = polling
  BY DEF Next, Step, vars, StartConnection, SetStatus, ToggleBinding, Tick, credVars
<1> QED
  BY <1>1, <1>2, <1>3, <1>4

\* Codes are spent at an exchange.
LEMMA CodeMoves ==
  ASSUME TypeInv, [Next]_vars
  PROVE  /\ issued' \in [OAuthStates -> Nat]
         /\ \/ spent' = spent
            \/ \E c \in Callbacks : /\ Exchange(c) \/ (ExchangeFails(c) /\ "connect" \in trouble')
                                    /\ spent' = spent \cup {<<cb[c].state, cb[c].code>>}
<1> USE DEF TypeInv
<1>1. ASSUME NEW d \in Callbacks, CallbackStep(d), ~Exchange(d), ~ExchangeFails(d)
      PROVE  spent' = spent /\ issued' \in [OAuthStates -> Nat]
  <2>1. ASSUME NEW s \in OAuthStates, NEW kind \in {"code", "error", "bare"},
               NEW code \in 0 .. MaxArrivals, CallbackArrives(d, s, kind, code)
        PROVE  spent' = spent /\ issued' \in [OAuthStates -> Nat]
    BY <2>1, BoundAssumption DEF CallbackArrives
  <2> QED
    BY <1>1, <2>1 DEF CallbackStep, AnswerAtClaim, ClaimState, Persist,
       ExchangeRefused, FindCredential, PersistRefused, ActivatePolling, CallbackLost
<1>2. ASSUME NEW d \in Callbacks, Exchange(d) \/ ExchangeFails(d)
      PROVE  /\ issued' = issued
             /\ \/ spent' = spent
                \/ /\ Exchange(d) \/ (ExchangeFails(d) /\ "connect" \in trouble')
                   /\ spent' = spent \cup {<<cb[d].state, cb[d].code>>}
  BY <1>2 DEF Exchange, ExchangeFails
<1>3. ASSUME NEW r \in Refreshers, RefreshStep(r)
      PROVE  UNCHANGED <<spent, issued>>
  BY <1>3 DEF RefreshStep, CycleBegins, Inspect, ReadAccessToken, ClaimRefresh, ReadSecrets,
     TikTokRotates, TikTokRefuses, CallFails, CompleteRefresh, ReleaseRefresh, RefreshLost
<1>4. (\A d \in Callbacks : ~CallbackStep(d)) /\ (\A q \in Refreshers : ~RefreshStep(q))
        => UNCHANGED <<spent, issued>>
  BY DEF Next, Step, vars, StartConnection, SetStatus, ToggleBinding, Tick
<1> QED
  BY <1>1, <1>2, <1>3, <1>4

LEMMA BindingMoves ==
  ASSUME [Next]_vars
  PROVE  bind' = bind \/ ToggleBinding \/ \E c \in Callbacks : Persist(c)
<1>1. ASSUME NEW d \in Callbacks, CallbackStep(d), ~Persist(d)
      PROVE  bind' = bind
  BY <1>1 DEF CallbackStep, CallbackArrives, AnswerAtClaim, ClaimState, Exchange, ExchangeRefused,
     ExchangeFails, FindCredential, PersistRefused, ActivatePolling, CallbackLost, credVars
<1>2. ASSUME NEW r \in Refreshers, RefreshStep(r)
      PROVE  bind' = bind
  BY <1>2 DEF RefreshStep, CycleBegins, Inspect, ReadAccessToken, ClaimRefresh, ReadSecrets,
     TikTokRotates, TikTokRefuses, CallFails, CompleteRefresh, ReleaseRefresh, RefreshLost, credVars
<1>3. (\A d \in Callbacks : ~CallbackStep(d)) /\ (\A q \in Refreshers : ~RefreshStep(q))
        => bind' = bind \/ ToggleBinding
  BY DEF Next, Step, vars, StartConnection, SetStatus, Tick, credVars
<1> QED
  BY <1>1, <1>2, <1>3

-----------------------------------------------------------------------------
(***************************************************************************)
(* Types are kept.                                                         *)
(***************************************************************************)

LEMMA InspectionStays == [Next]_vars => inspection' = inspection
BY DEF Next, vars

LEMMA TypeInit == Init => TypeInv
<1> SUFFICES ASSUME Init PROVE TypeInv
  OBVIOUS
<1>1. now \in 0 .. MaxTime /\ arrivals \in Nat /\ refreshes \in Nat /\ faults \in Nat
  BY BoundAssumption DEF Init
<1>2. oauth \in [OAuthStates -> OAuthRow] /\ \A s \in OAuthStates : oauth[s].status = "none"
                                            /\ oauth[s].owner = None
  BY DEF Init, OAuthRow
<1>3. cb \in [Callbacks -> CallbackRow] /\ rf \in [Refreshers -> RefresherRow]
  BY RestTypes DEF Init
<1>4. cred \in CredentialRow
  <2>1. [NoCredential EXCEPT !.status = "active", !.expires = 1,
                             !.token = [grant |-> 1, gen |-> 1]] \in CredentialRow
    BY RestTypes DEF CredentialRow, NoCredential, Usable
  <2> QED
    BY <2>1, RestTypes DEF Init
<1>5. bind \in BindingRow /\ polling \in {"none", "active", "paused"}
  BY DEF Init, BindingRow
<1>6. latest \in Seq(Nat)
  <2>1. latest = << >> \/ latest = <<1>>
    BY DEF Init
  <2>2. << >> \in Seq(Nat)
    OBVIOUS
  <2>3. <<1>> \in Seq(Nat)
    OBVIOUS
  <2> QED
    BY <2>1, <2>2, <2>3
<1>7. /\ spent \subseteq OAuthStates \X Nat /\ issued \in [OAuthStates -> Nat] /\ trouble = {}
      /\ inspection \in Inspections
  BY DEF Init
<1> QED
  BY <1>1, <1>2, <1>3, <1>4, <1>5, <1>6, <1>7 DEF TypeInv

LEMMA LatestType == TypeInv /\ [Next]_vars => latest' \in Seq(Nat)
<1> SUFFICES ASSUME TypeInv, [Next]_vars PROVE latest' \in Seq(Nat)
  OBVIOUS
<1>0. latest \in Seq(Nat)
  BY DEF TypeInv
<1>1. ASSUME NEW c \in Callbacks, Exchange(c)
      PROVE  latest' \in Seq(Nat)
  BY <1>0, <1>1, GrantShape DEF Exchange
<1>2. ASSUME NEW r \in Refreshers, latest' = [latest EXCEPT ![rf[r].read.grant] = @ + 1]
      PROVE  latest' \in Seq(Nat)
  BY <1>0, <1>2, RotationShape
<1> QED
  BY <1>0, <1>1, <1>2, LatestMoves

LEMMA StateTypes ==
  ASSUME TypeInv, Knows, [Next]_vars
  PROVE  /\ oauth' \in [OAuthStates -> OAuthRow]
         /\ \A s \in OAuthStates : oauth'[s].status = "claimed" <=> oauth'[s].owner # None
<1> DEFINE Good(row) == row \in OAuthRow /\ (row.status = "claimed" <=> row.owner # None)
<1>0. oauth \in [OAuthStates -> OAuthRow] /\ \A s \in OAuthStates : Good(oauth[s])
  BY DEF TypeInv
<1>1. ASSUME NEW s \in OAuthStates, NEW e \in Events, StartConnection(s, e)
      PROVE  \A t \in OAuthStates : Good(oauth'[t])
  <2>1. now + Ttl \in Nat
    BY LifetimesAssumption DEF TypeInv
  <2>2. Good(PendingState(e))
    BY <2>1 DEF PendingState, OAuthRow
  <2> QED
    BY <1>0, <1>1, <2>2 DEF StartConnection
<1>2. ASSUME NEW c \in Callbacks, ClaimState(c)
      PROVE  \A t \in OAuthStates : Good(oauth'[t])
  <2>1. PICK s \in OAuthStates : s = cb[c].state
    BY <1>2 DEF ClaimState, Knows, CallbackKnows
  <2>2. /\ cb[c].clock + Lease \in Nat /\ cb[c].clock + CancelLease \in Nat
        /\ oauth[s] \in OAuthRow /\ oauth[s].version + 1 \in Nat /\ c # None
    BY <1>0, CallbackFields, LifetimesAssumption, NoneIsNobody DEF OAuthRow
  <2>3. Good(ClaimedRow(oauth[s], c))
    BY <2>2 DEF ClaimedRow, OAuthRow
  <2>4. oauth' = [oauth EXCEPT ![s] = ClaimedRow(oauth[s], c)]
    BY <1>2, <2>1 DEF ClaimState
  <2> QED
    BY <1>0, <2>3, <2>4
<1>3. ASSUME NEW c \in Callbacks, Persist(c)
      PROVE  \A t \in OAuthStates : Good(oauth'[t])
  <2>1. PICK s \in OAuthStates : s = cb[c].state
    BY <1>3 DEF Persist, Knows, CallbackKnows
  <2>2. Good(CompletedRow(oauth[s]))
    BY <1>0 DEF CompletedRow, OAuthRow
  <2>3. oauth' = [oauth EXCEPT ![s] = CompletedRow(oauth[s])]
    BY <1>3, <2>1 DEF Persist
  <2> QED
    BY <1>0, <2>2, <2>3
<1>4. \A t \in OAuthStates : Good(oauth'[t])
  BY <1>0, <1>1, <1>2, <1>3, StateMoves
<1>5. oauth' = oauth \/ \E s, row : oauth' = [oauth EXCEPT ![s] = row]
  <2>1. ASSUME NEW s \in OAuthStates, NEW e \in Events, StartConnection(s, e)
        PROVE  oauth' = [oauth EXCEPT ![s] = PendingState(e)]
    BY <2>1 DEF StartConnection
  <2>2. ASSUME NEW c \in Callbacks, ClaimState(c)
        PROVE  oauth' = [oauth EXCEPT ![cb[c].state] = ClaimedRow(oauth[cb[c].state], c)]
    BY <2>2 DEF ClaimState
  <2>3. ASSUME NEW c \in Callbacks, Persist(c)
        PROVE  oauth' = [oauth EXCEPT ![cb[c].state] = CompletedRow(oauth[cb[c].state])]
    BY <2>3 DEF Persist
  <2> QED
    BY <2>1, <2>2, <2>3, StateMoves
<1>6. oauth' = [t \in OAuthStates |-> oauth'[t]]
  BY <1>0, <1>5
<1> QED
  BY <1>4, <1>6

LEMMA CredentialType ==
  ASSUME TypeInv, [Next]_vars
  PROVE  cred' \in CredentialRow
<1>0. cred \in CredentialRow
  BY CredentialFields
<1>1. ASSUME NEW c \in Callbacks, Persist(c)
      PROVE  cred' \in CredentialRow
  BY <1>1, ConnectedCredential DEF Persist
<1>2. ASSUME NEW r \in Refreshers, cred' = ClaimedForRefresh(r)
      PROVE  cred' \in CredentialRow
  <2>1. rf[r].clock + Lease \in Nat
    BY RefresherFields, LifetimesAssumption
  <2> QED
    BY <1>0, <1>2, <2>1 DEF ClaimedForRefresh, CredentialRow
<1>3. ASSUME NEW r \in Refreshers, CompleteRefresh(r)
      PROVE  cred' \in CredentialRow
  BY <1>0, <1>3, ReleasedCredential, RefreshedCredential DEF CompleteRefresh, AfterCompletion
<1>4. ASSUME NEW r \in Refreshers, ReleaseRefresh(r)
      PROVE  cred' \in CredentialRow
  <2>1. [Released EXCEPT !.status = "reauthorization_required"] \in CredentialRow
    BY ReleasedCredential DEF CredentialRow, Usable
  <2> QED
    BY <1>0, <1>4, <2>1, ReleasedCredential DEF ReleaseRefresh, AfterRelease
<1>5. ASSUME NEW to \in Usable \cup Inactive, SetStatus(to)
      PROVE  cred' \in CredentialRow
  BY <1>0, <1>5 DEF SetStatus, CredentialRow
<1> QED
  BY <1>0, <1>1, <1>2, <1>3, <1>4, <1>5, CredentialMoves

LEMMA CallbackType ==
  ASSUME TypeInv, Knows, [Next]_vars
  PROVE  cb' \in [Callbacks -> CallbackRow]
<1>0. cb \in [Callbacks -> CallbackRow] /\ now \in Nat
  BY BoundAssumption DEF TypeInv
<1>1. ASSUME NEW c \in Callbacks
      PROVE  cb'[c] \in CallbackRow
  <2>0. cb[c] \in CallbackRow
    BY <1>0
  <2>1. ASSUME NEW s \in OAuthStates, NEW kind \in {"code", "error", "bare"},
               NEW code \in 0 .. MaxArrivals, CallbackArrives(c, s, kind, code)
        PROVE  cb'[c] \in CallbackRow
    <3>1. code \in Nat
      BY BoundAssumption
    <3> QED
      BY <1>0, <2>1, <3>1, RestTypes DEF CallbackArrives, CallbackRow, IdleCb
  <2>2. CASE ClaimState(c)
    <3>1. oauth[cb[c].state].version + 1 \in Nat
      BY <2>2 DEF ClaimState, Knows, CallbackKnows, TypeInv, OAuthRow
    <3> QED
      BY <1>0, <2>0, <2>2, <3>1, RestTypes DEF ClaimState, CallbackRow, ClaimPC
  <2>3. CASE Exchange(c)
    <3>1. Len(latest) + 1 \in Nat
      BY DEF TypeInv
    <3> QED
      BY <1>0, <2>0, <2>3, <3>1 DEF Exchange, CallbackRow, ClaimPC
  <2>4. CASE Persist(c)
    BY <1>0, <2>0, <2>4, RestTypes DEF Persist, CallbackRow, IdleCb, Knows, CallbackKnows
  <2>5. CASE cb'[c] = [cb[c] EXCEPT !.pc = "persist", !.found = cred.status # "none"]
    BY <2>0, <2>5 DEF CallbackRow, ClaimPC
  <2> QED
    BY <2>0, <2>1, <2>2, <2>3, <2>4, <2>5, CallbackMoves, RestTypes
<1>2. \E f : cb' = [c \in Callbacks |-> f[c]]
  <2>1. ASSUME NEW d \in Callbacks, CallbackStep(d)
        PROVE  \E x : cb' = [cb EXCEPT ![d] = x]
    BY <2>1 DEF CallbackStep, CallbackArrives, AnswerAtClaim, ClaimState, Exchange, ExchangeRefused,
       ExchangeFails, FindCredential, Persist, PersistRefused, ActivatePolling, CallbackLost
  <2>2. ASSUME NEW r \in Refreshers, RefreshStep(r)
        PROVE  cb' = cb
    BY <2>2 DEF RefreshStep, CycleBegins, Inspect, ReadAccessToken, ClaimRefresh, ReadSecrets,
       TikTokRotates, TikTokRefuses, CallFails, CompleteRefresh, ReleaseRefresh, RefreshLost
  <2>3. cb' = cb \/ \E d \in Callbacks : \E x : cb' = [cb EXCEPT ![d] = x]
    BY <2>1, <2>2 DEF Next, Step, vars, StartConnection, SetStatus, ToggleBinding, Tick
  <2> QED
    BY <1>0, <2>3
<1> QED
  BY <1>1, <1>2

LEMMA RefresherType ==
  ASSUME TypeInv, Knows, [Next]_vars
  PROVE  rf' \in [Refreshers -> RefresherRow]
<1>0. rf \in [Refreshers -> RefresherRow] /\ now \in Nat
  BY BoundAssumption DEF TypeInv
<1>1. ASSUME NEW r \in Refreshers
      PROVE  rf'[r] \in RefresherRow
  <2>0. rf[r] \in RefresherRow
    BY <1>0
  <2>1. CASE CycleBegins(r)
    BY <1>0, <2>1, RestTypes DEF CycleBegins, RefresherRow
  <2>2. CASE Inspect(r) \/ ReadAccessToken(r) \/ ClaimRefresh(r)
    BY <1>0, <2>0, <2>2, RestTypes DEF Inspect, ReadAccessToken, ClaimRefresh, RefresherRow, HoldPC
  <2>3. CASE ReadSecrets(r)
    BY <1>0, <2>0, <2>3, CredentialFields DEF ReadSecrets, RefresherRow, HoldPC
  <2>4. CASE TikTokRotates(r)
    <3>1. PICK g \in 1 .. Len(latest) : g = rf[r].read.grant
      BY <2>4 DEF TikTokRotates, Knows, RefresherKnows, TokenPC, GivenOut
    <3>2. latest[g] + 1 \in Nat /\ g \in Nat
      BY DEF TypeInv
    <3>3. [grant |-> g, gen |-> latest[g] + 1] \in Token
      BY <3>2 DEF Token
    <3>4. rf'[r] = [rf[r] EXCEPT !.pc = "complete", !.got = [grant |-> g, gen |-> latest[g] + 1]]
      BY <1>0, <2>4, <3>1 DEF TikTokRotates
    <3> QED
      BY <2>0, <3>3, <3>4 DEF RefresherRow, HoldPC
  <2>5. CASE TikTokRefuses(r) \/ CallFails(r)
    BY <1>0, <2>0, <2>5 DEF TikTokRefuses, CallFails, RefresherRow, HoldPC
  <2>6. CASE CompleteRefresh(r)
    BY <1>0, <2>0, <2>6, RestTypes DEF CompleteRefresh, RefresherRow
  <2>7. CASE ReleaseRefresh(r) \/ RefreshLost(r)
    BY <1>0, <2>7, RestTypes DEF ReleaseRefresh, RefreshLost
  <2>8. ASSUME NEW q \in Refreshers, RefreshStep(q), q # r
        PROVE  rf'[r] = rf[r]
    BY <1>0, <2>8 DEF RefreshStep, CycleBegins, Inspect, ReadAccessToken, ClaimRefresh, ReadSecrets,
       TikTokRotates, TikTokRefuses, CallFails, CompleteRefresh, ReleaseRefresh, RefreshLost
  <2>9. CASE RefreshStep(r)
    BY <2>1, <2>2, <2>3, <2>4, <2>5, <2>6, <2>7, <2>9 DEF RefreshStep
  <2>10. rf' = rf \/ \E q \in Refreshers : RefreshStep(q)
    <3>1. ASSUME NEW c \in Callbacks, CallbackStep(c)
          PROVE  rf' = rf
      BY <3>1 DEF CallbackStep, CallbackArrives, AnswerAtClaim, ClaimState, Exchange,
         ExchangeRefused, ExchangeFails, FindCredential, Persist, PersistRefused, ActivatePolling,
         CallbackLost
    <3> QED
      BY <3>1 DEF Next, Step, vars, StartConnection, SetStatus, ToggleBinding, Tick
  <2> QED
    BY <2>0, <2>8, <2>9, <2>10
<1>2. rf' = rf \/ \E q \in Refreshers : \E row : rf' = [rf EXCEPT ![q] = row]
  <2>1. ASSUME NEW q \in Refreshers, RefreshStep(q)
        PROVE  \E row : rf' = [rf EXCEPT ![q] = row]
    <3>1. CASE CycleBegins(q) \/ ReleaseRefresh(q) \/ RefreshLost(q) \/ ClaimRefresh(q)
      BY <3>1 DEF CycleBegins, ReleaseRefresh, RefreshLost, ClaimRefresh
    <3>2. CASE Inspect(q) \/ ReadAccessToken(q) \/ CompleteRefresh(q)
      BY <3>2 DEF Inspect, ReadAccessToken, CompleteRefresh
    <3>3. CASE ReadSecrets(q) \/ TikTokRotates(q) \/ TikTokRefuses(q) \/ CallFails(q)
      BY <3>3 DEF ReadSecrets, TikTokRotates, TikTokRefuses, CallFails
    <3> QED
      BY <2>1, <3>1, <3>2, <3>3 DEF RefreshStep
  <2>2. ASSUME NEW c \in Callbacks, CallbackStep(c)
        PROVE  rf' = rf
    BY <2>2 DEF CallbackStep, CallbackArrives, AnswerAtClaim, ClaimState, Exchange,
       ExchangeRefused, ExchangeFails, FindCredential, Persist, PersistRefused, ActivatePolling,
       CallbackLost
  <2> QED
    BY <2>1, <2>2 DEF Next, Step, vars, StartConnection, SetStatus, ToggleBinding, Tick
<1>3. rf' = [r \in Refreshers |-> rf'[r]]
  BY <1>0, <1>2
<1> QED
  BY <1>1, <1>3

LEMMA TypeNext ==
  ASSUME TypeInv, Knows, [Next]_vars
  PROVE  TypeInv'
<1>1. now' \in 0 .. MaxTime
  BY HistoryMoves, BoundAssumption DEF Tick, TypeInv
<1>2. bind' \in BindingRow
  <2>1. ASSUME NEW c \in Callbacks, Persist(c)
        PROVE  bind' \in BindingRow
    <3>1. oauth[cb[c].state].event \in Events \cup {None}
      BY <2>1 DEF Persist, Knows, CallbackKnows, TypeInv, OAuthRow
    <3> QED
      BY <2>1, <3>1 DEF Persist, BindingRow
  <2>2. CASE ToggleBinding
    BY <2>2 DEF ToggleBinding, TypeInv, BindingRow
  <2> QED
    BY <2>1, <2>2, BindingMoves DEF TypeInv
<1>3. polling' \in {"none", "active", "paused"}
  BY PollingMoves DEF TypeInv
<1>4. spent' \subseteq OAuthStates \X Nat
  <2>1. ASSUME NEW c \in Callbacks, cb[c].pc # "idle"
        PROVE  <<cb[c].state, cb[c].code>> \in OAuthStates \X Nat
    BY <2>1, CallbackFields DEF Knows, CallbackKnows
  <2>2. \A c \in Callbacks : Exchange(c) \/ ExchangeFails(c) => cb[c].pc # "idle"
    BY DEF Exchange, ExchangeFails
  <2> QED
    BY <2>1, <2>2, CodeMoves DEF TypeInv
<1>5. faults' \in Nat /\ arrivals' \in Nat /\ refreshes' \in Nat /\ trouble' \subseteq {"connect", "refresh"}
  BY HistoryMoves DEF TypeInv
<1>6. issued' \in [OAuthStates -> Nat] /\ inspection' \in Inspections
  BY CodeMoves, InspectionStays DEF TypeInv
<1> QED
  BY <1>1, <1>2, <1>3, <1>4, <1>5, <1>6, LatestType, StateTypes, CredentialType, CallbackType,
     RefresherType DEF TypeInv

-----------------------------------------------------------------------------
(***************************************************************************)
(* What requests and rows know is kept.                                    *)
(***************************************************************************)

LEMMA LatestGrows ==
  ASSUME TypeInv, [Next]_vars
  PROVE  /\ Len(latest) \in Nat /\ Len(latest') \in Nat /\ Len(latest) <= Len(latest')
         /\ \A g \in 1 .. Len(latest) :
              /\ latest[g] \in Nat /\ latest'[g] \in Nat /\ latest[g] <= latest'[g]
              /\ \/ latest'[g] = latest[g]
                 \/ \E r \in Refreshers : rf[r].pc = "call" /\ rf[r].read.grant = g
<1>0. latest \in Seq(Nat) /\ Len(latest) \in Nat /\ \A g \in 1 .. Len(latest) : latest[g] \in Nat
  BY DEF TypeInv
<1>1. ASSUME NEW c \in Callbacks, Exchange(c)
      PROVE  Len(latest') = Len(latest) + 1 /\ \A g \in 1 .. Len(latest) : latest'[g] = latest[g]
  <2>1. latest' = Append(latest, 1)
    BY <1>1 DEF Exchange
  <2> QED
    BY <1>0, <2>1, GrantShape
<1>2. ASSUME NEW r \in Refreshers, rf[r].pc = "call",
             latest' = [latest EXCEPT ![rf[r].read.grant] = @ + 1]
      PROVE  /\ Len(latest') = Len(latest)
             /\ \A g \in 1 .. Len(latest) :
                  latest'[g] = IF g = rf[r].read.grant THEN latest[g] + 1 ELSE latest[g]
  <2>1. PICK h : h = rf[r].read.grant
    OBVIOUS
  <2>2. latest' = [latest EXCEPT ![h] = @ + 1]
    BY <1>2, <2>1
  <2>3. LET t == [latest EXCEPT ![h] = @ + 1]
        IN  /\ Len(t) = Len(latest)
            /\ \A i \in 1 .. Len(latest) : t[i] = IF i = h THEN latest[i] + 1 ELSE latest[i]
    BY <1>0, RotationShape
  <2> QED
    BY <2>1, <2>2, <2>3
<1>3. CASE latest' = latest
  BY <1>0, <1>3
<1>4. CASE \E c \in Callbacks : Exchange(c)
  BY <1>0, <1>1, <1>4
<1>5. ASSUME NEW r \in Refreshers, TikTokRotates(r) \/ CallFails(r),
             latest' = [latest EXCEPT ![rf[r].read.grant] = @ + 1]
      PROVE  /\ Len(latest') = Len(latest)
             /\ \A g \in 1 .. Len(latest) :
                  /\ latest'[g] \in Nat /\ latest[g] <= latest'[g]
                  /\ latest'[g] = latest[g] \/ (rf[r].pc = "call" /\ rf[r].read.grant = g)
  <2>1. rf[r].pc = "call"
    BY <1>5 DEF TikTokRotates, CallFails
  <2> QED
    BY <1>0, <1>2, <1>5, <2>1
<1> QED
  BY <1>0, <1>3, <1>4, <1>5, LatestMoves

\* A token that was given out stays so.
LEMMA GivenStays ==
  ASSUME TypeInv, [Next]_vars, NEW t \in Token, GivenOut(t)
  PROVE  t.grant \in 1 .. Len(latest') /\ 1 <= t.gen /\ t.gen <= latest'[t.grant]
<1>1. t.grant \in 1 .. Len(latest) /\ t.gen \in Nat
  BY DEF GivenOut, Token
<1>2. /\ t.grant \in 1 .. Len(latest')
      /\ latest[t.grant] <= latest'[t.grant] /\ latest[t.grant] \in Nat /\ latest'[t.grant] \in Nat
  BY <1>1, LatestGrows
<1> QED
  BY <1>1, <1>2 DEF GivenOut

LEMMA TokenMoves ==
  ASSUME TypeInv, Knows, [Next]_vars
  PROVE  \/ cred'.token = cred.token
         \/ \E c \in Callbacks : Persist(c) /\ cred'.token = GrantedToken(cb[c].grant)
         \/ \E r \in Refreshers : /\ CompleteRefresh(r) /\ OwnsRefresh(r)
                                   /\ cred.status \in Usable /\ cred'.token = rf[r].got
<1>1. ASSUME NEW c \in Callbacks, Persist(c)
      PROVE  cred'.token = GrantedToken(cb[c].grant)
  BY <1>1, ConnectedCredential DEF Persist
<1>2. ASSUME NEW r \in Refreshers, CompleteRefresh(r)
      PROVE  \/ cred'.token = cred.token
             \/ OwnsRefresh(r) /\ cred.status \in Usable /\ cred'.token = rf[r].got
  <2>1. cred.status # "none" /\ cred.status \in {"none"} \cup Usable \cup Inactive
    BY <1>2, CredentialFields DEF CompleteRefresh, Knows, RefresherKnows
  <2>2. Released.token = cred.token /\ Refreshed(r).token = rf[r].got
    BY ReleasedCredential, RefreshedCredential
  <2> QED
    BY <1>2, <2>1, <2>2 DEF CompleteRefresh, AfterCompletion
<1>3. ASSUME NEW r \in Refreshers, ReleaseRefresh(r)
      PROVE  cred'.token = cred.token
  <2>1. Released.token = cred.token /\ Released \in CredentialRow
    BY ReleasedCredential
  <2> QED
    BY <1>3, <2>1 DEF ReleaseRefresh, AfterRelease, CredentialRow
<1>4. ASSUME NEW r \in Refreshers, cred' = ClaimedForRefresh(r)
      PROVE  cred'.token = cred.token
  BY <1>4, CredentialFields DEF ClaimedForRefresh, CredentialRow
<1>5. ASSUME NEW to \in Usable \cup Inactive, SetStatus(to)
      PROVE  cred'.token = cred.token
  BY <1>5, CredentialFields DEF SetStatus, CredentialRow
<1> QED
  BY <1>1, <1>2, <1>3, <1>4, <1>5, CredentialMoves

\* A credential is never deleted.
LEMMA CredentialStays ==
  ASSUME TypeInv, [Next]_vars, cred.status # "none"
  PROVE  cred'.status # "none"
<1>1. ASSUME NEW c \in Callbacks, Persist(c)
      PROVE  cred'.status # "none"
  BY <1>1, ConnectedCredential DEF Persist
<1>2. ASSUME NEW r \in Refreshers, CompleteRefresh(r)
      PROVE  cred'.status # "none"
  BY <1>2, ReleasedCredential, RefreshedCredential DEF CompleteRefresh, AfterCompletion
<1>3. ASSUME NEW r \in Refreshers, ReleaseRefresh(r)
      PROVE  cred'.status # "none"
  BY <1>3, ReleasedCredential DEF ReleaseRefresh, AfterRelease, CredentialRow
<1>4. ASSUME NEW r \in Refreshers, cred' = ClaimedForRefresh(r)
      PROVE  cred'.status # "none"
  BY <1>4, CredentialFields DEF ClaimedForRefresh, CredentialRow
<1>5. ASSUME NEW to \in Usable \cup Inactive, SetStatus(to)
      PROVE  cred'.status # "none"
  BY <1>5, CredentialFields DEF SetStatus, CredentialRow, Usable, Inactive
<1> QED
  BY <1>1, <1>2, <1>3, <1>4, <1>5, CredentialMoves

\* Nor is a state.
LEMMA StateStays ==
  ASSUME TypeInv, [Next]_vars, NEW s \in OAuthStates, oauth[s].status # "none"
  PROVE  oauth'[s].status # "none"
<1>0. oauth \in [OAuthStates -> OAuthRow]
  BY DEF TypeInv
<1>1. ASSUME NEW t \in OAuthStates, NEW e \in Events, StartConnection(t, e)
      PROVE  oauth'[s].status # "none"
  BY <1>0, <1>1 DEF StartConnection, PendingState
<1>2. ASSUME NEW c \in Callbacks, ClaimState(c)
      PROVE  oauth'[s].status # "none"
  BY <1>0, <1>2 DEF ClaimState, ClaimedRow, OAuthRow
<1>3. ASSUME NEW c \in Callbacks, Persist(c)
      PROVE  oauth'[s].status # "none"
  BY <1>0, <1>3 DEF Persist, CompletedRow, OAuthRow
<1> QED
  BY <1>1, <1>2, <1>3, StateMoves

\* A request in progress stays within its time.
LEMMA TimeGoesOn ==
  ASSUME TypeInv, [Next]_vars, NEW clock \in Nat, clock <= now, now < clock + AccessLife,
         Tick => now + 1 < clock + AccessLife
  PROVE  clock <= now' /\ now' < clock + AccessLife
<1>1. now \in Nat /\ AccessLife \in Nat
  BY BoundAssumption, LifetimesAssumption DEF TypeInv
<1>2. now' = now \/ (Tick /\ now' = now + 1)
  BY HistoryMoves DEF Tick
<1> QED
  BY <1>1, <1>2

LEMMA CallbackKnowsNext ==
  ASSUME TypeInv, Knows, [Next]_vars, NEW c \in Callbacks
  PROVE  CallbackKnows(cb[c])'
<1>0. /\ CallbackKnows(cb[c]) /\ CredentialKnows /\ now \in Nat /\ AccessLife \in Nat \ {0}
      /\ cb[c].clock \in Nat /\ cb[c] \in CallbackRow /\ cb \in [Callbacks -> CallbackRow]
  BY BoundAssumption, LifetimesAssumption, CallbackFields DEF Knows, TypeInv
<1>1. /\ IdleCb.pc = "idle" /\ GrantPC = {"find", "persist"} /\ ClaimPC = {"exchange", "find", "persist"}
  BY RestTypes DEF GrantPC, ClaimPC
<1> DEFINE Alive == /\ cb'[c].state \in OAuthStates /\ oauth'[cb'[c].state].status # "none"
                    /\ cb'[c].clock <= now' /\ now' < cb'[c].clock + AccessLife
<1>2. ASSUME cb[c].pc # "idle", cb'[c].state = cb[c].state, cb'[c].clock = cb[c].clock
      PROVE  Alive
  <2>1. /\ cb[c].state \in OAuthStates /\ oauth[cb[c].state].status # "none"
        /\ cb[c].clock <= now /\ now < cb[c].clock + AccessLife
    BY <1>0, <1>2 DEF CallbackKnows, InLife
  <2>2. Tick => now + 1 < cb[c].clock + AccessLife
    BY <1>2 DEF Tick, InTime
  <2> QED
    BY <1>0, <1>2, <2>1, <2>2, StateStays, TimeGoesOn
<1>3. ASSUME NEW s \in OAuthStates, NEW kind \in {"code", "error", "bare"},
             NEW code \in 0 .. MaxArrivals, CallbackArrives(c, s, kind, code)
      PROVE  Alive /\ cb'[c].pc = "claim"
  <2>1. cb'[c].pc = "claim" /\ cb'[c].state = s /\ cb'[c].clock = now
    BY <1>0, <1>3 DEF CallbackArrives, IdleCb
  <2>2. UNCHANGED <<now, oauth>> /\ oauth[s].status # "none"
    BY <1>3 DEF CallbackArrives
  <2> QED
    BY <1>0, <2>1, <2>2
<1>4. ASSUME cb'[c].pc # "idle"
      PROVE  Alive
  <2>1. CASE cb'[c] = cb[c]
    BY <1>2, <1>4, <2>1
  <2>2. CASE ClaimState(c)
    BY <1>0, <1>1, <1>2, <1>4, <2>2 DEF ClaimState, CallbackRow
  <2>3. CASE Exchange(c)
    BY <1>0, <1>2, <2>3 DEF Exchange, CallbackRow
  <2>4. CASE Persist(c)
    BY <1>0, <1>2, <2>4 DEF Persist, IdleCb
  <2>5. CASE FindCredential(c) /\ cb'[c] = [cb[c] EXCEPT !.pc = "persist", !.found = cred.status # "none"]
    BY <1>0, <1>2, <2>5 DEF FindCredential, CallbackRow
  <2> QED
    BY <1>1, <1>3, <1>4, <2>1, <2>2, <2>3, <2>4, <2>5, CallbackMoves
<1> DEFINE Holds == /\ cb'[c].grant \in 1 .. Len(latest') /\ latest'[cb'[c].grant] = 1
                    /\ cb'[c].grant # cred'.token.grant
<1>5. ASSUME cb[c].pc \in GrantPC, cb'[c].grant = cb[c].grant, ~Persist(c)
      PROVE  Holds
  <2>1. /\ cb[c].grant \in 1 .. Len(latest) /\ latest[cb[c].grant] = 1
        /\ cb[c].grant # cred.token.grant
    BY <1>0, <1>5 DEF CallbackKnows
  <2>2. \A r \in Refreshers : rf[r].pc \in TokenPC => rf[r].read.grant # cb[c].grant
    BY <1>5 DEF Knows, OwnGrant
  <2>3. latest'[cb[c].grant] = 1 /\ cb[c].grant \in 1 .. Len(latest')
    BY <2>1, <2>2, LatestGrows DEF TokenPC
  <2>4. ASSUME NEW d \in Callbacks, Persist(d), cred'.token = GrantedToken(cb[d].grant)
        PROVE  cred'.token.grant # cb[c].grant
    <3>1. d # c /\ cb[d].pc \in GrantPC
      BY <1>5, <2>4 DEF Persist, GrantPC
    <3>2. cb[d].grant # cb[c].grant
      BY <1>5, <3>1 DEF Knows, OwnGrant
    <3> QED
      BY <2>4, <3>2, TokenTypes, CallbackFields
  <2>5. ASSUME NEW r \in Refreshers, CompleteRefresh(r), cred'.token = rf[r].got
        PROVE  cred'.token.grant # cb[c].grant
    <3>1. rf[r].pc = "complete" /\ rf[r].got.grant = rf[r].read.grant
      BY <2>5 DEF CompleteRefresh, Knows, RefresherKnows
    <3> QED
      BY <2>2, <2>5, <3>1 DEF TokenPC
  <2> QED
    BY <1>5, <2>1, <2>3, <2>4, <2>5, TokenMoves
<1>6. ASSUME Exchange(c)
      PROVE  Holds
  <2>1. latest' = Append(latest, 1) /\ cb'[c].grant = Len(latest) + 1 /\ cred' = cred
    BY <1>0, <1>6 DEF Exchange, credVars, CallbackRow
  <2>2. cred.token.grant \in 0 .. Len(latest) /\ latest \in Seq(Nat) /\ Len(latest) \in Nat
    <3>1. CASE cred.status = "none"
      BY <1>0, <3>1 DEF CredentialKnows, NoToken, TypeInv
    <3>2. CASE cred.status # "none"
      BY <1>0, <3>2 DEF CredentialKnows, GivenOut, TypeInv
    <3> QED
      BY <3>1, <3>2
  <2>3. Len(latest') = Len(latest) + 1 /\ latest'[Len(latest) + 1] = 1
    BY <2>1, <2>2, GrantShape
  <2> QED
    BY <2>1, <2>2, <2>3
<1>7. ASSUME cb'[c].pc \in GrantPC
      PROVE  Holds
  <2>1. CASE cb'[c] = cb[c]
    <3>1. ~Persist(c)
      BY <1>0, <1>1, <1>7, <2>1 DEF Persist, IdleCb
    <3> QED
      BY <1>5, <1>7, <2>1, <3>1
  <2>2. CASE ClaimState(c)
    BY <1>0, <1>1, <1>7, <2>2 DEF ClaimState, CallbackRow
  <2>3. CASE Persist(c)
    BY <1>0, <1>1, <1>7, <2>3 DEF Persist
  <2>4. CASE FindCredential(c) /\ cb'[c] = [cb[c] EXCEPT !.pc = "persist", !.found = cred.status # "none"]
    BY <1>0, <1>1, <1>5, <2>4 DEF FindCredential, CallbackRow, Persist
  <2> QED
    BY <1>1, <1>3, <1>6, <1>7, <2>1, <2>2, <2>3, <2>4, CallbackMoves
<1> QED
  BY <1>4, <1>7 DEF CallbackKnows, InLife

\* What a step makes of a refresher's program counter, clock and tokens.
LEMMA RefresherShape ==
  ASSUME TypeInv, [Next]_vars, NEW r \in Refreshers
  PROVE  \/ rf'[r].pc = "idle"
         \/ rf'[r] = rf[r]
         \/ Walks(r)
         \/ /\ rf[r].pc # "idle" /\ rf'[r].clock = rf[r].clock
            /\ \/ rf'[r].pc = "read" /\ ClaimRefresh(r)
               \/ rf'[r].pc = "call" /\ ReadSecrets(r) /\ rf'[r].read = cred.token
                                     /\ RefreshTokenReadable
               \/ rf'[r].pc = "release" /\ ReadSecrets(r) /\ ~RefreshTokenReadable
               \/ rf'[r].pc = "complete" /\ TikTokRotates(r) /\ rf'[r].read = rf[r].read
                    /\ rf'[r].got = [grant |-> rf[r].read.grant,
                                     gen |-> latest[rf[r].read.grant] + 1]
               \/ rf'[r].pc = "release" /\ (TikTokRefuses(r) \/ CallFails(r))
               \/ rf'[r].pc = "again" /\ CompleteRefresh(r)
<1>0. rf \in [Refreshers -> RefresherRow] /\ rf[r] \in RefresherRow /\ IdleRf.pc = "idle"
  BY RestTypes DEF TypeInv
<1>1. CASE ClaimRefresh(r) /\ rf'[r].pc = "read"
  BY <1>0, <1>1 DEF ClaimRefresh, RefresherRow
<1>2. CASE ReadSecrets(r)
  BY <1>0, <1>2 DEF ReadSecrets, RefresherRow
<1>3. CASE TikTokRotates(r)
  BY <1>0, <1>3 DEF TikTokRotates, RefresherRow
<1>4. CASE TikTokRefuses(r)
  BY <1>0, <1>4 DEF TikTokRefuses, RefresherRow
<1>5. CASE CallFails(r)
  BY <1>0, <1>5 DEF CallFails, RefresherRow
<1>6. CASE CompleteRefresh(r) /\ rf'[r].pc = "again"
  BY <1>0, <1>6 DEF CompleteRefresh, RefresherRow
<1> QED
  BY <1>0, <1>1, <1>2, <1>3, <1>4, <1>5, <1>6, RefresherMoves

LEMMA RotationGives ==
  ASSUME TypeInv, Knows, NEW r \in Refreshers, TikTokRotates(r)
  PROVE  /\ rf[r].read.grant \in 1 .. Len(latest) /\ Len(latest') = Len(latest)
         /\ latest'[rf[r].read.grant] = latest[rf[r].read.grant] + 1
         /\ \A g \in 1 .. Len(latest) : g # rf[r].read.grant => latest'[g] = latest[g]
<1>1. PICK g \in 1 .. Len(latest) : g = rf[r].read.grant
  BY DEF TikTokRotates, Knows, RefresherKnows, TokenPC, GivenOut
<1>2. latest' = [latest EXCEPT ![g] = @ + 1] /\ latest \in Seq(Nat)
  BY <1>1 DEF TikTokRotates, TypeInv
<1>3. LET t == [latest EXCEPT ![g] = @ + 1]
      IN  /\ Len(t) = Len(latest)
          /\ \A i \in 1 .. Len(latest) : t[i] = IF i = g THEN latest[i] + 1 ELSE latest[i]
  BY <1>2, RotationShape
<1> QED
  BY <1>1, <1>2, <1>3

LEMMA RefresherKnowsNext ==
  ASSUME TypeInv, Knows, [Next]_vars, NEW r \in Refreshers
  PROVE  RefresherKnows(rf[r])'
<1>0. /\ RefresherKnows(rf[r]) /\ CredentialKnows /\ now \in Nat /\ AccessLife \in Nat \ {0}
      /\ rf[r].clock \in Nat /\ TokenPC = {"call", "complete"}
  BY BoundAssumption, LifetimesAssumption, RefresherFields DEF Knows, TypeInv, TokenPC
<1> DEFINE Alive == /\ cred'.status # "none"
                    /\ rf'[r].clock <= now' /\ now' < rf'[r].clock + AccessLife
<1>1. ASSUME rf[r].pc # "idle", rf'[r].clock = rf[r].clock
      PROVE  Alive
  <2>1. cred.status # "none" /\ rf[r].clock <= now /\ now < rf[r].clock + AccessLife
    BY <1>0, <1>1 DEF RefresherKnows, InLife
  <2>2. Tick => now + 1 < rf[r].clock + AccessLife
    BY <1>1 DEF Tick, InTime
  <2> QED
    BY <1>0, <1>1, <2>1, <2>2, CredentialStays, TimeGoesOn
<1>2. ASSUME Walks(r)
      PROVE  Alive /\ rf'[r].pc \notin TokenPC
  <2>1. rf'[r].pc \notin TokenPC
    BY <1>2 DEF Walks, TokenPC
  <2>2. CASE rf[r].pc = "idle"
    BY <1>0, <1>2, <2>1, <2>2 DEF Walks
  <2>3. CASE rf[r].pc # "idle"
    BY <1>1, <1>2, <2>1, <2>3 DEF Walks
  <2> QED
    BY <2>2, <2>3
<1>3. rf'[r].pc # "idle" => Alive
  BY <1>1, <1>2, RefresherShape
<1> DEFINE Given(t) == t.grant \in 1 .. Len(latest') /\ 1 <= t.gen /\ t.gen <= latest'[t.grant]
<1>4. \A t \in Token : GivenOut(t) => Given(t)
  BY GivenStays
<1>5. ASSUME rf'[r].pc \in TokenPC
      PROVE  Given(rf'[r].read)
  <2>1. CASE rf'[r] = rf[r]
    <3>1. GivenOut(rf[r].read)
      BY <1>0, <1>5, <2>1 DEF RefresherKnows
    <3> HIDE DEF Given
    <3> QED
      BY <1>4, <2>1, <3>1, RefresherFields
  <2>2. CASE ReadSecrets(r) /\ RefreshTokenReadable /\ rf'[r].read = cred.token
    <3>1. GivenOut(cred.token)
      BY <1>0, <2>2 DEF RefreshTokenReadable, Usable, CredentialKnows
    <3> HIDE DEF Given
    <3> QED
      BY <1>4, <2>2, <3>1, CredentialFields
  <2>3. CASE TikTokRotates(r) /\ rf'[r].read = rf[r].read
    <3>1. GivenOut(rf[r].read)
      BY <1>0, <2>3 DEF TikTokRotates, RefresherKnows
    <3> HIDE DEF Given
    <3> QED
      BY <1>4, <2>3, <3>1, RefresherFields
  <2> QED
    BY <1>0, <1>2, <1>5, <2>1, <2>2, <2>3, RefresherShape
<1>6. ASSUME rf'[r].pc = "complete"
      PROVE  /\ Given(rf'[r].got) /\ rf'[r].got.grant = rf'[r].read.grant
             /\ rf'[r].read.gen < rf'[r].got.gen
  <2>1. CASE rf'[r] = rf[r]
    <3>1. GivenOut(rf[r].got) /\ rf[r].got.grant = rf[r].read.grant /\ rf[r].read.gen < rf[r].got.gen
      BY <1>0, <1>6, <2>1 DEF RefresherKnows
    <3> HIDE DEF Given
    <3> QED
      BY <1>4, <2>1, <3>1, RefresherFields
  <2>2. CASE /\ TikTokRotates(r) /\ rf'[r].read = rf[r].read
             /\ rf'[r].got = [grant |-> rf[r].read.grant, gen |-> latest[rf[r].read.grant] + 1]
    <3>1. 1 <= rf[r].read.gen /\ rf[r].read.gen <= latest[rf[r].read.grant]
      BY <1>0, <2>2 DEF TikTokRotates, RefresherKnows, GivenOut
    <3>2. rf[r].read.gen \in Nat /\ latest[rf[r].read.grant] \in Nat
      BY <2>2, RefresherFields, RotationGives, LatestGrows
    <3> QED
      BY <2>2, <3>1, <3>2, RotationGives
  <2> QED
    BY <1>2, <1>6, <2>1, <2>2, RefresherShape DEF TokenPC
<1> QED
  BY <1>3, <1>5, <1>6 DEF RefresherKnows, GivenOut, InLife

\* A callback comes to its grant at the exchange, a refresher to its token at the read.
LEMMA GrantComes ==
  ASSUME TypeInv, [Next]_vars, NEW c \in Callbacks, cb'[c].pc \in GrantPC
  PROVE  \/ cb[c].pc \in GrantPC /\ cb'[c].grant = cb[c].grant
         \/ /\ Exchange(c) /\ cb'[c].grant = Len(latest) + 1 /\ UNCHANGED rf
            /\ \A d \in Callbacks \ {c} : cb'[d] = cb[d]
<1>0. cb \in [Callbacks -> CallbackRow] /\ cb[c] \in CallbackRow
  BY DEF TypeInv
<1>1. CASE ClaimState(c)
  BY <1>0, <1>1, RestTypes DEF ClaimState, CallbackRow, GrantPC
<1>2. CASE Exchange(c)
  BY <1>0, <1>2 DEF Exchange, CallbackRow, GrantPC
<1>3. CASE Persist(c)
  BY <1>0, <1>3 DEF Persist, CallbackRow, GrantPC, IdleCb
<1>4. CASE FindCredential(c) /\ cb'[c] = [cb[c] EXCEPT !.pc = "persist", !.found = cred.status # "none"]
  BY <1>0, <1>4 DEF FindCredential, CallbackRow, GrantPC
<1>5. ASSUME NEW s \in OAuthStates, NEW kind \in {"code", "error", "bare"},
             NEW code \in 0 .. MaxArrivals, CallbackArrives(c, s, kind, code)
      PROVE  cb'[c].pc = "claim"
  BY <1>0, <1>5 DEF CallbackArrives, IdleCb
<1> QED
  BY <1>1, <1>2, <1>3, <1>4, <1>5, CallbackMoves, RestTypes DEF GrantPC

LEMMA TokenComes ==
  ASSUME TypeInv, [Next]_vars, NEW r \in Refreshers, rf'[r].pc \in TokenPC
  PROVE  \/ /\ rf[r].pc \in TokenPC /\ rf'[r].read = rf[r].read /\ rf'[r].clock = rf[r].clock
            /\ rf'[r].pc = "call" => rf[r].pc = "call"
         \/ /\ rf[r].pc = "read" /\ rf'[r].pc = "call" /\ rf'[r].read = cred.token
            /\ cred.status \in Usable /\ UNCHANGED <<cb, cred, latest, trouble>>
<1>1. CASE rf'[r].pc = "call" /\ ReadSecrets(r) /\ rf'[r].read = cred.token /\ RefreshTokenReadable
  BY <1>1 DEF ReadSecrets, RefreshTokenReadable, credVars
<1>2. CASE rf'[r].pc = "complete" /\ TikTokRotates(r) /\ rf'[r].read = rf[r].read
                                  /\ rf'[r].clock = rf[r].clock
  BY <1>2 DEF TikTokRotates, TokenPC
<1> QED
  BY <1>1, <1>2, RefresherShape DEF TokenPC, Walks

LEMMA AnswerComes ==
  ASSUME TypeInv, [Next]_vars, NEW r \in Refreshers, rf'[r].pc = "complete"
  PROVE  \/ rf[r].pc = "complete" /\ rf'[r] = rf[r]
         \/ /\ TikTokRotates(r) /\ rf'[r].read = rf[r].read
            /\ rf'[r].got = [grant |-> rf[r].read.grant, gen |-> latest[rf[r].read.grant] + 1]
            /\ \A q \in Refreshers \ {r} : rf'[q] = rf[q]
<1>1. rf \in [Refreshers -> RefresherRow]
  BY DEF TypeInv
<1>2. TikTokRotates(r) => \A q \in Refreshers \ {r} : rf'[q] = rf[q]
  BY <1>1 DEF TikTokRotates
<1> QED
  BY <1>2, RefresherShape DEF Walks

LEMMA CredentialKnowsNext ==
  ASSUME TypeInv, Knows, [Next]_vars
  PROVE  CredentialKnows'
<1>0. CredentialKnows /\ cred \in CredentialRow /\ cred' \in CredentialRow
  BY CredentialFields, CredentialType DEF Knows
<1>1. cred.status = "none" => cred' = cred \/ \E c \in Callbacks : Persist(c)
  <2>1. \A r \in Refreshers : cred.status = "none" => rf[r].pc = "idle"
    BY DEF Knows, RefresherKnows
  <2> QED
    BY <2>1, CredentialMoves DEF ClaimRefresh, CompleteRefresh, ReleaseRefresh, SetStatus, StatusMoves
<1>2. ASSUME NEW c \in Callbacks, Persist(c)
      PROVE  /\ cred'.status # "none" /\ GivenOut(cred.token)'
             /\ cred'.owner = None <=> cred'.until = 0
  <2>1. /\ cred'.token = GrantedToken(cb[c].grant) /\ cred'.status = "active" /\ latest' = latest
        /\ IF cred.status = "none" THEN cred'.owner = None /\ cred'.until = 0
           ELSE cred'.owner = cred.owner /\ cred'.until = cred.until
    BY <1>2, ConnectedCredential DEF Persist
  <2>2. cb[c].grant \in 1 .. Len(latest) /\ latest[cb[c].grant] = 1
    BY <1>2 DEF Persist, Knows, CallbackKnows, GrantPC
  <2>3. cred'.token.grant = cb[c].grant /\ cred'.token.gen = 1
    BY <2>1, TokenTypes, CallbackFields
  <2> QED
    BY <1>0, <2>1, <2>2, <2>3 DEF GivenOut, CredentialKnows
<1>3. cred'.owner = None <=> cred'.until = 0
  <2>1. ASSUME NEW r \in Refreshers, cred' = ClaimedForRefresh(r)
        PROVE  cred'.owner = r /\ cred'.until # 0
    <3>1. rf[r].clock + Lease # 0
      BY RefresherFields, LifetimesAssumption
    <3> QED
      BY <1>0, <2>1, <3>1 DEF ClaimedForRefresh, CredentialRow
  <2>2. ASSUME NEW r \in Refreshers, CompleteRefresh(r) \/ ReleaseRefresh(r)
        PROVE  cred' = cred \/ (cred'.owner = None /\ cred'.until = 0)
    <3>1. CASE CompleteRefresh(r)
      BY <3>1, ReleasedCredential, RefreshedCredential DEF CompleteRefresh, AfterCompletion
    <3>2. CASE ReleaseRefresh(r)
      BY <3>2, ReleasedCredential DEF ReleaseRefresh, AfterRelease, CredentialRow
    <3> QED
      BY <2>2, <3>1, <3>2
  <2>3. ASSUME NEW to \in Usable \cup Inactive, SetStatus(to)
        PROVE  cred'.owner = cred.owner /\ cred'.until = cred.until
    BY <1>0, <2>3 DEF SetStatus, CredentialRow
  <2> QED
    BY <1>0, <1>2, <2>1, <2>2, <2>3, CredentialMoves, NoneIsNobody DEF CredentialKnows
<1>4. cred'.status = "none" => cred'.token = NoToken /\ cred'.owner = None
  BY <1>0, <1>1, <1>2, CredentialStays DEF CredentialKnows
<1>5. cred'.status # "none" => GivenOut(cred.token)'
  <2>1. CASE cred.status # "none" /\ cred'.token = cred.token
    <3>1. GivenOut(cred.token) /\ cred.token \in Token
      BY <1>0, <2>1, CredentialFields DEF CredentialKnows
    <3>2. PICK t \in Token : t = cred.token
      BY <3>1
    <3>3. t.grant \in 1 .. Len(latest') /\ 1 <= t.gen /\ t.gen <= latest'[t.grant]
      BY <3>1, <3>2, GivenStays
    <3> QED
      BY <2>1, <3>2, <3>3 DEF GivenOut
  <2>2. ASSUME NEW r \in Refreshers, CompleteRefresh(r), cred'.token = rf[r].got
        PROVE  GivenOut(cred.token)'
    <3>1. GivenOut(rf[r].got)
      BY <2>2 DEF CompleteRefresh, Knows, RefresherKnows
    <3>2. PICK t \in Token : t = rf[r].got
      BY RefresherFields
    <3>3. t.grant \in 1 .. Len(latest') /\ 1 <= t.gen /\ t.gen <= latest'[t.grant]
      BY <3>1, <3>2, GivenStays
    <3> QED
      BY <2>2, <3>2, <3>3 DEF GivenOut
  <2>3. CASE cred.status = "none"
    BY <1>1, <1>2, <2>3
  <2> QED
    BY <1>2, <2>1, <2>2, <2>3, TokenMoves
<1> QED
  BY <1>3, <1>4, <1>5 DEF CredentialKnows

LEMMA OwnGrantNext ==
  ASSUME TypeInv, Knows, [Next]_vars
  PROVE  OwnGrant'
<1>0. /\ OwnGrant /\ Len(latest) \in Nat
      /\ \A c \in Callbacks : cb[c].pc \in GrantPC =>
           cb[c].grant \in 1 .. Len(latest) /\ cb[c].grant # cred.token.grant
      /\ \A r \in Refreshers : rf[r].pc \in TokenPC => rf[r].read.grant \in 1 .. Len(latest)
  BY LatestGrows DEF Knows, CallbackKnows, RefresherKnows, GivenOut
<1> DEFINE Old(c) == cb[c].pc \in GrantPC /\ cb'[c].grant = cb[c].grant
           New(c) == /\ Exchange(c) /\ cb'[c].grant = Len(latest) + 1 /\ UNCHANGED rf
                     /\ \A d \in Callbacks \ {c} : cb'[d] = cb[d]
<1>1. \A c \in Callbacks : cb'[c].pc \in GrantPC => Old(c) \/ New(c)
  BY GrantComes
<1>2. ASSUME NEW c \in Callbacks, NEW d \in Callbacks, cb'[c].pc \in GrantPC, cb'[d].pc \in GrantPC,
             cb'[d].grant = cb'[c].grant
      PROVE  d = c
  <2>1. CASE Old(c) /\ Old(d)
    BY <1>0, <1>2, <2>1 DEF OwnGrant
  <2>2. CASE New(c) /\ Old(d)
    BY <1>0, <1>2, <2>2
  <2>3. CASE Old(c) /\ New(d)
    BY <1>0, <1>2, <2>3
  <2>4. CASE New(c) /\ New(d)
    BY <1>2, <2>4 DEF Exchange, GrantPC
  <2> QED
    BY <1>1, <1>2, <2>1, <2>2, <2>3, <2>4
<1>3. ASSUME NEW c \in Callbacks, NEW r \in Refreshers, cb'[c].pc \in GrantPC, rf'[r].pc \in TokenPC
      PROVE  rf'[r].read.grant # cb'[c].grant
  <2>1. CASE rf[r].pc \in TokenPC /\ rf'[r].read = rf[r].read
    <3>1. CASE Old(c)
      BY <1>0, <1>3, <2>1, <3>1 DEF OwnGrant
    <3>2. CASE New(c)
      BY <1>0, <2>1, <3>2
    <3> QED
      BY <1>1, <1>3, <3>1, <3>2
  <2>2. CASE rf[r].pc = "read" /\ rf'[r].pc = "call" /\ rf'[r].read = cred.token /\ UNCHANGED cb
    BY <1>0, <1>3, <2>2
  <2> QED
    BY <1>3, <2>1, <2>2, TokenComes
<1> QED
  BY <1>2, <1>3 DEF OwnGrant

LEMMA OwnAnswerNext ==
  ASSUME TypeInv, Knows, [Next]_vars
  PROVE  OwnAnswer'
<1> DEFINE Old(r) == rf[r].pc = "complete" /\ rf'[r] = rf[r]
           New(r) == /\ TikTokRotates(r)
                     /\ rf'[r].got = [grant |-> rf[r].read.grant, gen |-> latest[rf[r].read.grant] + 1]
                     /\ \A q \in Refreshers \ {r} : rf'[q] = rf[q]
<1>1. \A r \in Refreshers : rf'[r].pc = "complete" => Old(r) \/ New(r)
  BY AnswerComes
<1>2. ASSUME NEW q \in Refreshers, NEW r \in Refreshers, Old(q), New(r)
      PROVE  rf'[q].got # rf'[r].got
  <2>1. rf[q].got.gen \in Nat /\ rf[q].got.gen <= latest[rf[q].got.grant]
        /\ rf[q].got.grant \in 1 .. Len(latest)
    BY <1>2, RefresherFields DEF Knows, RefresherKnows, GivenOut
  <2>2. latest[rf[q].got.grant] \in Nat
    BY <2>1, LatestGrows
  <2> QED
    BY <1>2, <2>1, <2>2
<1>3. ASSUME NEW q \in Refreshers, NEW r \in Refreshers, New(q), New(r), q # r
      PROVE  rf'[q].pc # "complete"
  BY <1>3 DEF TikTokRotates
<1>4. \A q, r \in Refreshers : Old(q) /\ Old(r) /\ rf'[q].got = rf'[r].got => q = r
  BY DEF Knows, OwnAnswer
<1> HIDE DEF Old, New
<1> QED
  BY <1>1, <1>2, <1>3, <1>4 DEF OwnAnswer

LEMMA ReadIsStoredNext ==
  ASSUME TypeInv, Knows, [Next]_vars
  PROVE  ReadIsStored'
<1> SUFFICES ASSUME NEW r \in Refreshers, rf'[r].pc \in TokenPC,
                    cred'.owner = r, cred'.until > rf'[r].clock
             PROVE  cred'.token = rf'[r].read \/ cred'.token.grant # rf'[r].read.grant
  BY DEF ReadIsStored, OwnsRefresh
<1>0. cred \in CredentialRow /\ r # None
  BY CredentialFields, NoneIsNobody
<1>1. CASE rf'[r].read = cred.token /\ cred' = cred
  BY <1>1
<1>2. ASSUME rf[r].pc \in TokenPC, rf'[r].read = rf[r].read, rf'[r].clock = rf[r].clock
      PROVE  cred'.token = rf'[r].read \/ cred'.token.grant # rf'[r].read.grant
  <2>1. ASSUME cred'.token = cred.token, cred'.owner = cred.owner, cred'.until = cred.until
        PROVE  cred'.token = rf'[r].read \/ cred'.token.grant # rf'[r].read.grant
    BY <1>2, <2>1 DEF Knows, ReadIsStored, OwnsRefresh
  <2>2. ASSUME NEW c \in Callbacks, Persist(c)
        PROVE  cred'.token.grant # rf'[r].read.grant
    <3>1. cred'.token = GrantedToken(cb[c].grant) /\ cb[c].pc = "persist"
      BY <2>2, ConnectedCredential DEF Persist
    <3>2. rf[r].read.grant # cb[c].grant
      BY <1>2, <3>1 DEF Knows, OwnGrant, GrantPC
    <3> QED
      BY <1>2, <3>1, <3>2, TokenTypes, CallbackFields
  <2>3. ASSUME NEW q \in Refreshers, ClaimRefresh(q), cred' = ClaimedForRefresh(q)
        PROVE  FALSE
    BY <1>0, <1>2, <2>3 DEF ClaimRefresh, ClaimedForRefresh, TokenPC, CredentialRow
  <2>4. ASSUME NEW q \in Refreshers, CompleteRefresh(q) \/ ReleaseRefresh(q)
        PROVE  cred' = cred
    <3>1. CASE CompleteRefresh(q)
      BY <1>0, <3>1, ReleasedCredential, RefreshedCredential DEF CompleteRefresh, AfterCompletion
    <3>2. CASE ReleaseRefresh(q)
      BY <1>0, <3>2, ReleasedCredential DEF ReleaseRefresh, AfterRelease, CredentialRow
    <3> QED
      BY <2>4, <3>1, <3>2
  <2>5. ASSUME NEW to \in Usable \cup Inactive, SetStatus(to)
        PROVE  cred'.token = cred.token /\ cred'.owner = cred.owner /\ cred'.until = cred.until
    BY <1>0, <2>5 DEF SetStatus, CredentialRow
  <2> QED
    BY <2>1, <2>2, <2>3, <2>4, <2>5, CredentialMoves
<1> QED
  BY <1>1, <1>2, TokenComes

LEMMA KnowsNext == TypeInv /\ Knows /\ [Next]_vars => Knows'
<1> SUFFICES ASSUME TypeInv, Knows, [Next]_vars PROVE Knows'
  OBVIOUS
<1>1. \A c \in Callbacks : CallbackKnows(cb[c])'
  BY CallbackKnowsNext
<1>2. \A r \in Refreshers : RefresherKnows(rf[r])'
  BY RefresherKnowsNext
<1> QED
  BY <1>1, <1>2, CredentialKnowsNext, OwnGrantNext, OwnAnswerNext, ReadIsStoredNext DEF Knows

LEMMA KnowsInit == Init => Knows
<1> SUFFICES ASSUME Init PROVE Knows
  OBVIOUS
<1>1. /\ \A c \in Callbacks : cb[c].pc = "idle"
      /\ \A r \in Refreshers : rf[r].pc = "idle"
  BY RestTypes DEF Init
<1>2. CredentialKnows
  <2>1. CASE cred = NoCredential
    BY <2>1 DEF CredentialKnows, NoCredential
  <2>2. CASE cred = [NoCredential EXCEPT !.status = "active", !.expires = 1,
                                         !.token = [grant |-> 1, gen |-> 1]] /\ latest = <<1>>
    BY <2>2 DEF CredentialKnows, NoCredential, GivenOut
  <2> QED
    BY <2>1, <2>2 DEF Init
<1> QED
  BY <1>1, <1>2 DEF Knows, CallbackKnows, RefresherKnows, OwnGrant, OwnAnswer, ReadIsStored, GrantPC,
     TokenPC

-----------------------------------------------------------------------------
(***************************************************************************)
(* Connecting.  While nothing has gone wrong a callback under the claim is *)
(* the state's owner, so a code that is exchanged is persisted by the      *)
(* callback that holds its grant, and polling is activated after it.       *)
(***************************************************************************)

LEMMA ClaimComes ==
  ASSUME TypeInv, [Next]_vars, NEW c \in Callbacks, cb'[c].pc \in ClaimPC
  PROVE  /\ cb'[c].state = cb[c].state /\ cb'[c].clock = cb[c].clock /\ ~Persist(c)
         /\ \/ cb[c].pc \in ClaimPC /\ cb'[c].version = cb[c].version
            \/ ClaimState(c) /\ cb'[c].version = oauth[cb[c].state].version + 1 /\ cb[c].kind = "code"
<1>0. cb \in [Callbacks -> CallbackRow] /\ cb[c] \in CallbackRow
  BY DEF TypeInv
<1>1. Persist(c) => cb'[c].pc = "activate"
  BY <1>0 DEF Persist, IdleCb
<1>2. CASE ClaimState(c)
  BY <1>0, <1>1, <1>2, RestTypes DEF ClaimState, CallbackRow, ClaimPC
<1>3. CASE Exchange(c)
  BY <1>0, <1>1, <1>3 DEF Exchange, CallbackRow, ClaimPC
<1>4. CASE FindCredential(c) /\ cb'[c] = [cb[c] EXCEPT !.pc = "persist", !.found = cred.status # "none"]
  BY <1>0, <1>1, <1>4 DEF FindCredential, CallbackRow, ClaimPC
<1>5. ASSUME NEW s \in OAuthStates, NEW kind \in {"code", "error", "bare"},
             NEW code \in 0 .. MaxArrivals, CallbackArrives(c, s, kind, code)
      PROVE  cb'[c].pc = "claim"
  BY <1>0, <1>5 DEF CallbackArrives, IdleCb
<1> QED
  BY <1>1, <1>2, <1>3, <1>4, <1>5, CallbackMoves, RestTypes DEF ClaimPC

\* A step is one callback's, or leaves all of them alone.
LEMMA OtherCallbacks ==
  ASSUME TypeInv, [Next]_vars
  PROVE  /\ \A c, d \in Callbacks : CallbackStep(d) /\ d # c => cb'[c] = cb[c]
         /\ (\A d \in Callbacks : ~CallbackStep(d)) => cb' = cb
<1>0. cb \in [Callbacks -> CallbackRow]
  BY DEF TypeInv
<1>1. ASSUME NEW d \in Callbacks, CallbackStep(d)
      PROVE  \E row : cb' = [cb EXCEPT ![d] = row]
  <2>1. CASE \E s \in OAuthStates, kind \in {"code", "error", "bare"} :
               \E code \in 0 .. MaxArrivals : CallbackArrives(d, s, kind, code)
    BY <2>1 DEF CallbackArrives
  <2>2. CASE AnswerAtClaim(d) \/ ClaimState(d) \/ ExchangeRefused(d) \/ ExchangeFails(d)
    BY <2>2 DEF AnswerAtClaim, ClaimState, ExchangeRefused, ExchangeFails
  <2>3. CASE PersistRefused(d) \/ ActivatePolling(d) \/ CallbackLost(d) \/ Persist(d)
    BY <2>3 DEF PersistRefused, ActivatePolling, CallbackLost, Persist
  <2>4. CASE Exchange(d) \/ FindCredential(d)
    BY <2>4 DEF Exchange, FindCredential
  <2> QED
    BY <1>1, <2>1, <2>2, <2>3, <2>4 DEF CallbackStep
<1>2. ASSUME NEW r \in Refreshers, RefreshStep(r)
      PROVE  cb' = cb
  BY <1>2 DEF RefreshStep, CycleBegins, Inspect, ReadAccessToken, ClaimRefresh, ReadSecrets,
     TikTokRotates, TikTokRefuses, CallFails, CompleteRefresh, ReleaseRefresh, RefreshLost
<1>3. (\A d \in Callbacks : ~CallbackStep(d)) => cb' = cb
  BY <1>2 DEF Next, Step, vars, StartConnection, SetStatus, ToggleBinding, Tick
<1> QED
  BY <1>0, <1>1, <1>3

\* A callback with a grant goes on with it, persists it, or something went wrong.
LEMMA GrantGoes ==
  ASSUME TypeInv, [Next]_vars, NEW c \in Callbacks, cb[c].pc \in GrantPC, OwnsState(c),
         "connect" \notin trouble'
  PROVE  (cb'[c].pc \in GrantPC /\ cb'[c].state = cb[c].state) \/ Persist(c)
<1>0. cb \in [Callbacks -> CallbackRow] /\ cb[c] \in CallbackRow
  BY DEF TypeInv
<1>1. FenceHolds(c)
  BY DEF OwnsState, FenceHolds
<1>2. ASSUME NEW d \in Callbacks, CallbackStep(d), d # c
      PROVE  cb'[c] = cb[c]
  BY <1>2, OtherCallbacks
<1>3. CASE FindCredential(c)
  BY <1>0, <1>3 DEF FindCredential, CallbackRow, GrantPC
<1>4. ~PersistRefused(c) /\ ~CallbackLost(c)
  BY <1>1 DEF PersistRefused, CallbackLost
<1>5. CallbackStep(c) => FindCredential(c) \/ Persist(c)
  BY <1>4 DEF CallbackStep, CallbackArrives, AnswerAtClaim, ClaimState, Exchange, ExchangeRefused,
     ExchangeFails, ActivatePolling, GrantPC
<1>6. (\A d \in Callbacks : ~CallbackStep(d)) => cb' = cb
  BY OtherCallbacks
<1> QED
  BY <1>2, <1>3, <1>5, <1>6

\* A callback that persisted activates polling, or something went wrong.
LEMMA ActivationGoes ==
  ASSUME TypeInv, [Next]_vars, NEW c \in Callbacks, cb[c].pc = "activate", "connect" \notin trouble'
  PROVE  cb'[c] = cb[c] \/ polling' = "active"
<1>1. CASE ActivatePolling(c)
  BY <1>1 DEF ActivatePolling
<1>2. ~CallbackLost(c)
  BY DEF CallbackLost
<1>3. ASSUME NEW d \in Callbacks, CallbackStep(d), d # c
      PROVE  cb'[c] = cb[c]
  BY <1>3, OtherCallbacks
<1>4. CallbackStep(c) => ActivatePolling(c)
  BY <1>2 DEF CallbackStep, CallbackArrives, AnswerAtClaim, ClaimState, Exchange, ExchangeRefused,
     ExchangeFails, FindCredential, Persist, PersistRefused
<1>5. (\A d \in Callbacks : ~CallbackStep(d)) => cb' = cb
  BY OtherCallbacks
<1> QED
  BY <1>1, <1>3, <1>4, <1>5

\* What a claim and a completion make of a state.
LEMMA ClaimWrites ==
  ASSUME TypeInv, Knows, NEW c \in Callbacks, ClaimState(c)
  PROVE  /\ cb[c].state \in OAuthStates /\ oauth[cb[c].state].status # "completed"
         /\ cb[c].pc = "claim"
         /\ oauth'[cb[c].state].status = "claimed" /\ oauth'[cb[c].state].owner = c
         /\ oauth'[cb[c].state].version = oauth[cb[c].state].version + 1
         /\ cb[c].kind = "code" => oauth'[cb[c].state].until > cb[c].clock
         /\ \A t \in OAuthStates \ {cb[c].state} : oauth'[t] = oauth[t]
         /\ oauth[cb[c].state].status = "claimed" => "connect" \in trouble'
<1>1. PICK s \in OAuthStates : s = cb[c].state
  BY DEF ClaimState, Knows, CallbackKnows
<1>2. /\ oauth' = [oauth EXCEPT ![s] = ClaimedRow(oauth[s], c)]
      /\ oauth \in [OAuthStates -> OAuthRow] /\ oauth[s] \in OAuthRow
      /\ cb[c].pc = "claim" /\ Claimable(s, cb[c].clock)
      /\ oauth[s].status = "claimed" => "connect" \in trouble'
  BY <1>1 DEF ClaimState, TypeInv
<1>3. cb[c].clock + Lease > cb[c].clock
  BY CallbackFields, LifetimesAssumption
<1>4. /\ ClaimedRow(oauth[s], c).status = "claimed" /\ ClaimedRow(oauth[s], c).owner = c
      /\ ClaimedRow(oauth[s], c).version = oauth[s].version + 1
      /\ cb[c].kind = "code" => ClaimedRow(oauth[s], c).until = cb[c].clock + Lease
  BY <1>2 DEF ClaimedRow, OAuthRow
<1> QED
  BY <1>1, <1>2, <1>3, <1>4 DEF Claimable

LEMMA PersistWrites ==
  ASSUME TypeInv, Knows, NEW c \in Callbacks, Persist(c)
  PROVE  /\ cb[c].state \in OAuthStates /\ oauth'[cb[c].state].status = "completed"
         /\ \A t \in OAuthStates \ {cb[c].state} : oauth'[t] = oauth[t]
         /\ cb'[c].pc = "activate" /\ cb'[c].state = cb[c].state /\ cb[c].pc = "persist"
<1>1. PICK s \in OAuthStates : s = cb[c].state
  BY DEF Persist, Knows, CallbackKnows
<1>2. /\ oauth' = [oauth EXCEPT ![s] = CompletedRow(oauth[s])]
      /\ oauth \in [OAuthStates -> OAuthRow] /\ oauth[s] \in OAuthRow
      /\ cb' = [cb EXCEPT ![c] = [IdleCb EXCEPT !.pc = "activate", !.state = s, !.clock = cb[c].clock]]
      /\ cb \in [Callbacks -> CallbackRow] /\ cb[c].pc = "persist"
  BY <1>1 DEF Persist, TypeInv
<1>3. CompletedRow(oauth[s]).status = "completed"
  BY <1>2 DEF CompletedRow, OAuthRow
<1>4. cb'[c].pc = "activate" /\ cb'[c].state = s
  BY <1>2 DEF IdleCb
<1> QED
  BY <1>1, <1>2, <1>3, <1>4

LEMMA StartWrites ==
  ASSUME TypeInv, NEW s \in OAuthStates, NEW e \in Events, StartConnection(s, e)
  PROVE  oauth[s].status = "none" /\ \A t \in OAuthStates \ {s} : oauth'[t] = oauth[t]
BY DEF StartConnection, TypeInv

LEMMA ConnectingInit == Init => Connecting
BY RestTypes DEF Init, Connecting, Spent, ClaimPC

LEMMA OwnersStay ==
  ASSUME TypeInv, Knows, Connecting, [Next]_vars, "connect" \notin trouble',
         NEW c \in Callbacks, cb'[c].pc \in ClaimPC
  PROVE  OwnsState(c)'
<1>0. /\ "connect" \notin trouble /\ cb'[c].state = cb[c].state /\ cb'[c].clock = cb[c].clock
      /\ ~Persist(c)
  BY HistoryMoves, ClaimComes
<1>1. CASE ClaimState(c) /\ cb'[c].version = oauth[cb[c].state].version + 1 /\ cb[c].kind = "code"
  BY <1>0, <1>1, ClaimWrites DEF OwnsState
<1>2. CASE cb[c].pc \in ClaimPC /\ cb'[c].version = cb[c].version
  <2>1. OwnsState(c) /\ cb[c].state \in OAuthStates
    BY <1>0, <1>2 DEF Connecting, Knows, CallbackKnows, ClaimPC
  <2>2. ASSUME NEW s \in OAuthStates, NEW e \in Events, StartConnection(s, e)
        PROVE  oauth'[cb[c].state] = oauth[cb[c].state]
    BY <2>1, <2>2, StartWrites DEF OwnsState
  <2>3. ASSUME NEW d \in Callbacks, ClaimState(d)
        PROVE  oauth'[cb[c].state] = oauth[cb[c].state]
    BY <2>1, <2>3, ClaimWrites DEF OwnsState
  <2>4. ASSUME NEW d \in Callbacks, Persist(d)
        PROVE  oauth'[cb[c].state] = oauth[cb[c].state]
    <3>1. d # c /\ OwnsState(d)
      BY <1>0, <2>4, PersistWrites DEF Connecting, ClaimPC
    <3>2. cb[d].state # cb[c].state
      BY <2>1, <3>1 DEF OwnsState
    <3> QED
      BY <2>1, <2>4, <3>2, PersistWrites
  <2>5. oauth'[cb[c].state] = oauth[cb[c].state]
    BY <2>2, <2>3, <2>4, StateMoves
  <2> QED
    BY <1>0, <1>2, <2>1, <2>5 DEF OwnsState
<1> QED
  BY <1>1, <1>2, ClaimComes

LEMMA SpentStates ==
  ASSUME TypeInv, Knows, Connecting, [Next]_vars, "connect" \notin trouble',
         NEW s \in OAuthStates, Spent(s)'
  PROVE  \/ At(s, GrantPC)'
         \/ oauth'[s].status = "completed" /\ (polling' # "none" \/ At(s, {"activate"})')
<1>0. "connect" \notin trouble
  BY HistoryMoves
<1>1. ASSUME NEW c \in Callbacks, Exchange(c), cb[c].state = s
      PROVE  At(s, GrantPC)'
  <2>1. cb'[c].pc = "find" /\ cb'[c].state = s
    BY <1>1 DEF Exchange, TypeInv, CallbackRow
  <2> QED
    BY <2>1 DEF At, GrantPC
<1>2. ASSUME NEW c \in Callbacks, cb[c].state = s, cb[c].pc \in GrantPC
      PROVE  \/ At(s, GrantPC)'
             \/ oauth'[s].status = "completed" /\ At(s, {"activate"})'
  <2>1. OwnsState(c)
    BY <1>0, <1>2 DEF Connecting, ClaimPC, GrantPC
  <2>2. CASE Persist(c)
    BY <1>2, <2>2, PersistWrites DEF At
  <2>3. CASE cb'[c].pc \in GrantPC /\ cb'[c].state = cb[c].state
    BY <1>2, <2>3 DEF At
  <2> QED
    BY <1>2, <2>1, <2>2, <2>3, GrantGoes
<1>3. ASSUME oauth[s].status = "completed"
      PROVE  oauth'[s].status = "completed"
  BY <1>3, StateMoves, StartWrites, ClaimWrites, PersistWrites
<1>4. ASSUME polling # "none" \/ At(s, {"activate"})
      PROVE  polling' # "none" \/ At(s, {"activate"})'
  <2>1. CASE polling # "none"
    BY <2>1, PollingMoves
  <2>2. ASSUME NEW c \in Callbacks, cb[c].state = s, cb[c].pc = "activate"
        PROVE  polling' # "none" \/ At(s, {"activate"})'
    BY <2>2, ActivationGoes DEF At
  <2> QED
    BY <1>4, <2>1, <2>2 DEF At
<1>5. Spent(s) \/ \E c \in Callbacks : Exchange(c) /\ cb[c].state = s
  BY CodeMoves DEF Spent
<1>6. CASE Spent(s)
  BY <1>0, <1>2, <1>3, <1>4, <1>6 DEF Connecting, At
<1> QED
  BY <1>1, <1>5, <1>6

LEMMA ConnectingNext == TypeInv /\ Knows /\ Connecting /\ [Next]_vars => Connecting'
BY OwnersStay, SpentStates DEF Connecting

-----------------------------------------------------------------------------
(***************************************************************************)
(* Refreshing.  While nothing has gone wrong one refresher at most is      *)
(* under the credential's claim, and nobody but it has TikTok rotate.      *)
(***************************************************************************)

LEMMA HoldComes ==
  ASSUME TypeInv, [Next]_vars, NEW r \in Refreshers, rf'[r].pc \in HoldPC
  PROVE  /\ rf[r].pc # "idle" /\ rf'[r].clock = rf[r].clock
         /\ rf[r].pc \in HoldPC \/ (ClaimRefresh(r) /\ rf'[r].pc = "read")
         /\ ~CompleteRefresh(r) /\ ~ReleaseRefresh(r)
<1>0. rf \in [Refreshers -> RefresherRow] /\ rf[r] \in RefresherRow /\ IdleRf.pc = "idle"
  BY RestTypes DEF TypeInv
<1>1. CompleteRefresh(r) => rf'[r].pc \in {"again", "idle"}
  BY <1>0 DEF CompleteRefresh, RefresherRow
<1>2. ReleaseRefresh(r) => rf'[r].pc = "idle"
  BY <1>0 DEF ReleaseRefresh
<1>3. /\ rf'[r].pc # "idle" /\ rf'[r].pc # "again" /\ ~Walks(r)
      /\ ReadSecrets(r) => rf[r].pc = "read"
      /\ TikTokRotates(r) \/ TikTokRefuses(r) \/ CallFails(r) => rf[r].pc = "call"
  BY DEF Walks, ReadSecrets, TikTokRotates, TikTokRefuses, CallFails, HoldPC
<1> QED
  BY <1>1, <1>2, <1>3, RefresherShape DEF HoldPC

\* The ways the claim on the credential changes.
LEMMA HolderMoves ==
  ASSUME TypeInv, [Next]_vars, cred.status # "none"
  PROVE  \/ cred'.owner = cred.owner /\ cred'.until = cred.until
         \/ \E r \in Refreshers : ClaimRefresh(r) /\ cred' = ClaimedForRefresh(r)
         \/ \E r \in Refreshers : CompleteRefresh(r) \/ ReleaseRefresh(r)
<1>1. ASSUME NEW c \in Callbacks, Persist(c)
      PROVE  cred'.owner = cred.owner /\ cred'.until = cred.until
  BY <1>1, ConnectedCredential DEF Persist
<1>2. ASSUME NEW to \in Usable \cup Inactive, SetStatus(to)
      PROVE  cred'.owner = cred.owner /\ cred'.until = cred.until
  BY <1>2, CredentialFields DEF SetStatus, CredentialRow
<1> QED
  BY <1>1, <1>2, CredentialMoves

\* Two refreshers never hold the claim together.
LEMMA OneHolder ==
  ASSUME Refreshing, "refresh" \notin trouble, NEW q \in Refreshers, NEW r \in Refreshers,
         rf[q].pc \in HoldPC, rf[r].pc \in HoldPC
  PROVE  q = r
BY DEF Refreshing, OwnsRefresh

LEMMA HoldersStay ==
  ASSUME TypeInv, Knows, Refreshing, [Next]_vars, "refresh" \notin trouble',
         NEW r \in Refreshers, rf'[r].pc \in HoldPC
  PROVE  OwnsRefresh(r)'
<1>0. /\ "refresh" \notin trouble /\ rf'[r].clock = rf[r].clock /\ rf[r].clock \in Nat
      /\ cred.status # "none" /\ cred \in CredentialRow /\ r # None
  BY HistoryMoves, HoldComes, RefresherFields, CredentialFields, NoneIsNobody
     DEF Knows, RefresherKnows
<1>1. CASE ClaimRefresh(r) /\ rf'[r].pc = "read"
  <2>1. cred' = ClaimedForRefresh(r)
    BY <1>1, RestTypes DEF ClaimRefresh, TypeInv
  <2>2. cred'.owner = r /\ cred'.until = rf[r].clock + Lease
    BY <1>0, <2>1 DEF ClaimedForRefresh, CredentialRow
  <2> QED
    BY <1>0, <2>2, LifetimesAssumption DEF OwnsRefresh
<1>2. CASE rf[r].pc \in HoldPC
  <2>1. OwnsRefresh(r)
    BY <1>0, <1>2 DEF Refreshing
  <2>2. ASSUME NEW q \in Refreshers, ClaimRefresh(q), cred' = ClaimedForRefresh(q)
        PROVE  FALSE
    <3>2. cred.owner # None
      BY <1>0, <2>1 DEF OwnsRefresh
    <3>3. ClaimRefresh(q) /\ cred.owner # None /\ cred' # cred => "refresh" \in trouble'
      BY DEF ClaimRefresh
    <3>4. cred' # cred
      <4>1. CASE cred' = cred
        <5>1. cred.owner = q /\ cred.until = rf[q].clock + Lease
          BY <1>0, <2>2, <4>1 DEF ClaimedForRefresh, CredentialRow
        <5>2. rf[q].pc = "claim" /\ q = r
          BY <2>1, <2>2, <5>1 DEF ClaimRefresh, OwnsRefresh
        <5> QED
          BY <1>2, <5>2 DEF HoldPC
      <4> QED
        BY <4>1
    <3> QED
      BY <2>2, <3>2, <3>3, <3>4
  <2>3. ASSUME NEW q \in Refreshers, CompleteRefresh(q) \/ ReleaseRefresh(q)
        PROVE  FALSE
    <3>1. rf[q].pc \in HoldPC
      BY <2>3 DEF CompleteRefresh, ReleaseRefresh, HoldPC
    <3>2. q = r
      BY <1>0, <1>2, <3>1, OneHolder
    <3> QED
      BY <2>3, <3>2, HoldComes
  <2>4. cred'.owner = cred.owner /\ cred'.until = cred.until
    BY <1>0, <2>2, <2>3, HolderMoves
  <2> QED
    BY <1>0, <2>1, <2>4 DEF OwnsRefresh
<1> QED
  BY <1>1, <1>2, HoldComes

\* Only the holder's call rotates.
LEMMA RotationCause ==
  ASSUME TypeInv, [Next]_vars, "refresh" \notin trouble', NEW g \in 1 .. Len(latest)
  PROVE  \/ latest'[g] = latest[g]
         \/ \E r \in Refreshers : TikTokRotates(r) /\ rf[r].read.grant = g
<1>1. ASSUME NEW c \in Callbacks, Exchange(c)
      PROVE  latest'[g] = latest[g]
  <2>1. latest' = Append(latest, 1) /\ latest \in Seq(Nat)
    BY <1>1 DEF Exchange, TypeInv
  <2> QED
    BY <2>1, GrantShape
<1>2. ASSUME NEW r \in Refreshers, TikTokRotates(r) \/ CallFails(r),
             latest' = [latest EXCEPT ![rf[r].read.grant] = @ + 1]
      PROVE  TikTokRotates(r) /\ (latest'[g] = latest[g] \/ rf[r].read.grant = g)
  <2>1. ~CallFails(r)
    BY DEF CallFails
  <2>2. latest \in [1 .. Len(latest) -> Nat]
    BY DEF TypeInv
  <2> QED
    BY <1>2, <2>1, <2>2
<1> QED
  BY <1>1, <1>2, LatestMoves

\* What the holder will send or has got is TikTok's latest.
LEMMA HolderIsLatest ==
  ASSUME TypeInv, Knows, Refreshing, [Next]_vars, "refresh" \notin trouble', NEW r \in Refreshers
  PROVE  /\ rf'[r].pc = "call" => IsLatest(rf[r].read)'
         /\ rf'[r].pc = "complete" => IsLatest(rf[r].got)'
<1>0. "refresh" \notin trouble
  BY HistoryMoves
<1>1. ASSUME rf[r].pc \in {"call", "complete"}, ~TikTokRotates(r), NEW g \in 1 .. Len(latest)
      PROVE  latest'[g] = latest[g]
  <2>1. ASSUME NEW q \in Refreshers, TikTokRotates(q)
        PROVE  FALSE
    <3>1. rf[q].pc \in HoldPC /\ rf[r].pc \in HoldPC
      BY <1>1, <2>1 DEF TikTokRotates, HoldPC
    <3> QED
      BY <1>0, <1>1, <2>1, <3>1, OneHolder
  <2> QED
    BY <2>1, RotationCause
<1>2. ASSUME rf'[r].pc = "call"
      PROVE  latest'[rf'[r].read.grant] = rf'[r].read.gen
  <2>1. CASE rf[r].pc = "call" /\ rf'[r].read = rf[r].read
    <3>1. ~TikTokRotates(r)
      BY <1>2 DEF TikTokRotates, TypeInv, RefresherRow
    <3>2. rf[r].read.grant \in 1 .. Len(latest) /\ latest[rf[r].read.grant] = rf[r].read.gen
      BY <1>0, <2>1 DEF Knows, RefresherKnows, TokenPC, GivenOut, Refreshing, IsLatest
    <3> QED
      BY <1>1, <2>1, <3>1, <3>2
  <2>2. CASE rf[r].pc = "read" /\ rf'[r].read = cred.token /\ cred.status \in Usable
             /\ UNCHANGED latest
    <3>1. ASSUME NEW q \in Refreshers, rf[q].pc = "complete"
          PROVE  FALSE
      <4>1. rf[q].pc \in HoldPC /\ rf[r].pc \in HoldPC
        BY <2>2, <3>1 DEF HoldPC
      <4> QED
        BY <1>0, <2>2, <3>1, <4>1, OneHolder
    <3>2. IsLatest(cred.token)
      BY <1>0, <2>2, <3>1 DEF Refreshing, Usable
    <3> QED
      BY <2>2, <3>2 DEF IsLatest
  <2> QED
    BY <1>2, <2>1, <2>2, TokenComes DEF TokenPC
<1>3. ASSUME rf'[r].pc = "complete"
      PROVE  latest'[rf'[r].got.grant] = rf'[r].got.gen
  <2>1. CASE rf[r].pc = "complete" /\ rf'[r] = rf[r]
    <3>1. ~TikTokRotates(r)
      BY <2>1 DEF TikTokRotates
    <3>2. rf[r].got.grant \in 1 .. Len(latest) /\ latest[rf[r].got.grant] = rf[r].got.gen
      BY <1>0, <2>1 DEF Knows, RefresherKnows, GivenOut, Refreshing, IsLatest
    <3> QED
      BY <1>1, <2>1, <3>1, <3>2
  <2>2. CASE /\ TikTokRotates(r)
             /\ rf'[r].got = [grant |-> rf[r].read.grant, gen |-> latest[rf[r].read.grant] + 1]
    BY <2>2, RotationGives
  <2> QED
    BY <1>3, <2>1, <2>2, AnswerComes
<1> QED
  BY <1>2, <1>3 DEF IsLatest

\* A refresh changes the refresher's row alone.
LEMMA OtherRefreshers ==
  ASSUME TypeInv, NEW q \in Refreshers, NEW r \in Refreshers, RefreshStep(q), q # r
  PROVE  rf'[r] = rf[r]
<1>1. rf \in [Refreshers -> RefresherRow]
  BY DEF TypeInv
<1>2. \E row : rf' = [rf EXCEPT ![q] = row]
  <2>1. CASE CycleBegins(q) \/ ReleaseRefresh(q) \/ RefreshLost(q) \/ ClaimRefresh(q)
    BY <2>1 DEF CycleBegins, ReleaseRefresh, RefreshLost, ClaimRefresh
  <2>2. CASE Inspect(q) \/ ReadAccessToken(q) \/ CompleteRefresh(q)
    BY <2>2 DEF Inspect, ReadAccessToken, CompleteRefresh
  <2>3. CASE ReadSecrets(q) \/ TikTokRotates(q) \/ TikTokRefuses(q) \/ CallFails(q)
    BY <2>3 DEF ReadSecrets, TikTokRotates, TikTokRefuses, CallFails
  <2> QED
    BY <2>1, <2>2, <2>3 DEF RefreshStep
<1> QED
  BY <1>1, <1>2

\* A refresher at its completion completes, or something went wrong.
LEMMA CompletionGoes ==
  ASSUME TypeInv, [Next]_vars, NEW r \in Refreshers, rf[r].pc = "complete", "refresh" \notin trouble'
  PROVE  rf'[r] = rf[r] \/ CompleteRefresh(r)
<1>1. ASSUME NEW q \in Refreshers, RefreshStep(q), q # r
      PROVE  rf'[r] = rf[r]
  BY <1>1, OtherRefreshers
<1>2. RefreshStep(r) => CompleteRefresh(r)
  BY DEF RefreshStep, CycleBegins, Inspect, ReadAccessToken, ClaimRefresh, ReadSecrets,
     TikTokRotates, TikTokRefuses, CallFails, ReleaseRefresh, RefreshLost
<1>3. ASSUME NEW c \in Callbacks, CallbackStep(c)
      PROVE  rf' = rf
  BY <1>3 DEF CallbackStep, CallbackArrives, AnswerAtClaim, ClaimState, Exchange, ExchangeRefused,
     ExchangeFails, FindCredential, Persist, PersistRefused, ActivatePolling, CallbackLost
<1> QED
  BY <1>1, <1>2, <1>3 DEF Next, Step, vars, StartConnection, SetStatus, ToggleBinding, Tick

\* Before there is a credential only a connection writes.
LEMMA NoneStays ==
  ASSUME TypeInv, Knows, [Next]_vars, cred.status = "none"
  PROVE  cred' = cred \/ \E c \in Callbacks : Persist(c)
<1>1. \A r \in Refreshers : rf[r].pc = "idle"
  BY DEF Knows, RefresherKnows
<1> QED
  BY <1>1, CredentialMoves DEF ClaimRefresh, CompleteRefresh, ReleaseRefresh, SetStatus, StatusMoves

LEMMA StoredIsLatest ==
  ASSUME TypeInv, Knows, Refreshing, [Next]_vars, "refresh" \notin trouble', cred'.status # "none"
  PROVE  \/ IsLatest(cred.token)'
         \/ \E r \in Refreshers : rf'[r].pc = "complete" /\ rf'[r].read = cred'.token
<1>0. "refresh" \notin trouble
  BY HistoryMoves
<1>1. ASSUME NEW c \in Callbacks, Persist(c), cred'.token = GrantedToken(cb[c].grant)
      PROVE  IsLatest(cred.token)'
  <2>1. latest' = latest /\ latest[cb[c].grant] = 1
    BY <1>1 DEF Persist, Knows, CallbackKnows, GrantPC
  <2>2. cred'.token.grant = cb[c].grant /\ cred'.token.gen = 1
    BY <1>1, TokenTypes, CallbackFields
  <2> QED
    BY <2>1, <2>2 DEF IsLatest
<1>2. ASSUME NEW r \in Refreshers, CompleteRefresh(r), cred'.token = rf[r].got
      PROVE  IsLatest(cred.token)'
  <2>1. latest' = latest /\ rf[r].pc = "complete"
    BY <1>2 DEF CompleteRefresh
  <2>2. IsLatest(rf[r].got)
    BY <1>0, <2>1 DEF Refreshing
  <2> QED
    BY <1>2, <2>1, <2>2 DEF IsLatest
<1>3. ASSUME cred.status # "none", cred'.token = cred.token
      PROVE  \/ IsLatest(cred.token)'
             \/ \E r \in Refreshers : rf'[r].pc = "complete" /\ rf'[r].read = cred'.token
  <2>1. cred.token.grant \in 1 .. Len(latest)
    BY <1>3 DEF Knows, CredentialKnows, GivenOut
  <2>2. ASSUME NEW r \in Refreshers, TikTokRotates(r), rf[r].read.grant = cred.token.grant
        PROVE  rf'[r].pc = "complete" /\ rf'[r].read = cred'.token
    <3>1. OwnsRefresh(r) /\ rf[r].pc \in TokenPC
      BY <1>0, <2>2 DEF Refreshing, TikTokRotates, HoldPC, TokenPC
    <3>2. cred.token = rf[r].read
      BY <2>2, <3>1 DEF Knows, ReadIsStored
    <3>3. rf'[r].pc = "complete" /\ rf'[r].read = rf[r].read
      BY <2>2 DEF TikTokRotates, TypeInv, RefresherRow
    <3> QED
      BY <1>3, <3>2, <3>3
  <2>3. ASSUME NEW r \in Refreshers, rf[r].pc = "complete", rf[r].read = cred.token
        PROVE  rf'[r].pc = "complete" /\ rf'[r].read = cred'.token
    <3>1. ~CompleteRefresh(r)
      <4>1. ASSUME CompleteRefresh(r) PROVE FALSE
        <5>1. OwnsRefresh(r)
          BY <1>0, <2>3 DEF Refreshing, HoldPC
        <5>2. cred.status \notin Inactive
          BY <4>1 DEF CompleteRefresh
        <5>3. cred'.token = rf[r].got
          BY <4>1, <5>1, <5>2, RefreshedCredential DEF CompleteRefresh, AfterCompletion
        <5>4. rf[r].read.gen < rf[r].got.gen
          BY <2>3 DEF Knows, RefresherKnows
        <5> QED
          BY <1>3, <2>3, <5>3, <5>4, RefresherFields
      <4> QED
        BY <4>1
    <3> QED
      BY <1>3, <2>3, <3>1, CompletionGoes
  <2>4. CASE IsLatest(cred.token)
    BY <1>3, <2>1, <2>2, <2>4, RotationCause DEF IsLatest
  <2> QED
    BY <1>0, <1>3, <2>3, <2>4 DEF Refreshing
<1>4. CASE cred.status = "none"
  <2>1. PICK c \in Callbacks : Persist(c)
    BY <1>4, NoneStays
  <2>2. cred'.token = GrantedToken(cb[c].grant)
    BY <2>1, ConnectedCredential DEF Persist
  <2> QED
    BY <1>1, <2>1, <2>2
<1> QED
  BY <1>1, <1>2, <1>3, <1>4, TokenMoves

LEMMA RefreshingNext == TypeInv /\ Knows /\ Refreshing /\ [Next]_vars => Refreshing'
<1> SUFFICES ASSUME TypeInv, Knows, Refreshing, [Next]_vars, "refresh" \notin trouble'
             PROVE  Refreshing'
  BY DEF Refreshing
<1>1. \A r \in Refreshers : rf'[r].pc \in HoldPC => OwnsRefresh(r)'
  BY HoldersStay
<1>2. \A r \in Refreshers : /\ rf'[r].pc = "call" => IsLatest(rf[r].read)'
                            /\ rf'[r].pc = "complete" => IsLatest(rf[r].got)'
  BY HolderIsLatest
<1>3. cred'.status # "none" =>
        \/ IsLatest(cred.token)'
        \/ \E r \in Refreshers : rf'[r].pc = "complete" /\ rf'[r].read = cred'.token
  BY StoredIsLatest
<1> QED
  BY <1>1, <1>2, <1>3 DEF Refreshing

LEMMA RefreshingInit == Init => Refreshing
<1> SUFFICES ASSUME Init PROVE Refreshing
  OBVIOUS
<1>1. \A r \in Refreshers : rf[r].pc = "idle"
  BY RestTypes DEF Init
<1>2. cred.status # "none" => IsLatest(cred.token)
  <2>1. CASE cred = NoCredential
    BY <2>1 DEF NoCredential
  <2>2. CASE cred = [NoCredential EXCEPT !.status = "active", !.expires = 1,
                                         !.token = [grant |-> 1, gen |-> 1]] /\ latest = <<1>>
    BY <2>2 DEF NoCredential, IsLatest
  <2> QED
    BY <2>1, <2>2 DEF Init
<1> QED
  BY <1>1, <1>2 DEF Refreshing, HoldPC

-----------------------------------------------------------------------------
(***************************************************************************)
(* Undisturbed.  A claim is released only after a refusal, and TikTok does *)
(* not refuse its latest token; what a refresh or a connection writes is   *)
(* good for longer than the polls in flight last.                          *)
(***************************************************************************)

LEMMA CalmBefore ==
  ASSUME TypeInv, [Next]_vars, "refresh" \notin trouble', faults' = 0
  PROVE  "refresh" \notin trouble /\ faults = 0
BY HistoryMoves DEF TypeInv

LEMMA StatusStays ==
  ASSUME TypeInv, Knows, Undisturbed, [Next]_vars, "refresh" \notin trouble', faults' = 0
  PROVE  cred'.status \in {"none", "active"}
<1>0. /\ cred.status \in {"none", "active"} /\ cred \in CredentialRow /\ faults \in Nat
      /\ \A r \in Refreshers : rf[r].pc # "release"
  BY CalmBefore, CredentialFields DEF Undisturbed, TypeInv
<1>1. ASSUME NEW c \in Callbacks, Persist(c)
      PROVE  cred'.status = "active"
  BY <1>1, ConnectedCredential DEF Persist
<1>2. ASSUME NEW r \in Refreshers, cred' = ClaimedForRefresh(r)
      PROVE  cred'.status = cred.status
  BY <1>0, <1>2 DEF ClaimedForRefresh, CredentialRow
<1>3. ASSUME NEW r \in Refreshers, CompleteRefresh(r)
      PROVE  cred'.status = cred.status
  BY <1>0, <1>3, ReleasedCredential, RefreshedCredential DEF CompleteRefresh, AfterCompletion
<1>4. \A r \in Refreshers : ~ReleaseRefresh(r)
  BY <1>0 DEF ReleaseRefresh
<1>5. \A to \in Usable \cup Inactive : ~SetStatus(to)
  BY <1>0 DEF SetStatus
<1> QED
  BY <1>0, <1>1, <1>2, <1>3, <1>4, <1>5, CredentialMoves

\* An expiry is written for a whole life of the access token.
LEMMA ExpiryMoves ==
  ASSUME TypeInv, [Next]_vars
  PROVE  \/ cred'.expires = cred.expires
         \/ \E c \in Callbacks : cb[c].pc # "idle" /\ cred'.expires = cb[c].clock + AccessLife
         \/ \E r \in Refreshers : rf[r].pc # "idle" /\ cred'.expires = rf[r].clock + AccessLife
<1>0. cred \in CredentialRow
  BY CredentialFields
<1>1. ASSUME NEW c \in Callbacks, Persist(c)
      PROVE  cb[c].pc # "idle" /\ cred'.expires = cb[c].clock + AccessLife
  BY <1>1, ConnectedCredential DEF Persist
<1>2. ASSUME NEW r \in Refreshers, cred' = ClaimedForRefresh(r)
      PROVE  cred'.expires = cred.expires
  BY <1>0, <1>2 DEF ClaimedForRefresh, CredentialRow
<1>3. ASSUME NEW r \in Refreshers, CompleteRefresh(r)
      PROVE  \/ cred'.expires = cred.expires
             \/ rf[r].pc # "idle" /\ cred'.expires = rf[r].clock + AccessLife
  BY <1>0, <1>3, ReleasedCredential, RefreshedCredential DEF CompleteRefresh, AfterCompletion
<1>4. ASSUME NEW r \in Refreshers, ReleaseRefresh(r)
      PROVE  cred'.expires = cred.expires
  <2>1. [Released EXCEPT !.status = "reauthorization_required"].expires = cred.expires
    BY ReleasedCredential DEF CredentialRow
  <2> QED
    BY <1>4, <2>1, ReleasedCredential DEF ReleaseRefresh, AfterRelease
<1>5. ASSUME NEW to \in Usable \cup Inactive, SetStatus(to)
      PROVE  cred'.expires = cred.expires
  BY <1>0, <1>5 DEF SetStatus, CredentialRow
<1> QED
  BY <1>1, <1>2, <1>3, <1>4, <1>5, CredentialMoves

LEMMA NothingReleased ==
  ASSUME TypeInv, Knows, Refreshing, Undisturbed, [Next]_vars,
         "refresh" \notin trouble', faults' = 0, NEW r \in Refreshers
  PROVE  rf'[r].pc # "release"
<1>0. /\ "refresh" \notin trouble /\ rf[r].pc # "release"
      /\ rf[r].pc # "idle" => cred.status = "active"
  BY CalmBefore DEF Undisturbed, Knows, RefresherKnows
<1>1. ~(ReadSecrets(r) /\ ~RefreshTokenReadable)
  BY <1>0 DEF ReadSecrets, RefreshTokenReadable, Usable
<1>2. ~TikTokRefuses(r)
  BY <1>0 DEF TikTokRefuses, Refreshing, IsLatest
<1>3. ~CallFails(r)
  BY DEF CallFails
<1> QED
  BY <1>0, <1>1, <1>2, <1>3, RefresherShape DEF Walks

LEMMA RefreshedStaysGood ==
  ASSUME TypeInv, Knows, Undisturbed, [Next]_vars, "refresh" \notin trouble', faults' = 0,
         NEW r \in Refreshers, rf'[r].pc = "again"
  PROVE  cred'.expires > rf'[r].clock
<1>0. /\ "refresh" \notin trouble /\ rf[r].clock \in Nat /\ cred.expires \in Nat /\ now \in Nat
      /\ AccessLife \in Nat \ {0} /\ \A c \in Callbacks : cb[c].clock \in Nat
      /\ \A q \in Refreshers : rf[q].clock \in Nat
  BY CalmBefore, RefresherFields, CallbackFields, CredentialFields, LifetimesAssumption,
     BoundAssumption DEF TypeInv
<1>1. CASE rf'[r] = rf[r]
  <2>1. cred.expires > rf[r].clock
    BY <1>1, CalmBefore DEF Undisturbed
  <2>2. rf[r].clock <= now
    BY <1>1 DEF Knows, RefresherKnows, InLife
  <2>3. /\ \A c \in Callbacks : cb[c].pc # "idle" => now < cb[c].clock + AccessLife
        /\ \A q \in Refreshers : rf[q].pc # "idle" => now < rf[q].clock + AccessLife
    BY DEF Knows, CallbackKnows, RefresherKnows, InLife
  <2>4. cred'.expires = cred.expires \/ cred'.expires > now
    BY <2>3, ExpiryMoves
  <2>5. rf'[r].clock = rf[r].clock
    BY <1>1
  <2>6. CASE cred'.expires = cred.expires
    BY <2>1, <2>5, <2>6
  <2>7. ASSUME NEW c \in Callbacks, cb[c].pc # "idle", cred'.expires = cb[c].clock + AccessLife
        PROVE  cred'.expires > rf[r].clock
    BY <1>0, <2>2, <2>3, <2>7
  <2>8. ASSUME NEW q \in Refreshers, rf[q].pc # "idle", cred'.expires = rf[q].clock + AccessLife
        PROVE  cred'.expires > rf[r].clock
    BY <1>0, <2>2, <2>3, <2>8
  <2> QED
    BY <2>5, <2>6, <2>7, <2>8, ExpiryMoves
<1>2. CASE CompleteRefresh(r) /\ rf'[r].clock = rf[r].clock
  <2>1. OwnsRefresh(r) /\ cred.status \in Usable
    BY <1>2, RestTypes DEF CompleteRefresh, TypeInv
  <2>2. cred'.expires = rf[r].clock + AccessLife
    BY <1>2, <2>1, RefreshedCredential DEF CompleteRefresh, AfterCompletion, Usable, Inactive
  <2> QED
    BY <1>0, <1>2, <2>2
<1> QED
  BY <1>1, <1>2, RefresherShape DEF Walks

LEMMA PollingGoesOn ==
  ASSUME TypeInv, Knows, Undisturbed, [Next]_vars, "refresh" \notin trouble', faults' = 0,
         inspection = "injected"
  PROVE  polling' # "paused"
<1>0. /\ polling # "paused"
      /\ \A r \in Refreshers : /\ rf[r].pc # "release"
                               /\ rf[r].pc # "idle" => cred.status = "active"
                               /\ rf[r].pc = "again" => cred.expires > rf[r].clock
  BY CalmBefore DEF Undisturbed, Knows, RefresherKnows
<1>1. ASSUME NEW r \in Refreshers, Inspect(r), ~Inspected(r)
      PROVE  FALSE
  BY <1>0, <1>1 DEF Inspect, Inspected
<1>2. ASSUME NEW r \in Refreshers, ReadAccessToken(r), ~UsableForApi(rf[r].clock),
             rf[r].pc = "again" \/ cred.status # "active"
      PROVE  FALSE
  <2>1. cred.status = "active" /\ rf[r].pc = "again"
    BY <1>0, <1>2 DEF ReadAccessToken
  <2>2. cred.expires > rf[r].clock /\ cred.expires \in Nat /\ rf[r].clock \in Nat
    BY <1>0, <2>1, CredentialFields, RefresherFields
  <2> QED
    BY <1>2, <2>1, <2>2 DEF UsableForApi, Expired
<1>3. \A r \in Refreshers : ~ReleaseRefresh(r)
  BY <1>0 DEF ReleaseRefresh
<1> QED
  BY <1>0, <1>1, <1>2, <1>3, PollingMoves

LEMMA UndisturbedNext ==
  TypeInv /\ Knows /\ Refreshing /\ Undisturbed /\ [Next]_vars => Undisturbed'
<1> SUFFICES ASSUME TypeInv, Knows, Refreshing, Undisturbed, [Next]_vars,
                    "refresh" \notin trouble', faults' = 0
             PROVE  Undisturbed'
  BY DEF Undisturbed
<1>1. \A r \in Refreshers : /\ rf'[r].pc # "release"
                            /\ rf'[r].pc = "again" => cred'.expires > rf'[r].clock
  BY NothingReleased, RefreshedStaysGood
<1>2. inspection' = "injected" => polling' # "paused"
  BY PollingGoesOn, InspectionStays
<1> QED
  BY <1>1, <1>2, StatusStays DEF Undisturbed

LEMMA UndisturbedInit == Init => Undisturbed
<1> SUFFICES ASSUME Init PROVE Undisturbed
  OBVIOUS
<1>1. \A r \in Refreshers : rf[r].pc = "idle"
  BY RestTypes DEF Init
<1>2. cred.status \in {"none", "active"}
  <2>1. CASE cred = NoCredential
    BY <2>1 DEF NoCredential
  <2>2. CASE cred = [NoCredential EXCEPT !.status = "active", !.expires = 1,
                                         !.token = [grant |-> 1, gen |-> 1]]
    BY <2>2 DEF NoCredential
  <2> QED
    BY <2>1, <2>2 DEF Init
<1>3. polling # "paused"
  BY DEF Init
<1> QED
  BY <1>1, <1>2, <1>3 DEF Undisturbed

-----------------------------------------------------------------------------
(***************************************************************************)
(* The program's own inspection: no refresh begins, and a pause is that of *)
(* an expired token or ends with the connection that follows.              *)
(***************************************************************************)

\* What a connection or a refresh writes is good for every request in flight.
LEMMA ExpiryStaysGood ==
  ASSUME TypeInv, Knows, [Next]_vars, NEW clock \in Nat, clock <= now, cred.expires > clock
  PROVE  cred'.expires > clock
<1>0. /\ cred.expires \in Nat /\ now \in Nat /\ AccessLife \in Nat
      /\ \A c \in Callbacks : cb[c].clock \in Nat
      /\ \A q \in Refreshers : rf[q].clock \in Nat
  BY RefresherFields, CallbackFields, CredentialFields, LifetimesAssumption, BoundAssumption
  DEF TypeInv
<1>1. /\ \A c \in Callbacks : cb[c].pc # "idle" => now < cb[c].clock + AccessLife
      /\ \A q \in Refreshers : rf[q].pc # "idle" => now < rf[q].clock + AccessLife
  BY DEF Knows, CallbackKnows, RefresherKnows, InLife
<1>2. ASSUME NEW c \in Callbacks, cb[c].pc # "idle", cred'.expires = cb[c].clock + AccessLife
      PROVE  cred'.expires > clock
  BY <1>0, <1>1, <1>2
<1>3. ASSUME NEW q \in Refreshers, rf[q].pc # "idle", cred'.expires = rf[q].clock + AccessLife
      PROVE  cred'.expires > clock
  BY <1>0, <1>1, <1>3
<1> QED
  BY <1>2, <1>3, ExpiryMoves

\* The steps before the claim.
LEMMA EarlySteps ==
  ASSUME TypeInv, [Next]_vars, NEW r \in Refreshers, rf'[r] # rf[r], rf[r].pc \in BeforeRefresh
  PROVE  rf'[r].pc = "idle" \/ CycleBegins(r) \/ Inspect(r) \/ ReadAccessToken(r)
<1>1. RefreshStep(r)
  <2>1. \A c \in Callbacks : CallbackStep(c) => rf' = rf
    BY DEF CallbackStep, CallbackArrives, AnswerAtClaim, ClaimState, Exchange, ExchangeRefused,
       ExchangeFails, FindCredential, Persist, PersistRefused, ActivatePolling, CallbackLost
  <2>2. (\A c \in Callbacks : ~CallbackStep(c)) /\ (\A q \in Refreshers : ~RefreshStep(q))
          => rf' = rf
    BY DEF Next, Step, vars, StartConnection, SetStatus, ToggleBinding, Tick
  <2>3. \A q \in Refreshers : RefreshStep(q) => q = r
    BY OtherRefreshers
  <2> QED
    BY <2>1, <2>2, <2>3
<1>2. /\ ~ClaimRefresh(r) /\ ~ReadSecrets(r) /\ ~TikTokRotates(r) /\ ~TikTokRefuses(r)
      /\ ~CallFails(r) /\ ~CompleteRefresh(r) /\ ~ReleaseRefresh(r)
  BY DEF BeforeRefresh, ClaimRefresh, ReadSecrets, TikTokRotates, TikTokRefuses, CallFails,
     CompleteRefresh, ReleaseRefresh
<1>3. RefreshLost(r) => rf'[r].pc = "idle"
  BY RestTypes DEF RefreshLost, TypeInv
<1> QED
  BY <1>1, <1>2, <1>3 DEF RefreshStep

LEMMA UnrefreshedNext ==
  TypeInv /\ Knows /\ Unrefreshed /\ [Next]_vars => Unrefreshed'
<1> SUFFICES ASSUME TypeInv, Knows, Unrefreshed, [Next]_vars, inspection = "default",
                    NEW r \in Refreshers
             PROVE  /\ rf'[r].pc \in BeforeRefresh
                    /\ rf'[r].pc = "secrets" => cred'.expires > rf'[r].clock
  BY InspectionStays DEF Unrefreshed
<1>0. /\ rf[r].pc \in BeforeRefresh /\ (rf[r].pc = "secrets" => cred.expires > rf[r].clock)
      /\ rf[r] \in RefresherRow /\ rf[r].clock \in Nat /\ cred.expires \in Nat
      /\ rf \in [Refreshers -> RefresherRow]
  BY RefresherFields, CredentialFields DEF Unrefreshed, TypeInv
<1>1. CASE rf'[r] = rf[r]
  <2>1. rf[r].pc = "secrets" => rf[r].clock <= now
    BY DEF Knows, RefresherKnows, InLife
  <2> QED
    BY <1>0, <1>1, <2>1, ExpiryStaysGood
<1>2. ASSUME CycleBegins(r)
      PROVE  rf'[r].pc = "inspect"
  BY <1>0, <1>2 DEF CycleBegins, IdleRf
<1>3. ASSUME Inspect(r), rf'[r].pc # "idle"
      PROVE  rf'[r].pc = "secrets" /\ cred'.expires > rf'[r].clock
  <2>1. rf'[r] = [rf[r] EXCEPT !.pc = "secrets"] /\ Inspected(r) /\ cred' = cred
    BY <1>0, <1>3, RestTypes DEF Inspect
  <2>2. cred.expires > rf[r].clock
    BY <1>0, <2>1 DEF Inspected, UsableForApi, Expired
  <2> QED
    BY <1>0, <2>1, <2>2 DEF RefresherRow
<1>4. ASSUME ReadAccessToken(r)
      PROVE  rf'[r].pc = "idle"
  <2>1. rf[r].pc = "secrets" /\ ~Expired(rf[r].clock)
    BY <1>0, <1>4 DEF ReadAccessToken, BeforeRefresh, Expired
  <2> QED
    BY <1>0, <1>4, <2>1, RestTypes DEF ReadAccessToken, UsableForApi
<1> QED
  BY <1>0, <1>1, <1>2, <1>3, <1>4, EarlySteps DEF BeforeRefresh

LEMMA PausedByExpiryNext ==
  TypeInv /\ Knows /\ Unrefreshed /\ PausedByExpiry /\ [Next]_vars => PausedByExpiry'
<1> SUFFICES ASSUME TypeInv, Knows, Unrefreshed, PausedByExpiry, [Next]_vars,
                    inspection = "default", polling' = "paused", cred'.status = "active",
                    trouble' = {}, faults' = 0
             PROVE  Expired(now)' \/ \E c \in Callbacks : cb'[c].pc = "activate"
  BY InspectionStays DEF PausedByExpiry, PauseHasACause
<1>0. /\ trouble = {} /\ faults = 0 /\ now \in Nat /\ now' \in Nat /\ now <= now'
      /\ cred.expires \in Nat
  <2>1. now' = now \/ now' = now + 1
    BY HistoryMoves DEF Tick
  <2> QED
    BY <2>1, HistoryMoves, CredentialFields, BoundAssumption DEF TypeInv
<1>1. /\ \A r \in Refreshers : rf[r].pc \in BeforeRefresh
      /\ \A r \in Refreshers : rf[r].pc = "secrets" => ~Expired(rf[r].clock)
  BY RefresherFields, CredentialFields DEF Unrefreshed, Expired
<1>2. ASSUME NEW c \in Callbacks, Persist(c)
      PROVE  cb'[c].pc = "activate"
  BY <1>2 DEF Persist, IdleCb, TypeInv
<1>3. ASSUME \A c \in Callbacks : ~Persist(c)
      PROVE  cred' = cred
  <2>1. \A r \in Refreshers : ~ClaimRefresh(r) /\ ~CompleteRefresh(r) /\ ~ReleaseRefresh(r)
    BY <1>1 DEF BeforeRefresh, ClaimRefresh, CompleteRefresh, ReleaseRefresh
  <2>2. \A to \in Usable \cup Inactive : ~SetStatus(to)
    BY <1>0 DEF SetStatus
  <2> QED
    BY <1>3, <2>1, <2>2, CredentialMoves
<1>4. ASSUME NEW r \in Refreshers, Inspect(r), ~Inspected(r)
      PROVE  Expired(now)'
  <2>1. cred' = cred /\ now' = now /\ Expired(rf[r].clock)
    BY <1>4 DEF Inspect, Inspected, UsableForApi, counters
  <2>2. rf[r].clock <= now /\ rf[r].clock \in Nat
    BY <1>4, RefresherFields DEF Inspect, Knows, RefresherKnows, InLife
  <2> QED
    BY <1>0, <2>1, <2>2 DEF Expired
<1>5. ASSUME NEW r \in Refreshers, ReadAccessToken(r), ~UsableForApi(rf[r].clock),
             rf[r].pc = "again" \/ cred.status # "active"
      PROVE  FALSE
  <2>1. cred' = cred /\ rf[r].pc = "secrets"
    BY <1>1, <1>5 DEF ReadAccessToken, BeforeRefresh
  <2> QED
    BY <1>1, <1>5, <2>1 DEF UsableForApi
<1>6. \A r \in Refreshers : ~ReleaseRefresh(r)
  BY <1>1 DEF BeforeRefresh, ReleaseRefresh
<1>7. ASSUME polling = "paused", \A c \in Callbacks : ~Persist(c)
      PROVE  Expired(now)' \/ \E c \in Callbacks : cb'[c].pc = "activate"
  <2>1. CASE Expired(now)
    BY <1>0, <1>3, <1>7, <2>1 DEF Expired
  <2>2. ASSUME NEW c \in Callbacks, cb[c].pc = "activate"
        PROVE  cb'[c].pc = "activate"
    BY <1>0, <1>7, <2>2, ActivationGoes
  <2> QED
    BY <1>0, <1>3, <1>7, <2>1, <2>2 DEF PausedByExpiry, PauseHasACause
<1> QED
  BY <1>2, <1>4, <1>5, <1>6, <1>7, PollingMoves

LEMMA DefaultInit == Init => Unrefreshed /\ PausedByExpiry
<1> SUFFICES ASSUME Init PROVE Unrefreshed /\ PausedByExpiry
  OBVIOUS
<1>1. \A r \in Refreshers : rf[r].pc = "idle"
  BY RestTypes DEF Init
<1>2. polling # "paused"
  BY DEF Init
<1> QED
  BY <1>1, <1>2 DEF Unrefreshed, BeforeRefresh, PausedByExpiry, PauseHasACause

-----------------------------------------------------------------------------
(***************************************************************************)
(* The theorems.                                                           *)
(***************************************************************************)

LEMMA InvHolds == Spec => [](TypeInv /\ Inv)
<1>1. Init => TypeInv /\ Inv
  BY TypeInit, KnowsInit, ConnectingInit, RefreshingInit, UndisturbedInit, DefaultInit DEF Inv
<1>2. TypeInv /\ Inv /\ [Next]_vars => (TypeInv /\ Inv)'
  BY TypeNext, KnowsNext, ConnectingNext, RefreshingNext, UndisturbedNext, UnrefreshedNext,
     PausedByExpiryNext DEF Inv
<1> QED
  BY <1>1, <1>2, PTL DEF Spec

LEMMA TypeHolds == TypeInv /\ Knows => TypeOK
<1> SUFFICES ASSUME TypeInv, Knows PROVE TypeOK
  OBVIOUS
<1>1. cred.status = "none" <=> cred.token = NoToken
  BY DEF Knows, CredentialKnows, GivenOut, NoToken
<1>2. /\ \A c \in Callbacks :
           cb[c].pc \in {"idle", "claim", "exchange", "find", "persist", "activate"}
      /\ \A r \in Refreshers :
           rf[r].pc \in {"idle", "inspect", "secrets", "again", "claim", "read",
                         "call", "complete", "release"}
  BY DEF TypeInv, CallbackRow, RefresherRow, ClaimPC, HoldPC
<1>3. cred.owner = None <=> cred.until = 0
  BY DEF Knows, CredentialKnows
<1>4. /\ now \in 0 .. MaxTime /\ oauth \in [OAuthStates -> OAuthRow] /\ cred \in CredentialRow
      /\ \A s \in OAuthStates : oauth[s].status = "claimed" <=> oauth[s].owner # None
      /\ bind \in BindingRow /\ polling \in {"none", "active", "paused"}
      /\ inspection \in Inspections
  BY DEF TypeInv
<1> QED
  BY <1>1, <1>2, <1>3, <1>4 DEF TypeOK

\* TypeOK: a claimed state and a claimed credential name their claimant, and a credential has
\* tokens from its first write on (the tables of db.js).
THEOREM TypeCorrect == Spec => []TypeOK
<1>1. TypeInv /\ Inv => TypeOK
  BY TypeHolds DEF Inv
<1> QED
  BY <1>1, InvHolds, PTL

\* The stored refresh token is the one TikTok takes, unless a refresher still holds the rotated
\* one or something went wrong: whatever number of polls, callbacks and reconnections overlap.
THEOREM StoredTokenStaysCurrent == Spec => []StoredTokenIsCurrent
<1>1. TypeInv /\ Inv => StoredTokenIsCurrent
  BY TypeHolds DEF Inv, Refreshing, IsLatest, StoredTokenIsCurrent
<1> QED
  BY <1>1, InvHolds, PTL

LEMMA CodeHasAReason == Connecting => CodeIsUsedUpForAReason
BY DEF Connecting, CodeIsUsedUpForAReason, Spent, At

\* An exchanged code leads to a completed state and a poll source, or something went wrong.
THEOREM CodesAreUsedUp == Spec => []CodeIsUsedUpForAReason
<1>1. TypeInv /\ Inv => CodeIsUsedUpForAReason
  BY CodeHasAReason DEF Inv
<1> QED
  BY <1>1, InvHolds, PTL

\* A spent code and a paused source each have a cause, with either inspection. With the
\* program's own a pause is that of an expired token; with the one of the service's tests,
\* which does not look at the expiry, an undisturbed source is not paused at all.
THEOREM LossesAreCaused == Spec => []LossesHaveACause
<1>1. TypeInv /\ Inv => LossesHaveACause
  <2> SUFFICES ASSUME TypeInv, Inv PROVE PauseHasACause
    BY CodeHasAReason DEF Inv, LossesHaveACause
  <2>1. CASE inspection = "injected"
    BY <2>1 DEF Inv, Undisturbed, PauseHasACause
  <2>2. CASE inspection = "default"
    BY <2>2 DEF Inv, PausedByExpiry
  <2> QED
    BY <2>1, <2>2, InspectionAssumption DEF TypeInv
<1> QED
  BY <1>1, InvHolds, PTL

\* With the program's own inspection (service.js:279-280) no poll claims a refresh, whatever
\* fails: an expired token pauses its source first.
THEOREM NoRefreshByDefault ==
  Spec => [](inspection = "default" => \A r \in Refreshers : rf[r].pc \in BeforeRefresh)
<1>1. TypeInv /\ Inv => (inspection = "default" => \A r \in Refreshers : rf[r].pc \in BeforeRefresh)
  BY DEF Inv, Unrefreshed
<1> QED
  BY <1>1, InvHolds, PTL

LEMMA CompletionWrites ==
  ASSUME TypeInv, Knows, [Next]_vars, NEW s \in OAuthStates,
         oauth[s].status # "completed", oauth'[s].status = "completed"
  PROVE  \E c \in Callbacks :
           /\ cb[c].state = s /\ cb[c].version = oauth[s].version
           /\ cred'.token = [grant |-> cb[c].grant, gen |-> 1] /\ cred'.status = "active"
           /\ bind' = [event |-> oauth[s].event, status |-> "active"]
<1>1. ASSUME NEW t \in OAuthStates, NEW e \in Events, StartConnection(t, e)
      PROVE  FALSE
  <2>1. oauth' = [oauth EXCEPT ![t] = PendingState(e)] /\ oauth \in [OAuthStates -> OAuthRow]
    BY <1>1 DEF StartConnection, TypeInv
  <2>2. PendingState(e).status = "pending"
    BY DEF PendingState
  <2> QED
    BY <2>1, <2>2
<1>2. ASSUME NEW c \in Callbacks, ClaimState(c)
      PROVE  FALSE
  <2>1. s \in OAuthStates \ {cb[c].state} \/ s = cb[c].state
    OBVIOUS
  <2> QED
    BY <1>2, <2>1, ClaimWrites
<1>3. ASSUME NEW c \in Callbacks, Persist(c)
      PROVE  /\ cb[c].state = s /\ cb[c].version = oauth[s].version
             /\ cred'.token = [grant |-> cb[c].grant, gen |-> 1] /\ cred'.status = "active"
             /\ bind' = [event |-> oauth[s].event, status |-> "active"]
  <2>1. cb[c].state = s
    BY <1>3, PersistWrites
  <2>2. FenceHolds(c) /\ CredentialWritable(c) /\ cred' = Connected(c)
        /\ bind' = [event |-> oauth[s].event, status |-> "active"]
    BY <1>3, <2>1 DEF Persist
  <2>3. cb[c].version = oauth[s].version
    BY <2>1, <2>2 DEF FenceHolds
  <2>4. cred'.token = GrantedToken(cb[c].grant) /\ cred'.status = "active"
    BY <2>2, ConnectedCredential
  <2> QED
    BY <2>1, <2>2, <2>3, <2>4 DEF GrantedToken
<1> QED
  BY <1>1, <1>2, <1>3, StateMoves

\* A state is completed by its last claimant alone, with its tokens stored and its event bound
\* in the same step.
THEOREM LastClaimantsComplete == Spec => LastClaimantCompletes
<1>1. TypeInv /\ Inv /\ [Next]_vars =>
        [\A s \in OAuthStates :
           oauth[s].status # "completed" /\ oauth'[s].status = "completed" =>
             \E c \in Callbacks :
               /\ cb[c].state = s /\ cb[c].version = oauth[s].version
               /\ cred'.token = [grant |-> cb[c].grant, gen |-> 1]
               /\ cred'.status = "active"
               /\ bind' = [event |-> oauth[s].event, status |-> "active"]]_vars
  BY CompletionWrites DEF Inv
<1> QED
  BY <1>1, InvHolds, PTL DEF Spec, LastClaimantCompletes

LEMMA RefreshReplaces ==
  ASSUME TypeInv, Knows, [Next]_vars, NEW r \in Refreshers, rf[r].pc = "complete",
         cred'.token = rf[r].got, cred'.token # cred.token
  PROVE  cred.token = rf[r].read \/ cred.token.grant # rf[r].read.grant
<1>1. ASSUME NEW c \in Callbacks, cred'.token = GrantedToken(cb[c].grant)
      PROVE  FALSE
  <2>1. rf[r].got.gen = 1
    BY <1>1, TokenTypes, CallbackFields
  <2>2. 1 <= rf[r].read.gen /\ rf[r].read.gen < rf[r].got.gen
    BY DEF Knows, RefresherKnows, GivenOut, TokenPC
  <2> QED
    BY <2>1, <2>2, RefresherFields
<1>2. ASSUME NEW q \in Refreshers, CompleteRefresh(q), OwnsRefresh(q), cred'.token = rf[q].got
      PROVE  cred.token = rf[r].read \/ cred.token.grant # rf[r].read.grant
  <2>1. q = r
    BY <1>2 DEF CompleteRefresh, Knows, OwnAnswer
  <2> QED
    BY <1>2, <2>1 DEF Knows, ReadIsStored, TokenPC
<1> QED
  BY <1>1, <1>2, TokenMoves

LEMMA InactiveKeeps ==
  ASSUME TypeInv, Knows, [Next]_vars, cred.status \in Inactive
  PROVE  /\ cred'.token = cred.token
         /\ cred.status = "revoked" => cred'.status = "revoked"
<1>0. \A c \in Callbacks : ~Persist(c)
  BY DEF Persist, CredentialWritable, Usable, Inactive
<1>1. cred'.token = cred.token
  BY <1>0, TokenMoves DEF Usable, Inactive
<1>2. ASSUME cred.status = "revoked"
      PROVE  cred'.status = "revoked"
  <2>1. ASSUME NEW r \in Refreshers, cred' = ClaimedForRefresh(r)
        PROVE  cred'.status = "revoked"
    BY <1>2, <2>1, CredentialFields DEF ClaimedForRefresh, CredentialRow
  <2>2. ASSUME NEW r \in Refreshers, CompleteRefresh(r) \/ ReleaseRefresh(r)
        PROVE  cred'.status = "revoked"
    BY <1>2, <2>2, ReleasedCredential
       DEF CompleteRefresh, AfterCompletion, ReleaseRefresh, AfterRelease, Usable, Inactive
  <2>3. \A to \in Usable \cup Inactive : ~SetStatus(to)
    BY <1>2 DEF SetStatus, StatusMoves
  <2> QED
    BY <1>0, <1>2, <2>1, <2>2, <2>3, CredentialMoves
<1> QED
  BY <1>1, <1>2

\* A refresh replaces the token it was made from, or a newer connection's; the tokens of an
\* inactive credential stay, and a revocation is final.
THEOREM TokenWritesStayFenced == Spec => TokenWritesAreFenced
<1>1. TypeInv /\ Inv /\ [Next]_vars =>
        [\A r \in Refreshers :
           rf[r].pc = "complete" /\ cred'.token = rf[r].got /\ cred'.token # cred.token =>
             \/ cred.token = rf[r].read
             \/ cred.token.grant # rf[r].read.grant]_vars
  BY RefreshReplaces DEF Inv
<1>2. TypeInv /\ Inv /\ [Next]_vars =>
        [/\ cred.status \in Inactive => cred'.token = cred.token
         /\ cred.status = "revoked" => cred'.status = "revoked"]_vars
  BY InactiveKeeps DEF Inv, Inactive
<1> QED
  BY <1>1, <1>2, InvHolds, PTL
     DEF Spec, TokenWritesAreFenced, RefreshReplacesItsSource, InactiveIsLeftAlone

=============================================================================
