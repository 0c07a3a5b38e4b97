--------------------------- MODULE TikTokConnect ---------------------------
(***************************************************************************)
(* One TikTok account: the OAuth states that connect it, the callbacks     *)
(* that complete them, the credential they write, the binding of the       *)
(* account to an event, the poll source they activate, and the polls that  *)
(* use the credential and have an expired one refreshed                    *)
(* (tiktok/oauth-state.js, oauth-connection.js, polling-activation.js,     *)
(* credential-refresh.js, provider-credentials.js,                         *)
(* provider-credential-refresh.js, provider-account-bindings.js and        *)
(* provider-polling/service.js under src/verticals/codeclip).              *)
(*                                                                         *)
(* Each operation on a row is one transaction under SELECT ... FOR UPDATE  *)
(* and one action.  Callbacks and refreshers pass the instant they began   *)
(* as the clock of every such operation: `clock' below, never `now'.       *)
(* A token is the grant it descends from and its generation; TikTok        *)
(* rotates the generation at each refresh.                                 *)
(***************************************************************************)
EXTENDS Naturals, Sequences, FiniteSets

CONSTANTS
  Callbacks,      \* callback requests that may be in flight together
  Refreshers,     \* polls of the account's source that may run together
  OAuthStates,    \* rows of codeclip_tiktok_oauth_states
  Events,         \* events an account may be bound to
  None,
  Ttl, Lease, CancelLease, AccessLife, \* lifetimes, in ticks
  Inspections,    \* what the service's inspectUsability may be: "default", the
                  \* program's own, or "injected", the one its tests pass, which
                  \* does not look at the expiry and so lets a refresh begin
  MaxTime, MaxArrivals, MaxRefreshes, \* bounds of the instance
  MaxFaults       \* faults and operator's changes together

ASSUME LifetimesAssumption ==
  /\ Ttl \in Nat \ {0} /\ Lease \in Nat \ {0}
  /\ CancelLease \in Nat /\ CancelLease >= Lease /\ AccessLife \in Nat
  /\ AccessLife > Ttl   \* an access token outlives every callback

ASSUME BoundAssumption ==
  MaxTime \in Nat /\ MaxArrivals \in Nat /\ MaxRefreshes \in Nat /\ MaxFaults \in Nat
ASSUME NoneIsNobody == None \notin Callbacks \cup Refreshers \cup Events
ASSUME InspectionAssumption == Inspections \subseteq {"default", "injected"}

VARIABLES
  inspection, \* the service's, for as long as it runs
  now,
  oauth,     \* state |-> row
  cred,      \* the account's row of codeclip_provider_credentials
  bind,      \* the account's row of codeclip_provider_account_bindings
  polling,   \* status of its row of codeclip_provider_poll_sources
  cb,        \* callback |-> what the request holds in memory
  rf,        \* refresher |-> what the refresh holds in memory
  latest,    \* TikTok: grant |-> generation of its valid refresh token
  spent,     \* TikTok: authorization codes exchanged
  issued,    \* TikTok: state |-> codes issued for it
  arrivals, refreshes, faults,   \* counters of the bounds
  trouble    \* history: the side, "connect" or "refresh", on which something
             \* went wrong so far

vars == <<inspection, now, oauth, cred, bind, polling, cb, rf, latest, spent, issued,
          arrivals, refreshes, faults, trouble>>
credVars == <<cred, bind, polling>>
counters == <<now, arrivals, refreshes, faults>>

NoToken == [grant |-> 0, gen |-> 0]
Usable == {"active", "reauthorization_required"}
Inactive == {"disabled", "revoked"}

\* The tables, with a status "none" for a row that is not there.
OAuthRow == [status : {"none", "pending", "claimed", "completed"},
             event : Events \cup {None}, owner : Callbacks \cup {None},
             version : Nat, until : Nat, expires : Nat]
CredentialRow == [status : {"none"} \cup Usable \cup Inactive,
                  token : [grant : Nat, gen : Nat], expires : Nat,
                  owner : Refreshers \cup {None}, until : Nat]
BindingRow == [event : Events \cup {None}, status : {"none", "active", "disabled"}]

NoCredential == [status |-> "none", token |-> NoToken, expires |-> 0,
                 owner |-> None, until |-> 0]

IdleCb == [pc |-> "idle", state |-> None, kind |-> None, code |-> 0,
           clock |-> 0, version |-> 0, grant |-> 0, found |-> FALSE]
IdleRf == [pc |-> "idle", clock |-> 0, read |-> NoToken, got |-> NoToken,
           outcome |-> None]

\* The account is new, or an earlier connection left it an active credential
\* that expires at the first tick, a binding and a poll source.
Init ==
  /\ inspection \in Inspections
  /\ now = 0
  /\ oauth = [s \in OAuthStates |->
       [status |-> "none", event |-> None, owner |-> None, version |-> 0,
        until |-> 0, expires |-> 0]]
  /\ \/ /\ cred = NoCredential /\ polling = "none"
        /\ bind = [event |-> None, status |-> "none"]
        /\ latest = <<>>
     \/ /\ cred = [NoCredential EXCEPT !.status = "active", !.expires = 1,
                                       !.token = [grant |-> 1, gen |-> 1]]
        /\ bind \in [event : Events, status : {"active"}] /\ polling = "active"
        /\ latest = <<1>>
  /\ cb = [c \in Callbacks |-> IdleCb]
  /\ rf = [r \in Refreshers |-> IdleRf]
  /\ spent = {} /\ issued = [s \in OAuthStates |-> 0]
  /\ arrivals = 0 /\ refreshes = 0 /\ faults = 0
  /\ trouble = {}

-----------------------------------------------------------------------------
(* The OAuth state and the callback.                                       *)

PendingState(e) ==
  [status |-> "pending", event |-> e, owner |-> None, version |-> 0,
   until |-> 0, expires |-> now + Ttl]

StartConnection(s, e) ==
  /\ oauth[s].status = "none"
  /\ oauth' = [oauth EXCEPT ![s] = PendingState(e)]
  /\ UNCHANGED <<credVars, cb, rf, latest, spent, issued, counters, trouble>>

\* TikTok sends the browser back: with a code (a new one, or the same one
\* again when the page is reloaded), with an error, or with neither.
CallbackArrives(c, s, kind, code) ==
  /\ cb[c].pc = "idle" /\ oauth[s].status # "none"
  /\ arrivals < MaxArrivals /\ arrivals' = arrivals + 1
  /\ IF kind = "code" THEN code \in 1 .. issued[s] + 1 ELSE code = 0
  /\ issued' = [issued EXCEPT ![s] = IF code > @ THEN code ELSE @]
  /\ cb' = [cb EXCEPT ![c] = [IdleCb EXCEPT !.pc = "claim", !.state = s,
                                !.kind = kind, !.code = code, !.clock = now]]
  /\ UNCHANGED <<now, oauth, credVars, rf, latest, spent, refreshes, faults, trouble>>

ClaimHeld(row, clock) == row.status = "claimed" /\ row.until > clock

Claimable(s, clock) ==
  /\ oauth[s].expires > clock
  /\ oauth[s].status # "completed"
  /\ ~ ClaimHeld(oauth[s], clock)

AnswerAtClaim(c) ==     \* expired, already connected, or contended
  /\ cb[c].pc = "claim" /\ ~ Claimable(cb[c].state, cb[c].clock)
  /\ cb' = [cb EXCEPT ![c] = IdleCb]
  /\ UNCHANGED <<oauth, credVars, rf, latest, spent, issued, counters, trouble>>

\* A cancellation takes the longest lease: the state is not to be used again.
ClaimedRow(row, c) ==
  [row EXCEPT !.status = "claimed", !.owner = c, !.version = @ + 1,
     !.until = cb[c].clock + (IF cb[c].kind = "error" THEN CancelLease ELSE Lease)]

ClaimState(c) ==
  LET s == cb[c].state
  IN /\ cb[c].pc = "claim" /\ Claimable(s, cb[c].clock)
     /\ oauth' = [oauth EXCEPT ![s] = ClaimedRow(@, c)]
     /\ cb' = [cb EXCEPT ![c] =
          IF @.kind = "code"
            THEN [@ EXCEPT !.pc = "exchange", !.version = oauth[s].version + 1]
            ELSE IdleCb]
     /\ trouble' = IF oauth[s].status = "claimed" \/ cb[c].kind # "code"
                   THEN trouble \cup {"connect"} ELSE trouble
     /\ UNCHANGED <<credVars, rf, latest, spent, issued, counters>>

\* What an accepted answer holds; one that lacks the account, a token, a
\* lifetime or the scope video.list is refused whole (ExchangeFails).
GrantedToken(g) == [grant |-> g, gen |-> 1]

Exchange(c) ==
  LET code == <<cb[c].state, cb[c].code>>
  IN /\ cb[c].pc = "exchange" /\ code \notin spent
     /\ spent' = spent \cup {code}
     /\ latest' = Append(latest, 1)
     /\ cb' = [cb EXCEPT ![c].pc = "find", ![c].grant = Len(latest) + 1]
     /\ UNCHANGED <<oauth, credVars, rf, issued, counters, trouble>>

\* TikTok refuses a code it has seen.
ExchangeRefused(c) ==
  /\ cb[c].pc = "exchange" /\ <<cb[c].state, cb[c].code>> \in spent
  /\ cb' = [cb EXCEPT ![c] = IdleCb]
  /\ UNCHANGED <<oauth, credVars, rf, latest, spent, issued, counters, trouble>>

\* No answer, an answer that does not validate, or scopes missing: the code
\* may be spent, the state stays claimed.
ExchangeFails(c) ==
  /\ cb[c].pc = "exchange"
  /\ faults < MaxFaults /\ faults' = faults + 1
  /\ \/ spent' = spent \cup {<<cb[c].state, cb[c].code>>}
     \/ UNCHANGED spent
  /\ cb' = [cb EXCEPT ![c] = IdleCb]
  /\ trouble' = trouble \cup {"connect"}
  /\ UNCHANGED <<now, oauth, credVars, rf, latest, issued, arrivals, refreshes>>

\* The transaction's first read, without a lock.
FindCredential(c) ==
  /\ cb[c].pc = "find"
  /\ IF cred.status \in Inactive
       THEN /\ cb' = [cb EXCEPT ![c] = IdleCb]
            /\ trouble' = trouble \cup {"connect"}
       ELSE /\ cb' = [cb EXCEPT ![c].pc = "persist",
                                ![c].found = cred.status # "none"]
            /\ UNCHANGED trouble
  /\ UNCHANGED <<oauth, credVars, rf, latest, spent, issued, counters>>

-----------------------------------------------------------------------------
(* The rest of the callback's transaction.                                 *)

\* Tokens end a reauthorization; the refresh claim is left alone.
Prepared(row, token, clock) ==
  [row EXCEPT !.token = token, !.expires = clock + AccessLife,
     !.status = IF @ = "reauthorization_required" THEN "active" ELSE @]

Created(token, clock) ==
  [NoCredential EXCEPT !.status = "active", !.token = token,
                       !.expires = clock + AccessLife]

Connected(c) ==
  LET token == GrantedToken(cb[c].grant)
  IN IF cb[c].found THEN Prepared(cred, token, cb[c].clock)
     ELSE Created(token, cb[c].clock)

\* The second reading, under the lock.
CredentialWritable(c) ==
  IF cb[c].found THEN cred.status \in Usable ELSE cred.status = "none"

\* One binding row for an account: active for the event, or disabled for it
\* and reactivated, or created.
BindingFree(e) == bind.event \in {None, e}

\* Mutants of the fence: any claim will do; the lease is compared with the
\* time of the completion.
FenceAnyClaim(c) == oauth[cb[c].state].status \in {"claimed", "completed"}
FenceByNow(c) ==
  LET row == oauth[cb[c].state]
  IN \/ row.status = "completed"
     \/ row.owner = c /\ row.version = cb[c].version /\ row.until > now

FenceHolds(c) ==
  LET row == oauth[cb[c].state]
  IN \/ row.status = "completed"     \* answered `alreadyCompleted'
     \/ /\ row.status = "claimed" /\ row.owner = c
        /\ row.version = cb[c].version /\ row.until > cb[c].clock

CompletedRow(row) ==
  IF row.status = "completed" THEN row
  ELSE [row EXCEPT !.status = "completed", !.owner = None, !.until = 0]

Persist(c) ==
  LET s == cb[c].state  e == oauth[s].event
  IN /\ cb[c].pc = "persist"
     /\ CredentialWritable(c) /\ BindingFree(e) /\ FenceHolds(c)
     /\ cred' = Connected(c)
     /\ bind' = [event |-> e, status |-> "active"]
     /\ oauth' = [oauth EXCEPT ![s] = CompletedRow(@)]
     /\ cb' = [cb EXCEPT ![c] = [IdleCb EXCEPT !.pc = "activate", !.state = s,
                                               !.clock = cb[c].clock]]
     /\ UNCHANGED <<polling, rf, latest, spent, issued, counters, trouble>>

PersistRefused(c) ==
  LET e == oauth[cb[c].state].event
  IN /\ cb[c].pc = "persist"
     /\ ~ (CredentialWritable(c) /\ BindingFree(e) /\ FenceHolds(c))
     /\ cb' = [cb EXCEPT ![c] = IdleCb]
     /\ trouble' = IF CredentialWritable(c) /\ BindingFree(e) THEN trouble
                   ELSE trouble \cup {"connect"}
     /\ UNCHANGED <<oauth, credVars, rf, latest, spent, issued, counters>>

\* inspectCodeClipProviderCredentialUsability: what an API call needs.
Expired(clock) == cred.expires <= clock
UsableForApi(clock) == cred.status = "active" /\ ~ Expired(clock)

BoundTo(e) == bind = [event |-> e, status |-> "active"]

\* After the commit, in a transaction of its own (sandbox).  When it is
\* refused the creator is told "setup_pending", and a reload of the page
\* finds the state completed and does not try it again.
ActivatePolling(c) ==
  /\ cb[c].pc = "activate"
  /\ IF BoundTo(oauth[cb[c].state].event) /\ UsableForApi(cb[c].clock)
       THEN polling' = "active" /\ UNCHANGED trouble
       ELSE trouble' = trouble \cup {"connect"} /\ UNCHANGED polling
  /\ cb' = [cb EXCEPT ![c] = IdleCb]
  /\ UNCHANGED <<oauth, cred, bind, rf, latest, spent, issued, counters>>

\* The process dies, or a transaction cannot be opened or committed.
CallbackLost(c) ==
  /\ cb[c].pc # "idle"
  /\ faults < MaxFaults /\ faults' = faults + 1
  /\ cb' = [cb EXCEPT ![c] = IdleCb]
  /\ trouble' = trouble \cup {"connect"}
  /\ UNCHANGED <<now, oauth, credVars, rf, latest, spent, issued, arrivals, refreshes>>

-----------------------------------------------------------------------------
(* A poll of the account: inspection, secrets, and for an expired token the *)
(* refresh: claim, read, call, then complete or release.                   *)

\* A cycle claims the source and hands its clock to all that follows.
CycleBegins(r) ==
  /\ rf[r].pc = "idle" /\ polling = "active" /\ cred.status # "none"
  /\ refreshes < MaxRefreshes /\ refreshes' = refreshes + 1
  /\ rf' = [rf EXCEPT ![r] = [IdleRf EXCEPT !.pc = "inspect", !.clock = now]]
  /\ UNCHANGED <<now, oauth, credVars, cb, latest, spent, issued, arrivals,
                 faults, trouble>>

\* credential_unusable and reauthorization_required pause the source; the
\* release is fenced by the source's own lease (PollSource) and may be refused.
PausePolling == polling' \in {polling, IF polling = "active" THEN "paused" ELSE polling}

\* Mutant: the inspection looks a tick ahead.
InspectedAhead(r) == cred.status = "active" /\ cred.expires > rf[r].clock + 1

Inspected(r) ==
  IF inspection = "default" THEN UsableForApi(rf[r].clock) ELSE cred.status = "active"

Inspect(r) ==
  /\ rf[r].pc = "inspect"
  /\ IF Inspected(r)
       THEN rf' = [rf EXCEPT ![r].pc = "secrets"] /\ UNCHANGED polling
       ELSE rf' = [rf EXCEPT ![r] = IdleRf] /\ PausePolling
  /\ UNCHANGED <<oauth, cred, bind, cb, latest, spent, issued, counters, trouble>>

\* With an access token the poll goes on without the credential (PollSource).
\* An expired one is refreshed, once.
ReadAccessToken(r) ==
  /\ rf[r].pc \in {"secrets", "again"}
  /\ IF UsableForApi(rf[r].clock)
       THEN rf' = [rf EXCEPT ![r] = IdleRf] /\ UNCHANGED polling
       ELSE IF rf[r].pc = "secrets" /\ cred.status = "active"
       THEN rf' = [rf EXCEPT ![r].pc = "claim"] /\ UNCHANGED polling
       ELSE rf' = [rf EXCEPT ![r] = IdleRf] /\ PausePolling
  /\ UNCHANGED <<oauth, cred, bind, cb, latest, spent, issued, counters, trouble>>

RefreshFree(clock) == cred.owner = None \/ cred.until <= clock

ClaimedForRefresh(r) == [cred EXCEPT !.owner = r, !.until = rf[r].clock + Lease]

ClaimRefresh(r) ==
  /\ rf[r].pc = "claim"
  /\ IF cred.status \in Usable /\ RefreshFree(rf[r].clock)
       THEN /\ cred' = ClaimedForRefresh(r)
            /\ rf' = [rf EXCEPT ![r].pc = "read"]
            /\ trouble' = IF cred.owner = None THEN trouble
                          ELSE trouble \cup {"refresh"}
       ELSE /\ rf' = [rf EXCEPT ![r] = IdleRf]
            /\ UNCHANGED <<cred, trouble>>
  /\ UNCHANGED <<oauth, bind, polling, cb, latest, spent, issued, counters>>

RefreshTokenReadable == cred.status \in Usable

ReadSecrets(r) ==
  /\ rf[r].pc = "read"
  /\ rf' = [rf EXCEPT ![r] =
       IF RefreshTokenReadable
         THEN [@ EXCEPT !.pc = "call", !.read = cred.token]
         ELSE [@ EXCEPT !.pc = "release", !.outcome = "failed_retryable"]]
  /\ UNCHANGED <<oauth, credVars, cb, latest, spent, issued, counters, trouble>>

\* TikTok answers with a new refresh token; whether it still takes one it
\* has replaced is its own choice.
TikTokRotates(r) ==
  LET g == rf[r].read.grant
  IN /\ rf[r].pc = "call"
     /\ latest' = [latest EXCEPT ![g] = @ + 1]
     /\ rf' = [rf EXCEPT ![r].pc = "complete",
                         ![r].got = [grant |-> g, gen |-> latest[g] + 1]]
     /\ UNCHANGED <<oauth, credVars, cb, spent, issued, counters, trouble>>

TikTokRefuses(r) ==
  LET t == rf[r].read
  IN /\ rf[r].pc = "call" /\ latest[t.grant] # t.gen
     /\ rf' = [rf EXCEPT ![r].pc = "release",
                         ![r].outcome = "failed_reauthorization"]
     /\ UNCHANGED <<oauth, credVars, cb, latest, spent, issued, counters, trouble>>

\* The answer is lost (after or before the rotation), or the grant is
\* withdrawn, or the answer names another account.
CallFails(r) ==
  LET t == rf[r].read
  IN /\ rf[r].pc = "call"
     /\ faults < MaxFaults /\ faults' = faults + 1
     /\ \/ latest' = [latest EXCEPT ![t.grant] = @ + 1]
        \/ UNCHANGED latest
     /\ \E o \in {"failed_retryable", "failed_reauthorization"} :
          rf' = [rf EXCEPT ![r].pc = "release", ![r].outcome = o]
     /\ trouble' = trouble \cup {"refresh"}
     /\ UNCHANGED <<now, oauth, credVars, cb, spent, issued, arrivals, refreshes>>

\* assertActiveClaimOwnership. Mutants: any claim will do; the lease is
\* compared with the time of the completion.
OwnsAny(r) == cred.status # "none"
OwnsByNow(r) == cred.owner = r /\ cred.until > now

OwnsRefresh(r) == cred.owner = r /\ cred.until > rf[r].clock

Released == [cred EXCEPT !.owner = None, !.until = 0]

Refreshed(r) == Prepared(Released, rf[r].got, rf[r].clock)

\* Disabled or revoked meanwhile: the claim is cleared and the tokens are
\* dropped.  A claim that is no longer the refresher's: the tokens are lost.
AfterCompletion(r) ==
  IF ~ OwnsRefresh(r) THEN cred
  ELSE IF cred.status \in Inactive THEN Released ELSE Refreshed(r)

CompleteRefresh(r) ==
  /\ rf[r].pc = "complete"
  /\ cred' = AfterCompletion(r)
  /\ trouble' = IF cred.status \in Inactive THEN trouble \cup {"refresh"}
                ELSE trouble
  /\ rf' = [rf EXCEPT ![r] = IF OwnsRefresh(r) /\ cred.status \in Usable
                               THEN [@ EXCEPT !.pc = "again", !.read = NoToken,
                                              !.got = NoToken]
                               ELSE IdleRf]
  /\ UNCHANGED <<oauth, bind, polling, cb, latest, spent, issued, counters>>

AfterRelease(r) ==
  IF ~ OwnsRefresh(r) THEN cred
  ELSE IF rf[r].outcome = "failed_reauthorization" /\ cred.status \in Usable
    THEN [Released EXCEPT !.status = "reauthorization_required"]
  ELSE Released

ReleaseRefresh(r) ==
  /\ rf[r].pc = "release"
  /\ cred' = AfterRelease(r)
  /\ IF OwnsRefresh(r) /\ rf[r].outcome = "failed_reauthorization"
       THEN PausePolling ELSE UNCHANGED polling
  /\ rf' = [rf EXCEPT ![r] = IdleRf]
  /\ UNCHANGED <<oauth, bind, cb, latest, spent, issued, counters, trouble>>

\* The process dies, or a statement of claim, completion or release fails;
\* a claim that was taken stays until its lease has passed.
RefreshLost(r) ==
  /\ rf[r].pc # "idle"
  /\ faults < MaxFaults /\ faults' = faults + 1
  /\ rf' = [rf EXCEPT ![r] = IdleRf]
  /\ trouble' = trouble \cup {"refresh"}
  /\ UNCHANGED <<now, oauth, credVars, cb, latest, spent, issued, arrivals, refreshes>>

-----------------------------------------------------------------------------
(* The operator, and time.                                                 *)

StatusMoves ==
  {<<"active", "disabled">>, <<"disabled", "active">>,
   <<"active", "reauthorization_required">>,
   <<"reauthorization_required", "disabled">>,
   <<"active", "revoked">>, <<"disabled", "revoked">>,
   <<"reauthorization_required", "revoked">>}

SetStatus(to) ==
  /\ <<cred.status, to>> \in StatusMoves
  /\ faults < MaxFaults /\ faults' = faults + 1
  /\ cred' = [cred EXCEPT !.status = to]
  /\ UNCHANGED <<now, oauth, bind, polling, cb, rf, latest, spent, issued, arrivals,
                 refreshes, trouble>>

ToggleBinding ==
  /\ bind.event # None
  /\ faults < MaxFaults /\ faults' = faults + 1
  /\ bind' = [bind EXCEPT !.status = IF @ = "active" THEN "disabled" ELSE "active"]
  /\ UNCHANGED <<now, oauth, cred, polling, cb, rf, latest, spent, issued, arrivals,
                 refreshes, trouble>>

\* Bound: a request, whose calls have timers of seconds (DEFAULT_TIMEOUT_MS),
\* does not last as long as an access token lives (expires_in, hours).
InTime(q) == q.pc # "idle" => now + 1 < q.clock + AccessLife

Tick ==
  /\ now < MaxTime /\ now' = now + 1
  /\ \A c \in Callbacks : InTime(cb[c])
  /\ \A r \in Refreshers : InTime(rf[r])
  /\ UNCHANGED <<oauth, credVars, cb, rf, latest, spent, issued, arrivals,
                 refreshes, faults, trouble>>

CallbackStep(c) ==
  \/ \E s \in OAuthStates, kind \in {"code", "error", "bare"} :
       \E code \in 0 .. MaxArrivals : CallbackArrives(c, s, kind, code)
  \/ AnswerAtClaim(c) \/ ClaimState(c)
  \/ Exchange(c) \/ ExchangeRefused(c) \/ ExchangeFails(c)
  \/ FindCredential(c) \/ Persist(c) \/ PersistRefused(c)
  \/ ActivatePolling(c) \/ CallbackLost(c)

RefreshStep(r) ==
  \/ CycleBegins(r) \/ Inspect(r) \/ ReadAccessToken(r) \/ ClaimRefresh(r) \/ ReadSecrets(r)
  \/ TikTokRotates(r) \/ TikTokRefuses(r) \/ CallFails(r)
  \/ CompleteRefresh(r) \/ ReleaseRefresh(r) \/ RefreshLost(r)

Step ==
  \/ \E s \in OAuthStates, e \in Events : StartConnection(s, e)
  \/ \E c \in Callbacks : CallbackStep(c)
  \/ \E r \in Refreshers : RefreshStep(r)
  \/ \E to \in Usable \cup Inactive : SetStatus(to)
  \/ ToggleBinding
  \/ Tick

Next == Step /\ UNCHANGED inspection

Spec == Init /\ [][Next]_vars

-----------------------------------------------------------------------------
(* Properties.                                                             *)

\* Shape of every variable (the tables of db.js, and what a request holds in
\* memory), with the tables' constraints on the claims.
TypeOK ==
  /\ inspection \in Inspections
  /\ now \in 0 .. MaxTime
  /\ oauth \in [OAuthStates -> OAuthRow]
  /\ \A s \in OAuthStates : oauth[s].status = "claimed" <=> oauth[s].owner # None
  /\ cred \in CredentialRow
  /\ cred.owner = None <=> cred.until = 0
  /\ cred.status = "none" <=> cred.token = NoToken
  /\ bind \in BindingRow /\ polling \in {"none", "active", "paused"}
  /\ \A c \in Callbacks :
       cb[c].pc \in {"idle", "claim", "exchange", "find", "persist", "activate"}
  /\ \A r \in Refreshers :
       rf[r].pc \in {"idle", "inspect", "secrets", "again", "claim", "read",
                     "call", "complete", "release"}

\* A state is completed only by the callback that claimed it last, and in
\* the same step its tokens are stored and its event is bound
\* (oauth-connection.js, the persistence transaction; the fence in
\* completeCodeClipTikTokOAuthState).
LastClaimantCompletes ==
  [][\A s \in OAuthStates :
       oauth[s].status # "completed" /\ oauth'[s].status = "completed" =>
         \E c \in Callbacks :
           /\ cb[c].state = s /\ cb[c].version = oauth[s].version
           /\ cred'.token = [grant |-> cb[c].grant, gen |-> 1]
           /\ cred'.status = "active"
           /\ bind' = [event |-> oauth[s].event, status |-> "active"]]_vars

\* An authorization code that TikTok exchanged ends in a completed state
\* and a poll source unless something went wrong on the way: a fault, a
\* takeover of the claim after its lease, an error callback, an inactive
\* credential, a binding to another event, or a first connection of the
\* account that came between the reading and the insert of the credential.
CodeIsUsedUpForAReason ==
  "connect" \notin trouble =>
    \A s \in OAuthStates :
      (\E code \in spent : code[1] = s) /\ (\A c \in Callbacks : cb[c].state # s)
        => oauth[s].status = "completed" /\ polling # "none"

\* While nothing fails, a source whose credential is active is paused only
\* because the access token expired (service.js:400, before any refresh), and
\* a connection that stores new tokens ends the pause: nothing that a poll
\* decided on the old ones comes after it.
PauseHasACause ==
  (polling = "paused" /\ cred.status = "active" /\ trouble = {} /\ faults = 0)
    => Expired(now) \/ \E c \in Callbacks : cb[c].pc = "activate"

\* A code that is spent and a source that is paused each have a cause.
LossesHaveACause == CodeIsUsedUpForAReason /\ PauseHasACause

\* What the service's tests say of an expired token: it is refreshed, and its
\* source is not paused.  ("service refreshes expired provider token once
\* before polling", codeclip-provider-polling-service.test.js:319; the gate
\* that decides is service.js:400.)
ExpiryDoesNotPause ==
  (polling = "paused" /\ cred.status = "active" /\ trouble = {} /\ faults = 0)
    => \E c \in Callbacks : cb[c].pc = "activate"

\* The stored refresh token is the one TikTok takes, unless a refresher
\* still holds the rotated one, or a fault, a claim taken over after its
\* lease, or an inactive status lost it (credential-refresh.js:479, "tokens only in memory (lost)").
StoredTokenIsCurrent ==
  /\ TypeOK
  /\ (cred.status # "none" /\ "refresh" \notin trouble) =>
     \/ latest[cred.token.grant] = cred.token.gen
     \/ \E r \in Refreshers : rf[r].pc = "complete" /\ rf[r].read = cred.token

\* A refresh writes over the token it was made from: no other refresh wrote
\* in between, only a reconnection may have (the claim's owner and expiry in
\* provider-credential-refresh.js; updateTokens leaves the claim alone).
RefreshReplacesItsSource ==
  [][\A r \in Refreshers :
       rf[r].pc = "complete" /\ cred'.token = rf[r].got /\ cred'.token # cred.token =>
         \/ cred.token = rf[r].read
         \/ cred.token.grant # rf[r].read.grant]_vars

\* A disabled or revoked credential keeps its tokens whatever is in flight,
\* and a revoked one stays revoked.
InactiveIsLeftAlone ==
  [][/\ cred.status \in Inactive => cred'.token = cred.token
     /\ cred.status = "revoked" => cred'.status = "revoked"]_vars

\* Every write of a token is fenced: a refresh replaces the token it was made from, and an
\* inactive credential is not written.
TokenWritesAreFenced == RefreshReplacesItsSource /\ InactiveIsLeftAlone

=============================================================================
