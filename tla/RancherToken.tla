---------------------------- MODULE RancherToken ----------------------------
(***************************************************************************)
(* TokenRefresher (src/pkg/controllers/ranchertoken/token_controller.go)   *)
(* and the token lookup it shares with the Prometheus reconciler           *)
(* (src/pkg/rancherutil/rancher.go).                                       *)
(*                                                                         *)
(* One secret holds the primary token, which only an administrator writes, *)
(* and the next token the refresher issues, with the cluster state it was  *)
(* issued under.  FindToken takes the one that lives longer; the refresher *)
(* issues a new one before the one found expires and asks to be called     *)
(* again in time.                                                          *)
(*                                                                         *)
(* Time is a clock of whole days, renewalOffset being one: now = k stands  *)
(* for the instants of day k, so a token that expires on day e is alive    *)
(* while now < e and has between e - now - 1 and e - now days left.  A     *)
(* reconcile takes far less than a day.  A token is its number; expiry[t]  *)
(* is its day, NeverExpires for a token without one.                       *)
(***************************************************************************)
EXTENDS Naturals, Sequences, FiniteSets

CONSTANTS
    States,            \* what ClusterMetadata.State() can be
    NoState,           \* no state: nothing stored, nothing chosen
    FirstExpiries,     \* days on which an administrator's token may expire
    TTL,               \* life of a token the refresher issues, in days
    Offset,            \* renewalOffset
    MaxTime,           \* bound: days
    MaxTokens,         \* bound: tokens issued
    MaxChanges,        \* bound: changes of the cluster state
    MaxReplacements,   \* bound: primary tokens replaced by an administrator
    MaxResyncs,        \* bound: resyncs of the cache
    MaxFaults,         \* bound: failed calls to Rancher and the API server
    MaxCrashes         \* bound: operator restarts

ASSUME TokenAssumption ==
    /\ NoState \notin States
    /\ FirstExpiries \subseteq Nat
    /\ TTL \in Nat /\ Offset \in Nat /\ Offset < TTL
    /\ MaxTime \in Nat /\ MaxTokens \in Nat /\ MaxChanges \in Nat
    /\ MaxReplacements \in Nat /\ MaxResyncs \in Nat
    /\ MaxFaults \in Nat /\ MaxCrashes \in Nat

VARIABLES
    now,        \* the day
    expiry,     \* expiry[t]: when token t expires
    issued,     \* the tokens the refresher has issued
    state,      \* the cluster state
    secret,     \* the secret at the API server
    seen,       \* the informer's copy of it
    queued,     \* the secret's key is on the work queue
    due,        \* when the delayed requeue fires, 0 for none
    pc,         \* the next step of the worker
    chosen,     \* the cluster state this reconcile has read
    fresh,      \* the token it has issued, 0 for none
    changes, replacements, resyncs, faults, crashes     \* used of the bounds

workerVars == <<pc, chosen, fresh>>
boundVars == <<changes, replacements, resyncs, faults, crashes>>
vars == <<now, expiry, issued, state, secret, seen, queued, due, pc, chosen, fresh,
          changes, replacements, resyncs, faults, crashes>>

NeverExpires == 0
NoToken == 0

Secret == [primary : Nat \ {0}, next : Nat, state : States \cup {NoState}]

TypeOK ==
    /\ now \in Nat
    /\ expiry \in Seq(Nat)
    /\ issued \subseteq Nat
    /\ state \in States
    /\ secret \in Secret /\ seen \in Secret
    /\ queued \in BOOLEAN
    /\ due \in Nat
    /\ pc \in {"idle", "create", "store"}
    /\ chosen \in States \cup {NoState}
    /\ fresh \in Nat
    /\ \A n \in {changes, replacements, resyncs, faults, crashes} : n \in Nat

\* The secret holds the administrator's token only; its event is queued.
Init ==
    /\ now = 0
    /\ \E e \in FirstExpiries : expiry = <<e>>
    /\ issued = {}
    /\ state \in States
    /\ secret = [primary |-> 1, next |-> NoToken, state |-> NoState]
    /\ seen = secret
    /\ queued = TRUE /\ due = 0
    /\ pc = "idle" /\ chosen = NoState /\ fresh = NoToken
    /\ changes = 0 /\ replacements = 0 /\ resyncs = 0 /\ faults = 0 /\ crashes = 0

-----------------------------------------------------------------------------
(* FindToken. *)

Alive(t) == expiry[t] = NeverExpires \/ now < expiry[t]

\* ExpiresAt as decodeToken reports it: a token that never expires has TTL 0
\* and is taken to expire now.
ExpiresAt(t) == IF expiry[t] = NeverExpires THEN now ELSE expiry[t]

\* The next token counts if it was issued under state s and can be decoded.
HasNext(sec, s) == sec.state = s /\ sec.next # NoToken /\ Alive(sec.next)

\* Faulty: the next token is taken whenever there is one.
FindTokenAlwaysNext(sec, s) ==
    IF HasNext(sec, s) THEN sec.next
    ELSE IF Alive(sec.primary) THEN sec.primary
    ELSE NoToken

\* The token found: the next one when it expires after the primary.
FindToken(sec, s) ==
    IF HasNext(sec, s) /\ ExpiresAt(sec.next) > ExpiresAt(sec.primary) THEN sec.next
    ELSE IF Alive(sec.primary) THEN sec.primary
    ELSE NoToken

\* The primary could not be decoded, so the comparison of the two expiries
\* dereferences nil; controller-runtime recovers and retries.
LookupPanics(sec, s) == ~Alive(sec.primary) /\ HasNext(sec, s)

-----------------------------------------------------------------------------
(* The cluster, its administrators, the cache and the clock. *)

ChangeState ==
    /\ changes < MaxChanges /\ changes' = changes + 1
    /\ \E s \in States \ {state} : state' = s
    /\ UNCHANGED <<now, expiry, issued, secret, seen, queued, due, replacements, resyncs, faults, crashes>>
    /\ UNCHANGED workerVars

ReplacePrimary ==
    /\ replacements < MaxReplacements /\ replacements' = replacements + 1
    /\ \E e \in FirstExpiries :
          /\ e = NeverExpires \/ now < e
          /\ expiry' = Append(expiry, e)
    /\ secret' = [secret EXCEPT !.primary = Len(expiry')]
    /\ UNCHANGED <<now, issued, state, seen, queued, due, changes, resyncs, faults, crashes>>
    /\ UNCHANGED workerVars

\* The new version of the secret reaches the cache; it passes the predicate.
Deliver ==
    /\ seen # secret
    /\ seen' = secret /\ queued' = TRUE
    /\ UNCHANGED <<now, expiry, issued, state, secret, due, boundVars, workerVars>>

Resync ==
    /\ resyncs < MaxResyncs /\ resyncs' = resyncs + 1
    /\ queued' = TRUE
    /\ UNCHANGED <<now, expiry, issued, state, secret, seen, due, changes, replacements, faults, crashes>>
    /\ UNCHANGED workerVars

\* The delayed requeue fires.
Timer ==
    /\ due # 0 /\ due <= now
    /\ queued' = TRUE /\ due' = 0
    /\ UNCHANGED <<now, expiry, issued, state, secret, seen, boundVars, workerVars>>

\* Nothing to do today.
Rested ==
    /\ ~queued /\ pc = "idle"
    /\ seen = secret
    /\ due = 0 \/ now < due

\* No lookup can succeed: retries, or a restart loop, until the secret changes.
Hopeless == pc = "idle" /\ seen = secret /\ ~Alive(secret.primary)

Tick ==
    /\ now < MaxTime
    /\ Rested \/ Hopeless
    /\ now' = now + 1
    /\ UNCHANGED <<expiry, issued, state, secret, seen, queued, due, boundVars, workerVars>>

-----------------------------------------------------------------------------
(* The worker. *)

\* Of two delayed requeues of a key the queue keeps the earlier one.
Earlier(day) == IF due = 0 \/ day < due THEN day ELSE due

Idle == pc' = "idle" /\ chosen' = NoState /\ fresh' = NoToken

\* Faulty: the whole life of a token is taken for the end of it.
ExpiresSoonEarly(t) == ExpiresAt(t) - now <= TTL

\* Less than renewalOffset is left.
ExpiresSoon(t) == ExpiresAt(t) <= now + Offset

\* Faulty: the offset is forgotten.
RequeueDayLate(t) == ExpiresAt(t)

\* Faulty: the whole life of the token is subtracted.
RequeueDayPast(t) == ExpiresAt(t) - TTL

\* When processToken asks to be called again.
RequeueDay(t) == ExpiresAt(t) - Offset

\* processToken, once it has the token: renew it, or come back in time.
Decide(t) ==
    /\ queued' = FALSE
    /\ IF ExpiresSoon(t)
       THEN /\ pc' = "create" /\ chosen' = state
            /\ UNCHANGED <<fresh, due>>
       ELSE /\ due' = Earlier(RequeueDay(t))
            /\ UNCHANGED workerVars

\* Reconcile up to the decision of processToken.
Start ==
    /\ pc = "idle" /\ queued
    /\ \/ /\ LookupPanics(seen, state)
          /\ UNCHANGED <<queued, due, workerVars>>
       \/ /\ ~LookupPanics(seen, state) /\ FindToken(seen, state) # NoToken
          /\ Decide(FindToken(seen, state))
    /\ UNCHANGED <<now, expiry, issued, state, secret, seen, boundVars>>

\* FindToken finds no token and ends the process: the new one lists the
\* secret again.
Exit ==
    /\ pc = "idle" /\ queued
    /\ ~LookupPanics(seen, state) /\ FindToken(seen, state) = NoToken
    /\ seen' = secret /\ due' = 0
    /\ UNCHANGED <<now, expiry, issued, state, secret, queued, boundVars, workerVars>>

\* Rancher issues a token.
Issue ==
    /\ expiry' = Append(expiry, now + TTL)
    /\ issued' = issued \cup {Len(expiry')}

\* RenewToken: Token.Create.
Create ==
    /\ pc = "create" /\ Len(expiry) < MaxTokens
    /\ Issue
    /\ fresh' = Len(expiry')
    /\ pc' = "store"
    /\ UNCHANGED <<now, state, secret, seen, queued, due, chosen, boundVars>>

\* The three keys RenewToken patches.
Stored(sec, t, s) == [sec EXCEPT !.next = t, !.state = s]

\* RenewToken: the patch of the secret; processToken asks to be called again.
Store ==
    /\ pc = "store"
    /\ secret' = Stored(secret, fresh, chosen)
    /\ due' = Earlier(RequeueDay(fresh))
    /\ Idle
    /\ UNCHANGED <<now, expiry, issued, state, seen, queued, boundVars>>

\* A call fails and is retried; Rancher or the API server may have acted.
Fault ==
    /\ faults < MaxFaults /\ faults' = faults + 1
    /\ \/ /\ pc = "idle" /\ queued          \* ClusterMetadata, or the panic below
          /\ UNCHANGED <<expiry, issued, secret>>
       \/ /\ pc = "create" /\ Len(expiry) < MaxTokens
          /\ UNCHANGED secret
          /\ Issue \/ UNCHANGED <<expiry, issued>>
       \/ /\ pc = "store"
          /\ UNCHANGED <<expiry, issued>>
          /\ \/ UNCHANGED secret
             \/ secret' = Stored(secret, fresh, chosen)
    /\ queued' = TRUE
    /\ Idle
    /\ UNCHANGED <<now, state, seen, due, changes, replacements, resyncs, crashes>>

\* FindToken drops the errors of its two lookups.  Without the next token it
\* goes on with the primary, and a renewal then replaces a token that lasts;
\* without either it ends the process; without the primary alone it panics.
LookupFault ==
    /\ faults < MaxFaults /\ faults' = faults + 1
    /\ pc = "idle" /\ queued
    /\ \/ /\ HasNext(seen, state) /\ Alive(seen.primary)
          /\ Decide(seen.primary)
          /\ UNCHANGED seen
       \/ /\ seen' = secret /\ due' = 0
          /\ UNCHANGED <<queued, workerVars>>
    /\ UNCHANGED <<now, expiry, issued, state, secret, changes, replacements, resyncs, crashes>>

Restart ==
    /\ crashes < MaxCrashes /\ crashes' = crashes + 1
    /\ seen' = secret /\ queued' = TRUE /\ due' = 0
    /\ Idle
    /\ UNCHANGED <<now, expiry, issued, state, secret, changes, replacements, resyncs, faults>>

-----------------------------------------------------------------------------
Step == Create \/ Store

Next == \/ ChangeState \/ ReplacePrimary \/ Deliver \/ Resync \/ Timer \/ Tick
        \/ Start \/ Exit \/ Step \/ Fault \/ LookupFault \/ Restart

Spec == Init /\ [][Next]_vars

\* The informer delivers, the timer fires, the one key is taken from the
\* queue, and a running reconcile goes on.
Fairness == WF_vars(Deliver) /\ WF_vars(Timer) /\ WF_vars(Start) /\ WF_vars(Step)

FairSpec == Spec /\ Fairness

-----------------------------------------------------------------------------
(* Properties. *)

\* What a reader of the secret gets: the refresher, and SetupClusterForPrometheus
\* for the credentials it registers.
Current == FindToken(secret, state)

\* Whenever time passes, the token a reader finds has more than renewalOffset
\* left, as long as the primary is alive and the next token is of the present
\* cluster state: neither a restart, which loses the timer, nor a failed or
\* repeated renewal, nor an old copy of the secret lets it run out.
SettledIsFresh ==
    /\ Rested /\ Alive(secret.primary)
    /\ secret.next = NoToken \/ secret.state = state
    => ExpiresAt(Current) > now + Offset

\* What a reader finds never gets shorter-lived while primary and state stay:
\* a renewal from an old copy of the secret, or one that is repeated, never
\* replaces the next token by a worse one.
FoundNeverShortens ==
    [][/\ Alive(secret.primary)' /\ secret'.primary = secret.primary
       /\ state' = state /\ chosen \in {NoState, state}
       => ExpiresAt(Current)' >= ExpiresAt(Current)]_vars

\* The best a reader can find whatever the cluster state is.
Best == FindToken(secret, secret.state)

\* Why the two hold.  The tokens of the secret exist, and a next token lives
\* at most TTL; ...
TokensExist ==
    \A sec \in {secret, seen} :
       /\ sec.primary \in DOMAIN expiry
       /\ sec.next # NoToken =>
             /\ sec.next \in DOMAIN expiry
             /\ expiry[sec.next] # NeverExpires /\ expiry[sec.next] <= now + TTL

\* ... the one about to be stored lives exactly TTL and is in no copy; ...
FreshIsNew ==
    /\ pc # "idle" => chosen # NoState
    /\ pc = "store" =>
          /\ fresh \in DOMAIN expiry /\ expiry[fresh] = now + TTL
          /\ fresh \notin {NoToken, seen.next, secret.next}

\* ... and when nothing is queued, undelivered or running for a live primary,
\* the timer is set and fires at least Offset before the end of the best token.
TimerIsSet ==
    pc = "idle" /\ ~queued /\ seen = secret /\ Alive(secret.primary) =>
       due # 0 /\ due + Offset <= ExpiresAt(Best)

TokenInv == TokensExist /\ FreshIsNew /\ TimerIsSet

\* Tokens of the refresher that have long to live and that nothing refers to.
Leaked ==
    {t \in issued : expiry[t] > now + Offset /\ t \notin {secret.next, fresh}}

\* Undisturbed, the refresher leaks no token: each failed call, restart,
\* resync, change of state and replaced primary costs at most two, the token
\* it cuts off and the one of a reconcile repeated over the old copy.
LeaksAreAccounted ==
    Cardinality(Leaked) <= 2 * (faults + crashes + resyncs + changes + replacements)

\* Why it holds: the wasteful renewals still to come are paid for as well.
\* A copy is only old while the token stored since lasts, or another primary
\* that is alive; a renewal is under way only for a live primary.
Renews(sec, s) ==
    /\ ~LookupPanics(sec, s)
    /\ FindToken(sec, s) # NoToken /\ ExpiresSoon(FindToken(sec, s))

Lasts(t) == t # NoToken /\ expiry[t] > now + Offset
Old == seen # secret
Busy == pc # "idle"

CopyInv ==
    /\ issued \subseteq DOMAIN expiry
    /\ seen.next # secret.next \/ seen.state # secret.state => Lasts(secret.next)
    /\ seen.primary # secret.primary => Alive(secret.primary)
    /\ Busy => Alive(seen.primary)
    /\ pc # "store" => fresh = NoToken

One(x) == IF x THEN 1 ELSE 0

\* What may still cost a token: a primary not seen yet, ...
Moved == One(seen.primary # secret.primary)

\* ... a timer that asks for one reconcile too many, ...
Timed ==
    One(/\ due # 0 /\ due <= now
        /\ \/ Busy
           \/ /\ Alive(seen.primary)
              /\ Old \/ (queued /\ ~(Lasts(secret.next) /\ secret.state = state)))

\* ... the next token, when it will be replaced while it lasts, ...
Cut == One(Lasts(secret.next) /\ (Busy \/ secret.state # state))

\* ... a reconcile that is repeated over the old copy, ...
Repeated ==
    One(\/ /\ Busy
           /\ chosen # state \/ (queued /\ Renews(seen, state))
        \/ /\ ~Busy /\ Lasts(secret.next) /\ queued /\ Old
           /\ IF secret.state = state THEN Renews(seen, state) ELSE Alive(seen.primary))

\* ... and one under way for another state or from another state's token.
Stale ==
    One(Busy /\ (chosen # state \/ (Lasts(secret.next) /\ secret.state # state /\ Old)))

Stake == Moved + Timed + Cut + Repeated + Stale

LeakInv ==
    CopyInv /\ Cardinality(Leaked) + Stake
                  <= 2 * (faults + crashes + resyncs + changes + replacements)

\* With the types, which no step of Reconcile, user, cluster or fault breaks,
\* all that is inductive.
Inv == TypeOK /\ TokenInv /\ LeakInv

\* The refresher comes to rest again and again while the primary is alive: it
\* does not go on issuing tokens.
Settles == []<>(Rested \/ ~Alive(secret.primary))
=============================================================================
