-------------------------- MODULE RancherTokenProofs --------------------------
(***************************************************************************)
(* Theorems about RancherToken, for every life of a token, offset, clock   *)
(* and bound: type correctness, that a reader's token is renewed in time,  *)
(* that it never gets shorter-lived, and that no more tokens are leaked    *)
(* than disturbances explain.                                              *)
(***************************************************************************)
EXTENDS RancherToken, FiniteSetTheorems, TLAPS

LEMMA IssueType ==
  ASSUME TypeOK, Issue
  PROVE  /\ expiry' \in Seq(Nat) /\ issued' \subseteq Nat
         /\ Len(expiry') = Len(expiry) + 1
         /\ \A t \in DOMAIN expiry : t \in DOMAIN expiry' /\ expiry'[t] = expiry[t]
         /\ Len(expiry') \in DOMAIN expiry' /\ expiry'[Len(expiry')] = now + TTL
         /\ Len(expiry') \in Nat \ {0} /\ Len(expiry') \notin DOMAIN expiry
<1>1. expiry \in Seq(Nat) /\ now + TTL \in Nat /\ issued \subseteq Nat
  BY TokenAssumption DEF TypeOK
<1>2. expiry' = Append(expiry, now + TTL) /\ issued' = issued \cup {Len(expiry')}
  BY DEF Issue
<1>3. Len(expiry) \in Nat /\ Len(expiry') = Len(expiry) + 1 /\ expiry' \in Seq(Nat)
  BY <1>1, <1>2
<1>4. DOMAIN expiry = 1..Len(expiry) /\ DOMAIN expiry' = 1..(Len(expiry) + 1)
  BY <1>1, <1>3
<1>5. expiry'[Len(expiry')] = now + TTL
  BY <1>1, <1>2, <1>3
<1>6. \A t \in DOMAIN expiry : expiry'[t] = expiry[t]
  BY <1>1, <1>2, <1>4
<1>7. issued' \subseteq Nat
  <2>1. Len(expiry') \in Nat
    BY <1>3
  <2>2. QED
    BY <2>1, <1>1, <1>2
<1>8. Len(expiry') \in DOMAIN expiry' /\ Len(expiry') \notin DOMAIN expiry
  BY <1>3, <1>4
<1>9. \A t \in DOMAIN expiry : t \in DOMAIN expiry' /\ expiry'[t] = expiry[t]
  BY <1>3, <1>4, <1>6
<1>10. QED
  BY <1>3, <1>5, <1>7, <1>8, <1>9

LEMMA StoredType ==
  ASSUME NEW sec \in Secret, NEW t \in Nat, NEW s \in States \cup {NoState}
  PROVE  Stored(sec, t, s) \in Secret
BY DEF Stored, Secret

LEMMA EarlierType ==
  ASSUME due \in Nat, NEW day \in Nat
  PROVE  /\ Earlier(day) \in Nat
         /\ Earlier(day) <= day
         /\ day # 0 => Earlier(day) # 0
BY DEF Earlier

\* A token that is not about to expire is one to be asked about later.
LEMMA RequeueLater ==
  ASSUME TypeOK, NEW t \in DOMAIN expiry, ~ExpiresSoon(t)
  PROVE  RequeueDay(t) \in Nat \ {0} /\ RequeueDay(t) + Offset = ExpiresAt(t)
<1>1. ExpiresAt(t) \in Nat /\ now \in Nat /\ Offset \in Nat
  BY TokenAssumption DEF TypeOK, ExpiresAt
<1>2. ~(ExpiresAt(t) <= now + Offset)
  BY DEF ExpiresSoon
<1>3. RequeueDay(t) = ExpiresAt(t) - Offset
  BY DEF RequeueDay
<1>4. QED
  BY <1>1, <1>2, <1>3

LEMMA FoundType ==
  ASSUME TypeOK, TokenInv, NEW s, NEW sec \in {secret, seen}
  PROVE  /\ FindToken(sec, s) \in Nat
         /\ FindToken(sec, s) # NoToken => FindToken(sec, s) \in DOMAIN expiry
         /\ FindToken(sec, s) \in {sec.next, sec.primary, NoToken}
BY DEF TypeOK, TokenInv, TokensExist, FindToken, HasNext, Secret, NoToken

\* A failing lookup ends the process, or the reconcile goes on with the primary.
LEMMA LookupCases ==
  ASSUME LookupFault
  PROVE  /\ pc = "idle" /\ queued /\ faults' = faults + 1
         /\ UNCHANGED <<now, expiry, issued, state, secret, fresh>>
         /\ UNCHANGED <<changes, replacements, resyncs, crashes>>
         /\ \/ seen' = secret /\ due' = 0 /\ UNCHANGED <<queued, workerVars>>
            \/ seen' = seen /\ HasNext(seen, state) /\ Alive(seen.primary) /\ Decide(seen.primary)
BY DEF LookupFault, Decide, workerVars

LEMMA DecideType ==
  ASSUME TypeOK, NEW t \in DOMAIN expiry, Decide(t)
  PROVE  /\ queued' \in BOOLEAN /\ due' \in Nat
         /\ pc' \in {"idle", "create", "store"}
         /\ chosen' \in States \cup {NoState} /\ fresh' \in Nat
<1>1. CASE ExpiresSoon(t)
  BY <1>1 DEF Decide, TypeOK
<1>2. CASE ~ExpiresSoon(t)
  <2>1. RequeueDay(t) \in Nat /\ due' = Earlier(RequeueDay(t))
    BY <1>2, RequeueLater DEF Decide
  <2>2. due' \in Nat
    BY <2>1, EarlierType DEF TypeOK
  <2>3. QED
    BY <1>2, <2>2 DEF Decide, TypeOK, workerVars
<1>3. QED
  BY <1>1, <1>2

LEMMA InitType == Init => TypeOK
BY TokenAssumption DEF Init, TypeOK, Secret, NoToken

LEMMA NextType == TypeOK /\ TokenInv /\ [Next]_vars => TypeOK'
<1> SUFFICES ASSUME TypeOK, TokenInv, [Next]_vars PROVE TypeOK'
  OBVIOUS
<1> USE TokenAssumption
<1>1. CASE ChangeState
  BY <1>1 DEF ChangeState, TypeOK, workerVars
<1>2. CASE ReplacePrimary
  <2>1. expiry' \in Seq(Nat) /\ Len(expiry') \in Nat \ {0}
    <3>1. PICK e \in FirstExpiries : expiry' = Append(expiry, e)
      BY <1>2 DEF ReplacePrimary
    <3>2. expiry \in Seq(Nat) /\ e \in Nat
      BY DEF TypeOK
    <3>3. QED
      BY <3>1, <3>2
  <2>2. secret' \in Secret
    BY <1>2, <2>1 DEF ReplacePrimary, TypeOK, Secret
  <2>3. /\ replacements' = replacements + 1
        /\ UNCHANGED <<now, issued, state, seen, queued, due, changes, resyncs, faults, crashes>>
        /\ UNCHANGED workerVars
    BY <1>2 DEF ReplacePrimary
  <2>4. QED
    BY <2>1, <2>2, <2>3 DEF TypeOK, workerVars
<1>3. CASE Deliver
  BY <1>3 DEF Deliver, TypeOK, workerVars, boundVars
<1>14. CASE Exit
  BY <1>14 DEF Exit, TypeOK, workerVars, boundVars
<1>12. CASE Timer
  BY <1>12 DEF Timer, TypeOK, workerVars, boundVars
<1>13. CASE Tick
  BY <1>13 DEF Tick, TypeOK, workerVars, boundVars
<1>11. CASE Resync
  BY <1>11 DEF Resync, TypeOK, workerVars
<1>4. CASE Start
  <2>1. CASE UNCHANGED <<queued, due, workerVars>>
    BY <1>4, <2>1 DEF Start, TypeOK, workerVars, boundVars
  <2>2. CASE FindToken(seen, state) # NoToken /\ Decide(FindToken(seen, state))
    <3>1. FindToken(seen, state) \in DOMAIN expiry
      BY <2>2, FoundType
    <3>2. QED
      BY <1>4, <2>2, <3>1, DecideType DEF Start, TypeOK, boundVars
  <2>3. QED
    BY <1>4, <2>1, <2>2 DEF Start
<1>15. CASE LookupFault
  <2>0. /\ UNCHANGED <<now, expiry, issued, state, secret>> /\ faults' \in Nat
        /\ UNCHANGED <<changes, replacements, resyncs, crashes>>
    BY <1>15, LookupCases DEF TypeOK
  <2>1. CASE seen' = secret /\ due' = 0 /\ UNCHANGED <<queued, workerVars>>
    BY <2>0, <2>1 DEF TypeOK, workerVars
  <2>2. CASE seen' = seen /\ Decide(seen.primary)
    <3>1. seen.primary \in DOMAIN expiry
      BY DEF TokenInv, TokensExist
    <3>2. QED
      BY <2>0, <2>2, <3>1, DecideType DEF TypeOK
  <2>3. QED
    BY <1>15, <2>1, <2>2, LookupCases
<1>5. CASE Create
  BY <1>5, IssueType DEF Create, TypeOK, boundVars
<1>6. CASE Store
  <2>1. secret' \in Secret
    BY <1>6, StoredType DEF Store, TypeOK
  <2>2. fresh \in DOMAIN expiry /\ RequeueDay(fresh) \in Nat
    BY <1>6 DEF Store, TypeOK, TokenInv, FreshIsNew, RequeueDay, ExpiresAt, NeverExpires
  <2>3. due' \in Nat
    BY <1>6, <2>2, EarlierType DEF Store, TypeOK
  <2>4. QED
    BY <1>6, <2>1, <2>3 DEF Store, TypeOK, Idle, boundVars, NoToken
<1>7. CASE Fault
  <2>1. secret' \in Secret
    BY <1>7, StoredType DEF Fault, TypeOK
  <2>2. expiry' \in Seq(Nat) /\ issued' \subseteq Nat
    BY <1>7, IssueType DEF Fault, TypeOK
  <2>3. QED
    BY <1>7, <2>1, <2>2 DEF Fault, TypeOK, Idle, NoToken
<1>8. CASE Restart
  BY <1>8 DEF Restart, TypeOK, Idle, NoToken
<1>9. CASE UNCHANGED vars
  BY <1>9 DEF vars, TypeOK
<1>10. QED
  BY <1>1, <1>2, <1>3, <1>4, <1>5, <1>6, <1>7, <1>8, <1>9, <1>11,
     <1>12, <1>13, <1>14, <1>15 DEF Next, Step

-----------------------------------------------------------------------------
\* Tokens stay what they are, and time does not go back.
LEMMA ExpiryGrows ==
  ASSUME TypeOK, TokenInv, [Next]_vars
  PROVE  /\ \A t \in DOMAIN expiry : t \in DOMAIN expiry' /\ expiry'[t] = expiry[t]
         /\ now' \in Nat /\ now' >= now
<1> USE TokenAssumption
<1>1. CASE ReplacePrimary
  <2>1. PICK e \in FirstExpiries : expiry' = Append(expiry, e)
    BY <1>1 DEF ReplacePrimary
  <2>2. expiry \in Seq(Nat) /\ e \in Nat
    BY DEF TypeOK
  <2>3. \A t \in DOMAIN expiry : t \in DOMAIN expiry' /\ expiry'[t] = expiry[t]
    BY <2>1, <2>2
  <2>4. now' = now
    BY <1>1 DEF ReplacePrimary
  <2>5. QED
    BY <2>3, <2>4 DEF TypeOK
<1>2. CASE Create
  <2>1. Issue /\ now' = now
    BY <1>2 DEF Create
  <2>2. QED
    BY <2>1, IssueType DEF TypeOK
<1>3. CASE Fault
  <2>1. (Issue \/ UNCHANGED expiry) /\ now' = now
    BY <1>3 DEF Fault
  <2>2. QED
    BY <2>1, IssueType DEF TypeOK
<1>4. CASE ~ReplacePrimary /\ ~Create /\ ~Fault
  <2>1. expiry' = expiry /\ (now' = now \/ now' = now + 1)
    BY <1>4 DEF Next, Step, ChangeState, Deliver, Resync, Timer, Tick, Start, Decide, Exit, Store,
                LookupFault, Restart, vars
  <2>2. QED
    BY <2>1 DEF TypeOK
<1>5. QED
  BY <1>1, <1>2, <1>3, <1>4

\* While the primary is alive FindToken returns the token that lives longest.
LEMMA FoundIsLongest ==
  ASSUME TypeOK, TokenInv, NEW s, NEW sec \in {secret, seen}, Alive(sec.primary)
  PROVE  /\ \/ FindToken(sec, s) = sec.primary
            \/ FindToken(sec, s) = sec.next /\ HasNext(sec, s)
         /\ FindToken(sec, s) \in DOMAIN expiry
         /\ ExpiresAt(FindToken(sec, s)) \in Nat
         /\ ExpiresAt(FindToken(sec, s)) >= ExpiresAt(sec.primary)
         /\ HasNext(sec, s) => ExpiresAt(FindToken(sec, s)) >= ExpiresAt(sec.next)
<1>1. sec.primary \in DOMAIN expiry
  BY DEF TokenInv, TokensExist
<1>2. HasNext(sec, s) => sec.next \in DOMAIN expiry
  BY DEF TokenInv, TokensExist, HasNext
<1>3. \A t \in DOMAIN expiry : ExpiresAt(t) \in Nat
  BY DEF TypeOK, ExpiresAt
<1>4. CASE HasNext(sec, s) /\ ExpiresAt(sec.next) > ExpiresAt(sec.primary)
  BY <1>1, <1>2, <1>3, <1>4 DEF FindToken
<1>5. CASE ~(HasNext(sec, s) /\ ExpiresAt(sec.next) > ExpiresAt(sec.primary))
  <2>1. FindToken(sec, s) = sec.primary
    BY <1>5 DEF FindToken
  <2>2. QED
    BY <1>1, <1>2, <1>3, <1>5, <2>1
<1>6. QED
  BY <1>4, <1>5

\* What is found under any state lives at most as long as the best token.
LEMMA BestIsBest ==
  ASSUME TypeOK, TokenInv, NEW s, Alive(secret.primary)
  PROVE  ExpiresAt(FindToken(secret, s)) <= ExpiresAt(Best)
<1>1. HasNext(secret, s) => HasNext(secret, secret.state)
  BY DEF HasNext
<1>2. QED
  BY <1>1, FoundIsLongest DEF Best

LEMMA TokensExistStep == TypeOK /\ TokenInv /\ [Next]_vars => TokensExist'
<1> SUFFICES ASSUME TypeOK, TokenInv, [Next]_vars PROVE TokensExist'
  OBVIOUS
<1> USE TokenAssumption
<1>0. TypeOK' /\ expiry \in Seq(Nat) /\ now \in Nat
  BY NextType DEF TypeOK
<1>1. \A sec \in {secret, seen} :
         /\ sec.primary \in DOMAIN expiry'
         /\ sec.next # NoToken =>
               /\ sec.next \in DOMAIN expiry'
               /\ expiry'[sec.next] # NeverExpires /\ expiry'[sec.next] <= now' + TTL
  <2> SUFFICES ASSUME NEW sec \in {secret, seen}
               PROVE  /\ sec.primary \in DOMAIN expiry'
                      /\ sec.next # NoToken =>
                           /\ sec.next \in DOMAIN expiry'
                           /\ expiry'[sec.next] # NeverExpires
                           /\ expiry'[sec.next] <= now' + TTL
    OBVIOUS
  <2>1. sec.primary \in DOMAIN expiry'
    BY ExpiryGrows DEF TokenInv, TokensExist
  <2>2. ASSUME sec.next # NoToken
        PROVE  /\ sec.next \in DOMAIN expiry' /\ expiry'[sec.next] # NeverExpires
               /\ expiry'[sec.next] <= now' + TTL
    <3>1. /\ sec.next \in DOMAIN expiry /\ expiry[sec.next] # NeverExpires
          /\ expiry[sec.next] <= now + TTL
      BY <2>2 DEF TokenInv, TokensExist
    <3>2. expiry[sec.next] \in Nat
      BY <1>0, <3>1
    <3>3. QED
      BY <1>0, <3>1, <3>2, ExpiryGrows
  <2>3. QED
    BY <2>1, <2>2
<1>2. CASE secret' \in {secret, seen} /\ seen' \in {secret, seen}
  BY <1>1, <1>2 DEF TokensExist
<1>3. CASE ReplacePrimary
  <2>1. PICK e \in FirstExpiries : expiry' = Append(expiry, e)
    BY <1>3 DEF ReplacePrimary
  <2>2. Len(expiry') \in DOMAIN expiry'
    BY <1>0, <2>1
  <2>3. seen' = seen /\ secret'.primary = Len(expiry') /\ secret'.next = secret.next
    BY <1>3 DEF ReplacePrimary, TypeOK, Secret
  <2>4. QED
    BY <1>1, <2>2, <2>3 DEF TokensExist
<1>4. CASE secret' = Stored(secret, fresh, chosen) /\ pc = "store" /\ UNCHANGED <<seen, expiry, now>>
  <2>1. secret'.primary = secret.primary /\ secret'.next = fresh
    BY <1>4 DEF Stored, TypeOK, Secret
  <2>2. fresh \in DOMAIN expiry /\ expiry[fresh] = now + TTL
    BY <1>4 DEF TokenInv, FreshIsNew
  <2>3. expiry[fresh] # NeverExpires /\ expiry[fresh] <= now + TTL
    BY <1>0, <2>2 DEF NeverExpires
  <2>4. QED
    BY <1>1, <1>4, <2>1, <2>2, <2>3 DEF TokensExist
<1>5. QED
  BY <1>2, <1>3, <1>4 DEF Next, Step, ChangeState, Deliver, Resync, Timer, Tick, Start, Decide, Exit, Create,
     Store, Fault, LookupFault, Restart, vars

LEMMA FreshIsNewStep == TypeOK /\ TokenInv /\ [Next]_vars => FreshIsNew'
<1> SUFFICES ASSUME TypeOK, TokenInv, [Next]_vars PROVE FreshIsNew'
  OBVIOUS
<1> USE TokenAssumption
<1>0. expiry \in Seq(Nat) /\ FreshIsNew /\ state # NoState
  BY DEF TypeOK, TokenInv
<1>1. CASE pc' = "idle"
  BY <1>1 DEF FreshIsNew
<1>2. CASE Create
  <2>1. \A sec \in {secret, seen} : sec.next # NoToken => sec.next \in DOMAIN expiry
    BY DEF TokenInv, TokensExist
  <2>2. /\ fresh' \in DOMAIN expiry' /\ expiry'[fresh'] = now + TTL
        /\ fresh' \in Nat \ {0} /\ fresh' \notin DOMAIN expiry
    BY <1>2, IssueType DEF Create
  <2>3. UNCHANGED <<now, secret, seen, chosen>> /\ pc = "create"
    BY <1>2 DEF Create
  <2>4. QED
    BY <1>0, <2>1, <2>2, <2>3 DEF FreshIsNew, NoToken
<1>3. CASE (Start \/ LookupFault) /\ pc' # "idle"
  BY <1>0, <1>3 DEF Start, LookupFault, Decide, FreshIsNew, workerVars
<1>4. CASE ReplacePrimary
  <2>1. secret'.next = secret.next /\ UNCHANGED <<now, seen, workerVars>>
    BY <1>4 DEF ReplacePrimary, TypeOK, Secret
  <2>2. QED
    BY <1>0, <2>1, <1>4, ExpiryGrows DEF FreshIsNew, workerVars
<1>5. CASE Tick /\ pc' # "idle"
  BY <1>5 DEF Tick, Rested, Hopeless, workerVars
<1>6. CASE (ChangeState \/ Deliver \/ Resync \/ Timer \/ Exit \/ UNCHANGED vars) /\ pc' # "idle"
  <2>1. /\ UNCHANGED <<now, expiry, secret, workerVars>>
        /\ seen' \in {seen, secret}
    BY <1>6 DEF ChangeState, Deliver, Resync, Timer, Exit, vars, workerVars
  <2>2. QED
    BY <1>0, <2>1 DEF FreshIsNew, workerVars
<1>7. QED
  BY <1>1, <1>2, <1>3, <1>4, <1>5, <1>6 DEF Next, Step, Store, Fault, LookupFault, Restart, Idle

\* A day later the token found still is the one that lives longest.
LEMMA TickKeepsFound ==
  ASSUME TypeOK, TokenInv, Tick, Alive(secret.primary)', NEW s
  PROVE  ExpiresAt(FindToken(secret, s))' >= ExpiresAt(FindToken(secret, s))
<1> USE TokenAssumption
<1>1. /\ now \in Nat /\ now' = now + 1 /\ expiry' = expiry /\ secret' = secret
      /\ expiry \in Seq(Nat)
  BY DEF TypeOK, Tick
<1>2. secret.primary \in DOMAIN expiry /\ expiry[secret.primary] \in Nat
  BY <1>1 DEF TokenInv, TokensExist
<1>3. Alive(secret.primary)
  BY <1>1, <1>2 DEF Alive
<1>4. CASE ~HasNext(secret, s)
  <2>1. ~HasNext(secret, s)'
    <3>1. secret.next # NoToken => expiry[secret.next] \in Nat
      BY <1>1 DEF TokenInv, TokensExist
    <3>2. QED
      BY <1>1, <1>4, <3>1 DEF HasNext, Alive
  <2>2. FindToken(secret, s) = secret.primary /\ FindToken(secret, s)' = secret.primary
    BY <1>1, <1>3, <1>4, <2>1 DEF FindToken
  <2>3. QED
    BY <1>1, <1>2, <2>2 DEF ExpiresAt
<1>5. CASE HasNext(secret, s)
  <2>1. /\ secret.next \in DOMAIN expiry /\ expiry[secret.next] # NeverExpires
        /\ expiry[secret.next] \in Nat /\ now < expiry[secret.next]
    BY <1>1, <1>5 DEF HasNext, Alive, TokenInv, TokensExist
  <2>2. ExpiresAt(secret.next) = expiry[secret.next]
    BY <2>1 DEF ExpiresAt
  <2>3. CASE now' < expiry[secret.next]
    <3>1. HasNext(secret, s)'
      BY <1>1, <1>5, <2>3 DEF HasNext, Alive
    <3>2. ExpiresAt(secret.next)' = expiry[secret.next]
      BY <1>1, <2>1 DEF ExpiresAt
    <3>3. ExpiresAt(secret.primary)' >= ExpiresAt(secret.primary)
      BY <1>1, <1>2 DEF ExpiresAt
    <3>4. QED
      BY <1>1, <1>2, <1>3, <1>5, <2>1, <2>2, <3>1, <3>2, <3>3 DEF FindToken, ExpiresAt
  <2>4. CASE ~(now' < expiry[secret.next])
    <3>1. ~HasNext(secret, s)'
      BY <1>1, <2>1, <2>4 DEF HasNext, Alive
    <3>2. FindToken(secret, s)' = secret.primary
      BY <1>1, <3>1 DEF FindToken
    <3>3. ExpiresAt(secret.primary)' >= now'
      BY <1>1, <1>2 DEF Alive, ExpiresAt
    <3>4. now' >= expiry[secret.next] /\ ExpiresAt(secret.primary)' >= ExpiresAt(secret.primary)
      BY <1>1, <1>2, <2>1, <2>4 DEF ExpiresAt
    <3>5. FindToken(secret, s) \in {secret.next, secret.primary}
      BY <1>3 DEF FindToken
    <3>6. QED
      BY <1>1, <1>2, <2>1, <2>2, <3>2, <3>3, <3>4, <3>5 DEF ExpiresAt
  <2>5. QED
    BY <2>3, <2>4
<1>6. QED
  BY <1>4, <1>5

LEMMA TokenInit == Init => TokenInv
<1> SUFFICES ASSUME Init PROVE TokenInv
  OBVIOUS
<1>1. PICK e \in FirstExpiries : expiry = <<e>>
  BY DEF Init
<1>2. 1 \in DOMAIN expiry
  BY <1>1
<1>3. QED
  BY <1>2 DEF Init, TokenInv, TokensExist, FreshIsNew, TimerIsSet, NoToken

LEMMA TimerIsSetStep == TypeOK /\ TokenInv /\ [Next]_vars => TimerIsSet'
<1> SUFFICES ASSUME TypeOK, TokenInv, [Next]_vars,
                    pc' = "idle", ~queued', seen' = secret', Alive(secret.primary)'
             PROVE  (due # 0 /\ due + Offset <= ExpiresAt(Best))'
  BY DEF TimerIsSet
<1> USE TokenAssumption
<1>0. /\ now \in Nat /\ due \in Nat /\ expiry \in Seq(Nat)
      /\ secret.primary \in DOMAIN expiry /\ seen.primary \in DOMAIN expiry
  BY DEF TypeOK, TokenInv, TokensExist
<1>1. CASE UNCHANGED <<now, expiry, secret, seen, queued, due, pc>>
  BY <1>1 DEF TokenInv, TimerIsSet, Alive, Best, FindToken, HasNext, ExpiresAt
<1>2. CASE Tick
  <2>1. /\ now' = now + 1 /\ UNCHANGED <<expiry, secret, due>>
        /\ Rested \/ Hopeless
    BY <1>2 DEF Tick
  <2>2. expiry[secret.primary] \in Nat /\ Alive(secret.primary)
    BY <1>0, <2>1 DEF Alive
  <2>3. due # 0 /\ due + Offset <= ExpiresAt(Best)
    BY <2>1, <2>2 DEF Rested, Hopeless, TokenInv, TimerIsSet
  <2>4. ExpiresAt(Best)' >= ExpiresAt(Best)
    BY <1>2, <2>1, TickKeepsFound DEF Best
  <2>5. ExpiresAt(Best) \in Nat
    BY <2>2, FoundIsLongest DEF Best
  <2>6. ExpiresAt(Best)' \in Nat
    <3>1. FindToken(secret, secret.state)' \in {secret.next, secret.primary}
      BY <2>1 DEF FindToken
    <3>2. FindToken(secret, secret.state)' \in DOMAIN expiry
      BY <1>0, <2>1, <3>1 DEF FindToken, HasNext, TokenInv, TokensExist
    <3>3. QED
      BY <1>0, <2>1, <3>2 DEF Best, ExpiresAt
  <2>7. QED
    BY <1>0, <2>1, <2>3, <2>4, <2>5, <2>6
<1>3. ASSUME NEW t \in DOMAIN expiry, Alive(seen.primary) => ExpiresAt(t) <= ExpiresAt(FindToken(seen, state)),
             Decide(t), UNCHANGED <<now, expiry, secret, seen>>
      PROVE  (due # 0 /\ due + Offset <= ExpiresAt(Best))'
  <2>1. ~ExpiresSoon(t) /\ due' = Earlier(RequeueDay(t))
    BY <1>3 DEF Decide
  <2>2. seen = secret /\ Alive(secret.primary)
    BY <1>3 DEF Alive
  <2>3. ExpiresAt(t) \in Nat /\ ExpiresAt(t) <= ExpiresAt(Best) /\ ExpiresAt(Best) \in Nat
    <3>1. ExpiresAt(t) \in Nat
      BY <1>0 DEF ExpiresAt
    <3>2. PICK f \in Nat : f = ExpiresAt(FindToken(secret, state))
      BY <2>2, FoundIsLongest
    <3>3. PICK b \in Nat : b = ExpiresAt(Best)
      BY <2>2, FoundIsLongest DEF Best
    <3>4. ExpiresAt(t) <= f /\ f <= b
      BY <1>3, <2>2, <3>2, <3>3, BestIsBest
    <3>5. QED
      BY <3>1, <3>3, <3>4
  <2>5. RequeueDay(t) \in Nat \ {0} /\ RequeueDay(t) + Offset = ExpiresAt(t)
    BY <2>1, <2>3, RequeueLater
  <2>6. due' \in Nat /\ due' <= RequeueDay(t) /\ due' # 0
    BY <1>0, <2>1, <2>5, EarlierType
  <2>7. ExpiresAt(Best)' = ExpiresAt(Best)
    BY <1>3 DEF Best, FindToken, HasNext, Alive, ExpiresAt
  <2>8. due' + Offset <= ExpiresAt(Best)
    BY <2>3, <2>5, <2>6
  <2>9. QED
    BY <2>6, <2>7, <2>8
<1>7. CASE Start
  <2>1. FindToken(seen, state) # NoToken /\ Decide(FindToken(seen, state))
    BY <1>7 DEF Start
  <2>2. FindToken(seen, state) \in DOMAIN expiry
    BY <2>1, FoundType
  <2>3. ExpiresAt(FindToken(seen, state)) <= ExpiresAt(FindToken(seen, state))
    BY <1>0, <2>2 DEF ExpiresAt
  <2>4. UNCHANGED <<now, expiry, secret, seen>>
    BY <1>7 DEF Start
  <2>5. QED
    BY <1>3, <2>1, <2>2, <2>3, <2>4
<1>8. CASE LookupFault
  <2>1. seen' = seen /\ Decide(seen.primary) /\ UNCHANGED <<now, expiry, secret>>
    BY <1>8, LookupCases
  <2>2. Alive(seen.primary) => ExpiresAt(seen.primary) <= ExpiresAt(FindToken(seen, state))
    <3>1. SUFFICES ASSUME Alive(seen.primary)
                   PROVE  ExpiresAt(seen.primary) <= ExpiresAt(FindToken(seen, state))
      OBVIOUS
    <3>2. PICK f \in Nat : f = ExpiresAt(FindToken(seen, state))
      BY <3>1, FoundIsLongest
    <3>3. PICK e \in Nat : e = ExpiresAt(seen.primary)
      BY <1>0 DEF ExpiresAt
    <3>4. f >= e
      BY <3>1, <3>2, <3>3, FoundIsLongest
    <3>5. QED
      BY <3>2, <3>3, <3>4
  <2>3. QED
    BY <1>0, <1>3, <2>1, <2>2
<1>4. CASE ReplacePrimary
  <2>1. PICK e \in FirstExpiries : expiry' = Append(expiry, e)
    BY <1>4 DEF ReplacePrimary
  <2>2. Len(expiry') \notin DOMAIN expiry
    BY <1>0, <2>1
  <2>3. seen' = seen /\ secret'.primary = Len(expiry')
    BY <1>4 DEF ReplacePrimary, TypeOK, Secret
  <2>4. QED
    BY <1>0, <2>2, <2>3
<1>5. CASE Store
  <2>1. secret'.next = fresh /\ seen' = seen
    BY <1>5 DEF Store, Stored, TypeOK, Secret
  <2>2. fresh # seen.next
    BY <1>5 DEF Store, TokenInv, FreshIsNew
  <2>3. QED
    BY <2>1, <2>2
<1>6. QED
  BY <1>1, <1>2, <1>4, <1>5, <1>7, <1>8 DEF Next, Step, ChangeState, Deliver, Resync, Timer, Exit,
     Create, Fault, Restart, vars, workerVars, boundVars

-----------------------------------------------------------------------------
\* The account of leaked tokens.

LEMMA OneMore ==
  ASSUME NEW S, NEW T, NEW x, IsFiniteSet(S)
  PROVE  /\ T \subseteq S => Cardinality(T) <= Cardinality(S)
         /\ T \subseteq S \cup {x} => Cardinality(T) <= Cardinality(S) + 1
         /\ T \subseteq S \cup {x} => Cardinality(T) \in Nat
         /\ Cardinality(S) \in Nat
<1>1. IsFiniteSet(S \cup {x}) /\ Cardinality(S \cup {x}) <= Cardinality(S) + 1
  <2>1. Cardinality(S) \in Nat
    BY FS_CardinalityType
  <2>2. QED
    BY <2>1, FS_AddElement
<1>2. Cardinality(S) \in Nat /\ Cardinality(S \cup {x}) \in Nat
  BY <1>1, FS_CardinalityType
<1>3. ASSUME T \subseteq S PROVE Cardinality(T) <= Cardinality(S)
  BY <1>3, FS_Subset
<1>4. ASSUME T \subseteq S \cup {x}
      PROVE  Cardinality(T) \in Nat /\ Cardinality(T) <= Cardinality(S) + 1
  <2>1. IsFiniteSet(T) /\ Cardinality(T) <= Cardinality(S \cup {x})
    BY <1>1, <1>4, FS_Subset
  <2>2. Cardinality(T) \in Nat
    BY <2>1, FS_CardinalityType
  <2>3. QED
    BY <1>1, <1>2, <2>1, <2>2
<1>5. QED
  BY <1>2, <1>3, <1>4

LEMMA LeakedFinite == TypeOK /\ CopyInv => IsFiniteSet(Leaked)
<1> SUFFICES ASSUME TypeOK, CopyInv PROVE IsFiniteSet(Leaked)
  OBVIOUS
<1>1. Leaked \subseteq 1..Len(expiry)
  <2>1. issued \subseteq DOMAIN expiry /\ DOMAIN expiry = 1..Len(expiry)
    BY DEF TypeOK, CopyInv
  <2>2. QED
    BY <2>1 DEF Leaked
<1>2. IsFiniteSet(1..Len(expiry))
  BY FS_Interval DEF TypeOK
<1>3. QED
  BY <1>1, <1>2, FS_Subset

LEMMA CostTypes ==
  \E m, t, c, r, s \in 0..1 :
     /\ Moved = m /\ Timed = t /\ Cut = c /\ Repeated = r /\ Stale = s
     /\ Stake = m + t + c + r + s
<1>1. /\ Moved \in 0..1 /\ Timed \in 0..1 /\ Cut \in 0..1
      /\ Repeated \in 0..1 /\ Stale \in 0..1
  BY DEF Moved, Timed, Cut, Repeated, Stale, One
<1>2. QED
  BY <1>1 DEF Stake

LEMMA CostTypesNext ==
  \E m, t, c, r, s \in 0..1 :
     /\ Moved' = m /\ Timed' = t /\ Cut' = c /\ Repeated' = r /\ Stale' = s
     /\ Stake' = m + t + c + r + s
<1>1. /\ Moved' \in 0..1 /\ Timed' \in 0..1 /\ Cut' \in 0..1
      /\ Repeated' \in 0..1 /\ Stale' \in 0..1
  BY DEF Moved, Timed, Cut, Repeated, Stale, One
<1>2. QED
  BY <1>1 DEF Stake

\* Only a live primary's token is renewed, ...
LEMMA RenewsAlive ==
  ASSUME NEW sec, NEW s, Renews(sec, s)
  PROVE  Alive(sec.primary)
BY DEF Renews, FindToken, LookupPanics

\* ... and never one that lasts and fits the state.
LEMMA LastingStays ==
  ASSUME TypeOK, TokenInv, NEW sec \in {secret, seen}, Lasts(sec.next)
  PROVE  ~Renews(sec, sec.state)
<1> USE TokenAssumption
<1>1. SUFFICES ASSUME Renews(sec, sec.state) PROVE FALSE
  OBVIOUS
<1>2. Alive(sec.primary)
  BY <1>1, RenewsAlive
<1>3. /\ sec.next \in DOMAIN expiry /\ expiry[sec.next] # NeverExpires
      /\ expiry[sec.next] \in Nat /\ expiry[sec.next] > now + Offset /\ sec.next # NoToken
  <2>1. sec.next # NoToken /\ expiry[sec.next] > now + Offset
    BY DEF Lasts
  <2>2. sec.next \in DOMAIN expiry /\ expiry[sec.next] # NeverExpires
    BY <2>1 DEF TokenInv, TokensExist
  <2>3. expiry[sec.next] \in Nat
    BY <2>2 DEF TypeOK
  <2>4. QED
    BY <2>1, <2>2, <2>3
<1>4. now \in Nat /\ Offset \in Nat /\ now < expiry[sec.next]
  BY <1>3 DEF TypeOK
<1>5. HasNext(sec, sec.state) /\ ExpiresAt(sec.next) = expiry[sec.next]
  BY <1>3, <1>4 DEF HasNext, Alive, ExpiresAt
<1> DEFINE t == FindToken(sec, sec.state)
<1>6. ExpiresAt(t) \in Nat /\ ExpiresAt(t) >= expiry[sec.next]
  BY <1>2, <1>5, FoundIsLongest
<1>7. ExpiresAt(t) <= now + Offset
  BY <1>1 DEF Renews, ExpiresSoon
<1> HIDE DEF t
<1>8. QED
  BY <1>3, <1>4, <1>6, <1>7

\* Within a day tokens stay what they are.
LEMMA SameTokens ==
  ASSUME TypeOK, TokenInv, [Next]_vars, now' = now
  PROVE  /\ secret'.next = secret.next => (Lasts(secret.next)' <=> Lasts(secret.next))
         /\ secret'.primary = secret.primary => (Alive(secret.primary)' <=> Alive(secret.primary))
         /\ seen' = secret => (Alive(seen.primary)' <=> Alive(secret.primary))
         /\ seen' = seen => (Alive(seen.primary)' <=> Alive(seen.primary))
         /\ seen' = seen /\ state' = state => (Renews(seen, state)' <=> Renews(seen, state))
         /\ seen' = secret /\ state' = state => (Renews(seen, state)' <=> Renews(secret, state))
<1>1. \A t \in DOMAIN expiry : t \in DOMAIN expiry' /\ expiry'[t] = expiry[t]
  BY ExpiryGrows
<1>2. \A sec \in {secret, seen} :
         /\ sec.primary \in DOMAIN expiry
         /\ sec.next # NoToken => sec.next \in DOMAIN expiry
  BY DEF TokenInv, TokensExist
<1>3. /\ secret'.next = secret.next => (Lasts(secret.next)' <=> Lasts(secret.next))
      /\ secret'.primary = secret.primary => (Alive(secret.primary)' <=> Alive(secret.primary))
      /\ seen' = secret => (Alive(seen.primary)' <=> Alive(secret.primary))
      /\ seen' = seen => (Alive(seen.primary)' <=> Alive(seen.primary))
  BY <1>1, <1>2 DEF Lasts, Alive
<1>4. ASSUME NEW sec \in {secret, seen}
      PROVE  /\ expiry'[sec.primary] = expiry[sec.primary]
             /\ sec.next # NoToken => expiry'[sec.next] = expiry[sec.next]
  BY <1>1, <1>2
<1>5. ASSUME seen' = seen, state' = state PROVE Renews(seen, state)' <=> Renews(seen, state)
  BY <1>4, <1>5 DEF Renews, LookupPanics, FindToken, HasNext, Alive, ExpiresSoon, ExpiresAt
<1>7. ASSUME seen' = secret, state' = state PROVE Renews(seen, state)' <=> Renews(secret, state)
  BY <1>4, <1>7 DEF Renews, LookupPanics, FindToken, HasNext, Alive, ExpiresSoon, ExpiresAt
<1>8. QED
  BY <1>3, <1>5, <1>7

LEMMA CopyInvStep == TypeOK /\ TokenInv /\ CopyInv /\ [Next]_vars => CopyInv'
<1> SUFFICES ASSUME TypeOK, TokenInv, CopyInv, [Next]_vars PROVE CopyInv'
  OBVIOUS
<1> USE TokenAssumption
<1>0. TypeOK' /\ expiry \in Seq(Nat)
  BY NextType DEF TypeOK
<1>1. issued' \subseteq DOMAIN expiry'
  <2>1. \A t \in DOMAIN expiry : t \in DOMAIN expiry'
    BY ExpiryGrows
  <2>2. CASE issued' = issued
    BY <2>1, <2>2 DEF CopyInv
  <2>3. CASE Issue
    <3>1. issued' = issued \cup {Len(expiry')} /\ Len(expiry') \in DOMAIN expiry'
      BY <2>3, IssueType DEF Issue
    <3>2. QED
      BY <2>1, <3>1 DEF CopyInv
  <2>4. QED
    BY <2>2, <2>3 DEF Next, Step, ChangeState, ReplacePrimary, Deliver, Resync, Timer, Tick,
       Start, Decide, Exit, Create, Store, Fault, LookupFault, Restart, vars
<1>2. pc' # "store" => fresh' = NoToken
  BY DEF CopyInv, Next, Step, ChangeState, ReplacePrimary, Deliver, Resync, Timer, Tick,
     Start, Decide, Exit, Create, Store, Fault, LookupFault, Restart, Idle, vars, workerVars
<1>3. CASE Tick
  <2>1. seen = secret /\ ~Busy /\ UNCHANGED <<seen, secret, pc>>
    BY <1>3 DEF Tick, Rested, Hopeless, Busy, workerVars
  <2>2. QED
    BY <1>1, <1>2, <2>1 DEF CopyInv, Busy
<1>4. CASE ~Tick
  <2>0. now' = now
    BY <1>4 DEF Next, Step, ChangeState, ReplacePrimary, Deliver, Resync, Timer,
       Start, Decide, Exit, Create, Store, Fault, LookupFault, Restart, vars
  <2>1. CASE ReplacePrimary
    <3>1. PICK e \in FirstExpiries : (e = NeverExpires \/ now < e) /\ expiry' = Append(expiry, e)
      BY <2>1 DEF ReplacePrimary
    <3>2. Len(expiry') \in DOMAIN expiry' /\ expiry'[Len(expiry')] = e
      BY <1>0, <3>1
    <3>3. /\ secret'.primary = Len(expiry') /\ secret'.next = secret.next
          /\ secret'.state = secret.state /\ UNCHANGED <<seen, queued, workerVars>>
      BY <2>1 DEF ReplacePrimary, TypeOK, Secret
    <3>4. Alive(secret.primary)'
      BY <2>0, <3>1, <3>2, <3>3 DEF Alive
    <3>5. QED
      BY <1>1, <1>2, <2>0, <3>3, <3>4, SameTokens DEF CopyInv, Busy, workerVars
  <2>2. CASE pc = "store" /\ secret' = Stored(secret, fresh, chosen) /\ pc' = "idle" /\ seen' = seen
    <3>1. secret'.next = fresh /\ secret'.primary = secret.primary
      BY <2>2 DEF Stored, TypeOK, Secret
    <3>2. fresh \in DOMAIN expiry /\ expiry[fresh] = now + TTL /\ fresh # NoToken
      BY <2>2 DEF TokenInv, FreshIsNew
    <3>3. expiry'[fresh] = now + TTL
      BY <3>2, ExpiryGrows
    <3>4. Lasts(secret.next)'
      BY <2>0, <3>1, <3>2, <3>3 DEF Lasts, TypeOK
    <3>5. QED
      BY <1>1, <1>2, <2>0, <2>2, <3>1, <3>4, SameTokens DEF CopyInv, Busy
  <2>3. CASE secret' = secret /\ seen' = secret /\ (Deliver \/ Exit \/ LookupFault \/ Restart)
    <3>1. pc' = "idle" \/ pc' = pc \/ Alive(secret.primary)
      BY <2>3, LookupCases DEF Deliver, Exit, Restart, Idle, workerVars, Decide
    <3>2. Busy' => Alive(secret.primary)
      BY <3>1 DEF CopyInv, Busy
    <3>3. Busy' => Alive(seen.primary)'
      BY <2>0, <2>3, <3>2, SameTokens
    <3>4. QED
      BY <1>1, <1>2, <2>3, <3>3 DEF CopyInv
  <2>4. CASE secret' = secret /\ seen' = seen
    <3>1. CASE pc' = "idle"
      BY <1>1, <1>2, <2>0, <2>4, <3>1, SameTokens DEF CopyInv, Busy
    <3>2. CASE Busy
      BY <1>1, <1>2, <2>0, <2>4, <3>2, SameTokens DEF CopyInv, Busy
    <3>3. CASE (Start \/ LookupFault) /\ pc' # "idle" /\ ~Busy
      <4>1. Alive(seen.primary)
        BY <3>3, LookupCases, RenewsAlive DEF Start, Decide, Renews, workerVars, Busy
      <4>2. QED
        BY <1>1, <1>2, <2>0, <2>4, <4>1, SameTokens DEF CopyInv, Busy
    <3>4. QED
      BY <1>4, <3>1, <3>2, <3>3 DEF Next, Step, ChangeState, ReplacePrimary, Deliver, Resync, Timer,
         Start, Decide, Exit, Create, Store, Fault, LookupFault, Restart, Idle, vars, workerVars, Busy
  <2>5. QED
    BY <1>4, <2>1, <2>2, <2>3, <2>4 DEF Next, Step, ChangeState, Deliver, Resync, Timer,
       Start, Decide, Exit, Create, Store, Fault, LookupFault, Restart, Idle, vars
<1>5. QED
  BY <1>3, <1>4

\* A token is leaked when the secret or the reconcile lets go of it, or when
\* it is issued and the answer lost.
LEMMA LeakSteps ==
  ASSUME TypeOK, TokenInv, CopyInv, [Next]_vars
  PROVE  Leaked' \subseteq Leaked \cup ({secret.next, fresh} \ {secret'.next, fresh'})
                                  \cup ((issued' \ issued) \ {fresh'})
<1> SUFFICES ASSUME NEW t \in Leaked', t \in issued, t \notin {secret.next, fresh}
             PROVE  t \in Leaked
  BY DEF Leaked
<1>1. expiry'[t] > now' + Offset
  BY DEF Leaked
<1>2. t \in DOMAIN expiry /\ expiry'[t] = expiry[t] /\ now' >= now /\ now' \in Nat
  BY ExpiryGrows DEF CopyInv
<1>3. expiry[t] \in Nat /\ now \in Nat /\ Offset \in Nat
  BY <1>2, TokenAssumption DEF TypeOK
<1>4. expiry[t] > now + Offset
  BY <1>1, <1>2, <1>3
<1>5. QED
  BY <1>4 DEF Leaked

\* Undisturbed, what is lost by a step was at stake before; ...
LEMMA StakeDeliver ==
  ASSUME TypeOK, TokenInv, CopyInv, Deliver
  PROVE  Leaked' \subseteq Leaked /\ Stake' <= Stake
<1>a. PICK m, t, c, r, s \in 0..1 :
         /\ Moved = m /\ Timed = t /\ Cut = c /\ Repeated = r /\ Stale = s
         /\ Stake = m + t + c + r + s
  BY CostTypes
<1>b. PICK m2, t2, c2, r2, s2 \in 0..1 :
         /\ Moved' = m2 /\ Timed' = t2 /\ Cut' = c2 /\ Repeated' = r2 /\ Stale' = s2
         /\ Stake' = m2 + t2 + c2 + r2 + s2
  BY CostTypesNext
<1>0. /\ [Next]_vars /\ now' = now /\ seen # secret /\ seen' = secret /\ queued' = TRUE
      /\ UNCHANGED <<expiry, issued, state, secret, due, pc, chosen, fresh>>
  BY DEF Deliver, Next, workerVars
<1>1. Leaked' \subseteq Leaked
  BY <1>0, LeakSteps
<1>2. Moved' = 0 /\ Cut' = Cut
  BY <1>0, SameTokens DEF Moved, Cut, One, Busy
<1>3. Timed' <= Timed + Moved /\ (Busy => Timed' = Timed)
  <2>1. CASE Busy
    BY <1>0, <2>1, <1>a DEF Timed, One, Busy
  <2>2. CASE ~Busy /\ Alive(seen.primary)
    BY <1>0, <2>2, <1>a, <1>b DEF Timed, One, Busy, Old
  <2>3. CASE ~Busy /\ ~Alive(seen.primary) /\ ~Alive(secret.primary)
    BY <1>0, <2>3, <1>a, SameTokens DEF Timed, One, Busy
  <2>4. CASE seen.primary # secret.primary /\ ~Busy
    BY <2>4, <1>a, <1>b DEF Moved, One
  <2>5. QED
    BY <2>1, <2>2, <2>3, <2>4
<1>4. CASE ~Busy
  <2>1. Repeated' = 0 /\ Stale' = 0
    BY <1>0, <1>4 DEF Repeated, Stale, One, Busy, Old
  <2>2. QED
    BY <1>1, <1>2, <1>3, <2>1, <1>a, <1>b
<1>5. CASE Busy /\ chosen # state
  <2>1. Repeated = 1 /\ Stale = 1
    BY <1>5 DEF Repeated, Stale, One
  <2>2. QED
    BY <1>1, <1>2, <1>3, <1>5, <2>1, <1>a, <1>b
<1>6. CASE Busy /\ chosen = state
  <2>1. Stale' = 0
    BY <1>0, <1>6 DEF Stale, One, Busy, Old
  <2>2. Repeated' <= Moved + Stale
    <3>1. CASE seen.primary # secret.primary
      BY <3>1, <1>a, <1>b DEF Moved, One
    <3>2. CASE seen.primary = secret.primary
      <4>1. Lasts(secret.next)
        BY <1>0, <3>2 DEF CopyInv, TypeOK, Secret
      <4>2. CASE secret.state # state
        BY <1>0, <1>6, <4>1, <4>2, <1>a, <1>b DEF Stale, One, Old
      <4>3. CASE secret.state = state
        <5>1. ~Renews(seen, state)'
          BY <1>0, <4>1, <4>3, LastingStays, SameTokens
        <5>2. Repeated' = 0
          BY <1>0, <1>6, <5>1 DEF Repeated, One, Busy
        <5>3. QED
          BY <5>2, <1>a
      <4>4. QED
        BY <4>2, <4>3
    <3>3. QED
      BY <3>1, <3>2
  <2>3. QED
    BY <1>1, <1>2, <1>3, <1>6, <2>1, <2>2, <1>a, <1>b
<1>7. QED
  BY <1>4, <1>5, <1>6

LEMMA StakeTimer ==
  ASSUME TypeOK, TokenInv, CopyInv, Timer
  PROVE  Leaked' \subseteq Leaked /\ Stake' <= Stake
<1>a. PICK m, t, c, r, s \in 0..1 :
         /\ Moved = m /\ Timed = t /\ Cut = c /\ Repeated = r /\ Stale = s
         /\ Stake = m + t + c + r + s
  BY CostTypes
<1>b. PICK m2, t2, c2, r2, s2 \in 0..1 :
         /\ Moved' = m2 /\ Timed' = t2 /\ Cut' = c2 /\ Repeated' = r2 /\ Stale' = s2
         /\ Stake' = m2 + t2 + c2 + r2 + s2
  BY CostTypesNext
<1>0. /\ [Next]_vars /\ now' = now /\ queued' = TRUE /\ due # 0 /\ due <= now /\ due' = 0
      /\ UNCHANGED <<expiry, issued, state, secret, seen, pc, chosen, fresh>>
  BY DEF Timer, Next, workerVars
<1>1. Leaked' \subseteq Leaked
  BY <1>0, LeakSteps
<1>2. Moved' = Moved /\ Cut' = Cut /\ Stale' = Stale /\ Timed' = 0
  BY <1>0, SameTokens DEF Moved, Cut, Stale, Timed, One, Busy, Old
<1>3. Repeated' <= Repeated + Timed
  <2>1. CASE Repeated' = 0
    BY <2>1, <1>a
  <2>2. CASE Busy
    BY <1>0, <2>2, <1>a, <1>b DEF Timed, One
  <2>3. CASE Repeated' = 1 /\ ~Busy
    <3>1. /\ Old
          /\ Renews(seen, state)' \/ Alive(seen.primary)'
      BY <1>0, <2>3 DEF Repeated, One, Busy, Old
    <3>2. Alive(seen.primary)
      BY <1>0, <3>1, SameTokens, RenewsAlive
    <3>3. Timed = 1
      BY <1>0, <3>1, <3>2 DEF Timed, One
    <3>4. QED
      BY <3>3, <1>a, <1>b
  <2>4. QED
    BY <2>1, <2>2, <2>3, <1>b
<1>4. QED
  BY <1>1, <1>2, <1>3, <1>a, <1>b

LEMMA StakeTick ==
  ASSUME TypeOK, TokenInv, CopyInv, Tick
  PROVE  Leaked' \subseteq Leaked /\ Stake' <= Stake
<1>a. PICK m, t, c, r, s \in 0..1 :
         /\ Moved = m /\ Timed = t /\ Cut = c /\ Repeated = r /\ Stale = s
         /\ Stake = m + t + c + r + s
  BY CostTypes
<1>b. PICK m2, t2, c2, r2, s2 \in 0..1 :
         /\ Moved' = m2 /\ Timed' = t2 /\ Cut' = c2 /\ Repeated' = r2 /\ Stale' = s2
         /\ Stake' = m2 + t2 + c2 + r2 + s2
  BY CostTypesNext
<1>0. /\ [Next]_vars /\ now' = now + 1 /\ seen = secret /\ ~Busy
      /\ UNCHANGED <<expiry, issued, state, secret, seen, queued, due, pc, chosen, fresh>>
      /\ ~queued \/ ~Alive(secret.primary)
  BY DEF Tick, Next, Rested, Hopeless, Busy, workerVars
<1>1. Leaked' \subseteq Leaked
  BY <1>0, LeakSteps
<1>2. Moved' = 0 /\ Stale' = 0 /\ Repeated' = 0
  BY <1>0 DEF Moved, Stale, Repeated, One, Busy, Old
<1>3. Lasts(secret.next)' => Lasts(secret.next)
  BY <1>0, TokenAssumption DEF Lasts, TypeOK, TokenInv, TokensExist
<1>4. Cut' <= Cut
  BY <1>0, <1>3, <1>a, <1>b DEF Cut, One, Busy
<1>5. Timed' = 0
  <2>1. ~Alive(secret.primary) => ~Alive(secret.primary)'
    <3>1. expiry[secret.primary] \in Nat
      BY DEF TypeOK, TokenInv, TokensExist
    <3>2. QED
      BY <1>0, <3>1 DEF Alive, TypeOK
  <2>2. ~queued' \/ ~Alive(seen.primary)'
    BY <1>0, <2>1 DEF Alive
  <2>3. QED
    BY <1>0, <2>2 DEF Timed, One, Busy, Old
<1>6. QED
  BY <1>1, <1>2, <1>4, <1>5, <1>a, <1>b

LEMMA StakeStart ==
  ASSUME TypeOK, TokenInv, CopyInv, Start
  PROVE  Leaked' \subseteq Leaked /\ Stake' <= Stake
<1>a. PICK m, t, c, r, s \in 0..1 :
         /\ Moved = m /\ Timed = t /\ Cut = c /\ Repeated = r /\ Stale = s
         /\ Stake = m + t + c + r + s
  BY CostTypes
<1>b. PICK m2, t2, c2, r2, s2 \in 0..1 :
         /\ Moved' = m2 /\ Timed' = t2 /\ Cut' = c2 /\ Repeated' = r2 /\ Stale' = s2
         /\ Stake' = m2 + t2 + c2 + r2 + s2
  BY CostTypesNext
<1>0. /\ [Next]_vars /\ now' = now /\ queued /\ ~Busy
      /\ UNCHANGED <<expiry, issued, state, secret, seen, fresh>>
  BY DEF Start, Decide, Next, Busy, workerVars
<1>1. Leaked' \subseteq Leaked
  BY <1>0, LeakSteps
<1>2. Moved' = Moved
  BY <1>0 DEF Moved, One
<1>3. CASE LookupPanics(seen, state) /\ UNCHANGED <<queued, due, workerVars>>
  <2>1. Timed' = Timed /\ Cut' = Cut /\ Repeated' = Repeated /\ Stale' = Stale
    BY <1>0, <1>3, SameTokens DEF Timed, Cut, Repeated, Stale, One, Busy, Old, workerVars
  <2>2. QED
    BY <1>a, <1>b, <1>1, <1>2, <2>1
<1>4. CASE /\ ~LookupPanics(seen, state) /\ FindToken(seen, state) # NoToken /\ queued' = FALSE
           /\ ~ExpiresSoon(FindToken(seen, state)) /\ UNCHANGED workerVars
           /\ due' = Earlier(RequeueDay(FindToken(seen, state)))
  <2> DEFINE x == FindToken(seen, state)
  <2>1. Cut' = Cut /\ Repeated' = 0 /\ Stale' = 0
    BY <1>0, <1>4, SameTokens DEF Cut, Repeated, Stale, One, Busy, workerVars
  <2>2. due' # 0 /\ due' <= now => due # 0 /\ due <= now
    <3>1. x \in DOMAIN expiry
      BY <1>4, FoundType
    <3>2. RequeueDay(x) \in Nat /\ RequeueDay(x) > now
      BY <1>4, <3>1, TokenAssumption DEF RequeueDay, ExpiresSoon, ExpiresAt, TypeOK
    <3> HIDE DEF x
    <3>3. due' = Earlier(RequeueDay(x)) /\ due \in Nat /\ now \in Nat
      BY <1>4 DEF x, TypeOK
    <3>4. QED
      BY <3>2, <3>3 DEF Earlier
  <2>3. t2 <= t
    <3>1. CASE t2 = 1
      <4>1. due' # 0 /\ due' <= now /\ Alive(seen.primary)' /\ Old
        BY <1>b, <1>0, <1>4, <3>1 DEF Timed, One, Busy, Old, workerVars
      <4>2. Timed = 1
        BY <1>0, <2>2, <4>1, SameTokens DEF Timed, One
      <4>3. QED
        BY <1>a, <1>b, <4>2
    <3>2. QED
      BY <1>a, <1>b, <3>1
  <2>4. QED
    BY <1>a, <1>b, <1>1, <1>2, <2>1, <2>3
<1>5. CASE Renews(seen, state) /\ queued' = FALSE /\ pc' = "create" /\ chosen' = state /\ due' = due
  <2>1. Alive(seen.primary) /\ Busy' /\ (Lasts(secret.next)' <=> Lasts(secret.next))
    BY <1>0, <1>5, RenewsAlive, SameTokens DEF Busy
  <2>2. Lasts(secret.next) /\ secret.state = state => Old
    BY <1>5, LastingStays DEF Old
  <2>3. Timed' = Timed
    BY <1>0, <1>5, <2>1, <2>2 DEF Timed, One
  <2>4. Repeated' = 0
    BY <1>0, <1>5, <2>1 DEF Repeated, One
  <2>5. CASE ~Lasts(secret.next)
    <3>1. Cut' = 0 /\ Stale' = 0
      BY <1>0, <1>5, <2>1, <2>5 DEF Cut, Stale, One
    <3>2. QED
      BY <1>a, <1>b, <1>1, <1>2, <2>3, <2>4, <3>1
  <2>6. CASE Lasts(secret.next) /\ secret.state = state
    <3>1. Repeated = 1 /\ Stale' = 0
      BY <1>0, <1>5, <2>1, <2>2, <2>6 DEF Repeated, Stale, One
    <3>2. QED
      BY <1>a, <1>b, <1>1, <1>2, <2>3, <2>4, <3>1
  <2>7. CASE Lasts(secret.next) /\ secret.state # state
    <3>1. Cut = 1
      BY <2>7 DEF Cut, One
    <3>2. s2 <= r
      <4>1. CASE Old
        <5>1. Repeated = 1
          BY <1>0, <2>1, <2>7, <4>1 DEF Repeated, One
        <5>2. QED
          BY <1>a, <1>b, <5>1
      <4>2. CASE ~Old
        <5>1. Stale' = 0
          BY <1>0, <1>5, <4>2 DEF Stale, One, Old
        <5>2. QED
          BY <1>a, <1>b, <5>1
      <4>3. QED
        BY <4>1, <4>2
    <3>3. QED
      BY <1>a, <1>b, <1>1, <1>2, <2>3, <2>4, <3>1, <3>2
  <2>8. QED
    BY <2>5, <2>6, <2>7
<1>6. QED
  BY <1>3, <1>4, <1>5 DEF Start, Decide, Renews

LEMMA StakeExit ==
  ASSUME TypeOK, TokenInv, CopyInv, Exit
  PROVE  Leaked' \subseteq Leaked /\ Stake' <= Stake
<1>a. PICK m, t, c, r, s \in 0..1 :
         /\ Moved = m /\ Timed = t /\ Cut = c /\ Repeated = r /\ Stale = s
         /\ Stake = m + t + c + r + s
  BY CostTypes
<1>b. PICK m2, t2, c2, r2, s2 \in 0..1 :
         /\ Moved' = m2 /\ Timed' = t2 /\ Cut' = c2 /\ Repeated' = r2 /\ Stale' = s2
         /\ Stake' = m2 + t2 + c2 + r2 + s2
  BY CostTypesNext
<1>0. /\ [Next]_vars /\ now' = now /\ ~Busy /\ seen' = secret /\ due' = 0
      /\ UNCHANGED <<expiry, issued, state, secret, queued, pc, chosen, fresh>>
  BY DEF Exit, Next, Busy, workerVars
<1>1. Leaked' \subseteq Leaked
  BY <1>0, LeakSteps
<1>2. Moved' = 0 /\ Timed' = 0 /\ Cut' = Cut /\ Repeated' = 0 /\ Stale' = 0
  BY <1>0, SameTokens DEF Moved, Timed, Cut, Repeated, Stale, One, Busy, Old
<1>3. QED
  BY <1>a, <1>b, <1>1, <1>2

LEMMA StakeCreate ==
  ASSUME TypeOK, TokenInv, CopyInv, Create
  PROVE  Leaked' \subseteq Leaked /\ Stake' <= Stake
<1>a. PICK m, t, c, r, s \in 0..1 :
         /\ Moved = m /\ Timed = t /\ Cut = c /\ Repeated = r /\ Stale = s
         /\ Stake = m + t + c + r + s
  BY CostTypes
<1>b. PICK m2, t2, c2, r2, s2 \in 0..1 :
         /\ Moved' = m2 /\ Timed' = t2 /\ Cut' = c2 /\ Repeated' = r2 /\ Stale' = s2
         /\ Stake' = m2 + t2 + c2 + r2 + s2
  BY CostTypesNext
<1>0. /\ [Next]_vars /\ now' = now /\ Busy /\ Busy'
      /\ UNCHANGED <<state, secret, seen, queued, due, chosen>>
  BY DEF Create, Next, Step, Busy
<1>1. Leaked' \subseteq Leaked
  <2>1. issued' = issued \cup {fresh'} /\ fresh = NoToken
    BY DEF Create, Issue, CopyInv
  <2>2. {secret.next, fresh} \ {secret'.next, fresh'} \subseteq {NoToken}
    BY <1>0, <2>1
  <2>3. \A n \in Leaked' : n # NoToken
    <3>1. issued' \subseteq DOMAIN expiry' /\ expiry' \in Seq(Nat)
      BY <1>0, CopyInvStep, NextType DEF CopyInv, TypeOK
    <3>2. QED
      BY <3>1 DEF Leaked, NoToken
  <2>4. QED
    BY <1>0, <2>1, <2>2, <2>3, LeakSteps
<1>2. Moved' = Moved /\ Timed' = Timed /\ Cut' = Cut
  BY <1>0, SameTokens DEF Moved, Timed, Cut, One
<1>3. Repeated' = Repeated /\ Stale' = Stale
  BY <1>0, SameTokens DEF Repeated, Stale, One, Old
<1>4. QED
  BY <1>a, <1>b, <1>1, <1>2, <1>3

LEMMA StakeStore ==
  ASSUME TypeOK, TokenInv, CopyInv, Store
  PROVE  \/ Leaked' \subseteq Leaked /\ Stake' <= Stake
         \/ Leaked' \subseteq Leaked \cup {secret.next} /\ Stake' + 1 <= Stake
<1>a. PICK m, t, c, r, s \in 0..1 :
         /\ Moved = m /\ Timed = t /\ Cut = c /\ Repeated = r /\ Stale = s
         /\ Stake = m + t + c + r + s
  BY CostTypes
<1>b. PICK m2, t2, c2, r2, s2 \in 0..1 :
         /\ Moved' = m2 /\ Timed' = t2 /\ Cut' = c2 /\ Repeated' = r2 /\ Stale' = s2
         /\ Stake' = m2 + t2 + c2 + r2 + s2
  BY CostTypesNext
<1> USE TokenAssumption
<1>0. /\ [Next]_vars /\ now' = now /\ Busy /\ ~Busy' /\ due' = Earlier(RequeueDay(fresh))
      /\ UNCHANGED <<expiry, issued, state, seen, queued>> /\ fresh' = NoToken
  BY DEF Store, Next, Step, Busy, Idle
<1>1. secret'.next = fresh /\ secret'.primary = secret.primary /\ secret'.state = chosen
  BY DEF Store, Stored, TypeOK, Secret
<1>2. /\ fresh \in DOMAIN expiry /\ expiry[fresh] = now + TTL /\ fresh # NoToken
      /\ fresh # seen.next
  BY DEF Store, TokenInv, FreshIsNew
<1>3. Alive(seen.primary) /\ Alive(seen.primary)' /\ Old'
  BY <1>0, <1>1, <1>2, SameTokens DEF CopyInv, Old
<1>4. Moved' = Moved
  BY <1>0, <1>1 DEF Moved, One
<1>5. t2 <= t
  <2>1. RequeueDay(fresh) \in Nat /\ RequeueDay(fresh) > now
    BY <1>2 DEF RequeueDay, ExpiresAt, TypeOK, NeverExpires
  <2>2. due' # 0 /\ due' <= now => due # 0 /\ due <= now
    BY <1>0, <2>1 DEF Earlier, TypeOK
  <2>3. CASE t2 = 1
    <3>1. due' # 0 /\ due' <= now
      BY <1>b, <1>0, <2>3 DEF Timed, One
    <3>2. Timed = 1
      BY <1>0, <2>2, <3>1 DEF Timed, One
    <3>3. QED
      BY <1>a, <1>b, <3>2
  <2>4. QED
    BY <1>a, <1>b, <2>3
<1>6. s2 = 0
  BY <1>b, <1>0 DEF Stale, One
<1>7. c2 + r2 <= r + s
  <2>1. CASE chosen = state
    <3>1. Cut' = 0
      BY <1>0, <1>1, <2>1 DEF Cut, One
    <3>2. r2 <= r
      <4>1. CASE r2 = 1
        <5>1. queued /\ Renews(seen, state)'
          BY <1>b, <1>0, <1>1, <2>1, <4>1 DEF Repeated, One
        <5>2. Repeated = 1
          BY <1>0, <5>1, SameTokens DEF Repeated, One
        <5>3. QED
          BY <1>a, <1>b, <5>2
      <4>2. QED
        BY <1>a, <1>b, <4>1
    <3>3. QED
      BY <1>a, <1>b, <3>1, <3>2
  <2>2. CASE chosen # state
    <3>1. Repeated = 1 /\ Stale = 1
      BY <1>0, <2>2 DEF Repeated, Stale, One
    <3>2. QED
      BY <1>a, <1>b, <3>1
  <2>3. QED
    BY <2>1, <2>2
<1>8. Leaked' \subseteq Leaked \cup {secret.next}
  BY <1>0, <1>1, LeakSteps
<1>9. CASE Lasts(secret.next)
  <2>1. Cut = 1
    BY <1>0, <1>9 DEF Cut, One
  <2>2. Stake' + 1 <= Stake
    BY <1>a, <1>b, <1>4, <1>5, <1>6, <1>7, <2>1
  <2>3. QED
    BY <1>8, <2>2
<1>10. CASE ~Lasts(secret.next)
  <2>1. secret.next \notin Leaked'
    <3>1. secret.next \in Leaked' => secret.next # NoToken
      BY <1>0 DEF Leaked, CopyInv, NoToken, TypeOK
    <3>2. QED
      BY <1>0, <1>10, <3>1 DEF Leaked, Lasts
  <2>2. Stake' <= Stake
    BY <1>a, <1>b, <1>4, <1>5, <1>6, <1>7
  <2>3. QED
    BY <1>8, <2>1, <2>2
<1>11. QED
  BY <1>9, <1>10

\* ... each disturbance costs at most two.
LEMMA StakeFault ==
  ASSUME TypeOK, TokenInv, CopyInv, Fault
  PROVE  \/ Leaked' \subseteq Leaked /\ Stake' <= Stake + 2
         \/ \E x : Leaked' \subseteq Leaked \cup {x} /\ Stake' <= Stake + 1
<1>a. PICK m, t, c, r, s \in 0..1 :
         /\ Moved = m /\ Timed = t /\ Cut = c /\ Repeated = r /\ Stale = s
         /\ Stake = m + t + c + r + s
  BY CostTypes
<1>b. PICK m2, t2, c2, r2, s2 \in 0..1 :
         /\ Moved' = m2 /\ Timed' = t2 /\ Cut' = c2 /\ Repeated' = r2 /\ Stale' = s2
         /\ Stake' = m2 + t2 + c2 + r2 + s2
  BY CostTypesNext
<1> USE TokenAssumption
<1>0. /\ [Next]_vars /\ now' = now /\ ~Busy' /\ queued' = TRUE /\ fresh' = NoToken
      /\ UNCHANGED <<state, seen, due>>
  BY DEF Fault, Next, Busy, Idle
<1>1. s2 = 0
  BY <1>b, <1>0 DEF Stale, One
<1>2. secret'.primary = secret.primary
  BY DEF Fault, Stored, TypeOK, Secret
<1>3. Moved' = Moved
  BY <1>0, <1>2 DEF Moved, One
<1>4. t2 <= t
  <2>1. CASE t2 = 1 /\ Busy
    <3>1. Timed = 1
      BY <1>b, <1>0, <2>1 DEF Timed, One
    <3>2. QED
      BY <1>a, <1>b, <3>1
  <2>2. CASE ~Busy
    <3>1. queued' = queued /\ secret' = secret
      BY <1>0, <2>2 DEF Fault, Busy
    <3>2. Timed' = Timed
      BY <1>0, <2>2, <3>1, SameTokens DEF Timed, One, Old
    <3>3. QED
      BY <1>a, <1>b, <3>2
  <2>3. QED
    BY <1>a, <1>b, <2>1, <2>2
<1>5. CASE pc = "idle"
  <2>1. UNCHANGED <<expiry, issued, secret>> /\ fresh = NoToken
    BY <1>5 DEF Fault, CopyInv
  <2>2. Leaked' \subseteq Leaked
    BY <1>0, <2>1, LeakSteps
  <2>3. Cut' = Cut
    BY <1>0, <1>5, <2>1, SameTokens DEF Cut, One, Busy
  <2>4. Stake' <= Stake + 2
    BY <1>a, <1>b, <1>1, <1>3, <1>4, <2>3
  <2>5. QED
    BY <2>2, <2>4
<1>6. CASE Busy /\ secret' = secret
  <2>1. c2 <= c
    <3>1. CASE Lasts(secret.next)
      <4>1. Cut = 1
        BY <1>6, <3>1 DEF Cut, One
      <4>2. QED
        BY <1>a, <1>b, <4>1
    <3>2. CASE ~Lasts(secret.next)
      <4>1. Cut' = 0
        BY <1>0, <1>6, <3>2, SameTokens DEF Cut, One
      <4>2. QED
        BY <1>a, <1>b, <4>1
    <3>3. QED
      BY <3>1, <3>2
  <2>2. Stake' <= Stake + 1
    BY <1>a, <1>b, <1>1, <1>3, <1>4, <2>1
  <2>3. CASE issued' = issued
    <3>1. Leaked' \subseteq Leaked \cup {fresh}
      BY <1>0, <1>6, <2>3, LeakSteps
    <3>2. QED
      BY <2>2, <3>1
  <2>4. CASE issued' = issued \cup {Len(expiry')} /\ pc = "create"
    <3>1. fresh = NoToken
      BY <2>4 DEF CopyInv
    <3>2. Leaked' \subseteq Leaked \cup {Len(expiry')}
      BY <1>0, <1>6, <2>4, <3>1, LeakSteps
    <3>3. PICK x : x = Len(expiry')
      OBVIOUS
    <3>4. QED
      BY <2>2, <3>2, <3>3
  <2>5. QED
    BY <1>6, <2>3, <2>4 DEF Fault, Issue, Busy
<1>7. CASE pc = "store" /\ secret' = Stored(secret, fresh, chosen) /\ UNCHANGED <<expiry, issued>>
  <2>1. secret'.next = fresh
    BY <1>7 DEF Stored, TypeOK, Secret
  <2>2. Leaked' \subseteq Leaked \cup {secret.next}
    BY <1>0, <1>7, <2>1, LeakSteps
  <2>3. CASE Lasts(secret.next)
    <3>1. Cut = 1
      BY <1>7, <2>3 DEF Cut, One, Busy
    <3>2. Stake' <= Stake + 1
      BY <1>a, <1>b, <1>1, <1>3, <1>4, <3>1
    <3>3. QED
      BY <2>2, <3>2
  <2>4. CASE ~Lasts(secret.next)
    <3>1. secret.next \in Leaked' => secret.next # NoToken
      BY <1>7 DEF Leaked, CopyInv, NoToken, TypeOK
    <3>2. secret.next \notin Leaked'
      BY <1>0, <1>7, <2>4, <3>1 DEF Leaked, Lasts
    <3>3. Stake' <= Stake + 2
      BY <1>a, <1>b, <1>1, <1>3, <1>4
    <3>4. QED
      BY <2>2, <3>2, <3>3
  <2>5. QED
    BY <2>3, <2>4
<1>8. QED
  BY <1>5, <1>6, <1>7 DEF Fault, TypeOK, Busy

\* Without the next token a reconcile renews over one that lasts.
LEMMA StakeLookup ==
  ASSUME TypeOK, TokenInv, CopyInv, LookupFault
  PROVE  Leaked' \subseteq Leaked /\ Stake' <= Stake + 2
<1>a. PICK m, t, c, r, s \in 0..1 :
         /\ Moved = m /\ Timed = t /\ Cut = c /\ Repeated = r /\ Stale = s
         /\ Stake = m + t + c + r + s
  BY CostTypes
<1>b. PICK m2, t2, c2, r2, s2 \in 0..1 :
         /\ Moved' = m2 /\ Timed' = t2 /\ Cut' = c2 /\ Repeated' = r2 /\ Stale' = s2
         /\ Stake' = m2 + t2 + c2 + r2 + s2
  BY CostTypesNext
<1>0. /\ [Next]_vars /\ now' = now /\ ~Busy
      /\ UNCHANGED <<expiry, issued, state, secret, fresh>>
  BY LookupCases DEF Next, Busy
<1>1. Leaked' \subseteq Leaked
  BY <1>0, LeakSteps
<1>2. CASE seen' = secret /\ due' = 0 /\ UNCHANGED <<queued, workerVars>>
  <2>1. Moved' = 0 /\ Timed' = 0 /\ Cut' = Cut /\ Repeated' = 0 /\ Stale' = 0
    BY <1>0, <1>2, SameTokens DEF Moved, Timed, Cut, Repeated, Stale, One, Busy, Old, workerVars
  <2>2. QED
    BY <1>a, <1>b, <1>1, <2>1
<1>3. CASE seen' = seen /\ ~Busy' /\ queued' = FALSE
  <2>1. Moved' = Moved /\ Cut' = Cut /\ Repeated' = 0 /\ Stale' = 0
    BY <1>0, <1>3, SameTokens DEF Moved, Cut, Repeated, Stale, One
  <2>2. QED
    BY <1>a, <1>b, <1>1, <2>1
<1>4. CASE seen' = seen /\ Busy' /\ queued' = FALSE /\ chosen' = state
  <2>1. Moved' = Moved /\ Repeated' = 0
    BY <1>0, <1>4 DEF Moved, Repeated, One
  <2>2. c2 + s2 <= c + 1
    <3>1. CASE secret.state # state /\ Lasts(secret.next)
      <4>1. Cut = 1
        BY <3>1 DEF Cut, One
      <4>2. QED
        BY <1>a, <1>b, <4>1
    <3>2. CASE ~(secret.state # state /\ Lasts(secret.next))
      <4>1. Stale' = 0
        BY <1>0, <1>4, <3>2, SameTokens DEF Stale, One
      <4>2. QED
        BY <1>a, <1>b, <4>1
    <3>3. QED
      BY <3>1, <3>2
  <2>3. QED
    BY <1>a, <1>b, <1>1, <2>1, <2>2
<1>5. QED
  BY <1>0, <1>2, <1>3, <1>4, LookupCases DEF Decide, Busy, workerVars

LEMMA StakeRestart ==
  ASSUME TypeOK, TokenInv, CopyInv, Restart
  PROVE  Leaked' \subseteq Leaked \cup {fresh} /\ Stake' <= Stake + 1
<1>a. PICK m, t, c, r, s \in 0..1 :
         /\ Moved = m /\ Timed = t /\ Cut = c /\ Repeated = r /\ Stale = s
         /\ Stake = m + t + c + r + s
  BY CostTypes
<1>b. PICK m2, t2, c2, r2, s2 \in 0..1 :
         /\ Moved' = m2 /\ Timed' = t2 /\ Cut' = c2 /\ Repeated' = r2 /\ Stale' = s2
         /\ Stake' = m2 + t2 + c2 + r2 + s2
  BY CostTypesNext
<1>0. /\ [Next]_vars /\ now' = now /\ ~Busy' /\ seen' = secret /\ due' = 0
      /\ UNCHANGED <<expiry, issued, state, secret>>
  BY DEF Restart, Next, Busy, Idle
<1>1. Leaked' \subseteq Leaked \cup {fresh}
  BY <1>0, LeakSteps
<1>2. Moved' = 0 /\ Timed' = 0 /\ Repeated' = 0 /\ Stale' = 0
  BY <1>0 DEF Moved, Timed, Repeated, Stale, One, Old
<1>3. Stake' <= Stake + 1
  BY <1>a, <1>b, <1>2
<1>4. QED
  BY <1>1, <1>3

LEMMA StakeResync ==
  ASSUME TypeOK, TokenInv, CopyInv, Resync
  PROVE  Leaked' \subseteq Leaked /\ Stake' <= Stake + 2
<1>a. PICK m, t, c, r, s \in 0..1 :
         /\ Moved = m /\ Timed = t /\ Cut = c /\ Repeated = r /\ Stale = s
         /\ Stake = m + t + c + r + s
  BY CostTypes
<1>b. PICK m2, t2, c2, r2, s2 \in 0..1 :
         /\ Moved' = m2 /\ Timed' = t2 /\ Cut' = c2 /\ Repeated' = r2 /\ Stale' = s2
         /\ Stake' = m2 + t2 + c2 + r2 + s2
  BY CostTypesNext
<1>0. /\ [Next]_vars /\ now' = now
      /\ UNCHANGED <<expiry, issued, state, secret, seen, pc, chosen, fresh>>
  BY DEF Resync, Next, workerVars
<1>1. Leaked' \subseteq Leaked
  BY <1>0, LeakSteps
<1>2. Moved' = Moved /\ Cut' = Cut /\ Stale' = Stale
  BY <1>0, SameTokens DEF Moved, Cut, Stale, One, Busy, Old
<1>3. Stake' <= Stake + 2
  BY <1>a, <1>b, <1>2
<1>4. QED
  BY <1>1, <1>3

LEMMA StakeChange ==
  ASSUME TypeOK, TokenInv, CopyInv, ChangeState
  PROVE  Leaked' \subseteq Leaked /\ Stake' <= Stake + 2
<1>a. PICK m, t, c, r, s \in 0..1 :
         /\ Moved = m /\ Timed = t /\ Cut = c /\ Repeated = r /\ Stale = s
         /\ Stake = m + t + c + r + s
  BY CostTypes
<1>b. PICK m2, t2, c2, r2, s2 \in 0..1 :
         /\ Moved' = m2 /\ Timed' = t2 /\ Cut' = c2 /\ Repeated' = r2 /\ Stale' = s2
         /\ Stake' = m2 + t2 + c2 + r2 + s2
  BY CostTypesNext
<1>0. /\ [Next]_vars /\ now' = now
      /\ UNCHANGED <<expiry, issued, secret, seen, queued, due, pc, chosen, fresh>>
  BY DEF ChangeState, Next, workerVars
<1>1. Leaked' \subseteq Leaked
  BY <1>0, LeakSteps
<1>2. Moved' = Moved
  BY <1>0 DEF Moved, One
<1>3. CASE Busy
  <2>1. Timed' = Timed /\ Cut' = Cut
    BY <1>0, <1>3, SameTokens DEF Timed, Cut, One, Busy
  <2>2. QED
    BY <1>a, <1>b, <1>1, <1>2, <2>1
<1>4. CASE ~Busy
  <2>1. Stale' = 0
    BY <1>0, <1>4 DEF Stale, One, Busy
  <2>2. CASE Old
    <3>1. Timed' = Timed
      BY <1>0, <1>4, <2>2, SameTokens DEF Timed, One, Busy, Old
    <3>2. QED
      BY <1>a, <1>b, <1>1, <1>2, <2>1, <3>1
  <2>3. CASE ~Old
    <3>1. Repeated' = 0
      BY <1>0, <1>4, <2>3 DEF Repeated, One, Busy, Old
    <3>2. QED
      BY <1>a, <1>b, <1>1, <1>2, <2>1, <3>1
  <2>4. QED
    BY <2>2, <2>3
<1>5. QED
  BY <1>3, <1>4

LEMMA StakeReplace ==
  ASSUME TypeOK, TokenInv, CopyInv, ReplacePrimary
  PROVE  Leaked' \subseteq Leaked /\ Stake' <= Stake + 2
<1>a. PICK m, t, c, r, s \in 0..1 :
         /\ Moved = m /\ Timed = t /\ Cut = c /\ Repeated = r /\ Stale = s
         /\ Stake = m + t + c + r + s
  BY CostTypes
<1>b. PICK m2, t2, c2, r2, s2 \in 0..1 :
         /\ Moved' = m2 /\ Timed' = t2 /\ Cut' = c2 /\ Repeated' = r2 /\ Stale' = s2
         /\ Stake' = m2 + t2 + c2 + r2 + s2
  BY CostTypesNext
<1>0. /\ [Next]_vars /\ now' = now
      /\ UNCHANGED <<issued, state, seen, queued, due, pc, chosen, fresh>>
  BY DEF ReplacePrimary, Next, workerVars
<1>1. secret'.next = secret.next /\ secret'.state = secret.state
  BY DEF ReplacePrimary, TypeOK, Secret
<1>2. Leaked' \subseteq Leaked
  BY <1>0, <1>1, LeakSteps
<1>3. Cut' = Cut
  BY <1>0, <1>1, SameTokens DEF Cut, One, Busy
<1>4. CASE Busy
  <2>1. Timed' = Timed /\ Repeated' = Repeated
    BY <1>0, <1>4, SameTokens DEF Timed, Repeated, One, Busy
  <2>2. QED
    BY <1>a, <1>b, <1>2, <1>3, <2>1
<1>5. CASE ~Busy
  <2>1. Stale' = 0
    BY <1>0, <1>5 DEF Stale, One, Busy
  <2>2. t2 + r2 <= t + r + 1
    <3>1. CASE t2 = 1 /\ r2 = 1
      <4>1. /\ Lasts(secret.next) /\ queued /\ due # 0 /\ due <= now /\ Alive(seen.primary)
            /\ secret.state = state => Renews(seen, state)
        BY <1>b, <1>0, <1>1, <1>5, <3>1, SameTokens DEF Timed, Repeated, One, Busy
      <4>2. secret.state # state \/ Old
        BY <4>1, LastingStays DEF Old
      <4>3. Timed = 1
        BY <4>1, <4>2 DEF Timed, One
      <4>4. QED
        BY <1>a, <1>b, <4>3
    <3>2. QED
      BY <1>a, <1>b, <3>1
  <2>3. Stake' <= Stake + 2
    BY <1>a, <1>b, <1>3, <2>1, <2>2
  <2>4. QED
    BY <1>2, <2>3
<1>6. QED
  BY <1>4, <1>5

LEMMA LeakStep == TypeOK /\ TokenInv /\ LeakInv /\ [Next]_vars => LeakInv'
<1> SUFFICES ASSUME TypeOK, TokenInv, LeakInv, [Next]_vars PROVE LeakInv'
  OBVIOUS
<1>1. CopyInv /\ CopyInv' /\ IsFiniteSet(Leaked)
  BY LeakedFinite, CopyInvStep DEF LeakInv
<1>2. PICK l \in Nat : l = Cardinality(Leaked)
  BY <1>1, OneMore
<1>3. PICK p \in Nat : p = faults + crashes + resyncs + changes + replacements
  BY DEF TypeOK
<1>4. PICK k \in Nat : k = Stake
  BY CostTypes
<1>5. l + k <= 2 * p
  BY <1>2, <1>3, <1>4 DEF LeakInv
<1>6. PICK k2 \in Nat : k2 = Stake'
  BY CostTypesNext
<1>7. ASSUME NEW x, Leaked' \subseteq Leaked \cup {x}
      PROVE  /\ Cardinality(Leaked') \in Nat /\ Cardinality(Leaked') <= l + 1
             /\ Leaked' \subseteq Leaked => Cardinality(Leaked') <= l
  BY <1>1, <1>2, <1>7, OneMore
<1> DEFINE Used(n) == faults' + crashes' + resyncs' + changes' + replacements' = p + n
<1>8. ASSUME Leaked' \subseteq Leaked, k2 <= k, UNCHANGED boundVars PROVE LeakInv'
  <2>1. Cardinality(Leaked') \in Nat /\ Cardinality(Leaked') <= l
    BY <1>7, <1>8
  <2>2. PICK l2 \in Nat : l2 = Cardinality(Leaked')
    BY <2>1
  <2>3. l2 + k2 <= 2 * p
    BY <1>5, <1>8, <2>1, <2>2
  <2>4. QED
    BY <1>1, <1>3, <1>6, <1>8, <2>2, <2>3 DEF LeakInv, boundVars
<1>9. ASSUME NEW x, Leaked' \subseteq Leaked \cup {x}, k2 + 1 <= k, UNCHANGED boundVars PROVE LeakInv'
  <2>1. Cardinality(Leaked') \in Nat /\ Cardinality(Leaked') <= l + 1
    BY <1>7, <1>9
  <2>2. PICK l2 \in Nat : l2 = Cardinality(Leaked')
    BY <2>1
  <2>3. l2 + k2 <= 2 * p
    BY <1>5, <1>9, <2>1, <2>2
  <2>4. QED
    BY <1>1, <1>3, <1>6, <1>9, <2>2, <2>3 DEF LeakInv, boundVars
<1>10. ASSUME \/ Leaked' \subseteq Leaked /\ k2 <= k + 2
              \/ \E x : Leaked' \subseteq Leaked \cup {x} /\ k2 <= k + 1,
              Used(1)
       PROVE  LeakInv'
  <2>1. PICK l2 \in Nat : /\ l2 = Cardinality(Leaked')
                          /\ (l2 <= l /\ k2 <= k + 2) \/ (l2 <= l + 1 /\ k2 <= k + 1)
    <3>1. CASE Leaked' \subseteq Leaked /\ k2 <= k + 2
      <4>1. Leaked' \subseteq Leaked \cup {NoToken}
        BY <3>1
      <4>2. QED
        BY <1>7, <3>1, <4>1
    <3>2. ASSUME NEW x, Leaked' \subseteq Leaked \cup {x}, k2 <= k + 1
          PROVE  Cardinality(Leaked') \in Nat /\ Cardinality(Leaked') <= l + 1
      BY <1>7, <3>2
    <3>3. QED
      BY <1>10, <3>1, <3>2
  <2>2. l2 + k2 <= 2 * (p + 1)
    BY <1>5, <2>1
  <2>3. Cardinality(Leaked') + Stake' <= 2 * (p + 1)
    BY <1>6, <2>1, <2>2
  <2>4. QED
    BY <1>1, <1>10, <2>3 DEF LeakInv
<1>11. CASE Deliver \/ Timer \/ Tick \/ Start \/ Exit \/ Create
  <2>1. Leaked' \subseteq Leaked /\ Stake' <= Stake
    BY <1>1, <1>11, StakeDeliver, StakeTimer, StakeTick, StakeStart, StakeExit, StakeCreate
  <2>2. UNCHANGED boundVars
    BY <1>11 DEF Deliver, Timer, Tick, Start, Decide, Exit, Create, boundVars
  <2>3. QED
    BY <1>4, <1>6, <1>8, <2>1, <2>2
<1>12. CASE Store
  <2>1. \/ Leaked' \subseteq Leaked /\ Stake' <= Stake
        \/ Leaked' \subseteq Leaked \cup {secret.next} /\ Stake' + 1 <= Stake
    BY <1>1, <1>12, StakeStore
  <2>2. UNCHANGED boundVars
    BY <1>12 DEF Store
  <2>3. QED
    BY <1>4, <1>6, <1>8, <1>9, <2>1, <2>2
<1>13. CASE ChangeState \/ ReplacePrimary \/ Resync \/ Fault \/ LookupFault \/ Restart
  <2>1. \/ Leaked' \subseteq Leaked /\ Stake' <= Stake + 2
        \/ \E x : Leaked' \subseteq Leaked \cup {x} /\ Stake' <= Stake + 1
    BY <1>1, <1>13, StakeChange, StakeReplace, StakeResync, StakeFault, StakeLookup,
       StakeRestart
  <2>2. Used(1)
    <3>1. /\ changes \in Nat /\ replacements \in Nat /\ resyncs \in Nat
          /\ faults \in Nat /\ crashes \in Nat
      BY DEF TypeOK
    <3>2. \/ changes' = changes + 1 /\ UNCHANGED <<replacements, resyncs, faults, crashes>>
          \/ replacements' = replacements + 1 /\ UNCHANGED <<changes, resyncs, faults, crashes>>
          \/ resyncs' = resyncs + 1 /\ UNCHANGED <<changes, replacements, faults, crashes>>
          \/ faults' = faults + 1 /\ UNCHANGED <<changes, replacements, resyncs, crashes>>
          \/ crashes' = crashes + 1 /\ UNCHANGED <<changes, replacements, resyncs, faults>>
      BY <1>13 DEF ChangeState, ReplacePrimary, Resync, Fault, LookupFault, Restart
    <3>3. QED
      BY <1>3, <3>1, <3>2
  <2>3. QED
    BY <1>4, <1>6, <1>10, <2>1, <2>2
<1>14. CASE UNCHANGED vars
  BY <1>1, <1>14 DEF LeakInv, Leaked, Stake, Moved, Timed, Cut, Repeated, Stale, One, Busy, Old, Lasts,
     Renews, LookupPanics, FindToken, HasNext, Alive, ExpiresSoon, ExpiresAt, vars
<1>15. QED
  BY <1>11, <1>12, <1>13, <1>14 DEF Next, Step

LEMMA LeakInit == Init => LeakInv
<1> SUFFICES ASSUME Init PROVE LeakInv
  OBVIOUS
<1>1. CopyInv
  BY DEF Init, CopyInv, Busy
<1>2. Leaked = {} /\ Cardinality({}) = 0
  BY FS_EmptySet DEF Init, Leaked
<1>3. Moved = 0 /\ Timed = 0 /\ Cut = 0 /\ Repeated = 0 /\ Stale = 0
  BY DEF Init, Moved, Timed, Cut, Repeated, Stale, One, Busy, Old, Lasts
<1>4. Stake = 0
  BY <1>3 DEF Stake
<1>5. faults + crashes + resyncs + changes + replacements = 0
  BY DEF Init
<1>6. QED
  BY <1>1, <1>2, <1>4, <1>5 DEF LeakInv

\* The secret's tokens, the timer and the reconcile under way agree.
THEOREM TokenInvariant == Spec => []Inv
<1>1. Init => Inv
  BY InitType, TokenInit, LeakInit DEF Inv
<1>2. Inv /\ [Next]_vars => Inv'
  BY NextType, TokensExistStep, FreshIsNewStep, TimerIsSetStep, LeakStep DEF Inv, TokenInv
<1>3. QED
  BY <1>1, <1>2, PTL DEF Spec

\* Type correctness.
THEOREM TypeCorrect == Spec => []TypeOK
BY TokenInvariant, PTL DEF Inv

\* Whenever time passes a reader's token has more than renewalOffset left.
THEOREM FreshInTime == Spec => []SettledIsFresh
<1>1. TypeOK /\ TokenInv => SettledIsFresh
  <2> SUFFICES ASSUME TypeOK, TokenInv, Rested, Alive(secret.primary),
                      secret.next = NoToken \/ secret.state = state
               PROVE  ExpiresAt(Current) > now + Offset
    BY DEF SettledIsFresh
  <2> USE TokenAssumption
  <2>1. due # 0 /\ due + Offset <= ExpiresAt(Best) /\ now < due
    BY DEF Rested, TokenInv, TimerIsSet
  <2>2. Current = Best
    BY DEF Current, Best, FindToken, HasNext
  <2>3. ExpiresAt(Best) \in Nat
    BY FoundIsLongest DEF Best
  <2>4. QED
    BY <2>1, <2>2, <2>3 DEF TypeOK
<1>2. QED
  BY <1>1, TokenInvariant, PTL DEF Inv

LEMMA StoreKeepsFound ==
  ASSUME TypeOK, TokenInv, Alive(secret.primary), pc = "store", chosen \in {NoState, state},
         secret' = Stored(secret, fresh, chosen), UNCHANGED <<now, expiry, state>>
  PROVE  ExpiresAt(Current)' >= ExpiresAt(Current)
<1> USE TokenAssumption
<1>1. chosen = state /\ fresh \in DOMAIN expiry /\ expiry[fresh] = now + TTL /\ fresh # NoToken
  BY DEF TokenInv, FreshIsNew
<1>2. now \in Nat /\ now + TTL \in Nat /\ now < now + TTL /\ now + TTL # 0
  BY DEF TypeOK
<1>3. secret'.primary = secret.primary /\ secret'.next = fresh /\ secret'.state = state
  BY <1>1 DEF Stored, TypeOK, Secret
<1>4. HasNext(secret, state)' /\ ExpiresAt(secret.next)' = now + TTL
  BY <1>1, <1>2, <1>3 DEF HasNext, Alive, ExpiresAt, NeverExpires
<1>5. ExpiresAt(secret.primary)' = ExpiresAt(secret.primary) /\ ExpiresAt(secret.primary) \in Nat
  BY <1>2, <1>3 DEF ExpiresAt, TypeOK, TokenInv, TokensExist
<1>6. /\ ExpiresAt(Current)' >= now + TTL
      /\ ExpiresAt(Current)' >= ExpiresAt(secret.primary)
      /\ ExpiresAt(Current)' \in Nat
  <2>1. CASE now + TTL > ExpiresAt(secret.primary)
    <3>1. Current' = secret'.next
      BY <1>4, <1>5, <2>1 DEF Current, FindToken
    <3>2. ExpiresAt(Current)' = now + TTL
      BY <1>4, <3>1 DEF ExpiresAt
    <3>3. QED
      BY <1>2, <1>5, <2>1, <3>2
  <2>2. CASE ~(now + TTL > ExpiresAt(secret.primary))
    <3>1. Alive(secret.primary)'
      BY <1>3 DEF Alive
    <3>2. Current' = secret'.primary
      BY <1>4, <1>5, <2>2, <3>1 DEF Current, FindToken
    <3>3. ExpiresAt(Current)' = ExpiresAt(secret.primary)
      BY <1>5, <3>2 DEF ExpiresAt
    <3>4. QED
      BY <1>2, <1>5, <2>2, <3>3
  <2>3. QED
    BY <2>1, <2>2
<1>7. \/ Current = secret.primary
      \/ Current = secret.next /\ HasNext(secret, state)
  BY FoundIsLongest DEF Current
<1>8. HasNext(secret, state) =>
         ExpiresAt(secret.next) \in Nat /\ ExpiresAt(secret.next) <= now + TTL
  BY <1>2 DEF HasNext, TokenInv, TokensExist, ExpiresAt, TypeOK
<1>9. QED
  BY <1>2, <1>5, <1>6, <1>7, <1>8

\* What a reader finds never gets shorter-lived.
THEOREM NeverShortens == Spec => FoundNeverShortens
<1>1. TypeOK /\ TokenInv /\ [Next]_vars =>
        [/\ Alive(secret.primary)' /\ secret'.primary = secret.primary
         /\ state' = state /\ chosen \in {NoState, state}
         => ExpiresAt(Current)' >= ExpiresAt(Current)]_vars
  <2> SUFFICES ASSUME TypeOK, TokenInv, [Next]_vars,
                      Alive(secret.primary)', secret'.primary = secret.primary,
                      state' = state, chosen \in {NoState, state}
               PROVE  ExpiresAt(Current)' >= ExpiresAt(Current)
    OBVIOUS
  <2>1. /\ secret.primary \in DOMAIN expiry
        /\ secret.next # NoToken => secret.next \in DOMAIN expiry
    BY DEF TokenInv, TokensExist
  <2>2. CASE now' = now /\ secret' = secret
    <3>1. Alive(secret.primary)
      BY <2>1, <2>2, ExpiryGrows DEF Alive
    <3>2. ExpiresAt(Current) \in Nat /\ Current \in DOMAIN expiry
      BY <3>1, FoundIsLongest DEF Current
    <3>3. Current' = Current
      BY <2>1, <2>2, ExpiryGrows DEF Current, FindToken, HasNext, Alive, ExpiresAt
    <3>4. QED
      BY <2>2, <3>2, <3>3, ExpiryGrows DEF ExpiresAt
  <2>3. CASE Tick
    BY <2>3, TickKeepsFound DEF Current
  <2>4. CASE /\ pc = "store" /\ secret' = Stored(secret, fresh, chosen)
             /\ UNCHANGED <<now, expiry>>
    <3>1. Alive(secret.primary)
      BY <2>4 DEF Alive
    <3>2. QED
      BY <2>4, <3>1, StoreKeepsFound
  <2>5. ~ReplacePrimary
    <3>1. SUFFICES ASSUME ReplacePrimary PROVE FALSE
      OBVIOUS
    <3>2. PICK e \in FirstExpiries : expiry' = Append(expiry, e)
      BY <3>1 DEF ReplacePrimary
    <3>3. secret'.primary = Len(expiry') /\ expiry \in Seq(Nat)
      BY <3>1 DEF ReplacePrimary, TypeOK, Secret
    <3>4. QED
      BY <2>1, <3>2, <3>3
  <2>6. QED
    BY <2>2, <2>3, <2>4, <2>5 DEF Next, Step, ChangeState, Deliver, Resync, Timer, Start, Decide, Exit,
       Create, Store, Fault, LookupFault, Restart, vars
<1>2. QED
  BY <1>1, TokenInvariant, PTL DEF Spec, Inv, FoundNeverShortens

\* Undisturbed, the refresher leaks no token, and each disturbance costs two at
\* most: what is leaked and what is at stake never exceed it.
THEOREM LeaksArePaid == Spec => []LeaksAreAccounted
<1>1. TypeOK /\ LeakInv => LeaksAreAccounted
  <2> SUFFICES ASSUME TypeOK, LeakInv PROVE LeaksAreAccounted
    OBVIOUS
  <2>1. IsFiniteSet(Leaked)
    BY LeakedFinite DEF LeakInv
  <2>2. PICK l \in Nat : l = Cardinality(Leaked)
    BY <2>1, OneMore
  <2>3. PICK p \in Nat : p = faults + crashes + resyncs + changes + replacements
    BY DEF TypeOK
  <2>4. PICK k \in Nat : k = Stake
    BY CostTypes
  <2>5. l <= 2 * p
    BY <2>2, <2>3, <2>4 DEF LeakInv
  <2>6. QED
    BY <2>2, <2>3, <2>5 DEF LeaksAreAccounted
<1>2. QED
  BY <1>1, TokenInvariant, PTL DEF Inv
=============================================================================
