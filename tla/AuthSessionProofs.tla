-------------------------- MODULE AuthSessionProofs --------------------------
(***************************************************************************)
(* AuthSession for any number of requests, pairs, failures and ticks.  The *)
(* argument is about who may write a key: the request that generated a     *)
(* pair is alone in holding it until it delivers it, and it writes the     *)
(* pair's key no earlier than it generated it.                             *)
(***************************************************************************)
EXTENDS AuthSession, TLAPS

Generated(j) == refreshExp[j] # 0

Holding == {"login", "delete", "store"}
Reading == {"active", "black", "delete", "store", "until", "revoke"}

\* What each request holds between two of its steps.
CallInv ==
    /\ \A k \in Calls : pc[k] \in Reading => old[k] \in handed
    /\ \A k \in Calls : pc[k] \in {"idle", "login"} => old[k] = Nil
    /\ \A k \in Calls :
          pc[k] \in Holding =>
             /\ new[k] \in Jtis \ handed
             /\ Generated(new[k])
             /\ refreshExp[new[k]] <= now + RefreshTTL
             /\ parent[new[k]] = old[k]
             /\ refreshKey[new[k]] = 0
    /\ \A k, l \in Calls :
          pc[k] \in Holding /\ pc[l] \in Holding /\ new[k] = new[l] => k = l
    /\ \A k \in Calls :
          pc[k] = "revoke" => now + ttl[k] >= accessExp[old[k]]

\* Only generated pairs are handed out or have keys.
TokenInv ==
    /\ \A j \in handed : Generated(j)
    /\ \A j \in Jtis : ~Generated(j) => refreshKey[j] = 0 /\ blackKey[j] = 0
    /\ \A j \in Jtis : accessExp[j] <= now + AccessTTL

\* A blacklist entry outlives the access token.
BlackInv ==
    \A j \in Jtis : blackKey[j] # 0 => \/ blackKey[j] >= accessExp[j]
                                       \/ blackKey[j] > MaxTime

\* The key of a pair outlives its refresh token, or a request took it.
SessionInv ==
    faults = 0 =>
        \A j \in handed :
            \/ refreshKey[j] >= refreshExp[j]
            \/ \E k \in Calls : pc[k] = "store" /\ old[k] = j
            \/ Successors(j) # {}

AuthInv == TypeOK /\ CallInv /\ TokenInv /\ BlackInv /\ SessionInv

LEMMA InitAuth == Init => AuthInv
BY AuthAssumption
   DEF Init, AuthInv, TypeOK, CallInv, TokenInv, BlackInv, SessionInv, Holding, Reading,
       Generated
-----------------------------------------------------------------------------
\* A request that does not touch the tokens, the keys or the clock.
LEMMA QuietAuth ==
    ASSUME AuthInv, TypeOK', NEW k \in Calls,
           UNCHANGED <<now, redis, tokens>>, faults' >= faults,
           \A l \in Calls : l # k => /\ pc'[l] = pc[l] /\ old'[l] = old[l]
                                     /\ new'[l] = new[l] /\ ttl'[l] = ttl[l],
           pc[k] = "store" => faults' > faults,
           pc'[k] \notin Holding,
           pc'[k] \in Reading => old'[k] \in handed,
           pc'[k] = "idle" => old'[k] = Nil,
           pc'[k] = "revoke" => now + ttl'[k] >= accessExp[old'[k]]
    PROVE  AuthInv'
<1>1. CallInv'
  BY DEF AuthInv, CallInv, TypeOK, redis, tokens, Generated, Holding, Reading
<1>2. TokenInv' /\ BlackInv'
  BY DEF AuthInv, TokenInv, BlackInv, redis, tokens, Generated
<1>3. SessionInv'
  <2>1. SUFFICES ASSUME faults' = 0, NEW j \in handed
                 PROVE  \/ refreshKey[j] >= refreshExp[j]
                        \/ \E l \in Calls : pc'[l] = "store" /\ old'[l] = j
                        \/ Successors(j) # {}
    BY DEF SessionInv, redis, tokens, Successors
  <2>2. faults = 0 /\ pc[k] # "store"
    BY <2>1 DEF AuthInv, TypeOK
  <2>3. QED
    BY <2>1, <2>2 DEF AuthInv, SessionInv
<1>4. QED
  BY <1>1, <1>2, <1>3 DEF AuthInv

\* A request that generates a pair: Login, and Refresh once it has checked.
LEMMA GenerateAuth ==
    ASSUME AuthInv, TypeOK', NEW k \in Calls, GenerateTokens(k), faults' >= faults,
           UNCHANGED <<now, redis, handed, old, ttl>>,
           \/ pc[k] = "idle" /\ pc' = [pc EXCEPT ![k] = "login"]
           \/ pc[k] = "black" /\ pc' = [pc EXCEPT ![k] = "delete"]
    PROVE  AuthInv'
<1>1. PICK f \in Jtis : f = FreshJti /\ ~Generated(f)
  BY DEF GenerateTokens, FreshJti, Generated
<1>2. /\ accessExp' = [accessExp EXCEPT ![f] = now + AccessTTL]
      /\ refreshExp' = [refreshExp EXCEPT ![f] = now + RefreshTTL]
      /\ parent' = [parent EXCEPT ![f] = old[k]]
      /\ new' = [new EXCEPT ![k] = f]
  BY <1>1 DEF GenerateTokens
<1>3. /\ f \notin handed /\ refreshKey[f] = 0 /\ blackKey[f] = 0
      /\ \A l \in Calls : pc[l] \in Holding => new[l] # f
      /\ \A l \in Calls : pc[l] \in Reading => old[l] # f
  BY <1>1 DEF AuthInv, CallInv, TokenInv, TypeOK
<1>4. /\ now \in Nat /\ AccessTTL \in Nat /\ RefreshTTL \in Nat \ {0}
      /\ accessExp \in [Jtis -> Nat] /\ refreshExp \in [Jtis -> Nat]
      /\ parent \in [Jtis -> Jtis \cup {Nil}]
  BY AuthAssumption DEF AuthInv, TypeOK
<1>5. /\ \A j \in Jtis : j # f => /\ accessExp'[j] = accessExp[j]
                                  /\ refreshExp'[j] = refreshExp[j]
                                  /\ parent'[j] = parent[j]
      /\ accessExp'[f] = now + AccessTTL
      /\ refreshExp'[f] = now + RefreshTTL /\ refreshExp'[f] # 0
      /\ parent'[f] = old[k]
  BY <1>2, <1>4
<1>6. /\ \A l \in Calls : l # k => pc'[l] = pc[l] /\ new'[l] = new[l]
      /\ pc'[k] \in {"login", "delete"} /\ new'[k] = f
      /\ pc'[k] = "login" => pc[k] = "idle"
      /\ pc'[k] = "delete" => pc[k] = "black"
  BY <1>2 DEF AuthInv, TypeOK
<1>7. CallInv'
  BY <1>3, <1>4, <1>5, <1>6 DEF AuthInv, CallInv, Generated, Holding, Reading, redis, TypeOK
<1>8. TokenInv' /\ BlackInv'
  BY <1>1, <1>3, <1>4, <1>5 DEF AuthInv, TokenInv, BlackInv, Generated, redis, TypeOK
<1>9. SessionInv'
  <2>1. SUFFICES ASSUME faults' = 0, NEW j \in handed
                 PROVE  \/ refreshKey[j] >= refreshExp'[j]
                        \/ \E l \in Calls : pc'[l] = "store" /\ old[l] = j
                        \/ Successors(j)' # {}
    BY DEF SessionInv, redis
  <2>2. faults = 0 /\ refreshExp'[j] = refreshExp[j]
    BY <1>3, <1>5, <2>1 DEF AuthInv, TypeOK
  <2>3. Successors(j)' = Successors(j)
    BY <1>3, <1>5 DEF Successors, AuthInv, TypeOK
  <2>4. \A l \in Calls : pc[l] = "store" => pc'[l] = "store"
    BY <1>6
  <2>5. QED
    BY <2>2, <2>3, <2>4 DEF AuthInv, SessionInv
<1>10. QED
  BY <1>7, <1>8, <1>9 DEF AuthInv

\* The pair is stored, and only then handed out.
LEMMA DeliverAuth ==
    ASSUME AuthInv, TypeOK', NEW k \in Calls, Deliver(k)
    PROVE  AuthInv'
<1>1. PICK n \in Jtis : n = new[k]
  BY DEF Deliver, At, AuthInv, CallInv, Holding
<1>2. /\ n \notin handed /\ Generated(n) /\ refreshExp[n] <= now + RefreshTTL
      /\ parent[n] = old[k] /\ pc[k] \in {"login", "store"}
      /\ \A l \in Calls : pc[l] \in Holding /\ new[l] = n => l = k
  BY <1>1 DEF Deliver, At, AuthInv, CallInv, Holding
<1>3. /\ \A j \in Jtis : j # n => refreshKey'[j] = refreshKey[j]
      /\ \/ faults' > faults
         \/ faults' = faults /\ refreshKey'[n] = now + RefreshTTL
      /\ handed' = handed \cup {n}
      /\ UNCHANGED <<now, blackKey, accessExp, refreshExp, parent>>
  BY <1>1, AuthAssumption DEF Deliver, Store, Answers, Fails, SetKey, AuthInv, TypeOK
<1>4. /\ pc'[k] = "idle" /\ old'[k] = Nil
      /\ \A l \in Calls : l # k => /\ pc'[l] = pc[l] /\ old'[l] = old[l]
                                   /\ new'[l] = new[l] /\ ttl'[l] = ttl[l]
  BY DEF Deliver, Return, AuthInv, TypeOK
<1>5. CallInv'
  BY <1>2, <1>3, <1>4 DEF AuthInv, CallInv, Generated, Holding, Reading
<1>6. TokenInv' /\ BlackInv'
  BY <1>2, <1>3 DEF AuthInv, TokenInv, BlackInv, Generated
<1>7. SessionInv'
  <2>1. SUFFICES ASSUME faults' = 0, NEW j \in handed'
                 PROVE  \/ refreshKey'[j] >= refreshExp[j]
                        \/ \E l \in Calls : pc'[l] = "store" /\ old'[l] = j
                        \/ Successors(j)' # {}
    BY <1>3 DEF SessionInv
  <2>2. faults = 0 /\ refreshKey'[n] = now + RefreshTTL
    BY <1>3, <2>1 DEF AuthInv, TypeOK
  <2>3. CASE j = n
    BY <1>2, <2>2, <2>3
  <2>4. CASE j \in handed
    <3>1. CASE refreshKey[j] >= refreshExp[j]
      BY <1>2, <1>3, <2>4, <3>1 DEF AuthInv, TypeOK
    <3>2. CASE Successors(j) # {}
      BY <1>3, <3>2 DEF Successors
    <3>3. CASE \E l \in Calls : pc[l] = "store" /\ old[l] = j
      <4>1. PICK l \in Calls : pc[l] = "store" /\ old[l] = j
        BY <3>3
      <4>2. CASE l = k
        BY <1>2, <1>3, <4>1, <4>2 DEF Successors
      <4>3. CASE l # k
        BY <1>4, <4>1, <4>3
      <4>4. QED
        BY <4>2, <4>3
    <3>4. QED
      BY <2>2, <2>4, <3>1, <3>2, <3>3 DEF AuthInv, SessionInv
  <2>5. QED
    BY <1>3, <2>1, <2>3, <2>4
<1>8. QED
  BY <1>5, <1>6, <1>7 DEF AuthInv

LEMMA DeleteAuth ==
    ASSUME AuthInv, TypeOK', NEW k \in Calls, DeleteOld(k)
    PROVE  AuthInv'
<1>1. PICK j \in handed : j = old[k]
  BY DEF DeleteOld, At, AuthInv, CallInv, Reading
<1>2. /\ \A i \in Jtis : i # j => refreshKey'[i] = refreshKey[i]
      /\ refreshKey'[j] \in {refreshKey[j], 0}
      /\ faults' >= faults
      /\ UNCHANGED <<now, blackKey, tokens, old, new, ttl>>
  BY <1>1 DEF DeleteOld, Answers, Fails, AuthInv, TypeOK
<1>3. /\ pc[k] = "delete" /\ pc'[k] = "store"
      /\ \A l \in Calls : l # k => pc'[l] = pc[l]
  BY DEF DeleteOld, At, Goto, AuthInv, TypeOK
<1>4. CallInv'
  BY <1>1, <1>2, <1>3 DEF AuthInv, CallInv, Generated, Holding, Reading, tokens, TypeOK
<1>5. TokenInv' /\ BlackInv'
  BY <1>1, <1>2 DEF AuthInv, TokenInv, BlackInv, Generated, tokens, TypeOK
<1>6. SessionInv'
  <2>1. SUFFICES ASSUME faults' = 0, NEW i \in handed
                 PROVE  \/ refreshKey'[i] >= refreshExp[i]
                        \/ \E l \in Calls : pc'[l] = "store" /\ old[l] = i
                        \/ Successors(i) # {}
    BY <1>2 DEF SessionInv, tokens, Successors
  <2>2. faults = 0
    BY <1>2, <2>1 DEF AuthInv, TypeOK
  <2>3. CASE i = j
    BY <1>1, <1>3, <2>3
  <2>4. CASE i # j
    BY <1>2, <1>3, <2>2, <2>4 DEF AuthInv, SessionInv, TypeOK
  <2>5. QED
    BY <2>3, <2>4
<1>7. QED
  BY <1>4, <1>5, <1>6 DEF AuthInv

LEMMA BlacklistAuth ==
    ASSUME AuthInv, TypeOK', NEW k \in Calls, Blacklist(k)
    PROVE  AuthInv'
<1>1. PICK j \in handed : j = old[k]
  BY DEF Blacklist, At, AuthInv, CallInv, Reading
<1>2. /\ now \in 0..MaxTime /\ ttl[k] \in Int /\ accessExp[j] \in Nat
      /\ j \in Jtis /\ now + ttl[k] >= accessExp[j]
  BY <1>1 DEF Blacklist, At, AuthInv, CallInv, TypeOK
<1>3. /\ \A i \in Jtis : i # j => blackKey'[i] = blackKey[i]
      /\ blackKey'[j] = blackKey[j] \/ blackKey'[j] = SetKey(ttl[k])
      /\ faults' >= faults
      /\ UNCHANGED <<now, refreshKey, tokens>>
  BY <1>1 DEF Blacklist, Answers, Fails, AuthInv, TypeOK
<1>4. SetKey(ttl[k]) >= accessExp[j] \/ SetKey(ttl[k]) > MaxTime
  BY <1>2, AuthAssumption DEF SetKey, Forever
<1>5. BlackInv'
  BY <1>3, <1>4 DEF AuthInv, BlackInv, tokens
<1>6. TokenInv'
  BY <1>1, <1>3 DEF AuthInv, TokenInv, Generated, tokens
<1>7. /\ pc[k] = "revoke" /\ pc'[k] = "idle" /\ old'[k] = Nil
      /\ \A l \in Calls : l # k => /\ pc'[l] = pc[l] /\ old'[l] = old[l]
                                   /\ new'[l] = new[l] /\ ttl'[l] = ttl[l]
  BY DEF Blacklist, At, Return, AuthInv, TypeOK
<1>8. CallInv'
  BY <1>3, <1>7 DEF AuthInv, CallInv, Generated, Holding, Reading, tokens
<1>9. SessionInv'
  <2>1. faults' = 0 => faults = 0
    BY <1>3 DEF AuthInv, TypeOK
  <2>2. QED
    BY <1>3, <1>7, <2>1 DEF AuthInv, SessionInv, Successors, tokens
<1>10. QED
  BY <1>5, <1>6, <1>8, <1>9 DEF AuthInv

LEMMA TickAuth ==
    ASSUME AuthInv, TypeOK', Tick
    PROVE  AuthInv'
<1>1. /\ now' = now + 1 /\ now \in Nat /\ AccessTTL \in Nat /\ RefreshTTL \in Nat
      /\ UNCHANGED <<redis, tokens, requests, faults>>
  BY AuthAssumption DEF Tick, AuthInv, TypeOK
<1>2. CallInv'
  <2>1. ASSUME NEW k \in Calls, pc[k] \in Holding
        PROVE  refreshExp[new[k]] <= now + 1 + RefreshTTL
    BY <1>1, <2>1 DEF AuthInv, CallInv, TypeOK
  <2>2. ASSUME NEW k \in Calls, pc[k] = "revoke"
        PROVE  now + 1 + ttl[k] >= accessExp[old[k]]
    <3>1. old[k] \in Jtis
      BY <2>2 DEF AuthInv, CallInv, TypeOK, Reading
    <3>2. QED
      BY <1>1, <2>2, <3>1 DEF AuthInv, CallInv, TypeOK
  <2>3. QED
    BY <1>1, <2>1, <2>2 DEF AuthInv, CallInv, Generated, redis, tokens, requests
<1>3. TokenInv' /\ BlackInv' /\ SessionInv'
  BY <1>1 DEF AuthInv, TokenInv, BlackInv, SessionInv, Successors, Generated, redis, tokens,
              requests, TypeOK
<1>4. QED
  BY <1>2, <1>3 DEF AuthInv

LEMMA CrashAuth ==
    ASSUME AuthInv, TypeOK', Crash
    PROVE  AuthInv'
BY DEF Crash, Fails, AuthInv, TypeOK, CallInv, TokenInv, BlackInv, SessionInv, Generated,
       Holding, Reading, redis, tokens
-----------------------------------------------------------------------------
LEMMA StepTypes ==
    ASSUME AuthInv, Next
    PROVE  TypeOK'
<1> USE AuthAssumption DEF AuthInv, TypeOK, redis, tokens, requests
<1>1. ASSUME NEW k \in Calls, Return(k), UNCHANGED <<now, accessExp, refreshExp, parent>>,
             refreshKey' \in [Jtis -> Nat], blackKey' \in [Jtis -> Nat],
             handed' \in SUBSET Jtis, faults' \in 0..MaxFaults
      PROVE  TypeOK'
  BY <1>1 DEF Return
<1>2. ASSUME NEW k \in Calls, GenerateTokens(k), UNCHANGED <<now, redis, handed, old, ttl>>,
             faults' \in 0..MaxFaults, Goto(k, "login") \/ Goto(k, "delete")
      PROVE  TypeOK'
  <2>1. FreshJti \in Jtis
    BY <1>2 DEF GenerateTokens, FreshJti
  <2>2. QED
    BY <1>2, <2>1 DEF GenerateTokens, Goto
<1>3. ASSUME NEW k \in Calls
      PROVE  (Answers \/ Fails) => faults' \in 0..MaxFaults
  BY DEF Answers, Fails
<1>4. ASSUME NEW d \in Int
      PROVE  SetKey(d) \in Nat
  BY DEF SetKey, Forever
<1>5. ASSUME NEW k \in Calls, Login(k) \/ Renew(k)
      PROVE  TypeOK'
  BY <1>2, <1>3, <1>5 DEF Login, Renew, Answers
<1>6. ASSUME NEW k \in Calls, Deliver(k)
      PROVE  TypeOK'
  <2>1. new[k] \in Jtis
    BY <1>6 DEF Deliver, At, CallInv, Holding
  <2>2. refreshKey' \in [Jtis -> Nat]
    BY <1>4, <1>6 DEF Deliver, Store
  <2>3. QED
    BY <1>1, <1>3, <1>6, <2>1, <2>2 DEF Deliver, Store
<1>7. ASSUME NEW k \in Calls, CheckActive(k) \/ RefuseBlacklisted(k)
      PROVE  TypeOK'
  <2>1. CASE Return(k)
    BY <1>1, <1>3, <1>7, <2>1 DEF CheckActive, RefuseBlacklisted
  <2>2. CASE Goto(k, "black") /\ UNCHANGED <<now, redis, tokens, old, new, ttl>> /\ Answers
    BY <2>2 DEF Goto, Answers
  <2>3. QED
    BY <1>7, <2>1, <2>2 DEF CheckActive, RefuseBlacklisted
<1>8. ASSUME NEW k \in Calls, DeleteOld(k)
      PROVE  TypeOK'
  BY <1>3, <1>8 DEF DeleteOld, Goto
<1>9. ASSUME NEW k \in Calls, NEW j \in Jtis, Refresh(k, j) \/ Logout(k, j)
      PROVE  TypeOK'
  BY <1>9 DEF Refresh, Logout, Goto
<1>10. ASSUME NEW k \in Calls, Until(k)
       PROVE  TypeOK'
  <2>1. old[k] \in Jtis /\ accessExp[old[k]] <= now + AccessTTL
    BY <1>10 DEF Until, At, CallInv, Reading, TokenInv
  <2>2. accessExp[old[k]] - now \in Int /\ accessExp[old[k]] - now <= AccessTTL
    BY <2>1
  <2>3. QED
    BY <1>10, <2>2 DEF Until, Goto
<1>11. ASSUME NEW k \in Calls, Blacklist(k)
       PROVE  TypeOK'
  <2>1. blackKey' \in [Jtis -> Nat]
    BY <1>4, <1>11 DEF Blacklist
  <2>2. QED
    BY <1>1, <1>3, <1>11, <2>1 DEF Blacklist
<1>12. CASE Tick \/ Crash
  BY <1>12 DEF Tick, Crash, Fails
<1>13. QED
  BY <1>5, <1>6, <1>7, <1>8, <1>9, <1>10, <1>11, <1>12 DEF Next

LEMMA StepAuth ==
    ASSUME AuthInv, [Next]_vars
    PROVE  AuthInv'
<1>1. CASE UNCHANGED vars
  BY <1>1 DEF vars, redis, tokens, requests, AuthInv, TypeOK, CallInv, TokenInv, BlackInv,
              SessionInv, Successors, Generated
<1>2. CASE Next
  <2>1. TypeOK'
    BY <1>2, StepTypes
  <2>2. ASSUME NEW k \in Calls, Login(k) \/ Renew(k)
        PROVE  AuthInv'
    BY <2>1, <2>2, GenerateAuth
       DEF Login, Renew, At, Goto, Answers, Fails, AuthInv, TypeOK
  <2>3. ASSUME NEW k \in Calls, CheckActive(k) \/ RefuseBlacklisted(k)
        PROVE  AuthInv'
    BY <2>1, <2>3, QuietAuth
       DEF CheckActive, RefuseBlacklisted, At, Goto, Return, Answers, Fails, AuthInv, TypeOK,
           CallInv, Holding, Reading
  <2>4. ASSUME NEW k \in Calls, NEW j \in Jtis, Refresh(k, j) \/ Logout(k, j)
        PROVE  AuthInv'
    BY <2>1, <2>4, QuietAuth
       DEF Refresh, Logout, At, Goto, AuthInv, TypeOK, CallInv, Holding, Reading
  <2>5. ASSUME NEW k \in Calls, Until(k)
        PROVE  AuthInv'
    <3>1. old[k] \in handed /\ old[k] \in Jtis
      BY <2>5 DEF Until, At, AuthInv, CallInv, TypeOK, Reading
    <3>2. /\ now + ttl'[k] >= accessExp[old[k]]
          /\ pc[k] = "until" /\ pc'[k] = "revoke"
          /\ \A l \in Calls : l # k => pc'[l] = pc[l] /\ ttl'[l] = ttl[l]
          /\ UNCHANGED <<now, redis, tokens, old, new, faults>>
      BY <2>5, <3>1 DEF Until, At, Goto, AuthInv, TypeOK
    <3>3. QED
      BY <2>1, <3>1, <3>2, QuietAuth DEF Holding, AuthInv, TypeOK
  <2>6. QED
    BY <1>2, <2>1, <2>2, <2>3, <2>4, <2>5, DeliverAuth, DeleteAuth, BlacklistAuth, TickAuth,
       CrashAuth DEF Next
<1>3. QED
  BY <1>1, <1>2
-----------------------------------------------------------------------------
\* The variables keep their types, and a logout never computes a lifetime longer
\* than that of an access token.
THEOREM AuthTypeCorrect == Spec => []TypeOK
<1>1. AuthInv => TypeOK
  BY DEF AuthInv
<1>2. QED
  BY <1>1, InitAuth, StepAuth, PTL DEF Spec

\* For any number of requests, failures and crashes: a blacklist entry that was
\* written lasts until the access token it names has expired.
THEOREM RevokedUntilExpiryAlways == Spec => []RevokedUntilExpiry
<1>1. AuthInv => RevokedUntilExpiry
  BY AuthAssumption DEF AuthInv, TypeOK, BlackInv, RevokedUntilExpiry, Live
<1>2. QED
  BY <1>1, InitAuth, StepAuth, PTL DEF Spec

\* As long as nothing fails, refreshes in any number and order never lose the
\* session of a pair whose refresh token is still valid.
THEOREM SessionSurvivesAlways == Spec => []SessionSurvives
<1>1. AuthInv => SessionSurvives
  BY DEF AuthInv, TypeOK, SessionInv, SessionSurvives, Live
<1>2. QED
  BY <1>1, InitAuth, StepAuth, PTL DEF Spec

\* No step, of any request and after any failure, writes the key of a pair that
\* was already handed out: once gone, it stays gone.
THEOREM NoRevivalAlways == Spec => NoRevival
<1>1. ASSUME AuthInv, [Next]_vars, NEW j \in handed, ~Live(refreshKey[j])
      PROVE  ~Live(refreshKey[j])'
  <2>1. now' \in {now, now + 1}
    BY <1>1 DEF AuthInv, TypeOK, Next, Login, Deliver, CheckActive, RefuseBlacklisted, Renew,
                DeleteOld, Until, Blacklist, Refresh, Logout, Tick, Crash, vars
  <2>2. refreshKey'[j] \in {refreshKey[j], 0}
    <3>1. ASSUME NEW k \in Calls, Deliver(k)
          PROVE  refreshKey'[j] = refreshKey[j]
      <4>1. new[k] # j
        BY <1>1, <3>1 DEF Deliver, At, AuthInv, CallInv, Holding
      <4>2. QED
        BY <1>1, <3>1, <4>1 DEF Deliver, Store, AuthInv, TypeOK
    <3>2. ASSUME NEW k \in Calls, DeleteOld(k)
          PROVE  refreshKey'[j] \in {refreshKey[j], 0}
      BY <1>1, <3>2 DEF DeleteOld, AuthInv, TypeOK
    <3>3. ASSUME \A k \in Calls : ~Deliver(k) /\ ~DeleteOld(k)
          PROVE  refreshKey' = refreshKey
      BY <1>1, <3>3 DEF Next, Login, CheckActive, RefuseBlacklisted, Renew, Until, Blacklist,
                Refresh, Logout, Tick, Crash, vars, redis
    <3>4. QED
      BY <3>1, <3>2, <3>3
  <2>3. QED
    BY <1>1, <2>1, <2>2, AuthAssumption DEF Live, AuthInv, TypeOK
<1>2. ASSUME AuthInv, [Next]_vars
      PROVE  [\A j \in handed : ~Live(refreshKey[j]) => ~Live(refreshKey[j])']_vars
  BY <1>1, <1>2
<1>3. QED
  BY <1>2, InitAuth, StepAuth, PTL DEF Spec, NoRevival
-----------------------------------------------------------------------------
(***************************************************************************)
(* Why a replaced refresh token is spent: a pair descends from one that    *)
(* was handed out, and the request that is about to store it has already   *)
(* deleted the key of the one it descends from, which nobody writes again. *)
(***************************************************************************)
Lineage == \A j \in handed : parent[j] \in handed \cup {Nil}

SpentInv ==
    faults = 0 =>
        /\ \A k \in Calls : pc[k] = "store" => refreshKey[old[k]] = 0
        /\ \A j \in handed : Successors(j) # {} => refreshKey[j] = 0

ReplaceInv == Lineage /\ SpentInv

LEMMA InitReplace == Init => ReplaceInv
BY DEF Init, ReplaceInv, Lineage, SpentInv

\* The pair delivered is a successor of its parent and has none itself.
LEMMA DeliverReplace ==
    ASSUME AuthInv, ReplaceInv, NEW k \in Calls, Deliver(k)
    PROVE  ReplaceInv'
<1>1. PICK n \in Jtis : n = new[k] /\ n \notin handed /\ parent[n] = old[k]
  BY DEF Deliver, At, AuthInv, CallInv, Holding
<1>2. /\ old[k] \in handed \cup {Nil} /\ pc[k] \in {"login", "store"}
      /\ pc[k] = "login" => old[k] = Nil
  BY DEF Deliver, At, AuthInv, CallInv, Reading
<1>3. /\ \A j \in handed : refreshKey'[j] = refreshKey[j]
      /\ handed' = handed \cup {n} /\ parent' = parent /\ faults' >= faults
  BY <1>1 DEF Deliver, Store, Answers, Fails, AuthInv, TypeOK
<1>4. \A l \in Calls : pc'[l] = "store" => pc[l] = "store" /\ old'[l] = old[l]
  BY DEF Deliver, Return, AuthInv, TypeOK
<1>5. Lineage'
  BY <1>1, <1>2, <1>3 DEF ReplaceInv, Lineage
<1>6. SpentInv'
  <2>1. SUFFICES ASSUME faults' = 0
                 PROVE  /\ \A l \in Calls : pc'[l] = "store" => refreshKey'[old'[l]] = 0
                        /\ \A j \in handed' : Successors(j)' # {} => refreshKey'[j] = 0
    BY DEF SpentInv
  <2>2. faults = 0
    BY <1>3, <2>1 DEF AuthInv, TypeOK
  <2>3. ASSUME NEW l \in Calls, pc'[l] = "store"
        PROVE  refreshKey'[old'[l]] = 0
    <3>1. old[l] \in handed /\ refreshKey[old[l]] = 0
      BY <1>4, <2>2, <2>3 DEF ReplaceInv, SpentInv, AuthInv, CallInv, Reading
    <3>2. QED
      BY <1>3, <1>4, <2>3, <3>1
  <2>4. Successors(n)' = {}
    BY <1>1, <1>2, <1>3, AuthAssumption DEF ReplaceInv, Lineage, Successors
  <2>5. ASSUME NEW j \in handed, Successors(j)' # {}
        PROVE  refreshKey'[j] = 0
    <3>1. CASE Successors(j) # {}
      BY <1>3, <2>2, <3>1 DEF ReplaceInv, SpentInv
    <3>2. CASE j = old[k]
      <4>1. pc[k] = "store"
        BY <1>2, <3>2, AuthAssumption DEF AuthInv, TypeOK
      <4>2. QED
        BY <1>3, <2>2, <3>2, <4>1 DEF ReplaceInv, SpentInv
    <3>3. QED
      BY <1>1, <1>3, <2>5, <3>1, <3>2 DEF Successors
  <2>6. QED
    BY <1>3, <2>3, <2>4, <2>5
<1>7. QED
  BY <1>5, <1>6 DEF ReplaceInv

\* A request at the deletion leaves it with the key gone, or a failure counted.
LEMMA DeleteReplace ==
    ASSUME AuthInv, ReplaceInv, NEW k \in Calls, DeleteOld(k)
    PROVE  ReplaceInv'
<1>1. PICK i \in handed : i = old[k] /\ i \in Jtis
  BY DEF DeleteOld, At, AuthInv, CallInv, Reading, TypeOK
<1>2. /\ \A j \in Jtis : refreshKey'[j] \in {refreshKey[j], 0}
      /\ \/ refreshKey'[i] = 0 /\ faults' = faults
         \/ faults' > faults
      /\ UNCHANGED <<handed, parent, old>>
  BY <1>1 DEF DeleteOld, Answers, Fails, tokens, AuthInv, TypeOK
<1>3. \A l \in Calls : l # k => pc'[l] = pc[l]
  BY DEF DeleteOld, Goto, AuthInv, TypeOK
<1>4. Lineage'
  BY <1>2 DEF ReplaceInv, Lineage
<1>5. SpentInv'
  <2>1. SUFFICES ASSUME faults' = 0
                 PROVE  /\ \A l \in Calls : pc'[l] = "store" => refreshKey'[old[l]] = 0
                        /\ \A j \in handed : Successors(j) # {} => refreshKey'[j] = 0
    BY <1>2 DEF SpentInv, Successors
  <2>2. faults = 0 /\ refreshKey'[i] = 0
    BY <1>2, <2>1 DEF AuthInv, TypeOK
  <2>3. ASSUME NEW l \in Calls, pc'[l] = "store"
        PROVE  refreshKey'[old[l]] = 0
    <3>1. CASE l = k
      BY <1>1, <2>2, <3>1
    <3>2. CASE l # k
      <4>1. pc[l] = "store" /\ old[l] \in Jtis
        BY <1>3, <2>3, <3>2 DEF AuthInv, CallInv, Reading, TypeOK
      <4>2. QED
        BY <1>2, <2>2, <4>1 DEF ReplaceInv, SpentInv
    <3>3. QED
      BY <3>1, <3>2
  <2>4. ASSUME NEW j \in handed, Successors(j) # {}
        PROVE  refreshKey'[j] = 0
    BY <1>2, <2>2, <2>4 DEF ReplaceInv, SpentInv, AuthInv, TypeOK
  <2>5. QED
    BY <2>3, <2>4
<1>6. QED
  BY <1>4, <1>5 DEF ReplaceInv

LEMMA StepReplace ==
    ASSUME AuthInv, ReplaceInv, [Next]_vars
    PROVE  ReplaceInv'
\* Everything else leaves the keys of refresh tokens alone and takes no request to
\* where it stores a pair.
<1>1. ASSUME refreshKey' = refreshKey, handed' = handed, faults' >= faults,
             \A j \in handed : parent'[j] = parent[j],
             \A l \in Calls : pc'[l] = "store" => pc[l] = "store" /\ old'[l] = old[l]
      PROVE  ReplaceInv'
  <2>1. \A j \in handed : Successors(j)' = Successors(j)
    BY <1>1 DEF Successors
  <2>2. faults' = 0 => faults = 0
    BY <1>1 DEF AuthInv, TypeOK
  <2>3. QED
    BY <1>1, <2>1, <2>2 DEF ReplaceInv, Lineage, SpentInv
<1>2. ASSUME NEW k \in Calls, Login(k) \/ Renew(k)
      PROVE  ReplaceInv'
  <2>1. FreshJti \in Jtis \ handed
    BY <1>2 DEF Login, Renew, GenerateTokens, FreshJti, AuthInv, TokenInv, Generated
  <2>2. \A j \in handed : parent'[j] = parent[j]
    BY <1>2, <2>1 DEF Login, Renew, GenerateTokens, AuthInv, TypeOK
  <2>3. QED
    BY <1>1, <1>2, <2>2 DEF Login, Renew, Goto, Answers, Fails, redis, AuthInv, TypeOK
<1>3. ASSUME NEW k \in Calls,
             \/ CheckActive(k) \/ RefuseBlacklisted(k) \/ Until(k) \/ Blacklist(k)
             \/ \E j \in Jtis : Refresh(k, j) \/ Logout(k, j)
      PROVE  ReplaceInv'
  BY <1>1, <1>3
     DEF CheckActive, RefuseBlacklisted, Until, Blacklist, Refresh, Logout, Goto, Return,
         Answers, Fails, redis, tokens, AuthInv, TypeOK
<1>4. CASE Tick \/ Crash \/ UNCHANGED vars
  BY <1>1, <1>4 DEF Tick, Crash, Fails, vars, redis, tokens, requests, AuthInv, TypeOK
<1>5. QED
  BY <1>2, <1>3, <1>4, DeliverReplace, DeleteReplace DEF Next

\* For any number of concurrent refreshes: unless something failed, no refresh
\* token is still accepted once a pair it was exchanged for has been handed out.
THEOREM ReplacedIsSpentAlways == Spec => []ReplacedIsSpent
<1>1. AuthInv /\ ReplaceInv => ReplacedIsSpent
  BY DEF AuthInv, TypeOK, ReplaceInv, SpentInv, ReplacedIsSpent, Live
<1>2. AuthInv /\ ReplaceInv /\ [Next]_vars => ReplaceInv'
  BY StepReplace
<1>3. QED
  BY <1>1, <1>2, InitAuth, StepAuth, InitReplace, PTL DEF Spec
=============================================================================
