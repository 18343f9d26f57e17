----------------------------- MODULE AuthSession -----------------------------
(***************************************************************************)
(* AuthServiceImpl: token pairs, and the two Redis keys that decide which  *)
(* of them are accepted.  Requests run concurrently; each call of Redis is *)
(* a step of its own, and the errors of Redis are treated as the code      *)
(* treats them, mostly by ignoring them.  A pair is named by its jti, which *)
(* both of its tokens carry.  Other users' keys are disjoint, so there is  *)
(* one user.  Times are ticks; a key of Redis lives while now is before    *)
(* the time the variable holds, and 0 means that it was never written.     *)
(***************************************************************************)
EXTENDS Integers, FiniteSets

CONSTANTS Jtis,        \* what uuid.New() returns, each once
          Calls,       \* the requests in progress at one time
          AccessTTL,   \* JWT_ACCESS_TTL, 15m in application.yaml
          RefreshTTL,  \* JWT_REFRESH_TTL, 168h
          MaxTime,     \* bound: ticks of the clock
          MaxFaults,   \* bound: failures of Redis, and crashes
          Nil

ASSUME AuthAssumption ==
    /\ AccessTTL \in Nat \ {0}
    /\ RefreshTTL \in Nat \ {0}
    /\ MaxTime \in Nat
    /\ MaxFaults \in Nat
    /\ Nil \notin Jtis

VARIABLES
    now,         \* time.Now()
    accessExp,   \* ExpiresAt of the access token of each pair
    refreshExp,  \* ExpiresAt of its refresh token
    refreshKey,  \* when the key refresh:<user>:<jti> expires
    blackKey,    \* when the key blacklist:<jti> expires
    handed,      \* the pairs a response has carried to the peer
    parent,      \* history: the pair each pair was refreshed from, or Nil
    pc,          \* the next Redis call of each request
    old,         \* the jti of its claims
    new,         \* the jti of newTokens
    ttl,         \* the ttl Logout computed
    faults       \* failures so far

redis    == <<refreshKey, blackKey>>
tokens   == <<accessExp, refreshExp, handed, parent>>
requests == <<pc, old, new, ttl>>
vars     == <<now, redis, tokens, requests, faults>>

TypeOK ==
    /\ now \in 0..MaxTime
    /\ accessExp \in [Jtis -> Nat]
    /\ refreshExp \in [Jtis -> Nat]
    /\ refreshKey \in [Jtis -> Nat]
    /\ blackKey \in [Jtis -> Nat]
    /\ handed \in SUBSET Jtis
    /\ parent \in [Jtis -> Jtis \cup {Nil}]
    /\ pc \in [Calls -> {"idle", "login", "active", "black", "delete", "store",
                         "until", "revoke"}]
    /\ old \in [Calls -> Jtis \cup {Nil}]
    /\ new \in [Calls -> Jtis \cup {Nil}]
    /\ ttl \in [Calls -> Int]
    /\ \A k \in Calls : ttl[k] <= AccessTTL
    /\ faults \in 0..MaxFaults

Init ==
    /\ now = 0
    /\ accessExp = [j \in Jtis |-> 0]
    /\ refreshExp = [j \in Jtis |-> 0]
    /\ refreshKey = [j \in Jtis |-> 0]
    /\ blackKey = [j \in Jtis |-> 0]
    /\ handed = {}
    /\ parent = [j \in Jtis |-> Nil]
    /\ pc = [k \in Calls |-> "idle"]
    /\ old = [k \in Calls |-> Nil]
    /\ new = [k \in Calls |-> Nil]
    /\ ttl = [k \in Calls |-> 0]
    /\ faults = 0
-----------------------------------------------------------------------------
Live(expiry) == now < expiry

\* Redis SET with an expiration: go-redis sends none when it is not positive,
\* and the key stays.  No bounded run reaches the time Forever.
Forever == MaxTime + 1
SetKey(d) == IF d > 0 THEN now + d ELSE Forever

\* A call of Redis that answers, or one that fails.  A write that times out but
\* is carried out has the effect of one that answers: nobody reads the error.
Answers == faults' = faults
Fails   == faults < MaxFaults /\ faults' = faults + 1

At(k, place)   == pc[k] = place
Goto(k, place) == pc' = [pc EXCEPT ![k] = place]

\* The request answers and its goroutine is free for another one.
Return(k) ==
    /\ pc' = [pc EXCEPT ![k] = "idle"]
    /\ old' = [old EXCEPT ![k] = Nil]
    /\ new' = [new EXCEPT ![k] = Nil]
    /\ ttl' = [ttl EXCEPT ![k] = 0]

FreshJti == CHOOSE j \in Jtis : refreshExp[j] = 0

\* GenerateTokens: one jti and one time for both tokens.
GenerateTokens(k) ==
    /\ \E j \in Jtis : refreshExp[j] = 0
    /\ accessExp' = [accessExp EXCEPT ![FreshJti] = now + AccessTTL]
    /\ refreshExp' = [refreshExp EXCEPT ![FreshJti] = now + RefreshTTL]
    /\ parent' = [parent EXCEPT ![FreshJti] = old[k]]
    /\ new' = [new EXCEPT ![k] = FreshJti]
-----------------------------------------------------------------------------
\* Mutant: Login answers and stores the refresh token in the background.
Login_AnswersFirst(k) ==
    /\ At(k, "idle")
    /\ GenerateTokens(k)
    /\ handed' = handed \cup {FreshJti}
    /\ Goto(k, "login")
    /\ UNCHANGED <<now, redis, old, ttl, faults>>

\* Login of a user whose password matches, up to the tokens.
Login(k) ==
    /\ At(k, "idle")
    /\ GenerateTokens(k)
    /\ Goto(k, "login")
    /\ UNCHANGED <<now, redis, handed, old, ttl, faults>>

\* Mutant: the key gets the lifetime of the access token.
Store_AccessTTL(k) ==
    \/ /\ Answers
       /\ refreshKey' = [refreshKey EXCEPT ![new[k]] = SetKey(AccessTTL)]
    \/ /\ Fails
       /\ UNCHANGED refreshKey

\* StoreRefreshToken, whose error both callers ignore.
Store(k) ==
    \/ /\ Answers
       /\ refreshKey' = [refreshKey EXCEPT ![new[k]] = SetKey(RefreshTTL)]
    \/ /\ Fails
       /\ UNCHANGED refreshKey

\* The end of Login and of Refresh: the new pair is stored and returned.
Deliver(k) ==
    /\ At(k, "login") \/ At(k, "store")
    /\ Store(k)
    /\ handed' = handed \cup {new[k]}
    /\ Return(k)
    /\ UNCHANGED <<now, blackKey, accessExp, refreshExp, parent>>
-----------------------------------------------------------------------------
\* Refresh: ParseToken accepts a refresh token until it expires.
Refresh(k, j) ==
    /\ At(k, "idle")
    /\ j \in handed
    /\ Live(refreshExp[j])
    /\ old' = [old EXCEPT ![k] = j]
    /\ Goto(k, "active")
    /\ UNCHANGED <<now, redis, tokens, new, ttl, faults>>

\* IsRefreshTokenActive: a key that is absent, and a call that fails, answer
\* ErrUserAlreadyLogout.
CheckActive(k) ==
    /\ At(k, "active")
    /\ \/ /\ Answers
          /\ Live(refreshKey[old[k]])
          /\ Goto(k, "black")
          /\ UNCHANGED <<old, new, ttl>>
       \/ /\ \/ Answers /\ ~Live(refreshKey[old[k]])
             \/ Fails
          /\ Return(k)
    /\ UNCHANGED <<now, redis, tokens>>

\* IsBlacklisted answers yes: ErrUserDisabled.
RefuseBlacklisted(k) ==
    /\ At(k, "black")
    /\ Live(blackKey[old[k]])
    /\ Answers
    /\ Return(k)
    /\ UNCHANGED <<now, redis, tokens>>

\* Mutant: the new pair keeps the jti of the old one.
Renew_SameJti(k) ==
    /\ At(k, "black")
    /\ \/ Answers /\ ~Live(blackKey[old[k]])
       \/ Fails
    /\ accessExp' = [accessExp EXCEPT ![old[k]] = now + AccessTTL]
    /\ refreshExp' = [refreshExp EXCEPT ![old[k]] = now + RefreshTTL]
    /\ new' = [new EXCEPT ![k] = old[k]]
    /\ Goto(k, "delete")
    /\ UNCHANGED <<now, redis, handed, parent, old, ttl>>

\* IsBlacklisted answers no, or fails, which Refresh takes for no: the new
\* pair is generated.
Renew(k) ==
    /\ At(k, "black")
    /\ \/ Answers /\ ~Live(blackKey[old[k]])
       \/ Fails
    /\ GenerateTokens(k)
    /\ Goto(k, "delete")
    /\ UNCHANGED <<now, redis, handed, old, ttl>>

\* Mutant: the jti passed is that of the new pair.
DeleteOld_NewJti(k) ==
    /\ At(k, "delete")
    /\ \/ /\ Answers
          /\ refreshKey' = [refreshKey EXCEPT ![new[k]] = 0]
       \/ /\ Fails
          /\ UNCHANGED refreshKey
    /\ Goto(k, "store")
    /\ UNCHANGED <<now, blackKey, tokens, old, new, ttl>>

\* DeleteRefreshToken of the old pair; an error is ignored.
DeleteOld(k) ==
    /\ At(k, "delete")
    /\ \/ /\ Answers
          /\ refreshKey' = [refreshKey EXCEPT ![old[k]] = 0]
       \/ /\ Fails
          /\ UNCHANGED refreshKey
    /\ Goto(k, "store")
    /\ UNCHANGED <<now, blackKey, tokens, old, new, ttl>>
-----------------------------------------------------------------------------
\* JwtMiddleware in front of Logout: the access token has not expired and is
\* not blacklisted.  A failure of Redis here answers 500 and changes nothing.
Logout(k, j) ==
    /\ At(k, "idle")
    /\ j \in handed
    /\ Live(accessExp[j])
    /\ ~Live(blackKey[j])
    /\ old' = [old EXCEPT ![k] = j]
    /\ Goto(k, "until")
    /\ UNCHANGED <<now, redis, tokens, new, ttl, faults>>

\* Mutant: the lifetime left is that of the refresh token.
Until_RefreshToken(k) ==
    /\ At(k, "until")
    /\ ttl' = [ttl EXCEPT ![k] = refreshExp[old[k]] - now]
    /\ Goto(k, "revoke")
    /\ UNCHANGED <<now, redis, tokens, old, new, faults>>

\* Mutant: the lifetime left is rounded down.
Until_RoundsDown(k) ==
    /\ At(k, "until")
    /\ ttl' = [ttl EXCEPT ![k] = accessExp[old[k]] - now - 1]
    /\ Goto(k, "revoke")
    /\ UNCHANGED <<now, redis, tokens, old, new, faults>>

\* Logout: ttl := time.Until(claims.ExpiresAt.Time), negative once it passed.
Until(k) ==
    /\ At(k, "until")
    /\ ttl' = [ttl EXCEPT ![k] = accessExp[old[k]] - now]
    /\ Goto(k, "revoke")
    /\ UNCHANGED <<now, redis, tokens, old, new, faults>>

\* BlacklistToken; the handler answers success whether or not it failed.
Blacklist(k) ==
    /\ At(k, "revoke")
    /\ \/ /\ Answers
          /\ blackKey' = [blackKey EXCEPT ![old[k]] = SetKey(ttl[k])]
       \/ /\ Fails
          /\ UNCHANGED blackKey
    /\ Return(k)
    /\ UNCHANGED <<now, refreshKey, tokens>>
-----------------------------------------------------------------------------
Tick ==
    /\ now < MaxTime
    /\ now' = now + 1
    /\ UNCHANGED <<redis, tokens, requests, faults>>

\* The process stops and starts again: the requests are gone, Redis stays.
Crash ==
    /\ \E k \in Calls : ~At(k, "idle")
    /\ Fails
    /\ pc' = [k \in Calls |-> "idle"]
    /\ old' = [k \in Calls |-> Nil]
    /\ new' = [k \in Calls |-> Nil]
    /\ ttl' = [k \in Calls |-> 0]
    /\ UNCHANGED <<now, redis, tokens>>

Next ==
    \/ \E k \in Calls :
          \/ Login(k) \/ Deliver(k)
          \/ CheckActive(k) \/ RefuseBlacklisted(k) \/ Renew(k) \/ DeleteOld(k)
          \/ Until(k) \/ Blacklist(k)
          \/ \E j \in Jtis : Refresh(k, j) \/ Logout(k, j)
    \/ Tick
    \/ Crash

Spec == Init /\ [][Next]_vars
-----------------------------------------------------------------------------
\* The pairs a refresh of j has handed to the peer.
Successors(j) == {k \in handed : parent[k] = j}

\* As long as Redis answers and the process runs, a peer is never logged out by
\* the service: whatever interleaving of refreshes and ticks, a pair it holds
\* whose refresh token has not expired is still in Redis, or is being replaced,
\* or has been replaced by a pair it holds too.
SessionSurvives ==
    faults = 0 =>
        \A j \in handed :
            Live(refreshExp[j]) =>
                \/ Live(refreshKey[j])
                \/ \E k \in Calls : pc[k] = "store" /\ old[k] = j
                \/ Successors(j) # {}

\* Unless something failed, a refresh token is spent by the time the peer holds the
\* pair it was exchanged for: only a refresh that passed its check before can hand
\* out another pair for it.
ReplacedIsSpent ==
    faults = 0 => \A j \in handed : Successors(j) # {} => ~Live(refreshKey[j])

\* A refresh token the peer holds that Redis no longer has is never accepted
\* again: no request, late, concurrent or cut short by a failure, writes its key
\* once more.
NoRevival ==
    [][\A j \in handed : ~Live(refreshKey[j]) => ~Live(refreshKey[j])']_vars

\* Once the blacklist entry of a logout is written, JwtMiddleware refuses the
\* access token up to the instant it expires by itself: the entry's lifetime,
\* computed before it is written and possibly overwritten by another logout,
\* never ends first.
RevokedUntilExpiry ==
    \A j \in Jtis : blackKey[j] # 0 /\ Live(accessExp[j]) => Live(blackKey[j])

\* What is left of each pair the peer holds: Redis has the key of a refresh token
\* that has not expired, and JwtMiddleware admits the access token.
Renewable == {j \in handed : Live(refreshExp[j]) /\ Live(refreshKey[j])}
Admitted  == {j \in handed : Live(accessExp[j]) /\ ~Live(blackKey[j])}

Contract == INSTANCE SessionContract
            WITH Pairs <- Jtis, granted <- handed,
                 renewable <- Renewable, admitted <- Admitted

\* The service implements SessionContract: behind all its requests, late or cut
\* short, no pair is handed out twice, and neither of its tokens, once refused,
\* is good again, not when a blacklist entry expires or is written over either.
ContractKept == Contract!Spec
-----------------------------------------------------------------------------
(***************************************************************************)
(* What the comments of the code say and the code does not do.             *)
(***************************************************************************)

\* Refresh is said to rotate: it deletes the old refresh token and stores the
\* new one, so a refresh token is replaced by one pair.
OneSuccessor == \A j \in Jtis : Cardinality(Successors(j)) <= 1

\* DeleteRefreshToken is said to be used at logout: after a logout the session
\* cannot be renewed.
LogoutEndsSession ==
    \A j \in handed :
        blackKey[j] # 0 =>
            ~(Live(refreshExp[j]) /\ Live(refreshKey[j]) /\ ~Live(blackKey[j]))
=============================================================================
