------------------------- MODULE AuthContractProofs -------------------------
(***************************************************************************)
(* AuthSession implements SessionContract, for any number of requests,     *)
(* pairs, failures and ticks.  Only four actions touch what a peer can use *)
(* its pairs for: the delivery of a new pair grants it, the deletion of a  *)
(* key, the blacklist entry of a logout and the clock withdraw uses.       *)
(***************************************************************************)
EXTENDS AuthSessionProofs

\* The variables of the contract, as AuthSession shows them.
LEMMA ContractVars ==
    ASSUME Renewable' = Renewable, Admitted' = Admitted, handed' = handed
    PROVE  UNCHANGED Contract!vars
BY DEF Contract!vars

\* Requests that leave the keys, the clock and the pairs already handed out
\* alone do not show.
LEMMA Unseen ==
    ASSUME UNCHANGED <<now, redis, handed>>,
           \A j \in handed : /\ accessExp'[j] = accessExp[j]
                             /\ refreshExp'[j] = refreshExp[j]
    PROVE  UNCHANGED Contract!vars
BY ContractVars DEF Renewable, Admitted, Live, redis

LEMMA QuietContract ==
    ASSUME AuthInv, NEW k \in Calls,
           \/ CheckActive(k) \/ RefuseBlacklisted(k) \/ Until(k)
           \/ \E j \in Jtis : Refresh(k, j) \/ Logout(k, j)
    PROVE  UNCHANGED Contract!vars
<1>1. UNCHANGED <<now, redis, tokens>>
  BY DEF CheckActive, RefuseBlacklisted, Until, Refresh, Logout
<1>. QED BY <1>1, Unseen DEF tokens

\* A pair that was just generated is nobody's yet.
LEMMA GenerateContract ==
    ASSUME AuthInv, NEW k \in Calls, Login(k) \/ Renew(k)
    PROVE  UNCHANGED Contract!vars
<1>1. PICK f \in Jtis : f = FreshJti /\ ~Generated(f)
  BY DEF Login, Renew, GenerateTokens, FreshJti, Generated
<1>2. f \notin handed
  BY <1>1 DEF AuthInv, TokenInv
<1>3. UNCHANGED <<now, redis, handed>>
  BY DEF Login, Renew
<1>4. /\ accessExp' = [accessExp EXCEPT ![f] = now + AccessTTL]
      /\ refreshExp' = [refreshExp EXCEPT ![f] = now + RefreshTTL]
  BY <1>1 DEF Login, Renew, GenerateTokens
<1>5. \A j \in handed : /\ accessExp'[j] = accessExp[j]
                        /\ refreshExp'[j] = refreshExp[j]
  BY <1>2, <1>4 DEF AuthInv, TypeOK
<1>. QED BY <1>3, <1>5, Unseen

\* Delivery grants the pair, with the uses the failures and the time left it.
LEMMA DeliverContract ==
    ASSUME AuthInv, NEW k \in Calls, Deliver(k)
    PROVE  Contract!Next
<1>1. PICK n \in Jtis \ handed : n = new[k]
  BY DEF Deliver, At, AuthInv, CallInv, Holding
<1>2. /\ handed' = handed \cup {n}
      /\ UNCHANGED <<now, blackKey, accessExp, refreshExp>>
      /\ \A j \in handed : refreshKey'[j] = refreshKey[j]
  BY <1>1 DEF Deliver, Store, AuthInv, TypeOK
<1>3. Renewable' \in {Renewable, Renewable \cup {n}}
  <2>1. Renewable' \ {n} = Renewable
    BY <1>1, <1>2 DEF Renewable, Live
  <2>. QED BY <2>1, <1>1 DEF Renewable
<1>4. Admitted' \in {Admitted, Admitted \cup {n}}
  <2>1. Admitted' \ {n} = Admitted
    BY <1>1, <1>2 DEF Admitted, Live
  <2>. QED BY <2>1, <1>1 DEF Admitted
<1>5. Contract!Grant(n)
  BY <1>1, <1>2, <1>3, <1>4 DEF Contract!Grant
<1>. QED BY <1>1, <1>5 DEF Contract!Next

LEMMA DeleteContract ==
    ASSUME AuthInv, NEW k \in Calls, DeleteOld(k)
    PROVE  Contract!Withdraw
<1>1. now \in Nat
  BY DEF AuthInv, TypeOK
<1>2. /\ UNCHANGED <<now, blackKey, handed, accessExp, refreshExp>>
      /\ \A j \in handed : refreshKey'[j] \in {refreshKey[j], 0}
  BY DEF DeleteOld, tokens, AuthInv, TypeOK
<1>3. Renewable' \in SUBSET Renewable
  BY <1>1, <1>2 DEF Renewable, Live
<1>4. Admitted' = Admitted
  BY <1>2 DEF Admitted, Live
<1>. QED BY <1>2, <1>3, <1>4 DEF Contract!Withdraw

\* A second logout may write the entry over, with the lifetime it computed at
\* another time; as the token lives, that lifetime is positive.
LEMMA BlacklistContract ==
    ASSUME AuthInv, NEW k \in Calls, Blacklist(k)
    PROVE  Contract!Withdraw
<1>1. PICK j \in handed : j = old[k]
  BY DEF Blacklist, At, AuthInv, CallInv, Reading
<1>2. /\ now \in 0..MaxTime /\ ttl[k] \in Int /\ accessExp[j] \in Nat
      /\ j \in Jtis /\ now + ttl[k] >= accessExp[j]
  BY <1>1 DEF Blacklist, At, AuthInv, CallInv, TypeOK
<1>3. /\ UNCHANGED <<now, refreshKey, handed, accessExp, refreshExp>>
      /\ \A i \in handed : i # j => blackKey'[i] = blackKey[i]
      /\ blackKey'[j] \in {blackKey[j], SetKey(ttl[k])}
  BY <1>1 DEF Blacklist, tokens, AuthInv, TypeOK
<1>4. Renewable' = Renewable
  BY <1>3 DEF Renewable, Live
<1>5. Live(accessExp[j]) => now < SetKey(ttl[k])
  BY <1>2 DEF SetKey, Live
<1>6. Admitted' \in SUBSET Admitted
  BY <1>3, <1>5 DEF Admitted, Live
<1>. QED BY <1>3, <1>4, <1>6 DEF Contract!Withdraw

\* An access token that was refused for its blacklist entry has expired when the
\* entry has.
LEMMA TickContract ==
    ASSUME AuthInv, Tick
    PROVE  Contract!Withdraw
<1>1. /\ now \in Nat /\ now' = now + 1 /\ now' <= MaxTime /\ MaxTime \in Nat
      /\ UNCHANGED <<refreshKey, blackKey, handed, accessExp, refreshExp>>
  BY AuthAssumption DEF Tick, redis, tokens, AuthInv, TypeOK
<1>2. /\ accessExp \in [Jtis -> Nat] /\ refreshExp \in [Jtis -> Nat]
      /\ refreshKey \in [Jtis -> Nat] /\ blackKey \in [Jtis -> Nat]
      /\ handed \in SUBSET Jtis
  BY DEF AuthInv, TypeOK
<1>3. Renewable' \in SUBSET Renewable
  BY <1>1, <1>2 DEF Renewable, Live
<1>4. ASSUME NEW j \in handed, Live(accessExp[j])', ~Live(blackKey[j])'
      PROVE  Live(accessExp[j]) /\ ~Live(blackKey[j])
  <2>1. Live(accessExp[j])
    BY <1>1, <1>2, <1>4 DEF Live
  <2>2. blackKey[j] = 0
    BY <1>1, <1>2, <1>4 DEF Live, AuthInv, BlackInv
  <2>. QED BY <1>1, <2>1, <2>2 DEF Live
<1>5. Admitted' \in SUBSET Admitted
  BY <1>1, <1>4 DEF Admitted
<1>. QED BY <1>1, <1>3, <1>5 DEF Contract!Withdraw

LEMMA StepContract ==
    ASSUME AuthInv, [Next]_vars
    PROVE  [Contract!Next]_(Contract!vars)
<1>1. CASE UNCHANGED vars
  BY <1>1, Unseen DEF vars, tokens
<1>2. ASSUME NEW k \in Calls,
             \/ CheckActive(k) \/ RefuseBlacklisted(k) \/ Until(k)
             \/ \E j \in Jtis : Refresh(k, j) \/ Logout(k, j)
      PROVE  UNCHANGED Contract!vars
  BY <1>2, QuietContract
<1>3. ASSUME NEW k \in Calls, Login(k) \/ Renew(k)
      PROVE  UNCHANGED Contract!vars
  BY <1>3, GenerateContract
<1>4. ASSUME NEW k \in Calls, Deliver(k) \/ DeleteOld(k) \/ Blacklist(k)
      PROVE  Contract!Next
  BY <1>4, DeliverContract, DeleteContract, BlacklistContract DEF Contract!Next
<1>5. CASE Tick
  BY <1>5, TickContract DEF Contract!Next
<1>6. CASE Crash
  <2>1. UNCHANGED <<now, redis, tokens>>
    BY <1>6 DEF Crash
  <2>. QED BY <2>1, Unseen DEF tokens
<1>. QED BY <1>1, <1>2, <1>3, <1>4, <1>5, <1>6 DEF Next

\* The service, with Redis, its failures, its crashes and its clock, implements
\* the contract.
THEOREM ContractKeptAlways == Spec => ContractKept
<1>1. Init => Contract!Init
  BY DEF Init, Contract!Init, Renewable, Admitted
<1>. QED BY <1>1, InitAuth, StepAuth, StepContract, PTL
         DEF Spec, ContractKept, Contract!Spec
=============================================================================
