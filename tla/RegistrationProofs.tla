-------------------------- MODULE RegistrationProofs --------------------------
(***************************************************************************)
(* Registration for any number of requests, numbers, codes and failures.   *)
(* The argument: a live key was written by a request for its number, less  *)
(* than a lifetime ago; without failures that request was the last one to  *)
(* write it, so none that arrived after its answer has been answered; and  *)
(* a request past the comparison keeps the code it passed with.            *)
(***************************************************************************)
EXTENDS Registration, TLAPS

Stored == {"answer", "done"}

\* The store w is one of the code c for the number p, and covers the time t.
Covers(w, p, c, t) ==
    number[w.send] = p /\ drawn[w.send] = c /\ w.at <= t /\ t < w.at + CodeTTL

Confirmed(k) == \E w \in stores : Covers(w, phone[k], code[k], checkedAt[k])

Passed(k) == pc[k] \in {"find", "hash", "insert"} \/ k \in user_basic

\* The store w is what the key of p holds.
Holds(w, p) ==
    /\ number[w.send] = p
    /\ drawn[w.send] = keyCode[p]
    /\ keyUntil[p] = w.at + CodeTTL

\* No request for p that arrived after the answer of s has stored its code.
Last(s, p) ==
    \A t \in Sends : number[t] = p /\ stage[t] \in Stored => s \notin before[t]

\* What the place of a request of SendPhoneCode says of the history.
SendInv ==
    /\ \A w \in stores : stage[w.send] # "new" /\ w.at <= now
    /\ \A s \in Sends : \A t \in before[s] : stage[t] = "done"

\* Without failures a request has stored its code when it is about to answer,
\* and no sooner.
StoreInv ==
    faults = 0 =>
        /\ \A w \in stores : stage[w.send] \in Stored
        /\ \A s \in Sends : stage[s] \in Stored => keyUntil[number[s]] # 0

\* Every key that was written holds what some request stored; without failures
\* the last one.
KeyInv ==
    \A p \in Phones : keyUntil[p] # 0 =>
        \E w \in stores : Holds(w, p) /\ (faults = 0 => Last(w.send, p))

\* A request past the comparison has what it needs for its row.
PassInv == \A k \in Creates : Passed(k) => Confirmed(k)

RegInv == TypeOK /\ SendInv /\ StoreInv /\ KeyInv /\ PassInv

LEMMA InitReg == Init => RegInv
<1>. SUFFICES ASSUME Init PROVE RegInv
  OBVIOUS
<1>. USE RegistrationAssumption DEF Init
<1>1. TypeOK
  BY DEF TypeOK
<1>2. SendInv /\ StoreInv /\ KeyInv
  BY DEF SendInv, StoreInv, KeyInv, Stored
<1>3. PassInv
  BY DEF PassInv, Passed
<1>. QED BY <1>1, <1>2, <1>3 DEF RegInv

\* A step that keeps the keys and the requests of SendPhoneCode, and moves
\* those of CreateUser along after the comparison.
LEMMA QuietReg ==
    ASSUME RegInv, TypeOK', UNCHANGED <<redis, issuing, request, checkedAt>>,
           now' >= now, faults' >= faults,
           \A k \in Creates : Passed(k)' => Passed(k)
    PROVE  RegInv'
<1>. USE DEF RegInv, redis, issuing, sending, request
<1>1. faults' = 0 => faults = 0
  BY DEF TypeOK
<1>2. SendInv' /\ StoreInv' /\ KeyInv'
  <2>1. SendInv'
    BY DEF SendInv, TypeOK
  <2>2. StoreInv'
    BY <1>1 DEF StoreInv
  <2>3. KeyInv'
    BY <1>1 DEF KeyInv, Holds, Last
  <2>. QED BY <2>1, <2>2, <2>3
<1>3. PassInv'
  BY DEF PassInv, Confirmed, Covers
<1>. QED BY <1>2, <1>3

\* The arrival: no store is of a request that is new, and none has replaced
\* anything yet.
LEMMA ArriveReg ==
    ASSUME RegInv, NEW s \in Sends, SendPhoneCode(s)
    PROVE  RegInv'
<1>. USE DEF RegInv, SendPhoneCode, Sent, redis, creating, request
<1>. PICK c \in Codes : drawn' = [drawn EXCEPT ![s] = c]
  OBVIOUS
<1>1. TypeOK'
  BY DEF TypeOK
<1>2. \A w \in stores : w.send \in Sends /\ w.send # s /\ drawn'[w.send] = drawn[w.send]
                        /\ stage'[w.send] = stage[w.send]
  BY DEF SendInv, TypeOK
<1>3. SendInv'
  BY <1>2 DEF SendInv, TypeOK
<1>4. StoreInv'
  BY <1>2 DEF StoreInv, Stored, TypeOK
<1>5. \A t \in Sends : stage'[t] \in Stored =>
          stage[t] \in Stored /\ before'[t] = before[t]
  BY DEF Stored, TypeOK
<1>6. KeyInv'
  BY <1>2, <1>5 DEF KeyInv, Holds, Last, TypeOK
<1>7. PassInv'
  BY <1>2 DEF PassInv, Passed, Confirmed, Covers, TypeOK
<1>. QED BY <1>1, <1>3, <1>4, <1>6, <1>7

\* The call of Redis: whoever writes the key is the last one, as it has not been
\* answered.
LEMMA StoreReg ==
    ASSUME RegInv, NEW s \in Sends, StoreCode(s)
    PROVE  RegInv'
<1>. USE RegistrationAssumption
     DEF RegInv, StoreCode, Sent, Answers, Fails, redis, creating, request
<1>. DEFINE w0 == [send |-> s, at |-> now]
<1>0. w0 \in [send : Sends, at : 0..MaxTime] /\ w0.send = s /\ w0.at = now
  BY DEF TypeOK
<1>1. /\ stage[s] = "set"
      /\ \/ stage' = [stage EXCEPT ![s] = "answer"]
         \/ faults' # 0 /\ stage' = [stage EXCEPT ![s] = "set"]
      /\ faults' = 0 => faults = 0 /\ Set(s)
      /\ Set(s) \/ UNCHANGED <<keyCode, keyUntil, stores>>
      /\ faults' \in 0..MaxFaults
  BY DEF TypeOK
<1>2. TypeOK'
  BY <1>0, <1>1 DEF TypeOK, Set
<1>3. stores' \subseteq stores \cup {w0} /\ stores \subseteq stores'
  BY <1>1 DEF Set
<1>4. SendInv'
  BY <1>0, <1>1, <1>3 DEF SendInv, TypeOK
<1>5. StoreInv'
  <2>. SUFFICES ASSUME faults' = 0 PROVE StoreInv'
    BY DEF StoreInv
  <2>1. stage' = [stage EXCEPT ![s] = "answer"] /\ faults = 0 /\ Set(s)
    BY <1>1
  <2>2. now + CodeTTL # 0
    BY DEF TypeOK
  <2>. QED BY <1>0, <1>3, <2>1, <2>2 DEF StoreInv, Set, Stored, TypeOK
<1>6. KeyInv'
  <2>. SUFFICES ASSUME NEW p \in Phones, keyUntil'[p] # 0
                PROVE  \E w \in stores' :
                          Holds(w, p)' /\ (faults' = 0 => Last(w.send, p)')
    BY DEF KeyInv
  <2>1. CASE Set(s) /\ p = number[s]
    <3>1. Holds(w0, p)'
      BY <1>0, <2>1 DEF Holds, Set, TypeOK
    <3>2. \A t \in Sends : s \notin before'[t]
      BY <1>1 DEF SendInv
    <3>3. w0 \in stores' /\ Last(w0.send, p)'
      BY <1>0, <2>1, <3>2 DEF Set, Last
    <3>. QED BY <3>1, <3>3
  <2>2. CASE keyUntil'[p] = keyUntil[p] /\ keyCode'[p] = keyCode[p]
             /\ (faults' = 0 => p # number[s])
    <3>1. PICK w \in stores : Holds(w, p) /\ (faults = 0 => Last(w.send, p))
      BY <2>2 DEF KeyInv
    <3>2. Holds(w, p)' /\ w \in stores'
      BY <1>3, <2>2, <3>1 DEF Holds
    <3>3. faults' = 0 => Last(w.send, p)'
      BY <1>1, <2>2, <3>1 DEF Last, TypeOK
    <3>. QED BY <3>2, <3>3
  <2>. QED BY <1>1, <2>1, <2>2 DEF Set, TypeOK
<1>7. PassInv'
  BY <1>3 DEF PassInv, Passed, Confirmed, Covers
<1>. QED BY <1>2, <1>4, <1>5, <1>6, <1>7

\* The answer moves nothing but the place of the request.
LEMMA AnswerReg ==
    ASSUME RegInv, NEW s \in Sends, AnswerCode(s)
    PROVE  RegInv'
<1>. USE DEF RegInv, AnswerCode, Sent, redis, creating, request
<1>1. TypeOK'
  BY DEF TypeOK
<1>2. \A t \in Sends : /\ stage'[t] \in Stored <=> stage[t] \in Stored
                       /\ stage[t] = "done" => stage'[t] = "done"
                       /\ stage[t] # "new" => stage'[t] # "new"
  BY DEF Stored, TypeOK
<1>3. SendInv' /\ StoreInv'
  BY <1>2 DEF SendInv, StoreInv, TypeOK
<1>4. KeyInv'
  BY <1>2 DEF KeyInv, Holds, Last
<1>5. PassInv'
  BY DEF PassInv, Passed, Confirmed, Covers
<1>. QED BY <1>1, <1>3, <1>4, <1>5

\* The comparison: a live key was stored within its lifetime.
LEMMA CheckReg ==
    ASSUME RegInv, NEW k \in Creates, CheckCode(k)
    PROVE  RegInv'
<1>. USE RegistrationAssumption
     DEF RegInv, CheckCode, redis, issuing, sending, request, At, Goto
<1>1. TypeOK' /\ (faults' = 0 => faults = 0)
  BY DEF TypeOK, Answers, Fails
<1>2. SendInv' /\ StoreInv' /\ KeyInv'
  BY <1>1 DEF SendInv, StoreInv, KeyInv, Holds, Last
<1>3. PassInv'
  <2>. SUFFICES ASSUME NEW l \in Creates, Passed(l)' PROVE Confirmed(l)'
    BY DEF PassInv
  <2>1. CASE l = k /\ code[k] \in Get(phone[k]) /\ pc' = [pc EXCEPT ![k] = "find"]
             /\ checkedAt' = [checkedAt EXCEPT ![k] = now]
    <3>1. now < keyUntil[phone[k]] /\ code[k] = keyCode[phone[k]] /\ phone[k] \in Phones
      BY <2>1 DEF Get, TypeOK
    <3>2. PICK w \in stores : Holds(w, phone[k])
      BY <3>1 DEF KeyInv, TypeOK
    <3>3. Covers(w, phone'[k], code'[k], checkedAt'[k])
      BY <2>1, <3>1, <3>2 DEF Covers, Holds, SendInv, TypeOK
    <3>. QED BY <2>1, <3>3 DEF Confirmed, Covers
  <2>2. CASE Passed(l) /\ checkedAt'[l] = checkedAt[l]
    BY <2>2 DEF PassInv, Confirmed, Covers
  <2>3. \/ l = k /\ code[k] \in Get(phone[k]) /\ pc' = [pc EXCEPT ![k] = "find"]
             /\ checkedAt' = [checkedAt EXCEPT ![k] = now]
        \/ Passed(l) /\ checkedAt'[l] = checkedAt[l]
    BY DEF Passed, TypeOK
  <2>. QED BY <2>1, <2>2, <2>3
<1>. QED BY <1>1, <1>2, <1>3

LEMMA StepReg == RegInv /\ [Next]_vars => RegInv'
<1>. SUFFICES ASSUME RegInv, [Next]_vars PROVE RegInv'
  OBVIOUS
<1>. USE RegistrationAssumption
<1>1. CASE UNCHANGED vars
  <2>1. TypeOK' /\ now' >= now /\ faults' >= faults
    BY <1>1 DEF vars, redis, sending, request, history, RegInv, TypeOK
  <2>. QED BY <1>1, <2>1, QuietReg
       DEF vars, redis, sending, request, history, issuing, Passed
<1>2. CASE Tick
  <2>1. TypeOK' /\ now' >= now /\ faults' >= faults
    BY <1>2 DEF Tick, redis, issuing, sending, creating, request, RegInv, TypeOK
  <2>. QED BY <1>2, <2>1, QuietReg DEF Tick, creating, Passed
<1>3. ASSUME NEW s \in Sends, SendStep(s) PROVE RegInv'
  BY <1>3, ArriveReg, StoreReg, AnswerReg DEF SendStep
<1>4. ASSUME NEW k \in Creates, CheckCode(k) PROVE RegInv'
  BY <1>4, CheckReg
<1>5. ASSUME NEW k \in Creates,
             CreateUser(k) \/ FindByPhone(k) \/ Hash(k) \/ Create(k)
      PROVE  RegInv'
  <2>. USE DEF CreateUser, FindByPhone, Hash, Create, At, Goto, Answers, Fails
  <2>1. TypeOK' /\ now' >= now /\ faults' >= faults
    BY <1>5 DEF redis, issuing, sending, request, RegInv, TypeOK
  <2>2. \A l \in Creates : Passed(l)' => Passed(l)
    BY <1>5 DEF Passed, RegInv, TypeOK
  <2>. QED BY <1>5, <2>1, <2>2, QuietReg
<1>. QED BY <1>1, <1>2, <1>3, <1>4, <1>5 DEF Next, CreateStep

THEOREM RegInvAlways == Spec => []RegInv
BY InitReg, StepReg, PTL DEF Spec

(* Every variable keeps its range, and no more fails than the bound allows.  *)
THEOREM RegistrationTypeCorrect == Spec => []TypeOK
<1>1. RegInv => TypeOK
  BY DEF RegInv
<1>. QED BY <1>1, RegInvAlways, PTL
-----------------------------------------------------------------------------
(* No row without a code stored for its number, still live when compared.    *)
THEOREM ConfirmedByCodeAlways == Spec => []ConfirmedByCode
<1>1. RegInv => ConfirmedByCode
  BY DEF RegInv, TypeOK, PassInv, Passed, Confirmed, Covers, ConfirmedByCode
<1>. QED BY <1>1, RegInvAlways, PTL

(* Without failures a code whose successor was asked for after its answer,   *)
(* and answered, confirms nothing, for any number of requests that overlap.  *)
THEOREM ReplacedCodeRefusedAlways == Spec => ReplacedCodeRefused
<1>. DEFINE A == \A k \in Creates :
                    pc[k] = "get" /\ pc'[k] = "find" /\ faults' = 0 =>
                        \E s \in Sends :
                            /\ number[s] = phone[k] /\ drawn[s] = code[k]
                            /\ stage[s] \in {"answer", "done"}
                            /\ ~Replaced(s)
<1>1. RegInv /\ [Next]_vars => [A]_vars
  <2>. SUFFICES ASSUME RegInv, Next, NEW k \in Creates, pc[k] = "get",
                       pc'[k] = "find", faults' = 0
                PROVE  \E s \in Sends :
                          /\ number[s] = phone[k] /\ drawn[s] = code[k]
                          /\ stage[s] \in {"answer", "done"}
                          /\ ~Replaced(s)
    OBVIOUS
  <2>1. CheckCode(k)
    BY DEF Next, SendStep, CreateStep, Tick, SendPhoneCode, StoreCode, AnswerCode,
           creating, CreateUser, CheckCode, FindByPhone, Hash, Create, At, Goto,
           RegInv, TypeOK
  <2>2. /\ now < keyUntil[phone[k]] /\ code[k] = keyCode[phone[k]]
        /\ faults = 0 /\ phone[k] \in Phones
    BY <2>1 DEF CheckCode, Get, Answers, Fails, Goto, RegInv, TypeOK
  <2>3. PICK w \in stores : Holds(w, phone[k]) /\ Last(w.send, phone[k])
    BY <2>2 DEF RegInv, KeyInv, TypeOK
  <2>4. w.send \in Sends /\ stage[w.send] \in Stored
    BY <2>2 DEF RegInv, StoreInv, TypeOK
  <2>5. ~Replaced(w.send)
    BY <2>3 DEF Replaced, Last, Holds, Stored
  <2>. QED BY <2>2, <2>3, <2>4, <2>5 DEF Holds, Stored
<1>. QED BY <1>1, RegInvAlways, PTL DEF Spec, ReplacedCodeRefused

(* Without failures an answered code is good for a lifetime, unless another  *)
(* request for the number overlapped it or stored its own.                   *)
THEOREM AnsweredCodeLiveAlways == Spec => []AnsweredCodeLive
<1>1. RegInv => AnsweredCodeLive
  <2>. SUFFICES ASSUME RegInv, NEW s \in Sends, faults = 0, stage[s] = "done",
                       \A t \in Sends \ {s} : number[t] = number[s] =>
                           stage[t] \in {"new", "set"} \/ t \in before[s]
                PROVE  \E w \in stores :
                          /\ w.send = s
                          /\ now < w.at + CodeTTL => Get(number[s]) = {drawn[s]}
    BY DEF AnsweredCodeLive
  <2>1. number[s] \in Phones /\ keyUntil[number[s]] # 0
    BY DEF RegInv, StoreInv, Stored, TypeOK
  <2>2. PICK w \in stores : Holds(w, number[s]) /\ Last(w.send, number[s])
    BY <2>1 DEF RegInv, KeyInv
  <2>3. w.send = s
    <3>1. w.send \in Sends /\ stage[w.send] \in Stored /\ number[w.send] = number[s]
      BY <2>2 DEF RegInv, StoreInv, Holds, TypeOK
    <3>2. w.send \notin before[s]
      BY <2>2 DEF Last, Stored
    <3>. QED BY <3>1, <3>2 DEF Stored
  <2>4. now < w.at + CodeTTL => Get(number[s]) = {drawn[s]}
    BY <2>2, <2>3 DEF Get, Holds
  <2>. QED BY <2>3, <2>4
<1>. QED BY <1>1, RegInvAlways, PTL
=============================================================================
