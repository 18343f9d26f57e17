---------------------------- MODULE Registration ----------------------------
(***************************************************************************)
(* Registration with a phone code: CommonService.SendPhoneCode draws a     *)
(* code and puts it into Redis for a number, its handler answers it later, *)
(* UserController.CreateUser compares the code of a request with the one   *)
(* in Redis, and UserServiceImpl.CreateUser then looks for the number,     *)
(* hashes the password and inserts the row.  Requests run concurrently;    *)
(* each call of Redis or of the database is a step, and so is an answer.   *)
(*                                                                         *)
(* FindByPhone counts the table of dto.UserResponse, which no code writes, *)
(* while CreateUser writes user_basic.  So the count is 0, found or failed *)
(* alike, the branch of ErrDuplicPhone is never taken, and the lookup is a *)
(* step that changes nothing but the place of the request.                 *)
(***************************************************************************)
EXTENDS Integers

CONSTANTS Sends,      \* requests of SendPhoneCode with a valid number
          Creates,    \* requests of CreateUser that pass ParseAndValidate
          Phones,
          Codes,      \* 0..99 in the code
          NoCode,     \* no key; nothing drawn
          CodeTTL,    \* 30 seconds
          MaxTime,    \* bound: ticks of the clock
          MaxFaults   \* bound: failures of Redis and of the database

ASSUME RegistrationAssumption ==
    /\ CodeTTL \in Nat \ {0}
    /\ MaxTime \in Nat
    /\ MaxFaults \in Nat
    /\ NoCode \notin Codes

VARIABLES
    now,        \* the clock of Redis
    keyCode,    \* the value of the key PHONE:<number>
    keyUntil,   \* when it expires; 0: never written
    stage,      \* where each request of SendPhoneCode is
    number,     \* its PhoneNumber
    drawn,      \* its codeStr
    pc,         \* the next step of each request of CreateUser
    phone,      \* its PhoneNumber
    code,       \* its RandCode
    user_basic, \* the requests that have a row in the table
    faults,     \* failures so far
    stores,     \* history: which request wrote its key, and when
    before,     \* history: what was answered when a SendPhoneCode arrived
    checkedAt   \* history: when each request passed the comparison

redis   == <<keyCode, keyUntil>>
sending == <<stage, number, drawn>>
request == <<phone, code>>
history == <<stores, before, checkedAt>>
vars == <<now, redis, sending, pc, request, user_basic, faults, history>>

TypeOK ==
    /\ now \in 0..MaxTime
    /\ keyCode \in [Phones -> Codes \cup {NoCode}]
    /\ keyUntil \in [Phones -> Nat]
    /\ stage \in [Sends -> {"new", "set", "answer", "done"}]
    /\ number \in [Sends -> Phones]
    /\ drawn \in [Sends -> Codes \cup {NoCode}]
    /\ pc \in [Creates -> {"new", "get", "find", "hash", "insert",
                           "refused", "success"}]
    /\ phone \in [Creates -> Phones]
    /\ code \in [Creates -> Codes]
    /\ user_basic \in SUBSET Creates
    /\ faults \in 0..MaxFaults
    /\ stores \in SUBSET [send : Sends, at : 0..MaxTime]
    /\ before \in [Sends -> SUBSET Sends]
    /\ checkedAt \in [Creates -> 0..MaxTime]

Init ==
    /\ now = 0
    /\ keyCode = [p \in Phones |-> NoCode]
    /\ keyUntil = [p \in Phones |-> 0]
    /\ stage = [s \in Sends |-> "new"]
    /\ number \in [Sends -> Phones]
    /\ drawn = [s \in Sends |-> NoCode]
    /\ pc = [k \in Creates |-> "new"]
    /\ phone \in [Creates -> Phones]
    /\ code \in [Creates -> Codes]
    /\ user_basic = {}
    /\ faults = 0
    /\ stores = {}
    /\ before = [s \in Sends |-> {}]
    /\ checkedAt = [k \in Creates |-> 0]

\* A call that answers, or one that fails.
Answers == faults' = faults
Fails   == faults < MaxFaults /\ faults' = faults + 1

At(k, place)   == pc[k] = place
Goto(k, place) == pc' = [pc EXCEPT ![k] = place]

Sent(s, from, to) == stage[s] = from /\ stage' = [stage EXCEPT ![s] = to]

\* What the requests of CreateUser own, and what those of SendPhoneCode own.
creating == <<pc, request, user_basic, checkedAt>>
issuing  == <<sending, stores, before>>
-----------------------------------------------------------------------------
\* SendPhoneCode arrives and draws its code.
SendPhoneCode(s) ==
    /\ Sent(s, "new", "set")
    /\ \E c \in Codes : drawn' = [drawn EXCEPT ![s] = c]
    /\ before' = [before EXCEPT ![s] = {t \in Sends : stage[t] = "done"}]
    /\ UNCHANGED <<now, redis, number, stores, faults, creating>>

\* Mutant: SET with NX, so that a code that is still live stays.
Set_KeepsLive(s) ==
    LET p == number[s]
    IN  /\ keyCode' = IF now < keyUntil[p] THEN keyCode
                                           ELSE [keyCode EXCEPT ![p] = drawn[s]]
        /\ keyUntil' = IF now < keyUntil[p] THEN keyUntil
                                            ELSE [keyUntil EXCEPT ![p] = now + CodeTTL]
        /\ stores' = stores \cup {[send |-> s, at |-> now]}

\* Mutant: SET with KEEPTTL, so that a code takes over what is left of the last.
Set_KeepsTTL(s) ==
    LET p == number[s]
    IN  /\ keyCode' = [keyCode EXCEPT ![p] = drawn[s]]
        /\ keyUntil' = IF now < keyUntil[p] THEN keyUntil
                                            ELSE [keyUntil EXCEPT ![p] = now + CodeTTL]
        /\ stores' = stores \cup {[send |-> s, at |-> now]}

\* Mutant: the key gets no expiration.
Set_ForEver(s) ==
    /\ keyCode' = [keyCode EXCEPT ![number[s]] = drawn[s]]
    /\ keyUntil' = [keyUntil EXCEPT ![number[s]] = MaxTime + 1]
    /\ stores' = stores \cup {[send |-> s, at |-> now]}

\* SET with 30 seconds, as Redis carries it out.
Set(s) ==
    /\ keyCode' = [keyCode EXCEPT ![number[s]] = drawn[s]]
    /\ keyUntil' = [keyUntil EXCEPT ![number[s]] = now + CodeTTL]
    /\ stores' = stores \cup {[send |-> s, at |-> now]}

\* redisService.Set, whose error is ignored.  A call that fails may have
\* reached Redis, and the client may have sent it again.
StoreCode(s) ==
    /\ \/ Sent(s, "set", "answer") /\ Answers /\ Set(s)
       \/ Sent(s, "set", "answer") /\ Fails /\ (Set(s) \/ UNCHANGED <<redis, stores>>)
       \/ Sent(s, "set", "set") /\ Fails /\ Set(s)
    /\ UNCHANGED <<now, number, drawn, before, creating>>

\* The handler answers the code, whether it was stored or not.
AnswerCode(s) ==
    /\ Sent(s, "answer", "done")
    /\ UNCHANGED <<now, redis, number, drawn, stores, before, faults, creating>>
-----------------------------------------------------------------------------
\* The request arrives: its body is decoded and valid, its name not empty.
CreateUser(k) ==
    /\ At(k, "new")
    /\ Goto(k, "get")
    /\ UNCHANGED <<now, redis, issuing, request, user_basic, faults, checkedAt>>

\* redisService.Get of the key PHONE:<p>, a set of the values it may answer:
\* none when the key is not there.
Get(p) == IF now < keyUntil[p] THEN {keyCode[p]} ELSE {}

\* The code of the request is compared with the one in Redis.  A Get that fails
\* returns "", which no valid RandCode equals: the request is refused before
\* the error is looked at.
CheckCode(k) ==
    /\ At(k, "get")
    /\ \/ /\ Answers
          /\ code[k] \in Get(phone[k])
          /\ Goto(k, "find")
          /\ checkedAt' = [checkedAt EXCEPT ![k] = now]
       \/ /\ Answers
          /\ code[k] \notin Get(phone[k])
          /\ Goto(k, "refused")
          /\ UNCHANGED checkedAt
       \/ /\ Fails
          /\ Goto(k, "refused")
          /\ UNCHANGED checkedAt
    /\ UNCHANGED <<now, redis, issuing, request, user_basic>>

\* userRepo.FindByPhone: the count is 0, whatever user_basic holds.
FindByPhone(k) ==
    /\ At(k, "find")
    /\ \/ Answers
       \/ Fails
    /\ Goto(k, "hash")
    /\ UNCHANGED <<now, redis, issuing, request, user_basic, checkedAt>>

\* bcrypt refuses more than 72 bytes, which 50 characters of the validator may
\* be; the handler answers that error as a success.
Hash(k) ==
    /\ At(k, "hash")
    /\ Goto(k, "insert") \/ Goto(k, "success")
    /\ UNCHANGED <<now, redis, issuing, request, user_basic, faults, checkedAt>>

\* userRepo.Create, with or without a row; its error too is answered as a success.
Create(k) ==
    /\ At(k, "insert")
    /\ Goto(k, "success")
    /\ \/ Answers /\ user_basic' = user_basic \cup {k}
       \/ Fails /\ user_basic' \in {user_basic, user_basic \cup {k}}
    /\ UNCHANGED <<now, redis, issuing, request, checkedAt>>

\* One second, or whatever CodeTTL counts.
Tick ==
    /\ now < MaxTime
    /\ now' = now + 1
    /\ UNCHANGED <<redis, issuing, faults, creating>>
-----------------------------------------------------------------------------
SendStep(s) == SendPhoneCode(s) \/ StoreCode(s) \/ AnswerCode(s)

CreateStep(k) ==
    CreateUser(k) \/ CheckCode(k) \/ FindByPhone(k) \/ Hash(k) \/ Create(k)

Next ==
    \/ Tick
    \/ \E s \in Sends : SendStep(s)
    \/ \E k \in Creates : CreateStep(k)

Spec == Init /\ [][Next]_vars
-----------------------------------------------------------------------------
\* A row of user_basic was confirmed by a code that SendPhoneCode had stored
\* for that very number no longer than its lifetime before the comparison,
\* whatever was sent, expired or failed around it.
ConfirmedByCode ==
    \A k \in user_basic :
        \E w \in stores :
            /\ number[w.send] = phone[k]
            /\ drawn[w.send] = code[k]
            /\ w.at <= checkedAt[k]
            /\ checkedAt[k] < w.at + CodeTTL

\* s was answered before a request t for the same number arrived, and t has been
\* answered too.  Two requests that overlap replace each other in either order:
\* the one answered last may be the one stored first.
Replaced(s) ==
    \E t \in Sends :
        stage[t] = "done" /\ number[t] = number[s] /\ s \in before[t]

\* Without failures the comparison passes only on the code of a request that was
\* stored and not replaced, however sends and comparisons overlap.
ReplacedCodeRefused ==
    [][\A k \in Creates :
          pc[k] = "get" /\ pc'[k] = "find" /\ faults' = 0 =>
              \E s \in Sends :
                  /\ number[s] = phone[k] /\ drawn[s] = code[k]
                  /\ stage[s] \in {"answer", "done"}
                  /\ ~Replaced(s)]_vars

\* Without failures, what a peer was answered is what Redis compares with, for a
\* whole lifetime after it was stored: unless another request for the number
\* overlapped it or has stored its code since.
AnsweredCodeLive ==
    \A s \in Sends :
        /\ faults = 0
        /\ stage[s] = "done"
        /\ \A t \in Sends \ {s} : number[t] = number[s] =>
               stage[t] \in {"new", "set"} \/ t \in before[s]
        => \E w \in stores :
              w.send = s /\ (now < w.at + CodeTTL => Get(number[s]) = {drawn[s]})
=============================================================================
