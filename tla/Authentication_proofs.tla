------------------------ MODULE Authentication_proofs ------------------------
(***************************************************************************)
(* Proofs about Authentication, for every number of requests and tokens    *)
(* and all lengths of the windows.                                         *)
(***************************************************************************)
EXTENDS Authentication, TLAPS

(* The windows are naturals.                                                *)
LEMMA WindowTypes ==
  /\ AttemptWindow \in Nat /\ WaitLimit \in Nat /\ InvalidWindow \in Nat
  /\ WaiterWindow \in Nat /\ CacheWindow \in Nat /\ MaxDelay \in Nat
  /\ MaxAttempts \in Nat \ {0} /\ Trust \in Nat /\ NeverHeld \in Nat
BY AuthAssumption DEF Trust, NeverHeld

(* A tick keeps an age an age.                                              *)
LEMMA OlderType ==
  ASSUME NEW w \in Nat, NEW a \in Ages(w) PROVE Older(a, w) \in Ages(w)
BY DEF Ages, Older

(* A tick keeps how long ago a token was held valid, if it ever was.        *)
LEMMA HeldOlder ==
  ASSUME NEW a \in Ages(Trust) \cup {NeverHeld}
  PROVE  /\ Older(a, Trust) \in Ages(Trust) \cup {NeverHeld}
         /\ Older(a, Trust) = NeverHeld <=> a = NeverHeld
BY WindowTypes DEF Ages, Older, NeverHeld

(* A fresh age and one that says never are ages.                            *)
LEMMA AgesType == ASSUME NEW w \in Nat PROVE 0 \in Ages(w) /\ Never(w) \in Ages(w)
BY DEF Ages, Never

(* Every step keeps the types.                                              *)
LEMMA AuthTypeStep == AuthTypeOK /\ [AuthNext]_authVars => AuthTypeOK'
<1> SUFFICES ASSUME AuthTypeOK, [AuthNext]_authVars PROVE AuthTypeOK'
  OBVIOUS
<1>0. /\ {"idle", "cache", "denied", "refused", "asked", "troubled"} \subseteq Awaiting \cup Running
      /\ Answers \subseteq Awaiting \cup Running
      /\ 0 \in 0 .. MaxDelay /\ 0 \in 0 .. MaxAttempts /\ 1 \in 0 .. MaxAttempts
      /\ 0 \in 0 .. WaitLimit + 1
  BY WindowTypes DEF Awaiting, Running, Answers
<1>1. ASSUME NEW r \in Requests, NEW t \in Tokens, Begin(r, t)
      PROVE  AuthTypeOK'
  <2> DEFINE q == [NoRequest EXCEPT !.token = t,
                     !.at = IF KnownInvalid(t) THEN "refused" ELSE "cache"]
  <2>1. q \in RequestType
    BY <1>0 DEF NoRequest, RequestType
  <2>2. request' = [request EXCEPT ![r] = q]
    BY <1>1 DEF Begin
  <2> HIDE DEF q
  <2> QED BY <1>1, <2>1, <2>2 DEF Begin, OnlyRequests, history, AuthTypeOK
<1>2. ASSUME NEW r \in Requests, NEW place \in Awaiting \cup Running,
             Goes(r, place), OnlyRequests
      PROVE  AuthTypeOK'
  BY <1>2 DEF Goes, OnlyRequests, history, AuthTypeOK, RequestType
<1>3. ASSUME NEW r \in Requests,
             \/ CheckCache(r) \/ CheckAttempt(r) \/ Wake(r) \/ CheckWoken(r)
             \/ Recheck(r) \/ ReceiveGarbled(r) \/ ReceiveUnauthorized(r) \/ FallBack(r)
      PROVE  AuthTypeOK'
  BY <1>2, <1>3
  DEF Awaiting, Running, CheckCache, CheckAttempt, Wake, CheckWoken, Recheck, ReceiveGarbled,
      ReceiveUnauthorized, FallBack
<1>4. ASSUME NEW r \in Requests, Claim(r)
      PROVE  AuthTypeOK'
  <2>1. [request[r] EXCEPT !.at = "asked", !.attempts = 1] \in RequestType
    BY <1>0 DEF AuthTypeOK, RequestType
  <2>2. request' = [request EXCEPT ![r] =
                      [request[r] EXCEPT !.at = "asked", !.attempts = 1]]
    BY <1>4 DEF Claim, AuthTypeOK, RequestType
  <2>3. attempted_auths' \in [Tokens -> Ages(AttemptWindow)]
    BY <1>4, AgesType, WindowTypes DEF Claim, AuthTypeOK
  <2> QED BY <1>4, <2>1, <2>2, <2>3 DEF Claim, history, AuthTypeOK
<1>5. ASSUME NEW r \in Requests, PortalAnswers(r)
      PROVE  AuthTypeOK'
  <2>1. PICK answer \in Answers :
          request' = [request EXCEPT ![r].at = answer, ![r].delay = 0]
    BY <1>5 DEF PortalAnswers, Answers
  <2>2. [request[r] EXCEPT !.at = answer, !.delay = 0] \in RequestType
    BY <1>0 DEF AuthTypeOK, RequestType
  <2>3. request' = [request EXCEPT ![r] =
                      [request[r] EXCEPT !.at = answer, !.delay = 0]]
    BY <2>1 DEF AuthTypeOK, RequestType
  <2> QED BY <1>5, <2>2, <2>3 DEF PortalAnswers, OnlyRequests, history, AuthTypeOK
<1>6. ASSUME NEW r \in Requests, ReceiveOk(r)
      PROVE  AuthTypeOK'
  <2> DEFINE t == request[r].token
  <2>1. t \in Tokens \cup {NoToken}
    BY DEF AuthTypeOK, RequestType
  <2>2. 0 \in Ages(CacheWindow) /\ Never(InvalidWindow) \in Ages(InvalidWindow)
    BY AgesType, WindowTypes
  <2>3. users' \in [UserNames -> [token : Tokens \cup {NoToken}, age : Ages(CacheWindow)]]
    BY <1>6, <2>1, <2>2 DEF ReceiveOk, AuthTypeOK
  <2>4. /\ invalid_tokens' \in [Tokens -> Ages(InvalidWindow)]
        /\ validated' \in [Tokens -> Ages(CacheWindow)]
    BY <1>6, <2>2 DEF ReceiveOk, AuthTypeOK
  <2>5. request' \in [Requests -> RequestType]
    BY <1>6 DEF ReceiveOk, Goes, AuthTypeOK, RequestType, Running
  <2> QED BY <1>6, <2>3, <2>4, <2>5 DEF ReceiveOk, AuthTypeOK
<1>7. ASSUME NEW r \in Requests, ReceiveTrouble(r)
      PROVE  AuthTypeOK'
  <2>1. request[r] \in RequestType
    BY DEF AuthTypeOK
  <2>2. CASE request[r].attempts < MaxAttempts
    <3> DEFINE n == request[r].attempts + 1
    <3>1. n \in 0 .. MaxAttempts
      BY <2>1, <2>2, WindowTypes DEF RequestType
    <3>2. request' = [request EXCEPT ![r] = [request[r] EXCEPT !.at = "asked", !.attempts = n]]
      BY <1>7, <2>1, <2>2 DEF ReceiveTrouble, AuthTypeOK, RequestType
    <3> HIDE DEF n
    <3>3. [request[r] EXCEPT !.at = "asked", !.attempts = n] \in RequestType
      BY <1>0, <2>1, <3>1 DEF RequestType
    <3> QED BY <1>7, <3>2, <3>3 DEF ReceiveTrouble, OnlyRequests, history, AuthTypeOK
  <2>3. CASE ~(request[r].attempts < MaxAttempts)
    <3>1. request' = [request EXCEPT ![r] = [request[r] EXCEPT !.at = "troubled"]]
      BY <1>7, <2>1, <2>3 DEF ReceiveTrouble, AuthTypeOK, RequestType
    <3>2. [request[r] EXCEPT !.at = "troubled"] \in RequestType
      BY <1>0, <2>1 DEF RequestType
    <3> QED BY <1>7, <3>1, <3>2 DEF ReceiveTrouble, OnlyRequests, history, AuthTypeOK
  <2> QED BY <2>2, <2>3
<1>8. ASSUME NEW r \in Requests, Deny(r)
      PROVE  AuthTypeOK'
  BY <1>0, <1>8, AgesType, WindowTypes DEF Deny, Goes, history, AuthTypeOK, RequestType
<1>9. ASSUME NEW r \in Requests, Finish(r) \/ Abandon(r)
      PROVE  AuthTypeOK'
  <2>1. NoRequest \in RequestType
    BY <1>0 DEF NoRequest, RequestType
  <2> QED BY <1>9, <2>1 DEF Finish, Abandon, OnlyRequests, history, AuthTypeOK
<1>10. ASSUME NEW t \in Tokens, SetValid(t)
       PROVE  AuthTypeOK'
  BY <1>10, AgesType, WindowTypes DEF SetValid, AuthTypeOK
<1>11. CASE Tick
  <2>1. users' \in [UserNames -> [token : Tokens \cup {NoToken}, age : Ages(CacheWindow)]]
    <3>1. ASSUME NEW u \in UserNames
          PROVE  /\ users[u] \in [token : Tokens \cup {NoToken}, age : Ages(CacheWindow)]
                 /\ Older(users[u].age, CacheWindow) \in Ages(CacheWindow)
      BY OlderType, WindowTypes DEF AuthTypeOK
    <3> QED BY <1>11, <3>1 DEF Tick
  <2>2. /\ invalid_tokens' \in [Tokens -> Ages(InvalidWindow)]
        /\ attempted_auths' \in [Tokens -> Ages(AttemptWindow)]
        /\ validated' \in [Tokens -> Ages(CacheWindow)]
    BY <1>11, OlderType, WindowTypes DEF Tick, AuthTypeOK
  <2>3. lastValid' \in [Tokens -> Ages(Trust) \cup {NeverHeld}]
    <3>1. \A t \in Tokens : Older(lastValid[t], Trust) \in Ages(Trust) \cup {NeverHeld}
      BY HeldOlder DEF AuthTypeOK
    <3>2. 0 \in Ages(Trust)
      BY AgesType, WindowTypes
    <3> QED BY <1>11, <3>1, <3>2 DEF Tick
  <2>4. request' \in [Requests -> RequestType]
    <3>1. ASSUME NEW r \in Requests
          PROVE  WaitingOlder(request[r]) \in RequestType
      <4>1. request[r] \in RequestType
        BY DEF AuthTypeOK
      <4>2. Older(request[r].waited, WaitLimit) \in 0 .. WaitLimit + 1
        BY <4>1, WindowTypes DEF RequestType, Older
      <4>3. request[r].at \in Answers => request[r].delay + 1 \in 0 .. MaxDelay
        BY <1>11, <4>1, WindowTypes DEF Tick, RequestType
      <4> QED BY <4>1, <4>2, <4>3 DEF WaitingOlder, RequestType
    <3> QED BY <1>11, <3>1 DEF Tick
  <2> QED BY <1>11, <2>1, <2>2, <2>3, <2>4 DEF Tick, AuthTypeOK
<1>12. CASE UNCHANGED authVars
  BY <1>12 DEF authVars, AuthTypeOK
<1> QED
  BY <1>1, <1>3, <1>4, <1>5, <1>6, <1>7, <1>8, <1>9, <1>10, <1>11, <1>12
  DEF AuthNext, RequestStep

(* Type correctness: no age, delay or attempt leaves its range.             *)
THEOREM AuthTypeCorrect == AuthSpec => []AuthTypeOK
<1>1. AuthInit => AuthTypeOK
  BY AgesType, WindowTypes
  DEF AuthInit, AuthTypeOK, NoRequest, RequestType, Awaiting
<1> QED BY <1>1, AuthTypeStep, PTL DEF AuthSpec

-----------------------------------------------------------------------------
(* Why no token is let in long after the portal took it back.               *)

(* A request that is under way has a token.                                 *)
HaveToken == \A r \in Requests : ~At(r, "idle") => request[r].token \in Tokens

(* A token held valid is one held valid just now.                           *)
ValidNow == \A t \in Tokens : valid[t] => lastValid[t] = 0

(* A yes under way was true when it set out.                                *)
AnswerFresh ==
  \A r \in Requests : At(r, "ok") => lastValid[request[r].token] <= request[r].delay

(* A record was made from a yes that had been under way.                    *)
RecordFresh ==
  \A t \in Tokens :
    ValidatedWithin(t, CacheWindow)
      => lastValid[t] <= users[UserOf[t]].age + MaxDelay

TrustInv == HaveToken /\ ValidNow /\ AnswerFresh /\ RecordFresh

(* At the start nothing is under way and nothing is recorded.               *)
LEMMA TrustInit == AuthInit => TrustInv
<1> SUFFICES ASSUME AuthInit PROVE TrustInv
  OBVIOUS
<1>1. HaveToken /\ AnswerFresh
  BY DEF AuthInit, HaveToken, AnswerFresh, At, NoRequest
<1>2. ValidNow
  BY DEF AuthInit, ValidNow
<1>3. RecordFresh
  BY AuthAssumption DEF AuthInit, RecordFresh, ValidatedWithin, UserInState
<1> QED BY <1>1, <1>2, <1>3 DEF TrustInv

(* The steps that move one request and touch neither the records nor the    *)
(* portal.                                                                  *)
LEMMA TrustMoves ==
  ASSUME AuthTypeOK, TrustInv, UNCHANGED << users, valid, history >>,
         NEW r \in Requests,
         \A q \in Requests : q # r => request'[q] = request[q],
         request'[r].at # "idle" => request'[r].token \in Tokens,
         request'[r].at = "ok" => lastValid[request'[r].token] <= request'[r].delay
  PROVE  TrustInv'
BY DEF TrustInv, HaveToken, ValidNow, AnswerFresh, RecordFresh, ValidatedWithin,
       UserInState, At, history

(* Every step keeps all four.                                               *)
LEMMA TrustStep == AuthTypeOK /\ TrustInv /\ [AuthNext]_authVars => TrustInv'
<1> SUFFICES ASSUME AuthTypeOK, TrustInv, [AuthNext]_authVars PROVE TrustInv'
  OBVIOUS
<1>0. /\ request \in [Requests -> RequestType]
      /\ \A t \in Tokens : UserOf[t] \in UserNames
  BY AuthAssumption DEF AuthTypeOK
<1>1. ASSUME NEW r \in Requests, NEW t \in Tokens, Begin(r, t)
      PROVE  TrustInv'
  <2>1. request'[r].token = t /\ request'[r].at \in {"refused", "cache"}
    BY <1>0, <1>1 DEF Begin, NoRequest
  <2>2. \A q \in Requests : q # r => request'[q] = request[q]
    BY <1>0, <1>1 DEF Begin
  <2> QED BY <1>1, <2>1, <2>2, TrustMoves DEF Begin, OnlyRequests
<1>2. ASSUME NEW r \in Requests,
             \/ CheckCache(r) \/ CheckAttempt(r) \/ Wake(r) \/ CheckWoken(r)
             \/ Recheck(r) \/ ReceiveGarbled(r) \/ ReceiveUnauthorized(r) \/ FallBack(r)
      PROVE  TrustInv'
  <2>1. PICK place : place # "ok" /\ place # "idle" /\ Goes(r, place)
    BY <1>2
    DEF CheckCache, CheckAttempt, Wake, CheckWoken, Recheck, ReceiveGarbled,
        ReceiveUnauthorized, FallBack
  <2>2. OnlyRequests /\ ~At(r, "idle")
    BY <1>2
    DEF CheckCache, CheckAttempt, Wake, CheckWoken, Recheck, ReceiveGarbled,
        ReceiveUnauthorized, FallBack, At
  <2>3. request'[r].at = place /\ request'[r].token = request[r].token
    BY <1>0, <2>1 DEF Goes, RequestType
  <2>4. \A q \in Requests : q # r => request'[q] = request[q]
    BY <1>0, <2>1 DEF Goes
  <2>5. request[r].token \in Tokens
    BY <2>2 DEF TrustInv, HaveToken
  <2> QED BY <2>1, <2>2, <2>3, <2>4, <2>5, TrustMoves DEF OnlyRequests
<1>3. ASSUME NEW r \in Requests, PortalAnswers(r)
      PROVE  TrustInv'
  <2>1. request[r].token \in Tokens
    BY <1>3 DEF PortalAnswers, TrustInv, HaveToken, At
  <2>2. /\ request'[r].token = request[r].token
        /\ request'[r].delay = 0
        /\ request'[r].at = "ok" => valid[request[r].token]
    BY <1>0, <1>3 DEF PortalAnswers, RequestType
  <2>3. \A q \in Requests : q # r => request'[q] = request[q]
    BY <1>0, <1>3 DEF PortalAnswers
  <2>4. request'[r].at = "ok" => lastValid[request[r].token] = 0
    BY <2>1, <2>2 DEF TrustInv, ValidNow
  <2>5. request'[r].at = "ok" => lastValid[request'[r].token] <= request'[r].delay
    BY <2>2, <2>4
  <2>6. UNCHANGED << users, valid, history >>
    BY <1>3 DEF PortalAnswers, OnlyRequests
  <2> QED BY <2>1, <2>2, <2>3, <2>5, <2>6, TrustMoves
<1>4. ASSUME NEW r \in Requests, ReceiveTrouble(r) \/ Finish(r) \/ Abandon(r)
      PROVE  TrustInv'
  <2>1. OnlyRequests /\ \A q \in Requests : q # r => request'[q] = request[q]
    BY <1>0, <1>4 DEF ReceiveTrouble, Finish, Abandon
  <2>2. CASE ReceiveTrouble(r)
    <3>1. request'[r].token = request[r].token /\ request'[r].at # "ok"
      BY <1>0, <2>2 DEF ReceiveTrouble, RequestType
    <3>2. request[r].token \in Tokens
      BY <2>2 DEF ReceiveTrouble, TrustInv, HaveToken, At
    <3> QED BY <2>1, <3>1, <3>2, TrustMoves DEF OnlyRequests
  <2>3. CASE Finish(r) \/ Abandon(r)
    <3>1. request'[r].at = "idle"
      BY <1>0, <2>3 DEF Finish, Abandon, NoRequest
    <3> QED BY <2>1, <3>1, TrustMoves DEF OnlyRequests
  <2> QED BY <1>4, <2>2, <2>3
<1>5. ASSUME NEW r \in Requests, Claim(r) \/ Deny(r)
      PROVE  TrustInv'
  <2>1. request[r].token \in Tokens
    BY <1>5 DEF Claim, Deny, TrustInv, HaveToken, At
  <2>2. request'[r].token = request[r].token /\ request'[r].at \in {"asked", "refused"}
    BY <1>0, <1>5 DEF Claim, Deny, Goes, RequestType
  <2>3. \A q \in Requests : q # r => request'[q] = request[q]
    BY <1>0, <1>5 DEF Claim, Deny, Goes
  <2> QED BY <1>5, <2>1, <2>2, <2>3, TrustMoves DEF Claim, Deny
<1>6. ASSUME NEW r \in Requests, ReceiveOk(r)
      PROVE  TrustInv'
  <2> DEFINE t == request[r].token
  <2>1. t \in Tokens
    BY <1>6 DEF ReceiveOk, TrustInv, HaveToken, At
  <2>2. request'[r].token = t /\ request'[r].at = "accepted"
    BY <1>0, <1>6 DEF ReceiveOk, Goes, RequestType
  <2>3. \A q \in Requests : q # r => request'[q] = request[q]
    BY <1>0, <1>6 DEF ReceiveOk, Goes
  <2>4. HaveToken' /\ ValidNow' /\ AnswerFresh'
    BY <1>6, <2>1, <2>2, <2>3
    DEF ReceiveOk, TrustInv, HaveToken, ValidNow, AnswerFresh, At
  <2>5. lastValid[t] <= MaxDelay
    <3>1. lastValid[t] <= request[r].delay
      BY <1>6 DEF ReceiveOk, TrustInv, AnswerFresh
    <3>2. request[r].delay \in 0 .. MaxDelay /\ lastValid[t] \in Nat
      BY <1>0, <2>1, WindowTypes DEF AuthTypeOK, RequestType, Ages
    <3> QED BY <3>1, <3>2, WindowTypes
  <2>6. ASSUME NEW s \in Tokens, ValidatedWithin(s, CacheWindow)'
        PROVE  lastValid'[s] <= users'[UserOf[s]].age + MaxDelay
    <3>1. CASE UserOf[s] = UserOf[t]
      <4>1. users'[UserOf[s]] = [token |-> t, age |-> 0]
        BY <1>0, <1>6, <2>1, <3>1 DEF ReceiveOk, AuthTypeOK
      <4>2. s = t
        BY <2>6, <4>1 DEF ValidatedWithin, UserInState
      <4> QED BY <1>6, <2>5, <4>1, <4>2, WindowTypes DEF ReceiveOk
    <3>2. CASE UserOf[s] # UserOf[t]
      <4>1. users'[UserOf[s]] = users[UserOf[s]] /\ lastValid' = lastValid
        BY <1>0, <1>6, <3>2 DEF ReceiveOk, AuthTypeOK
      <4> QED BY <2>6, <4>1 DEF ValidatedWithin, UserInState, TrustInv, RecordFresh
    <3> QED BY <3>1, <3>2
  <2> QED BY <2>4, <2>6 DEF TrustInv, RecordFresh
<1>7. ASSUME NEW t \in Tokens, SetValid(t)
      PROVE  TrustInv'
  <2>1. \A s \in Tokens : lastValid'[s] = 0 \/ (s # t /\ lastValid'[s] = lastValid[s])
    BY <1>7 DEF SetValid, AuthTypeOK
  <2>2. HaveToken' /\ ValidNow'
    BY <1>7, <2>1 DEF SetValid, AuthTypeOK, TrustInv, HaveToken, ValidNow, At
  <2>3. AnswerFresh'
    <3>1. \A r \in Requests : 0 <= request[r].delay
      BY <1>0, WindowTypes DEF RequestType
    <3> QED BY <1>7, <2>1, <3>1 DEF SetValid, TrustInv, HaveToken, AnswerFresh, At
  <2>4. RecordFresh'
    <3>1. \A s \in Tokens : users[UserOf[s]].age \in Nat
      BY <1>0, WindowTypes DEF AuthTypeOK, Ages
    <3>2. \A s \in Tokens : 0 <= users[UserOf[s]].age + MaxDelay
      BY <3>1, WindowTypes
    <3> QED BY <1>7, <2>1, <3>2
            DEF SetValid, TrustInv, RecordFresh, ValidatedWithin, UserInState
  <2> QED BY <2>2, <2>3, <2>4 DEF TrustInv
<1>8. CASE Tick
  <2>1. ASSUME NEW s \in Tokens
        PROVE  /\ lastValid[s] \in Nat /\ lastValid'[s] \in Nat
               /\ lastValid'[s] <= lastValid[s] + 1
    <3>1. lastValid[s] \in Nat
      BY WindowTypes DEF AuthTypeOK, Ages
    <3> QED BY <1>8, <3>1, WindowTypes DEF Tick, Older
  <2>2. ASSUME NEW r \in Requests
        PROVE  /\ request'[r].at = request[r].at
               /\ request'[r].token = request[r].token
               /\ request[r].at = "ok" => request'[r].delay = request[r].delay + 1
    <3>1. request[r] \in RequestType /\ request'[r] = WaitingOlder(request[r])
      BY <1>0, <1>8 DEF Tick
    <3> QED BY <3>1 DEF WaitingOlder, RequestType, Answers
  <2>3. HaveToken'
    BY <2>2 DEF TrustInv, HaveToken, At
  <2>4. ValidNow'
    BY <1>8 DEF Tick, ValidNow
  <2>5. AnswerFresh'
    <3> SUFFICES ASSUME NEW r \in Requests, At(r, "ok")'
                 PROVE  (lastValid[request[r].token] <= request[r].delay)'
      BY DEF AnswerFresh
    <3>1. request[r].at = "ok" /\ request[r].token \in Tokens
      BY <2>2 DEF TrustInv, HaveToken, At
    <3>2. lastValid[request[r].token] <= request[r].delay
      BY <3>1 DEF TrustInv, AnswerFresh, At
    <3>3. request[r].delay \in Nat
      BY <1>0, WindowTypes DEF RequestType
    <3> QED BY <2>1, <2>2, <3>1, <3>2, <3>3
  <2>6. RecordFresh'
    <3> SUFFICES ASSUME NEW s \in Tokens, ValidatedWithin(s, CacheWindow)'
                 PROVE  lastValid'[s] <= users'[UserOf[s]].age + MaxDelay
      BY DEF RecordFresh
    <3> DEFINE u == UserOf[s]
    <3>1. users[u].age \in Nat /\ u \in UserNames
      BY <1>0, WindowTypes DEF AuthTypeOK, Ages
    <3>2. users'[u].token = users[u].token /\ users'[u].age = Older(users[u].age, CacheWindow)
      BY <1>8, <3>1 DEF Tick, AuthTypeOK
    <3>3. users'[u].age = users[u].age + 1 /\ users[u].age <= CacheWindow
      BY <3>1, <3>2, WindowTypes DEF ValidatedWithin, Older
    <3>4. ValidatedWithin(s, CacheWindow)
      BY <3>2, <3>3 DEF ValidatedWithin, UserInState
    <3>5. lastValid[s] <= users[u].age + MaxDelay
      BY <3>4 DEF TrustInv, RecordFresh
    <3> QED BY <2>1, <3>1, <3>3, <3>5, WindowTypes
  <2> QED BY <2>3, <2>4, <2>5, <2>6 DEF TrustInv
<1>9. CASE UNCHANGED authVars
  BY <1>9
  DEF authVars, history, TrustInv, HaveToken, ValidNow, AnswerFresh, RecordFresh,
      ValidatedWithin, UserInState, At
<1> QED
  BY <1>1, <1>2, <1>3, <1>4, <1>5, <1>6, <1>7, <1>8, <1>9 DEF AuthNext, RequestStep

(* The ways a request is let in: by a record, by a yes, or, when the portal *)
(* cannot tell, by any record.                                              *)
LEMMA WaysIn ==
  ASSUME AuthTypeOK, AuthNext, NEW r \in Requests,
         request'[r].at = "accepted", request[r].at # "accepted"
  PROVE  \/ CheckCache(r) /\ ValidatedWithin(request[r].token, CacheWindow)
         \/ Recheck(r) /\ ValidatedWithin(request[r].token, WaiterWindow)
         \/ ReceiveOk(r)
         \/ FallBack(r) /\ UserInState(request[r].token)
<1>0. request \in [Requests -> RequestType]
  BY DEF AuthTypeOK
<1>1. ASSUME NEW q \in Requests, q # r
      PROVE  /\ ~RequestStep(q) /\ ~PortalAnswers(q) /\ ~Abandon(q) /\ ~Finish(q)
             /\ \A s \in Tokens : ~Begin(q, s)
  BY <1>0, <1>1
  DEF RequestStep, CheckCache, CheckAttempt, Wake, CheckWoken, Recheck, Claim, ReceiveOk,
      ReceiveGarbled, ReceiveUnauthorized, ReceiveTrouble, Deny, FallBack, PortalAnswers,
      Abandon, Finish, Begin, Goes
<1>2. ~Abandon(r) /\ ~Finish(r) /\ \A s \in Tokens : ~SetValid(s) /\ ~Begin(r, s)
  <2>1. ASSUME NEW s \in Tokens, Begin(r, s)
        PROVE  request'[r].at \in {"refused", "cache"}
    BY <1>0, <2>1 DEF Begin, NoRequest
  <2>2. \A s \in Tokens : ~Begin(r, s)
    BY <2>1
  <2>3. ~Abandon(r) /\ ~Finish(r)
    BY <1>0 DEF Abandon, Finish, NoRequest
  <2>4. \A s \in Tokens : ~SetValid(s)
    BY DEF SetValid
  <2> QED BY <2>2, <2>3, <2>4
<1>3. ~PortalAnswers(r)
  BY <1>0 DEF PortalAnswers, RequestType
<1>4. ~Tick
  <2>1. WaitingOlder(request[r]).at = request[r].at
    BY <1>0 DEF WaitingOlder, RequestType
  <2> QED BY <1>0, <2>1 DEF Tick
<1>5. RequestStep(r)
  BY <1>1, <1>2, <1>3, <1>4 DEF AuthNext
<1>6. ~ReceiveTrouble(r)
  BY <1>0 DEF ReceiveTrouble, RequestType
<1> QED BY <1>0, <1>5, <1>6
        DEF RequestStep, CheckCache, CheckAttempt, Wake, CheckWoken, Recheck, Claim,
            ReceiveGarbled, ReceiveUnauthorized, Deny, FallBack, Goes, At, RequestType

(* No token is let in that the portal has not held valid for longer than    *)
(* the cache window and the time an answer was under way, except when the   *)
(* portal could not tell: each of the three ways to be let in looks at a    *)
(* record or an answer that TrustInv keeps honest.                          *)
THEOREM LongRevokedRefused == AuthSpec => NoLongRevoked
<1> DEFINE LetIn(r) == request'[r].at = "accepted" /\ request[r].at \notin {"accepted", "troubled"}
<1>1. ASSUME AuthTypeOK, TrustInv, AuthNext, NEW r \in Requests, LetIn(r)
      PROVE  lastValid[request[r].token] <= Trust
  <2> DEFINE t == request[r].token
  <2>0. request \in [Requests -> RequestType]
    BY <1>1 DEF AuthTypeOK
  <2>1. \/ CheckCache(r) /\ ValidatedWithin(t, CacheWindow)
        \/ Recheck(r) /\ ValidatedWithin(t, WaiterWindow)
        \/ ReceiveOk(r)
    BY <1>1, WaysIn DEF FallBack, At
  <2>2. t \in Tokens
    BY <1>1, <2>1 DEF CheckCache, Recheck, ReceiveOk, TrustInv, HaveToken, At
  <2>3. lastValid[t] \in Nat
    BY <1>1, <2>2, WindowTypes DEF AuthTypeOK, Ages
  <2>4. CASE ReceiveOk(r)
    <3>1. lastValid[t] <= request[r].delay
      BY <1>1, <2>4 DEF ReceiveOk, TrustInv, AnswerFresh
    <3>2. request[r].delay \in 0 .. MaxDelay
      BY <2>0 DEF RequestType
    <3> QED BY <2>3, <3>1, <3>2, WindowTypes DEF Trust
  <2>5. CASE ValidatedWithin(t, CacheWindow) \/ ValidatedWithin(t, WaiterWindow)
    <3>1. users[UserOf[t]].age \in Nat
      BY <1>1, <2>2, AuthAssumption, WindowTypes DEF AuthTypeOK, Ages
    <3>2. ValidatedWithin(t, CacheWindow)
      BY <2>5, <3>1, AuthAssumption, WindowTypes DEF ValidatedWithin
    <3>3. lastValid[t] <= users[UserOf[t]].age + MaxDelay
      BY <1>1, <2>2, <3>2 DEF TrustInv, RecordFresh
    <3> QED BY <2>3, <3>1, <3>2, <3>3, WindowTypes DEF ValidatedWithin, Trust
  <2> QED BY <2>1, <2>4, <2>5
<1>2. AuthTypeOK /\ TrustInv /\ [AuthNext]_authVars
        => [\A r \in Requests : LetIn(r) => lastValid[request[r].token] <= Trust]_authVars
  BY <1>1
<1> QED BY <1>2, AuthTypeCorrect, TrustInit, TrustStep, PTL DEF AuthSpec, NoLongRevoked

(* A record, and a yes under way, are of a token once held valid.           *)
HeldInv ==
  /\ \A t \in Tokens : UserInState(t) => lastValid[t] # NeverHeld
  /\ \A t \in Tokens : valid[t] => lastValid[t] # NeverHeld
  /\ \A r \in Requests : At(r, "ok") => lastValid[request[r].token] # NeverHeld

(* Every step keeps them so: a record is written on a yes only, a yes is the*)
(* answer of a portal that holds the token valid, and no token becomes one  *)
(* that was never held valid.                                               *)
LEMMA HeldStep ==
  ASSUME AuthTypeOK, HaveToken, HeldInv, [AuthNext]_authVars PROVE HeldInv'
<1>0. /\ request \in [Requests -> RequestType]
      /\ \A t \in Tokens : UserOf[t] \in UserNames
      /\ \A t \in Tokens : lastValid[t] \in Ages(Trust) \cup {NeverHeld}
      /\ NeverHeld # 0
  BY AuthAssumption, WindowTypes DEF AuthTypeOK, NeverHeld
<1>1. \A t \in Tokens :
        /\ lastValid[t] # NeverHeld => lastValid'[t] # NeverHeld
        /\ valid'[t] => lastValid'[t] # NeverHeld
  <2>1. CASE UNCHANGED << valid, lastValid >>
    BY <2>1 DEF HeldInv
  <2>2. ASSUME NEW t \in Tokens, SetValid(t)
        PROVE  \A s \in Tokens :
                 /\ lastValid[s] # NeverHeld => lastValid'[s] # NeverHeld
                 /\ valid'[s] => lastValid'[s] # NeverHeld
    BY <1>0, <2>2 DEF SetValid, HeldInv, AuthTypeOK
  <2>3. CASE Tick
    BY <1>0, <2>3, HeldOlder DEF Tick, HeldInv, AuthTypeOK
  <2> QED
    BY <2>1, <2>2, <2>3
    DEF AuthNext, RequestStep, authVars, OnlyRequests, history, Begin, CheckCache,
        CheckAttempt, Wake, CheckWoken, Recheck, Claim, PortalAnswers, ReceiveOk,
        ReceiveGarbled, ReceiveUnauthorized, ReceiveTrouble, Deny, FallBack, Abandon, Finish
<1>2. \A r \in Requests :
        (At(r, "ok"))' => /\ request'[r].token = request[r].token
                          /\ At(r, "ok") \/ valid[request[r].token]
                          /\ request[r].token \in Tokens
  <2> SUFFICES ASSUME NEW r \in Requests, request'[r].at = "ok"
               PROVE  /\ request'[r].token = request[r].token
                      /\ At(r, "ok") \/ valid[request[r].token]
                      /\ request[r].token \in Tokens
    BY DEF At
  <2>1. CASE request'[r] = request[r]
    BY <2>1 DEF HaveToken, At
  <2>2. CASE Tick
    <3>1. request[r] \in RequestType /\ request'[r] = WaitingOlder(request[r])
      BY <1>0, <2>2 DEF Tick
    <3>2. request'[r].at = request[r].at /\ request'[r].token = request[r].token
      BY <3>1 DEF WaitingOlder, RequestType
    <3> QED BY <3>2 DEF HaveToken, At
  <2>3. ASSUME NEW q \in Requests, RequestStep(q)
        PROVE  request'[r] = request[r]
    <3>1. \A p \in Requests \ {q} : request'[p] = request[p]
      BY <1>0, <2>3
      DEF RequestStep, CheckCache, CheckAttempt, Wake, CheckWoken, Recheck, Claim, ReceiveOk,
          ReceiveGarbled, ReceiveUnauthorized, ReceiveTrouble, Deny, FallBack, Goes
    <3>2. request'[q].at # "ok"
      BY <1>0, <2>3
      DEF RequestStep, CheckCache, CheckAttempt, Wake, CheckWoken, Recheck, Claim, ReceiveOk,
          ReceiveGarbled, ReceiveUnauthorized, ReceiveTrouble, Deny, FallBack, Goes,
          RequestType
    <3> QED BY <3>1, <3>2
  <2>4. ASSUME NEW q \in Requests, PortalAnswers(q)
        PROVE  \/ request'[r] = request[r]
               \/ /\ request'[r].token = request[r].token
                  /\ valid[request[r].token] /\ request[r].token \in Tokens
    BY <1>0, <2>4 DEF PortalAnswers, RequestType, HaveToken, At
  <2>5. ASSUME NEW q \in Requests, NEW t \in Tokens, Begin(q, t)
        PROVE  request'[r] = request[r]
    <3>1. request'[q].at \in {"refused", "cache"}
      BY <1>0, <2>5 DEF Begin, NoRequest
    <3> QED BY <1>0, <2>5, <3>1 DEF Begin
  <2>6. ASSUME NEW q \in Requests, Abandon(q) \/ Finish(q)
        PROVE  request'[r] = request[r]
    BY <1>0, <2>6 DEF Abandon, Finish, NoRequest
  <2>7. CASE UNCHANGED request
    BY <2>1, <2>7
  <2> QED
    BY <2>1, <2>2, <2>3, <2>4, <2>5, <2>6, <2>7 DEF AuthNext, SetValid, authVars
<1>3. \A r \in Requests : At(r, "ok")' => lastValid'[request'[r].token] # NeverHeld
  BY <1>1, <1>2 DEF HeldInv, At
<1>4. \A t \in Tokens : UserInState(t)' => lastValid'[t] # NeverHeld
  <2>1. CASE UNCHANGED users
    BY <1>1, <2>1 DEF HeldInv, UserInState
  <2>2. CASE Tick
    <3>1. \A t \in Tokens : users'[UserOf[t]].token = users[UserOf[t]].token
      BY <1>0, <2>2 DEF Tick, AuthTypeOK
    <3> QED BY <1>1, <3>1 DEF HeldInv, UserInState
  <2>3. ASSUME NEW r \in Requests, ReceiveOk(r), NEW t \in Tokens, UserInState(t)'
        PROVE  lastValid'[t] # NeverHeld
    <3>1. t = request[r].token \/ UserInState(t)
      BY <1>0, <2>3 DEF ReceiveOk, UserInState, AuthTypeOK
    <3> QED BY <1>1, <2>3, <3>1 DEF ReceiveOk, HeldInv
  <2> QED
    BY <2>1, <2>2, <2>3
    DEF AuthNext, RequestStep, authVars, OnlyRequests, history, Begin, CheckCache,
        CheckAttempt, Wake, CheckWoken, Recheck, Claim, PortalAnswers, ReceiveGarbled,
        ReceiveUnauthorized, ReceiveTrouble, Deny, FallBack, Abandon, Finish, SetValid
<1> QED BY <1>1, <1>3, <1>4 DEF HeldInv

(* No token is let in that the portal has never held valid, not even when   *)
(* it cannot tell.                                                          *)
THEOREM StrangersRefused == AuthSpec => OnlyOnceHeld
<1> DEFINE In == \A r \in Requests :
                   request'[r].at = "accepted" /\ request[r].at # "accepted"
                     => lastValid[request[r].token] # NeverHeld
<1>1. AuthInit => HeldInv
  BY AuthAssumption, WindowTypes
  DEF AuthInit, HeldInv, UserInState, At, NoRequest, NeverHeld
<1>2. AuthTypeOK /\ TrustInv /\ HeldInv /\ [AuthNext]_authVars => HeldInv'
  BY HeldStep DEF TrustInv
<1>3. AuthTypeOK /\ TrustInv /\ HeldInv /\ [AuthNext]_authVars => [In]_authVars
  <2> SUFFICES ASSUME AuthTypeOK, TrustInv, HeldInv, AuthNext, NEW r \in Requests,
                      request'[r].at = "accepted", request[r].at # "accepted"
               PROVE  lastValid[request[r].token] # NeverHeld
    OBVIOUS
  <2>1. ReceiveOk(r) \/ UserInState(request[r].token)
    BY WaysIn DEF ValidatedWithin
  <2>2. request[r].token \in Tokens
    BY WaysIn
    DEF CheckCache, Recheck, ReceiveOk, FallBack, TrustInv, HaveToken, At
  <2> QED BY <2>1, <2>2 DEF ReceiveOk, HeldInv
<1> QED
  BY <1>1, <1>2, <1>3, AuthTypeCorrect, TrustInit, TrustStep, PTL DEF AuthSpec, OnlyOnceHeld

-----------------------------------------------------------------------------
(* When a validation is kept: while no two tokens have one user.            *)
OneTokenEach == \A s, t \in Tokens : UserOf[s] = UserOf[t] => s = t

(* The record of a token whose yes still counts is the token's own, and no  *)
(* older than the yes.                                                      *)
KeptInv ==
  \A t \in Tokens :
    validated[t] <= CacheWindow
      => UserInState(t) /\ users[UserOf[t]].age <= validated[t]

(* Every step keeps it: only a yes writes a record, and only its own.       *)
LEMMA KeptStep ==
  ASSUME OneTokenEach, AuthTypeOK, HaveToken, KeptInv, [AuthNext]_authVars
  PROVE  KeptInv'
<1>0. \A t \in Tokens : UserOf[t] \in UserNames
  BY AuthAssumption
<1>1. ASSUME UNCHANGED << users, validated >>
      PROVE  KeptInv'
  BY <1>1 DEF KeptInv, UserInState
<1>2. ASSUME NEW r \in Requests, ReceiveOk(r)
      PROVE  KeptInv'
  <2> DEFINE t == request[r].token
  <2>1. t \in Tokens
    BY <1>2 DEF ReceiveOk, HaveToken, At
  <2>2. ASSUME NEW s \in Tokens, validated'[s] <= CacheWindow
        PROVE  /\ users'[UserOf[s]].token = s
               /\ users'[UserOf[s]].age <= validated'[s]
    <3>1. CASE s = t
      BY <1>0, <1>2, <2>1, <3>1 DEF ReceiveOk, AuthTypeOK
    <3>2. CASE s # t
      <4>1. UserOf[s] # UserOf[t]
        BY <2>1, <3>2 DEF OneTokenEach
      <4>2. users'[UserOf[s]] = users[UserOf[s]] /\ validated'[s] = validated[s]
        BY <1>0, <1>2, <3>2, <4>1 DEF ReceiveOk, AuthTypeOK
      <4> QED BY <2>2, <4>2 DEF KeptInv, UserInState
    <3> QED BY <3>1, <3>2
  <2> QED BY <2>2 DEF KeptInv, UserInState
<1>3. CASE Tick
  <2>1. ASSUME NEW s \in Tokens, validated'[s] <= CacheWindow
        PROVE  /\ users'[UserOf[s]].token = s
               /\ users'[UserOf[s]].age <= validated'[s]
    <3> DEFINE u == UserOf[s]
    <3>1. validated[s] \in Nat /\ users[u].age \in Nat /\ u \in UserNames
      BY <1>0, WindowTypes DEF AuthTypeOK, Ages
    <3>2. validated'[s] = Older(validated[s], CacheWindow)
      BY <1>3 DEF Tick
    <3>3. users'[u].token = users[u].token /\ users'[u].age = Older(users[u].age, CacheWindow)
      BY <1>3, <3>1 DEF Tick, AuthTypeOK
    <3>4. validated[s] <= CacheWindow /\ validated'[s] = validated[s] + 1
      BY <2>1, <3>1, <3>2, WindowTypes DEF Older
    <3>5. users[u].token = s /\ users[u].age <= validated[s]
      BY <3>4 DEF KeptInv, UserInState
    <3>6. users'[u].age <= users[u].age + 1
      BY <3>1, <3>3, WindowTypes DEF Older
    <3> HIDE DEF u
    <3>7. users'[u].age \in Nat
      BY <3>1, <3>3, WindowTypes DEF Older
    <3> QED BY <3>1, <3>3, <3>4, <3>5, <3>6, <3>7 DEF u
  <2> QED BY <2>1 DEF KeptInv, UserInState
<1> QED
  BY <1>1, <1>2, <1>3
  DEF AuthNext, RequestStep, authVars, OnlyRequests, history, Begin, CheckCache, CheckAttempt,
      Wake, CheckWoken, Recheck, Claim, PortalAnswers, ReceiveGarbled, ReceiveUnauthorized,
      ReceiveTrouble, Deny, FallBack, Abandon, Finish, SetValid

(* A token whose yes was recorded within the cache window needs no question,*)
(* if no other token has its user.                                          *)
THEOREM CacheKept == OneTokenEach => (AuthSpec => []CacheHolds)
<1> SUFFICES ASSUME OneTokenEach PROVE AuthSpec => []CacheHolds
  OBVIOUS
<1>1. AuthInit => KeptInv
  BY WindowTypes DEF AuthInit, KeptInv, Never
<1>2. AuthTypeOK /\ TrustInv /\ KeptInv /\ [AuthNext]_authVars => KeptInv'
  BY KeptStep DEF TrustInv
<1>3. AuthTypeOK /\ KeptInv => CacheHolds
  <2> SUFFICES ASSUME AuthTypeOK, KeptInv,
                      NEW t \in Tokens, validated[t] <= CacheWindow
               PROVE  ValidatedWithin(t, CacheWindow)
    BY DEF CacheHolds
  <2>1. validated[t] \in Nat /\ users[UserOf[t]].age \in Nat
    BY AuthAssumption, WindowTypes DEF AuthTypeOK, Ages
  <2>2. UserInState(t) /\ users[UserOf[t]].age <= validated[t]
    BY DEF KeptInv
  <2> QED BY <2>1, <2>2, WindowTypes DEF ValidatedWithin
<1> QED BY <1>1, <1>2, <1>3, AuthTypeCorrect, TrustInit, TrustStep, PTL DEF AuthSpec
=============================================================================
