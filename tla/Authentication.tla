---------------------------- MODULE Authentication ----------------------------
(***************************************************************************)
(* How merx decides whether to let a token in (auth.rs, user.rs): from     *)
(* what it remembers of the portal's answers, or by asking the portal.     *)
(* Requests run concurrently; each access to the shared Users is a section *)
(* of its own under its lock.                                              *)
(*                                                                         *)
(* The code compares the age of its records with five durations.  Time     *)
(* advances in ticks, all records ageing together, and an age stops        *)
(* counting once it is over every duration it is compared with.  Between   *)
(* two awaits a request takes no time that matters to these durations, so  *)
(* the clock only ticks while every request sleeps or waits for the portal.*)
(***************************************************************************)
EXTENDS Integers

CONSTANTS
  Requests, Tokens, UserNames,
  NoToken,           \* in the place of the token of a user not seen yet
  UserOf,            \* token -> user, as the portal knows it
  AttemptWindow,     \* 5 seconds: somebody is asking about the token
  WaitLimit,         \* 15 seconds: waiting for somebody else's answer
  InvalidWindow,     \* 2 minutes: a refused token stays refused
  WaiterWindow,      \* 5 minutes: a validation that ends a wait
  CacheWindow,       \* 15 minutes: a validation that needs no question
  MaxAttempts,       \* questions of one request to a portal in trouble
  MaxDelay           \* bound of the model: ticks an answer may be under way

ASSUME AuthAssumption ==
  /\ NoToken \notin Tokens
  /\ UserOf \in [Tokens -> UserNames]
  /\ {AttemptWindow, WaitLimit, InvalidWindow, WaiterWindow, CacheWindow} \subseteq Nat
  /\ WaiterWindow <= CacheWindow
  /\ MaxAttempts \in Nat \ {0}
  /\ MaxDelay \in Nat

VARIABLES
  users,             \* user -> the token last validated and when
  invalid_tokens,    \* token -> how long ago the portal refused it
  attempted_auths,   \* token -> how long ago a request set out to ask
  request,           \* request -> where it is
  valid,             \* token -> does the portal hold it valid (external)
  validated,         \* token -> how long ago the portal's yes was recorded
  lastValid          \* token -> how long ago the portal held it valid, if ever

authVars == << users, invalid_tokens, attempted_auths, request, valid,
               validated, lastValid >>

history == << validated, lastValid >>

-----------------------------------------------------------------------------
(* Where a request is.  Asleep and asked, or with the answer under way, it  *)
(* awaits; anywhere else it is running.                                     *)
Awaiting == {"idle", "asleep", "asked", "ok", "unauthorized", "trouble"}
Running == {"cache", "attempt", "woken", "recheck", "claim", "denied", "troubled",
            "accepted", "refused"}
Answers == {"ok", "unauthorized", "trouble"}

RequestType ==
  [at : Awaiting \cup Running,
   token : Tokens \cup {NoToken},
   waited : 0 .. WaitLimit + 1,     \* for the answer to somebody else
   attempts : 0 .. MaxAttempts,
   delay : 0 .. MaxDelay]           \* of the answer under way

(* An age that counts no further once it is over the window.                *)
Ages(window) == 0 .. window + 1
Never(window) == window + 1
Older(age, window) == IF age > window THEN age ELSE age + 1

(* The longest a token may be gone at the portal and still be let in.       *)
Trust == CacheWindow + MaxDelay

(* In the place of that age for a token the portal has never held valid.    *)
NeverHeld == Trust + 2

AuthTypeOK ==
  /\ users \in [UserNames -> [token : Tokens \cup {NoToken}, age : Ages(CacheWindow)]]
  /\ invalid_tokens \in [Tokens -> Ages(InvalidWindow)]
  /\ attempted_auths \in [Tokens -> Ages(AttemptWindow)]
  /\ request \in [Requests -> RequestType]
  /\ valid \in [Tokens -> BOOLEAN]
  /\ validated \in [Tokens -> Ages(CacheWindow)]
  /\ lastValid \in [Tokens -> Ages(Trust) \cup {NeverHeld}]

NoRequest == [at |-> "idle", token |-> NoToken, waited |-> 0, attempts |-> 0, delay |-> 0]

AuthInit ==
  /\ users = [u \in UserNames |-> [token |-> NoToken, age |-> Never(CacheWindow)]]
  /\ invalid_tokens = [t \in Tokens |-> Never(InvalidWindow)]
  /\ attempted_auths = [t \in Tokens |-> Never(AttemptWindow)]
  /\ request = [r \in Requests |-> NoRequest]
  /\ valid \in [Tokens -> BOOLEAN]
  /\ validated = [t \in Tokens |-> Never(CacheWindow)]
  /\ lastValid = [t \in Tokens |-> IF valid[t] THEN 0 ELSE NeverHeld]

-----------------------------------------------------------------------------
(* Reading Users.                                                           *)

(* check_user_in_state without a duration, and with one.                    *)
UserInState(t) == users[UserOf[t]].token = t

(* Mutant: a validation never grows too old.                                *)
ValidatedWithin_Ever(t, window) == UserInState(t)

ValidatedWithin(t, window) == UserInState(t) /\ users[UserOf[t]].age <= window

KnownInvalid(t) == invalid_tokens[t] <= InvalidWindow

Attempted(t) == attempted_auths[t] <= AttemptWindow

-----------------------------------------------------------------------------
(* The steps of a request.                                                  *)

At(r, place) == request[r].at = place

Goes(r, place) == request' = [request EXCEPT ![r].at = place]

OnlyRequests == UNCHANGED << users, invalid_tokens, attempted_auths, valid, history >>

(* Mutant: refusing a token known to be invalid invalidates it once more.   *)
Begin_Renews(r, t) ==
  /\ At(r, "idle")
  /\ request' = [request EXCEPT ![r] =
       [NoRequest EXCEPT !.token = t, !.at = IF KnownInvalid(t) THEN "denied" ELSE "cache"]]
  /\ OnlyRequests

(* A request with token t arrives; a token known to be invalid is refused.  *)
Begin(r, t) ==
  /\ At(r, "idle")
  /\ request' = [request EXCEPT ![r] =
       [NoRequest EXCEPT !.token = t, !.at = IF KnownInvalid(t) THEN "refused" ELSE "cache"]]
  /\ OnlyRequests

CheckCache(r) ==
  /\ At(r, "cache")
  /\ Goes(r, IF ValidatedWithin(request[r].token, CacheWindow) THEN "accepted" ELSE "attempt")
  /\ OnlyRequests

(* authenticate_token: while somebody set out to ask just now, sleep.       *)
CheckAttempt(r) ==
  /\ At(r, "attempt")
  /\ Goes(r, IF Attempted(request[r].token) THEN "asleep" ELSE "claim")
  /\ OnlyRequests

Wake(r) ==
  /\ At(r, "asleep")
  /\ Goes(r, "woken")
  /\ OnlyRequests

CheckWoken(r) ==
  /\ At(r, "woken")
  /\ Goes(r, IF KnownInvalid(request[r].token) THEN "denied" ELSE "recheck")
  /\ OnlyRequests

(* Mutant: a request waits for as long as others ask.                       *)
Recheck_Patient(r) ==
  /\ At(r, "recheck")
  /\ Goes(r, IF ValidatedWithin(request[r].token, WaiterWindow) THEN "accepted"
             ELSE "attempt")
  /\ OnlyRequests

Recheck(r) ==
  /\ At(r, "recheck")
  /\ Goes(r, IF ValidatedWithin(request[r].token, WaiterWindow) THEN "accepted"
             ELSE IF request[r].waited > WaitLimit THEN "troubled"
             ELSE "attempt")
  /\ OnlyRequests

(* add_attempted_auth, and the first question to the portal.                *)
Claim(r) ==
  /\ At(r, "claim")
  /\ attempted_auths' = [attempted_auths EXCEPT ![request[r].token] = 0]
  /\ request' = [request EXCEPT ![r].at = "asked", ![r].attempts = 1]
  /\ UNCHANGED << users, invalid_tokens, valid, history >>

(* The portal answers as it holds the token now, or there is trouble: it    *)
(* cannot be reached or answers with another status.                        *)
PortalAnswers(r) ==
  /\ At(r, "asked")
  /\ \E answer \in {IF valid[request[r].token] THEN "ok" ELSE "unauthorized", "trouble"} :
       request' = [request EXCEPT ![r].at = answer, ![r].delay = 0]
  /\ OnlyRequests

(* Mutant: the record of a user who has one already is left as it is.       *)
ReceiveOk_KeepsRecord(r) ==
  LET t == request[r].token IN
  /\ At(r, "ok")
  /\ users' = IF UserInState(t) THEN users
              ELSE [users EXCEPT ![UserOf[t]] = [token |-> t, age |-> 0]]
  /\ invalid_tokens' = [invalid_tokens EXCEPT ![t] = Never(InvalidWindow)]
  /\ validated' = [validated EXCEPT ![t] = 0]
  /\ Goes(r, "accepted")
  /\ UNCHANGED << attempted_auths, valid, lastValid >>

(* add_or_update_user: the user's record is replaced, the token known valid.*)
ReceiveOk(r) ==
  LET t == request[r].token IN
  /\ At(r, "ok")
  /\ users' = [users EXCEPT ![UserOf[t]] = [token |-> t, age |-> 0]]
  /\ invalid_tokens' = [invalid_tokens EXCEPT ![t] = Never(InvalidWindow)]
  /\ validated' = [validated EXCEPT ![t] = 0]
  /\ Goes(r, "accepted")
  /\ UNCHANGED << attempted_auths, valid, lastValid >>

(* The body of the answer does not parse.                                   *)
ReceiveGarbled(r) ==
  /\ At(r, "ok")
  /\ Goes(r, "troubled")
  /\ OnlyRequests

ReceiveUnauthorized(r) ==
  /\ At(r, "unauthorized")
  /\ Goes(r, "denied")
  /\ OnlyRequests

(* Mutant: one question more than MaxAttempts.                              *)
ReceiveTrouble_OnceMore(r) ==
  LET again == request[r].attempts <= MaxAttempts IN
  /\ At(r, "trouble")
  /\ request' = [request EXCEPT ![r].at = IF again THEN "asked" ELSE "troubled",
                                ![r].attempts = IF again THEN @ + 1 ELSE @]
  /\ OnlyRequests

(* Trouble: ask again, up to MaxAttempts times.                             *)
ReceiveTrouble(r) ==
  LET again == request[r].attempts < MaxAttempts IN
  /\ At(r, "trouble")
  /\ request' = [request EXCEPT ![r].at = IF again THEN "asked" ELSE "troubled",
                                ![r].attempts = IF again THEN @ + 1 ELSE @]
  /\ OnlyRequests

(* check_token_and_authenticate on InvalidToken: invalidate_token.          *)
Deny(r) ==
  /\ At(r, "denied")
  /\ invalid_tokens' = [invalid_tokens EXCEPT ![request[r].token] = 0]
  /\ Goes(r, "refused")
  /\ UNCHANGED << users, attempted_auths, valid, history >>

(* Mutant: while the portal is in trouble everybody is let in.              *)
FallBack_Open(r) ==
  /\ At(r, "troubled")
  /\ Goes(r, "accepted")
  /\ OnlyRequests

(* ... on any other error: any record of the token will do, however old.    *)
FallBack(r) ==
  /\ At(r, "troubled")
  /\ Goes(r, IF UserInState(request[r].token) THEN "accepted" ELSE "refused")
  /\ OnlyRequests

(* The client of a request that awaits goes away, and its handler with it.  *)
Abandon(r) ==
  /\ request[r].at \in Awaiting \ {"idle"}
  /\ request' = [request EXCEPT ![r] = NoRequest]
  /\ OnlyRequests

Finish(r) ==
  /\ At(r, "accepted") \/ At(r, "refused")
  /\ request' = [request EXCEPT ![r] = NoRequest]
  /\ OnlyRequests

-----------------------------------------------------------------------------
(* The portal takes a token back, or grants it (external).                  *)
SetValid(t) ==
  /\ valid' = [valid EXCEPT ![t] = ~@]
  /\ lastValid' = [lastValid EXCEPT ![t] = 0]
  /\ UNCHANGED << users, invalid_tokens, attempted_auths, request, validated >>

(* The clock.                                                               *)
WaitingOlder(q) ==
  [q EXCEPT !.waited = IF q.at = "asleep" THEN Older(@, WaitLimit) ELSE @,
            !.delay = IF q.at \in Answers THEN @ + 1 ELSE @]

Tick ==
  /\ \A r \in Requests :
       /\ request[r].at \in Awaiting
       /\ request[r].at \in Answers => request[r].delay < MaxDelay
  /\ users' = [u \in UserNames |->
                 [users[u] EXCEPT !.age = Older(@, CacheWindow)]]
  /\ invalid_tokens' = [t \in Tokens |-> Older(invalid_tokens[t], InvalidWindow)]
  /\ attempted_auths' = [t \in Tokens |-> Older(attempted_auths[t], AttemptWindow)]
  /\ request' = [r \in Requests |-> WaitingOlder(request[r])]
  /\ validated' = [t \in Tokens |-> Older(validated[t], CacheWindow)]
  /\ lastValid' = [t \in Tokens |-> IF valid[t] THEN 0 ELSE Older(lastValid[t], Trust)]
  /\ UNCHANGED valid

RequestStep(r) ==
  \/ CheckCache(r) \/ CheckAttempt(r)
  \/ Wake(r) \/ CheckWoken(r) \/ Recheck(r)
  \/ Claim(r)
  \/ ReceiveOk(r) \/ ReceiveGarbled(r) \/ ReceiveUnauthorized(r) \/ ReceiveTrouble(r)
  \/ Deny(r) \/ FallBack(r)

AuthNext ==
  \/ \E r \in Requests :
       \/ \E t \in Tokens : Begin(r, t)
       \/ RequestStep(r)
       \/ PortalAnswers(r)
       \/ Abandon(r)
       \/ Finish(r)
  \/ \E t \in Tokens : SetValid(t)
  \/ Tick

AuthSpec == AuthInit /\ [][AuthNext]_authVars

(* Requests run on, the portal answers or the connection to it breaks, and  *)
(* no end of requests stops the clock.                                      *)
FairAuthSpec ==
  /\ AuthSpec
  /\ \A r \in Requests :
       /\ WF_authVars(RequestStep(r))
       /\ WF_authVars(PortalAnswers(r))
       /\ WF_authVars(Finish(r))
  /\ []<><<Tick>>_authVars

-----------------------------------------------------------------------------
(* No token is let in that the portal has not held valid for longer than    *)
(* the 15 minutes of the cache and the time an answer was under way, except *)
(* when the portal was asked and could not tell.                            *)
NoLongRevoked ==
  [][\A r \in Requests :
       request'[r].at = "accepted" /\ request[r].at \notin {"accepted", "troubled"}
         => lastValid[request[r].token] <= Trust]_authVars

(* Nor is a token ever let in that the portal has not held valid at some    *)
(* time before, not even when it cannot tell: a garbled answer, a no or a   *)
(* question that was abandoned leaves no record to fall back on.            *)
OnlyOnceHeld ==
  [][\A r \in Requests :
       request'[r].at = "accepted" /\ request[r].at # "accepted"
         => lastValid[request[r].token] # NeverHeld]_authVars

(* A token whose yes was recorded within the 15 minutes needs no question.  *)
(* This holds while every user has one token only: "this validation is      *)
(* cached and will be valid for a set duration", says README.md.            *)
CacheHolds ==
  \A t \in Tokens :
    validated[t] <= CacheWindow => ValidatedWithin(t, CacheWindow)

(* Every request is decided, unless its client goes: nobody waits for ever  *)
(* for somebody else's answer, even one whose request was abandoned.        *)
RequestsEnd ==
  \A r \in Requests :
    request[r].at # "idle" ~> request[r].at \in {"accepted", "refused", "idle"}

(* A token that stays valid from some time on stops being refused as        *)
(* invalid: the requests that wait for each other's answers do not keep an  *)
(* old no alive.                                                            *)
RefusalsEnd ==
  \A t \in Tokens : <>[]valid[t] => <>[]~KnownInvalid(t)
=============================================================================
