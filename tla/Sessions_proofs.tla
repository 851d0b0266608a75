--------------------------- MODULE Sessions_proofs ---------------------------
(***************************************************************************)
(* Proofs about Sessions: the connections use the subscriptions as         *)
(* MarketData allows, so all that is proved of MarketData holds of them,   *)
(* and a connection that has ended leaves nothing behind.                  *)
(***************************************************************************)
EXTENDS Sessions, MarketData_proofs

(* A step of the connections is a step of the subscriptions, or leaves      *)
(* their variables alone.                                                   *)
LEMMA SessionStepRefines == [SessionNext]_allVars => [Next]_vars
<1> SUFFICES ASSUME [SessionNext]_allVars PROVE [Next]_vars
  OBVIOUS
<1>1. ASSUME NEW c \in Clients, ClientCalls(c)
      PROVE  Next
  BY <1>1 DEF ClientCalls, Next
<1>2. ASSUME NEW c \in Clients, SessionStep(c)
      PROVE  [Next]_vars
  <2>1. CASE PeerEnds(c) \/ CheckerEnds(c)
    BY <2>1 DEF PeerEnds, CheckerEnds, Return, Next
  <2>2. CASE ~(PeerEnds(c) \/ CheckerEnds(c))
    BY <1>2, <2>2
    DEF SessionStep, Connect, StartSend, FinishSend, EndGrace, PassSessionTime,
        Check, LockOutgoing, SendClose
  <2> QED BY <2>1, <2>2
<1>3. CASE Forwarding
  BY <1>3 DEF Forwarding, Next
<1>4. CASE UNCHANGED allVars
  BY <1>4 DEF allVars
<1> QED BY <1>1, <1>2, <1>3, <1>4 DEF SessionNext

(* Every behaviour of the connections is one of the subscriptions.          *)
THEOREM SessionsUseSubscriptions == SessionSpec => Spec
<1>1. SessionInit => Init
  BY DEF SessionInit
<1> QED BY <1>1, SessionStepRefines, PTL DEF SessionSpec, Spec

(* A step keeps a client that has nothing that way, unless the step is that *)
(* client's own call.                                                       *)
LEMMA NothingStays ==
  ASSUME TypeInv, [Next]_vars, NEW d \in Clients,
         Held(d) = {}, subscription_count[d] = 0, call[d].at # "insert"
  PROVE  Held(d)' = {} /\ subscription_count'[d] = 0
<1>0. \A s \in Subs : d \notin Members(s)
  BY DEF Held
<1>1. ASSUME NEW c \in Clients, NEW s \in Subs, Accept(c), Insert(c, s)
      PROVE  Held(d)' = {} /\ subscription_count'[d] = 0
  <2>1. c # d
    BY <1>1 DEF Accept
  <2>2. Held(d)' = {}
    BY <1>0, <1>1, <2>1, MembersJoin DEF Insert, Held
  <2> QED BY <1>1, <2>1, <2>2 DEF Insert, TypeInv, TypeOK, StateTypeOK
<1>2. ASSUME NEW c \in Clients, RemoveClientFromState(c)
      PROVE  Held(d)' = {} /\ subscription_count'[d] = 0
  <2>1. Held(d)' = {}
    BY <1>0, <1>2, MembersLeave DEF RemoveClientFromState, Held
  <2> QED BY <1>2, <2>1 DEF RemoveClientFromState, TypeInv, TypeOK, StateTypeOK
<1>3. ASSUME NEW s \in Subs, DropSubscription(s)
      PROVE  Held(d)' = {} /\ subscription_count'[d] = 0
  <2>1. Held(d)' = {}
    BY <1>0, <1>3, MembersRemoved DEF DropSubscription, Held
  <2> QED BY <1>0, <1>3, <2>1 DEF DropSubscription, Uncounted
<1>4. ASSUME \A x : Members(x)' = Members(x), UNCHANGED subscription_count
      PROVE  Held(d)' = {} /\ subscription_count'[d] = 0
  BY <1>0, <1>4 DEF Held
<1> QED BY <1>1, <1>2, <1>3, <1>4, StepEffect

(* At the start nobody is connected, and nobody has anything.               *)
LEMMA NoGhostsInit == SessionInit => NoGhosts
BY DEF SessionInit, Init, StateInit, NoGhosts, Held, Members

(* A client that has nothing gets something only from a call of its own,    *)
(* which its handler makes.                                                 *)
LEMMA NoGhostsStep ==
  TypeInv /\ SessionTypeOK /\ NoGhosts /\ [SessionNext]_allVars => NoGhosts'
<1> SUFFICES ASSUME TypeInv, SessionTypeOK, NoGhosts, [SessionNext]_allVars,
                    NEW d \in Clients, handler'[d] = "ended"
             PROVE  (Held(d) = {} /\ subscription_count[d] = 0 /\ call[d] = Idle)'
  BY DEF NoGhosts
<1>1. CASE handler[d] = "ended"
  <2>1. Held(d) = {} /\ subscription_count[d] = 0 /\ call[d] = Idle
    BY <1>1 DEF NoGhosts
  <2>2. Held(d)' = {} /\ subscription_count'[d] = 0
    BY <2>1, NothingStays, SessionStepRefines DEF Idle
  <2>3. call'[d] = call[d]
    <3>1. ASSUME NEW c \in Clients, ClientCalls(c)
          PROVE  call'[d] = call[d]
      BY <1>1, <3>1
      DEF ClientCalls, CallStep, CheckLocked, Refuse, Accept, Spawn, TypeInv, TypeOK
    <3>2. ASSUME NEW c \in Clients, SessionStep(c)
          PROVE  call'[d] = call[d]
      BY <3>2
      DEF SessionStep, Connect, StartSend, FinishSend, PeerEnds, CheckerEnds, Return,
          RemoveClient, EndGrace, PassSessionTime, Check, LockOutgoing, SendClose, vars
    <3>3. CASE Forwarding
      BY <3>3
      DEF Forwarding, TaskStep, ConnectOk, ConnectFails, ConnectRejected, ShutDown,
          ReadFails, Receive, CloseIfEmpty, AgeListeners, PassTime
    <3>4. CASE UNCHANGED allVars
      BY <3>4 DEF allVars, vars
    <3> QED BY <3>1, <3>2, <3>3, <3>4 DEF SessionNext
  <2> QED BY <2>1, <2>2, <2>3
<1>2. CASE handler[d] # "ended"
  <2>1. PICK c \in Clients : Return(c)
    BY <1>2
    DEF SessionNext, ClientCalls, Forwarding, SessionStep, Connect, StartSend,
        FinishSend, PeerEnds, CheckerEnds, EndGrace, PassSessionTime, Check,
        LockOutgoing, SendClose, allVars, sessionVars, SessionTypeOK
  <2>2. c = d
    BY <1>2, <2>1 DEF Return, SessionTypeOK
  <2>3. Held(d)' = {}
    BY <2>1, <2>2, MembersLeave DEF Return, RemoveClient, RemoveClientFromState, Held
  <2>4. subscription_count'[d] = 0 /\ call'[d] = Idle
    BY <2>1, <2>2
    DEF Return, RemoveClient, RemoveClientFromState, TypeInv, TypeOK, StateTypeOK
  <2> QED BY <2>3, <2>4
<1> QED BY <1>1, <1>2

(* The handler, check task and lock of a connection have their types, and   *)
(* the lock is only held by who is there to let it go.                      *)
LEMMA SessionTypeStep == SessionTypeOK /\ [SessionNext]_allVars => SessionTypeOK'
<1> SUFFICES ASSUME SessionTypeOK, [SessionNext]_allVars PROVE SessionTypeOK'
  OBVIOUS
<1>1. CASE Forwarding \/ UNCHANGED allVars
  BY <1>1 DEF Forwarding, allVars, sessionVars, SessionTypeOK
<1>2. ASSUME NEW c \in Clients, ClientCalls(c)
      PROVE  SessionTypeOK'
  BY <1>2 DEF ClientCalls, sessionVars, SessionTypeOK
<1>3. ASSUME NEW c \in Clients, SessionStep(c)
      PROVE  SessionTypeOK'
  <2>1. CASE Connect(c)
    BY <2>1 DEF Connect, SocketClosed, SessionTypeOK
  <2>2. CASE StartSend(c)
    BY <2>2 DEF StartSend, SessionTypeOK
  <2>3. CASE FinishSend(c)
    BY <2>3 DEF FinishSend, SessionTypeOK
  <2>4. CASE PeerEnds(c) \/ CheckerEnds(c)
    BY <2>4 DEF PeerEnds, CheckerEnds, Return, SessionTypeOK
  <2>5. CASE EndGrace(c) \/ PassSessionTime(c) \/ Check(c)
    BY <2>5 DEF EndGrace, PassSessionTime, Check, SessionTypeOK
  <2>6. CASE LockOutgoing(c)
    BY <2>6 DEF LockOutgoing, SessionTypeOK
  <2>7. CASE SendClose(c)
    BY <2>7 DEF SendClose, SessionTypeOK
  <2> QED BY <1>3, <2>1, <2>2, <2>3, <2>4, <2>5, <2>6, <2>7 DEF SessionStep
<1> QED BY <1>1, <1>2, <1>3 DEF SessionNext

(* Type correctness of the connections; in particular the lock of a sending *)
(* half is never held by a handler or a check task that has ended.          *)
THEOREM SessionsTyped == SessionSpec => []SessionTypeOK
<1>1. SessionInit => SessionTypeOK
  BY DEF SessionInit, SessionTypeOK
<1> QED BY <1>1, SessionTypeStep, PTL DEF SessionSpec

(* A connection that has ended has no subscription, no count of its own and *)
(* no call.                                                                 *)
THEOREM NoGhostsRemain == SessionSpec => []NoGhosts
<1>1. SessionInit => Init /\ SessionTypeOK
  BY DEF SessionInit, SessionTypeOK
<1> QED
  BY <1>1, TypeInvInit, TypeInvStep, SessionStepRefines, SessionTypeStep,
     NoGhostsInit, NoGhostsStep, PTL
  DEF SessionSpec
=============================================================================
