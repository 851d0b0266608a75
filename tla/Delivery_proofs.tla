---------------------------- MODULE Delivery_proofs ----------------------------
(* Proofs about Delivery: it is MarketData seen with its channels, and what *)
(* the channels are sent is for who reads them.                             *)
EXTENDS Delivery, MarketData_proofs, SequenceTheorems

(* Every step of Delivery is a step of the subscriptions, or none.          *)
LEMMA StepBelow == [DeliveryNext]_deliveryVars => [Next]_vars
<1> SUFFICES ASSUME DeliveryNext PROVE [Next]_vars
  BY DEF deliveryVars, vars
<1>1. ASSUME NEW c \in Clients, ConnectionStep(c) PROVE [Next]_vars
  <2>1. CASE Ping(c)
    BY <2>1 DEF Ping
  <2>2. ASSUME NEW s \in Subs, Call(c, s) PROVE Next
    BY <2>2 DEF Call, Next, CallStep
  <2>3. ASSUME NEW s \in Subs, RefuseLocked(c, s) PROVE [Next]_vars
    BY <2>3 DEF RefuseLocked
  <2>4. CASE RefuseCall(c)
    BY <2>4 DEF RefuseCall, Next, CallStep
  <2>5. CASE Reply(c)
    BY <2>5 DEF Reply
  <2>6. CASE AcceptCall(c)
    BY <2>6 DEF AcceptCall, Next, CallStep
  <2>7. ASSUME NEW t \in TaskIds, SpawnTask(c, t) PROVE Next
    BY <2>7 DEF SpawnTask, Next, CallStep
  <2>8. CASE Deliver(c)
    BY <2>8 DEF Deliver
  <2>9. CASE EndConnection(c)
    BY <2>9 DEF EndConnection, Next
  <2>10. CASE DropChannel(c)
    BY <2>10 DEF DropChannel
  <2> QED
    BY <1>1, <2>1, <2>2, <2>3, <2>4, <2>5, <2>6, <2>7, <2>8, <2>9, <2>10 DEF ConnectionStep
<1>2. ASSUME NEW t \in TaskIds, FeedStep(t) PROVE Next
  BY <1>2 DEF FeedStep, GiveUp, Forward, GoOn, Quiet, Next, TaskStep
<1>3. ASSUME NEW s \in Subs, LetTimePass(s) PROVE Next
  BY <1>3 DEF LetTimePass, Next
<1> QED BY <1>1, <1>2, <1>3 DEF DeliveryNext

(* What is proved of the subscriptions holds with the channels in place.    *)
THEOREM DeliveryImplements == DeliverySpec => Spec
<1>1. DeliveryInit => Init
  BY DEF DeliveryInit
<1> QED BY <1>1, StepBelow, PTL DEF DeliverySpec, Spec

-----------------------------------------------------------------------------
(* Channels.                                                                *)

(* An offer keeps a channel a sequence of messages within its capacity, and *)
(* puts the message at the end or changes nothing.                          *)
LEMMA OfferedType ==
  ASSUME NEW q \in Seq(Messages), NEW m \in Messages, Len(q) <= SENDER_BOUND
  PROVE  Offered(q, m) \in Seq(Messages) /\ Len(Offered(q, m)) <= SENDER_BOUND
<1>1. Append(q, m) \in Seq(Messages) /\ Len(Append(q, m)) = Len(q) + 1
  BY AppendProperties
<1>2. Len(q) \in Nat
  BY LenProperties
<1> QED BY <1>1, <1>2, DeliveryAssumption DEF Offered

(* A channel that grew by an update was offered that update.                *)
LEMMA OfferedUpdate ==
  ASSUME NEW q \in Seq(Messages), NEW m \in Messages, NEW s \in Messages,
         Offered(q, m) = Append(q, s)
  PROVE  m = s
<1>1. /\ Len(Append(q, m)) = Len(q) + 1 /\ Append(q, m)[Len(q) + 1] = m
      /\ Len(Append(q, s)) = Len(q) + 1 /\ Append(q, s)[Len(q) + 1] = s
  BY AppendProperties
<1>2. Len(q) \in Nat
  BY LenProperties
<1>3. Offered(q, m) # q
  BY <1>1, <1>2
<1> QED BY <1>1, <1>3 DEF Offered

(* A channel that is left alone, taken from or emptied did not grow.        *)
LEMMA NotGrown ==
  ASSUME NEW q \in Seq(Messages), NEW s \in Messages
  PROVE  /\ q # Append(q, s)
         /\ << >> # Append(q, s)
         /\ q # << >> => Tail(q) # Append(q, s)
<1>1. Len(Append(q, s)) = Len(q) + 1
  BY AppendProperties
<1>2. Len(q) \in Nat
  BY LenProperties
<1>3. q # << >> => Len(Tail(q)) = Len(q) - 1
  BY HeadTailProperties
<1> QED BY <1>1, <1>2, <1>3

(* What a step does to the channels.                                        *)
LEMMA ChannelEffect ==
  ASSUME [DeliveryNext]_deliveryVars
  PROVE  \/ channel' = channel /\ UNCHANGED subscription_state
         \/ channel' = channel /\ \E c \in Clients : Accept(c)
         \/ channel' = channel /\ \E t \in TaskIds : CloseIfEmpty(t)
         \/ \E c \in Clients :
              /\ channel[c] # << >> /\ UNCHANGED vars
              /\ channel' = [channel EXCEPT ![c] = Tail(@)]
         \/ channel' = channel /\ \E c \in Clients : EndConnection(c)
         \/ \E c \in Clients : UNCHANGED vars /\ channel' = [channel EXCEPT ![c] = << >>]
         \/ \E c \in Clients : UNCHANGED vars /\ channel' = SentTo({c}, "reply")
         \/ \E t \in TaskIds :
              ShutDown(t) /\ channel' = SentTo(Members(task[t].sub), "notice")
         \/ \E t \in TaskIds :
              Receive(t) /\ channel' = SentTo(Reached(t), task[t].sub)
<1>1. CASE UNCHANGED deliveryVars
  BY <1>1 DEF deliveryVars, vars, stateVars
<1>2. ASSUME NEW c \in Clients, ConnectionStep(c)
      PROVE  \/ channel' = channel /\ UNCHANGED subscription_state
             \/ channel' = channel /\ Accept(c)
             \/ /\ channel[c] # << >> /\ UNCHANGED vars
                /\ channel' = [channel EXCEPT ![c] = Tail(@)]
             \/ channel' = channel /\ EndConnection(c)
             \/ UNCHANGED vars /\ channel' = [channel EXCEPT ![c] = << >>]
             \/ UNCHANGED vars /\ channel' = SentTo({c}, "reply")
  BY <1>2
  DEF ConnectionStep, Ping, Call, CheckLocked, RefuseLocked, RefuseCall, Refuse, Reply,
      AcceptCall, SpawnTask, Spawn, Deliver, EndConnection, DropChannel, vars, stateVars
<1>3. ASSUME NEW t \in TaskIds, FeedStep(t)
      PROVE  \/ channel' = channel /\ UNCHANGED subscription_state
             \/ channel' = channel /\ CloseIfEmpty(t)
             \/ ShutDown(t) /\ channel' = SentTo(Members(task[t].sub), "notice")
             \/ Receive(t) /\ channel' = SentTo(Reached(t), task[t].sub)
  BY <1>3
  DEF FeedStep, GiveUp, Forward, GoOn, Quiet, ConnectOk, ConnectFails, ConnectRejected,
      ReadFails, AgeListeners, stateVars
<1>4. ASSUME NEW s \in Subs, LetTimePass(s)
      PROVE  channel' = channel /\ UNCHANGED subscription_state
  BY <1>4 DEF LetTimePass, PassTime
<1> QED BY <1>1, <1>2, <1>3, <1>4 DEF DeliveryNext

(* Channels are sequences of messages within their capacity.                *)
ChannelsTyped ==
  /\ channel \in [Clients -> Seq(Messages)]
  /\ \A c \in Clients : Len(channel[c]) <= SENDER_BOUND

(* Sending keeps them so.                                                   *)
LEMMA SentType ==
  ASSUME ChannelsTyped, NEW clients, NEW m \in Messages, channel' = SentTo(clients, m)
  PROVE  ChannelsTyped'
<1>1. \A c \in Clients : /\ Offered(channel[c], m) \in Seq(Messages)
                         /\ Len(Offered(channel[c], m)) <= SENDER_BOUND
  BY OfferedType DEF ChannelsTyped
<1> QED BY <1>1 DEF ChannelsTyped, SentTo

(* Every step keeps them so.                                                *)
LEMMA ChannelsStep ==
  ASSUME TypeInv, ChannelsTyped, [DeliveryNext]_deliveryVars
  PROVE  ChannelsTyped'
<1>0. {"notice", "reply"} \subseteq Messages /\ Subs \subseteq Messages
  BY DEF Messages
<1>1. ASSUME NEW c \in Clients, channel[c] # << >>,
             channel' = [channel EXCEPT ![c] = Tail(@)]
      PROVE  ChannelsTyped'
  <2>1. /\ Tail(channel[c]) \in Seq(Messages)
        /\ Len(Tail(channel[c])) = Len(channel[c]) - 1
    BY <1>1, HeadTailProperties DEF ChannelsTyped
  <2>2. Len(channel[c]) \in Nat /\ SENDER_BOUND \in Nat
    BY LenProperties, DeliveryAssumption DEF ChannelsTyped
  <2>3. Len(Tail(channel[c])) <= SENDER_BOUND
    BY <2>1, <2>2 DEF ChannelsTyped
  <2> QED BY <1>1, <2>1, <2>3 DEF ChannelsTyped
<1>2. ASSUME NEW c \in Clients, channel' = [channel EXCEPT ![c] = << >>]
      PROVE  ChannelsTyped'
  <2>1. << >> \in Seq(Messages) /\ Len(<< >>) = 0 /\ 0 <= SENDER_BOUND
    BY EmptySeq, DeliveryAssumption
  <2> QED BY <1>2, <2>1 DEF ChannelsTyped
<1>3. ASSUME NEW t \in TaskIds, Receive(t) PROVE task[t].sub \in Messages
  BY <1>0, <1>3 DEF Receive, TypeInv, HaveSub, Live
<1>4. CASE channel' = channel
  BY <1>4 DEF ChannelsTyped
<1> QED BY <1>0, <1>1, <1>2, <1>3, <1>4, SentType, ChannelEffect

(* Who is owed a reply, which copies are closed and who is leaving.         *)
Bookkeeping ==
  /\ owed \subseteq Clients
  /\ closed \in [TaskIds -> SUBSET Clients]
  /\ leaving \subseteq Clients

(* They stay well-typed.                                                    *)
LEMMA BookkeepingStep ==
  ASSUME Bookkeeping, [DeliveryNext]_deliveryVars PROVE Bookkeeping'
<1>1. CASE UNCHANGED deliveryVars
  BY <1>1 DEF deliveryVars, Bookkeeping
<1>2. ASSUME NEW c \in Clients, ConnectionStep(c)
      PROVE  Bookkeeping'
  BY <1>2
  DEF ConnectionStep, Ping, Call, RefuseLocked, RefuseCall, Reply, AcceptCall, SpawnTask,
      Deliver, EndConnection, DropChannel, Bookkeeping
<1>3. ASSUME NEW t \in TaskIds, FeedStep(t)
      PROVE  Bookkeeping'
  BY <1>3 DEF FeedStep, GiveUp, Forward, GoOn, Bookkeeping
<1>4. ASSUME NEW s \in Subs, LetTimePass(s)
      PROVE  Bookkeeping'
  BY <1>4 DEF LetTimePass, Bookkeeping
<1> QED BY <1>1, <1>2, <1>3, <1>4 DEF DeliveryNext

(* Channels hold messages, never more than their capacity.                  *)
THEOREM DeliveryTyped == DeliverySpec => []DeliveryTypeOK
<1> DEFINE Inv == TypeInv /\ DeliveryTypeOK
<1>1. DeliveryInit => Inv
  <2> SUFFICES ASSUME DeliveryInit PROVE Inv
    OBVIOUS
  <2>1. TypeInv /\ TypeOK
    BY TypeInvInit DEF DeliveryInit, TypeInv
  <2>2. << >> \in Seq(Messages) /\ Len(<< >>) = 0 /\ 0 <= SENDER_BOUND
    BY EmptySeq, DeliveryAssumption
  <2> QED BY <2>1, <2>2 DEF DeliveryInit, DeliveryTypeOK
<1>2. Inv /\ [DeliveryNext]_deliveryVars => Inv'
  <2> SUFFICES ASSUME Inv, [DeliveryNext]_deliveryVars PROVE Inv'
    OBVIOUS
  <2>1. TypeInv' /\ TypeOK'
    BY StepBelow, TypeInvStep DEF TypeInv
  <2>2. ChannelsTyped'
    BY ChannelsStep DEF ChannelsTyped, DeliveryTypeOK
  <2>3. Bookkeeping'
    BY BookkeepingStep DEF Bookkeeping, DeliveryTypeOK
  <2> QED BY <2>1, <2>2, <2>3 DEF ChannelsTyped, Bookkeeping, DeliveryTypeOK
<1> QED BY <1>1, <1>2, PTL DEF DeliverySpec

-----------------------------------------------------------------------------
(* The copies: whom a task still reaches is in its subscription, or about to*)
(* be gone.                                                                 *)
CopiesTrue ==
  \A t \in TaskIds :
    Live(t) => task[t].listeners \ closed[t] \subseteq Members(task[t].sub) \cup leaving

DeliveryInv == TypeInv /\ OwnInv /\ DeliveryTypeOK /\ CopiesTrue

(* Every step keeps the copies true: who leaves is leaving until it is      *)
(* closed in them, and who is dropped is dropped by the only task that has  *)
(* copied it.                                                               *)
LEMMA CopiesStep ==
  ASSUME DeliveryInv, [DeliveryNext]_deliveryVars PROVE CopiesTrue'
<1>0. /\ task \in [TaskIds -> TaskType] /\ closed \in [TaskIds -> SUBSET Clients]
      /\ \A t \in TaskIds : Live(t) => task[t].sub \in Subs
  BY DEF DeliveryInv, TypeInv, TypeOK, HaveSub, DeliveryTypeOK
<1>1. ASSUME task' = task, closed' = closed, leaving' = leaving,
             \A s \in Subs : Members(s) \subseteq Members(s)'
      PROVE  CopiesTrue'
  BY <1>0, <1>1 DEF CopiesTrue, DeliveryInv, Live
<1>2. CASE UNCHANGED deliveryVars
  BY <1>1, <1>2, MembersSame DEF deliveryVars, vars, stateVars
<1>3. ASSUME NEW c \in Clients, ConnectionStep(c) PROVE CopiesTrue'
  <2>1. CASE Ping(c)
    BY <1>1, <2>1, MembersSame DEF Ping, vars, stateVars
  <2>2. ASSUME NEW s \in Subs, Call(c, s) PROVE CopiesTrue'
    BY <1>1, <2>2, MembersSame DEF Call, CheckLocked
  <2>3. ASSUME NEW s \in Subs, RefuseLocked(c, s) PROVE CopiesTrue'
    BY <1>1, <2>3, MembersSame DEF RefuseLocked, vars, stateVars
  <2>4. CASE RefuseCall(c)
    BY <1>1, <2>4, MembersSame DEF RefuseCall, Refuse, stateVars
  <2>5. CASE Reply(c)
    BY <1>1, <2>5, MembersSame DEF Reply, vars, stateVars
  <2>6. CASE AcceptCall(c)
    BY <1>1, <2>6, MembersJoin DEF AcceptCall, Accept, Insert
  <2>7. ASSUME NEW t \in TaskIds, SpawnTask(c, t) PROVE CopiesTrue'
    <3>1. \A x : Members(x)' = Members(x)
      BY <2>7, MembersSame DEF SpawnTask, Spawn, stateVars
    <3>2. /\ closed' = closed /\ leaving' = leaving
          /\ task' = [task EXCEPT ![t] = Fresh(call[c].sub)]
      BY <2>7 DEF SpawnTask, Spawn
    <3> QED BY <1>0, <3>1, <3>2 DEF CopiesTrue, DeliveryInv, Live, Fresh
  <2>8. CASE Deliver(c)
    BY <1>1, <2>8, MembersSame DEF Deliver, vars, stateVars
  <2>9. CASE EndConnection(c)
    <3>1. \A x : Members(x)' = Members(x) \ {c}
      BY <2>9, MembersLeave DEF EndConnection, RemoveClient, RemoveClientFromState
    <3>2. task' = task /\ closed' = closed /\ leaving' = leaving \cup {c}
      BY <2>9 DEF EndConnection, RemoveClient
    <3> QED BY <1>0, <3>1, <3>2 DEF CopiesTrue, DeliveryInv, Live
  <2>10. CASE DropChannel(c)
    <3>1. \A x : Members(x)' = Members(x)
      BY <2>10, MembersSame DEF DropChannel, vars, stateVars
    <3>2. /\ task' = task /\ leaving' = leaving \ {c}
          /\ closed' = [t \in TaskIds |-> closed[t] \cup ({c} \cap task[t].listeners)]
      BY <2>10 DEF DropChannel, vars
    <3> QED BY <1>0, <3>1, <3>2 DEF CopiesTrue, DeliveryInv, Live
  <2> QED
    BY <1>3, <2>1, <2>2, <2>3, <2>4, <2>5, <2>6, <2>7, <2>8, <2>9, <2>10 DEF ConnectionStep
<1>4. ASSUME NEW t \in TaskIds, FeedStep(t) PROVE CopiesTrue'
  <2> DEFINE Ends == /\ Live(t) /\ task' = [task EXCEPT ![t] = Free]
                     /\ RemoveEntry(task[t].sub)
                     /\ \A u \in TaskIds : u # t => closed'[u] = closed[u]
                     /\ leaving' = leaving
  <2>1. CASE Ends
    <3>1. \A u \in TaskIds : u # t /\ Live(u) => task[u].sub # task[t].sub
      BY <1>0, <2>1 DEF DeliveryInv, OwnInv, OneUpstream, Runs
    <3>2. \A x : Members(x)' = IF x = task[t].sub THEN {} ELSE Members(x)
      BY <2>1, MembersRemoved
    <3>3. ~Live(t)' /\ \A u \in TaskIds : u # t => task'[u] = task[u]
      BY <1>0, <2>1 DEF Live, Free
    <3> QED BY <2>1, <3>1, <3>2, <3>3 DEF CopiesTrue, DeliveryInv, Live
  <2>2. CASE GiveUp(t)
    <3>1. Ends
      BY <1>0, <2>2 DEF GiveUp, ShutDown, DropSubscription, Live
    <3> QED BY <2>1, <3>1
  <2>3. CASE GoOn(t) /\ CloseIfEmpty(t)
    <3>1. CASE Ends
      BY <2>1, <3>1
    <3>2. CASE task' = [task EXCEPT ![t].at = "stream"] /\ UNCHANGED subscription_state
      <4>1. \A x : Members(x)' = Members(x)
        BY <3>2, MembersSame
      <4> QED BY <1>0, <2>3, <3>2, <4>1 DEF GoOn, CloseIfEmpty, CopiesTrue, DeliveryInv, Live
    <3> QED BY <2>3, <3>1, <3>2 DEF GoOn, CloseIfEmpty, Live
  <2>4. CASE Forward(t)
    <3>1. \A x : Members(x)' = Members(x)
      BY <2>4, MembersSame DEF Forward, Receive, stateVars
    <3> QED BY <1>0, <2>4, <3>1 DEF Forward, Receive, CopiesTrue, DeliveryInv, Live
  <2>5. CASE GoOn(t) /\ ~CloseIfEmpty(t)
    <3>1. /\ \A x : Members(x)' = Members(x)
          /\ closed' = closed /\ leaving' = leaving
      BY <2>5, MembersSame
      DEF GoOn, Quiet, ConnectOk, ConnectFails, ConnectRejected, ReadFails, AgeListeners,
          stateVars
    <3>2. \A u \in TaskIds : /\ task'[u].listeners = task[u].listeners
                             /\ task'[u].sub = task[u].sub
                             /\ Live(u)' => Live(u)
      BY <1>0, <2>5
      DEF GoOn, Quiet, ConnectOk, ConnectFails, ConnectRejected, ReadFails, AgeListeners,
          Connecting, Live, TaskType
    <3> QED BY <3>1, <3>2 DEF CopiesTrue, DeliveryInv
  <2> QED BY <1>4, <2>2, <2>3, <2>4, <2>5 DEF FeedStep
<1>5. ASSUME NEW s \in Subs, LetTimePass(s) PROVE CopiesTrue'
  BY <1>1, <1>5, MembersSame DEF LetTimePass, PassTime
<1> QED BY <1>2, <1>3, <1>4, <1>5 DEF DeliveryNext

(* The invariant of Delivery, from its parts.                               *)
LEMMA DeliveryInvInit == DeliveryInit => DeliveryInv
<1> SUFFICES ASSUME DeliveryInit PROVE DeliveryInv
  OBVIOUS
<1>1. TypeInv /\ TypeOK /\ OwnInv
  BY TypeInvInit, OwnInvInit DEF DeliveryInit, TypeInv
<1>2. << >> \in Seq(Messages) /\ Len(<< >>) = 0 /\ 0 <= SENDER_BOUND
  BY EmptySeq, DeliveryAssumption
<1>3. DeliveryTypeOK
  BY <1>1, <1>2 DEF DeliveryInit, DeliveryTypeOK
<1>4. CopiesTrue
  BY DEF DeliveryInit, Init, CopiesTrue, Live, Free
<1> QED BY <1>1, <1>3, <1>4 DEF DeliveryInv

(* ... is kept by every step.                                               *)
LEMMA DeliveryInvStep == DeliveryInv /\ [DeliveryNext]_deliveryVars => DeliveryInv'
<1> SUFFICES ASSUME DeliveryInv, [DeliveryNext]_deliveryVars PROVE DeliveryInv'
  OBVIOUS
<1>1. TypeInv /\ OwnInv /\ [Next]_vars
  BY StepBelow DEF DeliveryInv
<1>2. TypeInv' /\ TypeOK' /\ OwnInv'
  BY <1>1, TypeInvStep, OwnInvStep DEF TypeInv
<1>3. ChannelsTyped'
  BY ChannelsStep DEF DeliveryInv, ChannelsTyped, DeliveryTypeOK
<1>4. Bookkeeping'
  BY BookkeepingStep DEF DeliveryInv, DeliveryTypeOK, Bookkeeping
<1>5. CopiesTrue'
  BY CopiesStep
<1> QED BY <1>2, <1>3, <1>4, <1>5 DEF DeliveryInv, DeliveryTypeOK, ChannelsTyped, Bookkeeping

(* An update only goes to a connection that is in its subscription, or to   *)
(* the channel of one that has ended, before that goes too.                 *)
THEOREM UpdatesForMembers == DeliverySpec => OnlyMembersServed
<1> DEFINE Served == \A c \in Clients, s \in Subs :
                       channel'[c] = Append(channel[c], s) => c \in Members(s) \cup leaving
<1>1. DeliveryInv /\ [DeliveryNext]_deliveryVars => [Served]_deliveryVars
  <2> SUFFICES ASSUME DeliveryInv, [DeliveryNext]_deliveryVars,
                      NEW c \in Clients, NEW s \in Subs,
                      channel'[c] = Append(channel[c], s)
               PROVE  c \in Members(s) \cup leaving
    OBVIOUS
  <2>0. /\ channel \in [Clients -> Seq(Messages)] /\ channel[c] \in Seq(Messages)
        /\ s \in Messages /\ {"notice", "reply"} \subseteq Messages
        /\ s \notin {"notice", "reply"}
    BY DeliveryAssumption DEF DeliveryInv, DeliveryTypeOK, Messages
  <2>1. /\ channel[c] # Append(channel[c], s)
        /\ << >> # Append(channel[c], s)
        /\ channel[c] # << >> => Tail(channel[c]) # Append(channel[c], s)
    BY <2>0, NotGrown
  <2>2. ASSUME NEW clients, NEW m \in Messages, channel' = SentTo(clients, m)
        PROVE  c \in clients /\ m = s
    <3>1. CASE c \notin clients
      BY <2>0, <2>1, <2>2, <3>1 DEF SentTo
    <3>2. CASE c \in clients
      <4>1. Offered(channel[c], m) = Append(channel[c], s)
        BY <2>2, <3>2 DEF SentTo
      <4> QED BY <2>0, <3>2, <4>1, OfferedUpdate
    <3> QED BY <3>1, <3>2
  <2>3. ASSUME NEW t \in TaskIds, Receive(t), channel' = SentTo(Reached(t), task[t].sub)
        PROVE  c \in Members(s) \cup leaving
    <3>1. Live(t) /\ task[t].sub \in Subs
      BY <2>3 DEF Receive, Live, DeliveryInv, TypeInv, HaveSub
    <3>2. c \in Reached(t) /\ task[t].sub = s
      BY <2>2, <2>3, <3>1 DEF Messages
    <3> QED BY <3>1, <3>2 DEF Reached, DeliveryInv, CopiesTrue
  <2>4. ASSUME NEW d \in Clients, \/ channel' = [channel EXCEPT ![d] = << >>]
                                  \/ /\ channel[d] # << >>
                                     /\ channel' = [channel EXCEPT ![d] = Tail(@)]
        PROVE  FALSE
    BY <2>0, <2>1, <2>4
  <2>5. channel' # channel
    BY <2>1
  <2>6. \A clients : /\ channel' # SentTo(clients, "notice")
                     /\ channel' # SentTo(clients, "reply")
    BY <2>0, <2>2
  <2> QED BY <2>3, <2>4, <2>5, <2>6, ChannelEffect
<1> QED BY <1>1, DeliveryInvInit, DeliveryInvStep, PTL DEF DeliverySpec, OnlyMembersServed

(* Whoever is dropped with a failed subscription is told, if there is room. *)
THEOREM NoticeGiven == DeliverySpec => DroppedAreTold
<1> DEFINE Told == \A c \in Clients, s \in Subs :
                     c \in Members(s) \ Members(s)' /\ Len(channel[c]) < SENDER_BOUND
                       => channel'[c] = Append(channel[c], "notice") \/ EndConnection(c)
<1>1. DeliveryInv /\ [DeliveryNext]_deliveryVars => [Told]_deliveryVars
  <2> SUFFICES ASSUME DeliveryInv, [DeliveryNext]_deliveryVars,
                      NEW c \in Clients, NEW s \in Subs,
                      c \in Members(s), c \notin Members(s)',
                      Len(channel[c]) < SENDER_BOUND
               PROVE  channel'[c] = Append(channel[c], "notice") \/ EndConnection(c)
    OBVIOUS
  <2>1. ~UNCHANGED subscription_state
    BY MembersSame
  <2>2. ASSUME NEW d \in Clients, Accept(d) PROVE FALSE
    BY <2>2, MembersJoin DEF Accept, Insert
  <2>3. ASSUME NEW t \in TaskIds, CloseIfEmpty(t) PROVE FALSE
    BY <2>1, <2>3, MembersRemoved DEF CloseIfEmpty
  <2>4. ASSUME NEW d \in Clients, EndConnection(d) PROVE EndConnection(c)
    <3>1. \A x : Members(x)' = Members(x) \ {d}
      BY <2>4, MembersLeave DEF EndConnection, RemoveClient, RemoveClientFromState
    <3> QED BY <2>4, <3>1
  <2>5. ASSUME NEW t \in TaskIds, ShutDown(t),
               channel' = SentTo(Members(task[t].sub), "notice")
        PROVE  channel'[c] = Append(channel[c], "notice")
    <3>1. \A x : Members(x)' = IF x = task[t].sub THEN {} ELSE Members(x)
      BY <2>5, MembersRemoved DEF ShutDown, DropSubscription
    <3>2. c \in Members(task[t].sub)
      BY <3>1
    <3> QED BY <2>5, <3>2 DEF SentTo, Offered
  <2>6. ASSUME NEW t \in TaskIds, Receive(t) PROVE UNCHANGED subscription_state
    BY <2>6 DEF Receive, stateVars
  <2>7. ~UNCHANGED vars
    BY <2>1 DEF vars, stateVars
  <2> QED BY <2>1, <2>2, <2>3, <2>4, <2>5, <2>6, <2>7, ChannelEffect
<1> QED BY <1>1, DeliveryInvInit, DeliveryInvStep, PTL DEF DeliverySpec, DroppedAreTold
=============================================================================
