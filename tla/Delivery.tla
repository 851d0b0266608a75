------------------------------- MODULE Delivery --------------------------------
(***************************************************************************)
(* What reaches a connection.  Everything merx sends to a client goes      *)
(* through the channel of its connection, which holds SENDER_BOUND messages:*)
(* the updates of its subscriptions and the notice that one has failed,    *)
(* from the tasks, and the replies of its own receive loop.  All of them   *)
(* use try_send: what finds the channel full or gone is dropped.           *)
(*                                                                         *)
(* A task sends to the channels it copied along with its listeners.  A     *)
(* connection that ends leaves the tables first; its channel goes a moment *)
(* later, and stays gone for the copies, even if a new connection from the *)
(* same address has a channel of its own.                                  *)
(***************************************************************************)
EXTENDS MarketData, SequencesExt

CONSTANTS
  SENDER_BOUND   \* capacity of a channel

ASSUME DeliveryAssumption ==
  /\ SENDER_BOUND \in Nat \ {0}
  /\ {"notice", "reply"} \cap Subs = {}

VARIABLES
  channel,     \* client -> the messages waiting to be sent to it
  owed,        \* clients whose call was refused and is still to be answered
  closed,      \* task -> those of its listeners whose channel is gone
  leaving      \* clients out of the tables whose handler has not returned yet

deliveryVars == << vars, channel, owed, closed, leaving >>

(* An update, by its subscription; the notice that a subscription has failed*)
(* (it does not say which); an error reply or a pong.                       *)
Messages == Subs \cup {"notice", "reply"}

DeliveryInit ==
  /\ Init
  /\ channel = [c \in Clients |-> << >>]
  /\ owed = {}
  /\ closed = [t \in TaskIds |-> {}]
  /\ leaving = {}

-----------------------------------------------------------------------------
(* Mutant: a channel takes whatever it is sent.                             *)
Offered_Unbounded(queue, message) == Append(queue, message)

(* try_send.                                                                *)
Offered(queue, message) ==
  IF Len(queue) < SENDER_BOUND THEN Append(queue, message) ELSE queue

SentTo(clients, message) ==
  [c \in Clients |-> IF c \in clients THEN Offered(channel[c], message) ELSE channel[c]]

-----------------------------------------------------------------------------
(* Connections.  The receive loop takes no message while a call is running, *)
(* and none once the connection has ended.  The address is free for another *)
(* connection when the handler has returned.                                *)

Attends(c) == call[c] = Idle /\ c \notin owed /\ c \notin leaving

(* A ping is answered with a pong.                                          *)
Ping(c) ==
  /\ Attends(c)
  /\ channel' = SentTo({c}, "reply")
  /\ UNCHANGED << vars, owed, closed, leaving >>

Call(c, s) ==
  /\ Attends(c)
  /\ CheckLocked(c, s)
  /\ UNCHANGED << channel, owed, closed, leaving >>

RefuseLocked(c, s) ==
  /\ Attends(c)
  /\ s \in SubsOf[RouteOf[c]]
  /\ subscription_bad[s] = "locked"
  /\ owed' = owed \cup {c}
  /\ UNCHANGED << vars, channel, closed, leaving >>

RefuseCall(c) ==
  /\ Refuse(c)
  /\ owed' = owed \cup {c}
  /\ UNCHANGED << channel, closed, leaving >>

(* The handler answers a refusal after the section that refused.            *)
Reply(c) ==
  /\ c \in owed
  /\ owed' = owed \ {c}
  /\ channel' = SentTo({c}, "reply")
  /\ UNCHANGED << vars, closed, leaving >>

AcceptCall(c) == Accept(c) /\ UNCHANGED << channel, owed, closed, leaving >>

SpawnTask(c, t) == Spawn(c, t) /\ UNCHANGED << channel, owed, closed, leaving >>

(* receive_from_others takes a message, to send it to the client.  It is    *)
(* polled by the same task as the receive loop, hence never during a call.  *)
Deliver(c) ==
  /\ Attends(c)
  /\ channel[c] # << >>
  /\ channel' = [channel EXCEPT ![c] = Tail(@)]
  /\ UNCHANGED << vars, owed, closed, leaving >>

(* The connection ends.  Its channel is still there, read by nobody, and a  *)
(* task that has copied the sender may still put something in.              *)
EndConnection(c) ==
  /\ Attends(c)
  /\ RemoveClient(c)
  /\ leaving' = leaving \cup {c}
  /\ UNCHANGED << channel, owed, closed >>

(* Mutant: the copies lead to whatever connection the address has.          *)
DropChannel_Reopens(c) ==
  /\ c \in leaving
  /\ leaving' = leaving \ {c}
  /\ channel' = [channel EXCEPT ![c] = << >>]
  /\ UNCHANGED << vars, owed, closed >>

(* The handler returns, and the channel goes with its receiver.             *)
DropChannel(c) ==
  /\ c \in leaving
  /\ leaving' = leaving \ {c}
  /\ channel' = [channel EXCEPT ![c] = << >>]
  /\ closed' = [t \in TaskIds |-> closed[t] \cup ({c} \cap task[t].listeners)]
  /\ UNCHANGED << vars, owed >>

-----------------------------------------------------------------------------
(* Tasks.                                                                   *)

(* Mutant: the notice goes to the listeners the task has copied, not to     *)
(* those of the entry.                                                      *)
GiveUp_TellsCopies(t) ==
  /\ ShutDown(t)
  /\ channel' = SentTo(task[t].listeners \ closed[t], "notice")
  /\ closed' = [closed EXCEPT ![t] = {}]
  /\ UNCHANGED << owed, leaving >>

(* Whoever is in the entry is told before it goes.                          *)
GiveUp(t) ==
  /\ ShutDown(t)
  /\ channel' = SentTo(Members(task[t].sub), "notice")
  /\ closed' = [closed EXCEPT ![t] = {}]
  /\ UNCHANGED << owed, leaving >>

Reached(t) == IF task[t].due THEN Members(task[t].sub) ELSE task[t].listeners \ closed[t]

(* Mutant: the task waits until there is room in every channel.             *)
Forward_Waits(t) ==
  /\ \A c \in Reached(t) : Len(channel[c]) < SENDER_BOUND
  /\ Receive(t)
  /\ channel' = SentTo(Reached(t), task[t].sub)
  /\ closed' = [closed EXCEPT ![t] = IF task[t].due THEN {} ELSE @]
  /\ UNCHANGED << owed, leaving >>

(* A message of cbag goes to the listeners, those just looked up or those   *)
(* of an earlier look.                                                      *)
Forward(t) ==
  /\ Receive(t)
  /\ channel' = SentTo(Reached(t), task[t].sub)
  /\ closed' = [closed EXCEPT ![t] = IF task[t].due THEN {} ELSE @]
  /\ UNCHANGED << owed, leaving >>

(* The steps of a task that send nothing.                                   *)
Quiet(t) ==
  \/ ConnectOk(t)
  \/ ConnectFails(t)
  \/ ConnectRejected(t)
  \/ ReadFails(t)
  \/ CloseIfEmpty(t)
  \/ AgeListeners(t)

GoOn(t) == Quiet(t) /\ UNCHANGED << channel, owed, closed, leaving >>

LetTimePass(s) == PassTime(s) /\ UNCHANGED << channel, owed, closed, leaving >>

-----------------------------------------------------------------------------
ConnectionStep(c) ==
  \/ Ping(c)
  \/ \E s \in Subs : Call(c, s) \/ RefuseLocked(c, s)
  \/ RefuseCall(c)
  \/ Reply(c)
  \/ AcceptCall(c)
  \/ \E t \in TaskIds : SpawnTask(c, t)
  \/ Deliver(c)
  \/ EndConnection(c)
  \/ DropChannel(c)

FeedStep(t) == GiveUp(t) \/ Forward(t) \/ GoOn(t)

DeliveryNext ==
  \/ \E c \in Clients : ConnectionStep(c)
  \/ \E t \in TaskIds : FeedStep(t)
  \/ \E s \in Subs : LetTimePass(s)

DeliverySpec == DeliveryInit /\ [][DeliveryNext]_deliveryVars

(* As in MarketData; nothing is asked of the clients, which need not read.  *)
FairDeliverySpec ==
  /\ DeliverySpec
  /\ \A c \in Clients :
       /\ WF_deliveryVars(RefuseCall(c) \/ AcceptCall(c) \/ \E t \in TaskIds : SpawnTask(c, t))
       /\ WF_deliveryVars(Reply(c))
  /\ \A t \in TaskIds :
       /\ WF_deliveryVars(GoOn(t) /\ (ConnectOk(t) \/ ConnectFails(t) \/ ConnectRejected(t)))
       /\ WF_deliveryVars(GoOn(t) /\ CloseIfEmpty(t))
       /\ WF_deliveryVars(GoOn(t) /\ AgeListeners(t))
       /\ WF_deliveryVars(GiveUp(t))
       /\ WF_deliveryVars(Forward(t) \/ (GoOn(t) /\ ReadFails(t)))
       /\ SF_deliveryVars(Forward(t))

-----------------------------------------------------------------------------
(* The channels hold messages, never more than their capacity.              *)
DeliveryTypeOK ==
  /\ TypeOK
  /\ channel \in [Clients -> Seq(Messages)]
  /\ \A c \in Clients : Len(channel[c]) <= SENDER_BOUND
  /\ owed \subseteq Clients
  /\ closed \in [TaskIds -> SUBSET Clients]
  /\ leaving \subseteq Clients

(* An update only goes to a connection that is in its subscription: not to  *)
(* one that was dropped with it and told so, nor to one that has taken the  *)
(* address of another since the task last looked its listeners up.  Between *)
(* the end of a connection and that of its channel it may still get there,  *)
(* where nobody reads it.                                                   *)
OnlyMembersServed ==
  [][\A c \in Clients, s \in Subs :
       channel'[c] = Append(channel[c], s) => c \in Members(s) \cup leaving]_deliveryVars

(* Whoever is dropped with a failed subscription is told, also who joined   *)
(* after the task last looked, unless its channel is full.                  *)
DroppedAreTold ==
  [][\A c \in Clients, s \in Subs :
       c \in Members(s) \ Members(s)' /\ Len(channel[c]) < SENDER_BOUND
         => channel'[c] = Append(channel[c], "notice") \/ EndConnection(c)]_deliveryVars

(* A client that has joined is sent updates before long, whatever the other *)
(* listeners of the feed do, unless it goes, is dropped or does not read.   *)
DataArrives ==
  \A c \in Clients, s \in Subs :
    c \in Members(s)
      ~> \/ c \notin Members(s)
         \/ s \in Range(channel[c])
         \/ Len(channel[c]) = SENDER_BOUND
=============================================================================
