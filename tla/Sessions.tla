------------------------------- MODULE Sessions -------------------------------
(***************************************************************************)
(* The websocket connections of merx (axum_handle_socket in functions.rs)  *)
(* around the subscriptions of MarketData.  A connection is a handler,     *)
(* which reads the client's messages and forwards market data to it, and a *)
(* check task of its own, which closes a connection that has nothing to    *)
(* forward or has lasted too long.  Both write through one mutex, outgoing.*)
(*                                                                         *)
(* The branches of the handler's select are polled by one task, so none of *)
(* them moves while a call of MarketData is under way.  The check task runs*)
(* beside them; it is spawned, and outlives a handler that ends first.     *)
(***************************************************************************)
EXTENDS MarketData

CONSTANT PublicRoutes   \* the routes whose SUB_TYPE is PublicSubscription

ASSUME PublicAssumption == PublicRoutes \subseteq Routes

VARIABLES
  handler,    \* client -> is its handler "running", or has it "ended"
  checker,    \* client -> where its check task is
  outgoing,   \* client -> who holds the lock of the sending half
  overtime    \* client -> connected for over MAX_SESSION_TIME

sessionVars == << handler, checker, outgoing, overtime >>

allVars == << vars, sessionVars >>

(* "grace": the first 20 seconds; "watch": checking every second; "closing":*)
(* about to send the close frame; "done": returned.  Whoever holds the lock *)
(* of the sending half is still there to let it go.                         *)
SessionTypeOK ==
  /\ handler \in [Clients -> {"running", "ended"}]
  /\ checker \in [Clients -> {"grace", "watch", "closing", "done"}]
  /\ outgoing \in [Clients -> {"free", "handler", "checker"}]
  /\ overtime \in [Clients -> BOOLEAN]
  /\ \A c \in Clients :
       /\ outgoing[c] = "handler" => handler[c] = "running"
       /\ outgoing[c] = "checker" => checker[c] = "closing"

SessionInit ==
  /\ Init
  /\ handler = [c \in Clients |-> "ended"]
  /\ checker = [c \in Clients |-> "done"]
  /\ outgoing = [c \in Clients |-> "free"]
  /\ overtime = [c \in Clients |-> FALSE]

Public(c) == RouteOf[c] \in PublicRoutes

(* The socket closes when both halves are dropped: the handler and the      *)
(* check task each hold the sending one.                                    *)
SocketClosed(c) == handler[c] = "ended" /\ checker[c] = "done"

-----------------------------------------------------------------------------
(* A connection is made, from an address whose last socket has closed.      *)
Connect(c) ==
  /\ SocketClosed(c)
  /\ handler' = [handler EXCEPT ![c] = "running"]
  /\ checker' = [checker EXCEPT ![c] = "grace"]
  /\ overtime' = [overtime EXCEPT ![c] = FALSE]
  /\ UNCHANGED << vars, outgoing >>

(* The handler takes a message from its channel and starts to send it.      *)
StartSend(c) ==
  /\ handler[c] = "running" /\ call[c] = Idle
  /\ outgoing[c] = "free"
  /\ outgoing' = [outgoing EXCEPT ![c] = "handler"]
  /\ UNCHANGED << vars, handler, checker, overtime >>

FinishSend(c) ==
  /\ outgoing[c] = "handler" /\ call[c] = Idle
  /\ outgoing' = [outgoing EXCEPT ![c] = "free"]
  /\ UNCHANGED << vars, handler, checker, overtime >>

(* Mutant: the handler returns without removing its client.                 *)
Return_Forgets(c) ==
  /\ handler[c] = "running" /\ call[c] = Idle
  /\ handler' = [handler EXCEPT ![c] = "ended"]
  /\ outgoing' = [outgoing EXCEPT ![c] = IF @ = "handler" THEN "free" ELSE @]
  /\ UNCHANGED << vars, checker, overtime >>

(* The handler returns: it removes its client from the shared tables, and a *)
(* send that was under way is dropped with the lock it holds.               *)
Return(c) ==
  /\ handler[c] = "running"
  /\ RemoveClient(c)
  /\ handler' = [handler EXCEPT ![c] = "ended"]
  /\ outgoing' = [outgoing EXCEPT ![c] = IF @ = "handler" THEN "free" ELSE @]
  /\ UNCHANGED << checker, overtime >>

(* The client closes the connection, or reading from it or sending to it    *)
(* fails.                                                                   *)
PeerEnds(c) == Return(c)

(* The select of the handler sees that the check task has returned.         *)
CheckerEnds(c) == checker[c] = "done" /\ Return(c)

-----------------------------------------------------------------------------
(* The check task.                                                          *)

(* 20 seconds have passed since the connection was made.                    *)
EndGrace(c) ==
  /\ checker[c] = "grace"
  /\ checker' = [checker EXCEPT ![c] = "watch"]
  /\ UNCHANGED << vars, handler, outgoing, overtime >>

(* MAX_SESSION_TIME has passed since the connection was made.               *)
PassSessionTime(c) ==
  /\ checker[c] = "watch" /\ ~overtime[c]
  /\ overtime' = [overtime EXCEPT ![c] = TRUE]
  /\ UNCHANGED << vars, handler, checker, outgoing >>

(* Mutant: a session of a public route may last for ever.                   *)
Check_NoTimeLimit(c) ==
  /\ checker[c] = "watch"
  /\ ~IsClientStillActive(c)
  /\ checker' = [checker EXCEPT ![c] = "closing"]
  /\ UNCHANGED << vars, handler, outgoing, overtime >>

(* Mutant: only the length of the session is checked.                       *)
Check_NotActivity(c) ==
  /\ checker[c] = "watch"
  /\ Public(c) /\ overtime[c]
  /\ checker' = [checker EXCEPT ![c] = "closing"]
  /\ UNCHANGED << vars, handler, outgoing, overtime >>

(* A check that finds a reason to close; any other changes nothing.         *)
Check(c) ==
  /\ checker[c] = "watch"
  /\ ~IsClientStillActive(c) \/ (Public(c) /\ overtime[c])
  /\ checker' = [checker EXCEPT ![c] = "closing"]
  /\ UNCHANGED << vars, handler, outgoing, overtime >>

LockOutgoing(c) ==
  /\ checker[c] = "closing" /\ outgoing[c] = "free"
  /\ outgoing' = [outgoing EXCEPT ![c] = "checker"]
  /\ UNCHANGED << vars, handler, checker, overtime >>

(* Mutant: a check task that cannot send returns with the lock held.        *)
SendClose_KeepsLock(c) ==
  /\ outgoing[c] = "checker"
  /\ checker' = [checker EXCEPT ![c] = "done"]
  /\ UNCHANGED << vars, handler, outgoing, overtime >>

(* The close frame is sent, or sending it fails; the check task returns.    *)
SendClose(c) ==
  /\ outgoing[c] = "checker"
  /\ checker' = [checker EXCEPT ![c] = "done"]
  /\ outgoing' = [outgoing EXCEPT ![c] = "free"]
  /\ UNCHANGED << vars, handler, overtime >>

-----------------------------------------------------------------------------
(* A client's messages are read, and calls made, while its handler runs.    *)
ClientCalls(c) ==
  /\ handler[c] = "running"
  /\ CallStep(c)
  /\ UNCHANGED sessionVars

Forwarding ==
  /\ (\E t \in TaskIds : TaskStep(t)) \/ (\E s \in Subs : PassTime(s))
  /\ UNCHANGED sessionVars

SessionStep(c) ==
  \/ Connect(c)
  \/ StartSend(c)
  \/ FinishSend(c)
  \/ PeerEnds(c)
  \/ CheckerEnds(c)
  \/ EndGrace(c)
  \/ PassSessionTime(c)
  \/ Check(c)
  \/ LockOutgoing(c)
  \/ SendClose(c)

SessionNext ==
  \/ \E c \in Clients : ClientCalls(c) \/ SessionStep(c)
  \/ Forwarding

SessionSpec == SessionInit /\ [][SessionNext]_allVars

(* tokio runs whatever can run, time passes, and its mutex is fair to those *)
(* who wait for it.                                                         *)
SessionScheduling ==
  \A c \in Clients :
    /\ WF_allVars(handler[c] = "running" /\ UNCHANGED sessionVars
                  /\ (Refuse(c) \/ Accept(c) \/ \E t \in TaskIds : Spawn(c, t)))
    /\ SF_allVars(CheckerEnds(c))
    /\ WF_allVars(EndGrace(c))
    /\ WF_allVars(PassSessionTime(c))
    /\ WF_allVars(Check(c))
    /\ SF_allVars(LockOutgoing(c))

(* A client reads what is sent to it, or its connection breaks.             *)
PeersRead ==
  \A c \in Clients : SF_allVars(FinishSend(c)) /\ WF_allVars(SendClose(c))

FairSessionSpec == SessionSpec /\ SessionScheduling /\ PeersRead

-----------------------------------------------------------------------------
(* A client whose handler has returned is in no subscription, has no count  *)
(* of its own and no call under way: nothing is forwarded, and no upstream  *)
(* held open, for a connection that is gone.  (The counts of its route's    *)
(* limit and of its IP may keep it: ExactStays says when.)                  *)
NoGhosts ==
  \A c \in Clients :
    handler[c] = "ended" =>
      Held(c) = {} /\ subscription_count[c] = 0 /\ call[c] = Idle

(* A connection without subscriptions, past its grace, is closed by merx    *)
(* unless it subscribes: a client dropped with a failed subscription does   *)
(* not stay connected for nothing.                                          *)
InactiveEnds ==
  \A c \in Clients :
    handler[c] = "running" /\ ~IsClientStillActive(c)
      ~> handler[c] = "ended" \/ IsClientStillActive(c)

(* A session on a public route ends, however active it is.                  *)
PublicEnds ==
  \A c \in Clients : Public(c) /\ handler[c] = "running" ~> handler[c] = "ended"

(* After the handler has returned the check task follows, and the socket    *)
(* closes.                                                                  *)
SocketsClose ==
  \A c \in Clients : handler[c] = "ended" ~> SocketClosed(c)
=============================================================================
