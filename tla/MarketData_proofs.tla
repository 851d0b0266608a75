-------------------------- MODULE MarketData_proofs --------------------------
(***************************************************************************)
(* Proofs about MarketData, for every set of clients, subscriptions and    *)
(* tasks and every limit.                                                  *)
(***************************************************************************)
EXTENDS MarketData, FiniteSetTheorems, NaturalsInduction,
        WellFoundedInduction, TLAPS

(* Subtraction that stops at 0 stays in the naturals.                       *)
LEMMA MonusType == ASSUME NEW a \in Nat, NEW b \in Nat PROVE Monus(a, b) \in Nat
BY DEF Monus

-----------------------------------------------------------------------------
(* Sums over finite sets.  SumFunctionOnSet is a fold, that is, a function  *)
(* on the subsets of a set, chosen by the equation it satisfies.            *)

(* Induction: a least number outside of S would have a predecessor in S.    *)
LEMMA CountingUp ==
  ASSUME NEW S, 0 \in S, \A n \in Nat : n \in S => n + 1 \in S
  PROVE  \A n \in Nat : n \in S
<1> SUFFICES ASSUME Nat \ S # {} PROVE FALSE
  OBVIOUS
<1>1. PICK n \in Nat \ S : \A m \in Nat \ S : << m, n >> \notin OpToRel(<, Nat)
  BY NatLessThanWellFounded, WFMin
<1>2. \A m \in Nat : m < n => << m, n >> \in OpToRel(<, Nat)
  BY DEF OpToRel
<1>3. n # 0 /\ n \in Nat /\ n \notin S
  OBVIOUS
<1>4. n - 1 \in Nat /\ n - 1 < n /\ (n - 1) + 1 = n
  BY <1>3
<1>5. n - 1 \in S
  BY <1>1, <1>2, <1>4
<1> QED BY <1>3, <1>4, <1>5

(* The equation of the fold: a sum is its first value and the sum of those  *)
(* of the rest.                                                             *)
First(s) == CHOOSE x \in s : TRUE

Rest(s) == s \ {First(s)}

Summed(fun, sum, s) == IF s = {} THEN 0 ELSE fun[First(s)] + sum[Rest(s)]

(* The subsets of S that have at most k members.                            *)
UpToSize(S, k) == {s \in SUBSET S : Cardinality(s) <= k}

(* The rest of a set of at most k + 1 members has at most k.                *)
LEMMA RestSmaller ==
  ASSUME NEW S, IsFiniteSet(S), NEW k \in Nat, NEW s \in UpToSize(S, k + 1), s # {}
  PROVE  First(s) \in s /\ Rest(s) \in UpToSize(S, k)
<1>1. First(s) \in s
  BY DEF First
<1>2. IsFiniteSet(s) /\ s \subseteq S /\ Cardinality(s) <= k + 1
  BY FS_Subset DEF UpToSize
<1>3. /\ Cardinality(Rest(s)) = Cardinality(s) - 1
      /\ Cardinality(s) \in Nat
  BY <1>1, <1>2, FS_RemoveElement, FS_CardinalityType DEF Rest
<1>4. Cardinality(Rest(s)) <= k
  BY <1>2, <1>3
<1> QED BY <1>1, <1>2, <1>4 DEF Rest, UpToSize

(* All subsets of S are of at most its size; only the empty one of size 0.  *)
LEMMA SizesBounded ==
  ASSUME NEW S, IsFiniteSet(S)
  PROVE  /\ UpToSize(S, Cardinality(S)) = SUBSET S
         /\ UpToSize(S, 0) = {{}}
<1>1. \A s \in SUBSET S :
        /\ IsFiniteSet(s) /\ Cardinality(s) \in Nat /\ Cardinality(s) <= Cardinality(S)
        /\ Cardinality(s) = 0 <=> s = {}
  BY FS_Subset, FS_CardinalityType, FS_EmptySet
<1>2. \A s \in SUBSET S : Cardinality(s) <= 0 <=> s = {}
  BY <1>1
<1> QED BY <1>1, <1>2 DEF UpToSize

(* A function that satisfies the equation exists: it is made size by size.  *)
LEMMA SumExists ==
  ASSUME NEW S, IsFiniteSet(S), NEW fun
  PROVE  \E sum : sum = [s \in SUBSET S |-> Summed(fun, sum, s)]
<1> DEFINE Sums(k, sum) == sum = [s \in UpToSize(S, k) |-> Summed(fun, sum, s)]
           T == {k \in Nat : \E sum : Sums(k, sum)}
<1>1. 0 \in T
  <2> DEFINE none == [s \in UpToSize(S, 0) |-> 0]
  <2>1. Sums(0, none)
    BY SizesBounded DEF Summed
  <2> QED BY <2>1
<1>2. ASSUME NEW k \in Nat, k \in T PROVE k + 1 \in T
  <2>1. PICK sum : Sums(k, sum)
    BY <1>2
  <2> DEFINE next == [s \in UpToSize(S, k + 1) |-> Summed(fun, sum, s)]
  <2>2. UpToSize(S, k) \subseteq UpToSize(S, k + 1)
    <3>1. \A s \in SUBSET S : Cardinality(s) \in Nat
      BY FS_Subset, FS_CardinalityType
    <3>2. \A s \in SUBSET S : Cardinality(s) <= k => Cardinality(s) <= k + 1
      BY <3>1
    <3> QED BY <3>2 DEF UpToSize
  <2>3. \A s \in UpToSize(S, k) : next[s] = sum[s]
    BY <2>1, <2>2
  <2>4. ASSUME NEW s \in UpToSize(S, k + 1) PROVE Summed(fun, sum, s) = Summed(fun, next, s)
    <3>1. s # {} => next[Rest(s)] = sum[Rest(s)]
      BY <2>3, RestSmaller
    <3> HIDE DEF next
    <3> QED BY <3>1 DEF Summed
  <2>5. Sums(k + 1, next)
    BY <2>4
  <2> HIDE DEF next
  <2> QED BY <2>5
<1> HIDE DEF T
<1>3. Cardinality(S) \in T
  BY <1>1, <1>2, CountingUp, FS_CardinalityType
<1> QED BY <1>3, SizesBounded DEF T

(* A sum of naturals is a natural.                                          *)
LEMMA SumType ==
  ASSUME NEW D, NEW fun \in [D -> Nat], NEW S \in SUBSET D, IsFiniteSet(S)
  PROVE  SumFunctionOnSet(fun, S) \in Nat
<1> DEFINE Sums(f) == f = [s \in SUBSET S |-> Summed(fun, f, s)]
           sum == CHOOSE f : Sums(f)
           T == {k \in Nat : \A s \in UpToSize(S, k) : sum[s] \in Nat}
<1>1. SumFunctionOnSet(fun, S) = sum[S]
  BY DEF SumFunctionOnSet, FoldFunctionOnSet, MapThenFoldSet, Summed, First, Rest
<1>2. Sums(sum)
  BY SumExists
<1> HIDE DEF sum
<1>3. \A s \in SUBSET S : sum[s] = Summed(fun, sum, s)
  BY <1>2
<1>4. 0 \in T
  BY <1>3, SizesBounded DEF Summed
<1>5. ASSUME NEW k \in Nat, k \in T PROVE k + 1 \in T
  <2> SUFFICES ASSUME NEW s \in UpToSize(S, k + 1) PROVE sum[s] \in Nat
    OBVIOUS
  <2>1. s \subseteq S /\ sum[s] = Summed(fun, sum, s)
    BY <1>3 DEF UpToSize
  <2>2. CASE s = {}
    BY <2>1, <2>2 DEF Summed
  <2>3. CASE s # {}
    <3>1. sum[Rest(s)] \in Nat /\ fun[First(s)] \in Nat
      BY <1>5, <2>1, <2>3, RestSmaller
    <3>2. sum[s] = fun[First(s)] + sum[Rest(s)]
      BY <2>1, <2>3 DEF Summed
    <3> QED BY <3>1, <3>2
  <2> QED BY <2>2, <2>3
<1> HIDE DEF T
<1>6. Cardinality(S) \in T
  BY <1>4, <1>5, CountingUp, FS_CardinalityType
<1>7. sum[S] \in Nat
  BY <1>6, SizesBounded DEF T
<1> QED BY <1>1, <1>7

-----------------------------------------------------------------------------
(* Setting one limit count to a natural keeps the type of the limit counts. *)
LEMMA WithLimitCountType ==
  ASSUME StateTypeOK, NEW c \in Clients, Limited(c), NEW n \in Nat
  PROVE  WithLimitCount(c, n) \in [LimitRoutes -> [LimitKeys -> Nat]]
BY DEF StateTypeOK, Limited, WithLimitCount

(* The limit count of a limited client is a natural.                        *)
LEMMA LimitCountType ==
  ASSUME StateTypeOK, NEW c \in Clients, Limited(c)
  PROVE  LimitKey(c) \in LimitKeys /\ LimitCount(c) \in Nat
BY ConnectionAssumption, LimitAssumption
DEF StateTypeOK, Limited, LimitKey, LimitKeys, LimitCount

(* The clients of a subscription are clients.                               *)
LEMMA MembersType ==
  ASSUME StateTypeOK, NEW s PROVE Members(s) \in SUBSET Clients
BY DEF StateTypeOK, Members

(* The effects on the tables keep their types.                              *)
LEMMA InsertType ==
  ASSUME StateTypeOK, NEW c \in Clients, NEW s \in Subs, Insert(c, s),
         UNCHANGED subscription_bad
  PROVE  StateTypeOK'
<1>1. /\ DOMAIN subscription_state' \subseteq Subs
      /\ \A x \in DOMAIN subscription_state' :
           subscription_state'[x] \subseteq Clients
  BY MembersType DEF Insert, JoinEntry, StateTypeOK
<1>2. TakenLimit(c) \in [LimitRoutes -> [LimitKeys -> Nat]]
  <2>1. CASE Limited(c)
    BY <2>1, LimitCountType, WithLimitCountType, LimitCount(c) + 1 \in Nat
    DEF TakenLimit
  <2>2. CASE ~Limited(c)
    BY <2>2 DEF TakenLimit, StateTypeOK
  <2> QED BY <2>1, <2>2
<1>3. /\ subscription_count' \in [Clients -> Nat]
      /\ subscription_ip_count' \in [IPs -> Nat]
  <2>1. subscription_count[c] + 1 \in Nat
    BY DEF StateTypeOK
  <2>2. subscription_ip_count[IpOf[c]] + 1 \in Nat
    BY ConnectionAssumption DEF StateTypeOK
  <2> QED BY <2>1, <2>2 DEF Insert, StateTypeOK
<1> QED BY <1>1, <1>2, <1>3 DEF Insert, StateTypeOK

(* ... so does the removal of a client that has gone.                       *)
LEMMA RemoveType ==
  ASSUME StateTypeOK, NEW c \in Clients, RemoveClientFromState(c),
         UNCHANGED subscription_bad
  PROVE  StateTypeOK'
<1>1. /\ DOMAIN subscription_state' \subseteq Subs
      /\ \A x \in DOMAIN subscription_state' :
           subscription_state'[x] \subseteq Clients
  BY MembersType DEF RemoveClientFromState, LeaveEntries, StateTypeOK
<1>2. ReleasedLimit(c) \in [LimitRoutes -> [LimitKeys -> Nat]]
  <2>1. CASE Limited(c) /\ \E s \in Subs : Held(c) = {s}
    BY <2>1, LimitCountType, MonusType, WithLimitCountType DEF ReleasedLimit
  <2>2. CASE ~(Limited(c) /\ \E s \in Subs : Held(c) = {s})
    BY <2>2 DEF ReleasedLimit, StateTypeOK
  <2> QED BY <2>1, <2>2
<1>3. /\ subscription_count' \in [Clients -> Nat]
      /\ subscription_ip_count' \in [IPs -> Nat]
  <2>1. subscription_count[c] \in Nat /\ \A i \in IPs : subscription_ip_count[i] \in Nat
    BY DEF StateTypeOK
  <2>2. Monus(subscription_ip_count[IpOf[c]], subscription_count[c]) \in Nat
    BY <2>1, MonusType, ConnectionAssumption
  <2> QED BY <2>2 DEF RemoveClientFromState, StateTypeOK
<1> QED BY <1>1, <1>2, <1>3 DEF RemoveClientFromState, StateTypeOK

(* ... and the clean-up of a subscription that failed.                      *)
LEMMA DropType ==
  ASSUME StateTypeOK, NEW s \in Subs, DropSubscription(s), NoteFailure(s)
  PROVE  StateTypeOK'
<1>1. /\ DOMAIN subscription_state' \subseteq Subs
      /\ \A x \in DOMAIN subscription_state' :
           subscription_state'[x] \subseteq Clients
  BY DEF DropSubscription, RemoveEntry, Restrict, StateTypeOK
<1>2. subscription_count' \in [Clients -> Nat]
  <2>1. \A c \in Clients :
          /\ subscription_count[c] \in Nat
          /\ subscription_count[c] > 0 => subscription_count[c] - 1 \in Nat
    BY DEF StateTypeOK
  <2> QED BY <2>1 DEF DropSubscription, Uncounted, StateTypeOK
<1>3. subscription_ip_count' \in [IPs -> Nat]
  <2>1. ASSUME NEW i \in IPs
        PROVE  Monus(subscription_ip_count[i], IpCharge(s, i)) \in Nat
    <3>1. Uncounted(s) \in [Clients -> Nat]
      BY <1>2 DEF DropSubscription
    <3>2. {c \in Members(s) : IpOf[c] = i} \in SUBSET Clients
      BY MembersType
    <3>3. IpCharge(s, i) \in Nat
      BY <3>1, <3>2, SumType, FS_Subset, FiniteAssumption DEF IpCharge
    <3> QED BY <3>3, MonusType DEF StateTypeOK
  <2> QED BY <2>1 DEF DropSubscription
<1>4. subscription_bad' \in [Subs -> BadAges]
  BY DEF NoteFailure, StateTypeOK, BadAges
<1> QED BY <1>1, <1>2, <1>3, <1>4 DEF DropSubscription, StateTypeOK

-----------------------------------------------------------------------------
(* A call that is under way and a task that lives have a subscription.      *)
HaveSub ==
  /\ \A c \in Clients : call[c].at # "idle" => call[c].sub \in Subs
  /\ \A t \in TaskIds : Live(t) => task[t].sub \in Subs

TypeInv == TypeOK /\ HaveSub

(* All types hold at the start.                                             *)
LEMMA TypeInvInit == Init => TypeInv
BY TaskAssumption
DEF Init, TypeInv, TypeOK, HaveSub, StateInit, StateTypeOK, BadAges, Idle,
    CallType, Free, TaskType, Live

(* Every step keeps all types.                                              *)
LEMMA TypeInvStep == TypeInv /\ [Next]_vars => TypeInv'
<1> SUFFICES ASSUME TypeInv, [Next]_vars PROVE TypeInv'
  OBVIOUS
<1>0. StateTypeOK /\ TypeOK /\ HaveSub
  BY DEF TypeInv, TypeOK
<1>1. ASSUME NEW c \in Clients, NEW s \in Subs, CheckLocked(c, s)
      PROVE  TypeInv'
  <2>1. StateTypeOK'
    BY <1>0, <1>1 DEF CheckLocked, StateTypeOK, BadAges
  <2> QED
    BY <1>0, <1>1, <2>1 DEF CheckLocked, TypeInv, TypeOK, HaveSub, CallType, Live
<1>2. ASSUME NEW c \in Clients, Refuse(c)
      PROVE  TypeInv'
  BY <1>0, <1>2
  DEF Refuse, stateVars, StateTypeOK, TypeInv, TypeOK, HaveSub, CallType, Idle, Live
<1>3. ASSUME NEW c \in Clients, Accept(c)
      PROVE  TypeInv'
  <2>1. call[c].sub \in Subs
    BY <1>0, <1>3 DEF Accept, HaveSub
  <2>2. StateTypeOK'
    BY <1>0, <1>3, <2>1, InsertType DEF Accept
  <2> QED
    BY <1>0, <1>3, <2>1, <2>2
    DEF Accept, TypeInv, TypeOK, HaveSub, CallType, Idle, Live
<1>4. ASSUME NEW c \in Clients, NEW t \in TaskIds, Spawn(c, t)
      PROVE  TypeInv'
  <2>1. Fresh(call[c].sub) \in TaskType
    <3>1. call[c].sub \in Subs /\ 0 \in 0 .. MaxErrors
      BY <1>0, <1>4, TaskAssumption DEF Spawn, HaveSub
    <3> QED BY <3>1 DEF Fresh, TaskType
  <2>2. StateTypeOK'
    BY <1>0, <1>4 DEF Spawn, stateVars, StateTypeOK
  <2>3. task' \in [TaskIds -> TaskType] /\ call' \in [Clients -> CallType]
    BY <1>0, <1>4, <2>1 DEF Spawn, TypeOK, CallType, Idle
  <2>4. HaveSub'
    BY <1>0, <1>4 DEF Spawn, HaveSub, TypeOK, Idle, Live, Fresh, Free
  <2> QED BY <2>2, <2>3, <2>4 DEF TypeInv, TypeOK
<1>5. ASSUME NEW c \in Clients, RemoveClient(c)
      PROVE  TypeInv'
  <2>1. StateTypeOK'
    BY <1>0, <1>5, RemoveType DEF RemoveClient
  <2> QED
    BY <1>0, <1>5, <2>1 DEF RemoveClient, TypeInv, TypeOK, HaveSub, Live
<1>6. ASSUME NEW t \in TaskIds,
             ConnectOk(t) \/ ConnectFails(t) \/ ConnectRejected(t) \/ ReadFails(t)
                \/ AgeListeners(t)
      PROVE  TypeInv'
  <2>1. task' \in [TaskIds -> TaskType]
    <3>1. task[t] \in TaskType
      BY <1>0 DEF TypeOK
    <3>2. CASE ConnectFails(t)
      <4>1. task[t].errors + 1 \in 0 .. MaxErrors
        BY <3>1, <3>2, TaskAssumption
        DEF ConnectFails, Connecting, GivesUp, TaskType
      <4> QED BY <1>0, <3>2, <4>1 DEF ConnectFails, TypeOK, TaskType
    <3>3. CASE ConnectOk(t)
      <4>1. 0 \in 0 .. MaxErrors
        BY TaskAssumption
      <4> QED BY <1>0, <3>3, <4>1 DEF ConnectOk, TypeOK, TaskType
    <3>4. CASE ConnectRejected(t)
      BY <1>0, <3>4 DEF ConnectRejected, TypeOK, TaskType
    <3>5. CASE ReadFails(t)
      BY <1>0, <3>5 DEF ReadFails, TypeOK, TaskType
    <3>6. CASE AgeListeners(t)
      BY <1>0, <3>6 DEF AgeListeners, TypeOK, TaskType
    <3> QED BY <1>6, <3>2, <3>3, <3>4, <3>5, <3>6
  <2>2. HaveSub'
    BY <1>0, <1>6
    DEF ConnectOk, ConnectFails, ConnectRejected, ReadFails, AgeListeners,
        Connecting, HaveSub, Live, TypeOK, TaskType
  <2> QED
    BY <1>0, <1>6, <2>1, <2>2
    DEF ConnectOk, ConnectFails, ConnectRejected, ReadFails, AgeListeners,
        stateVars, StateTypeOK, TypeInv, TypeOK
<1>7. ASSUME NEW t \in TaskIds, ShutDown(t)
      PROVE  TypeInv'
  <2>1. task[t].sub \in Subs
    BY <1>0, <1>7 DEF ShutDown, HaveSub, Live
  <2>2. StateTypeOK'
    BY <1>0, <1>7, <2>1, DropType DEF ShutDown
  <2>3. Free \in TaskType
    BY TaskAssumption DEF Free, TaskType
  <2> QED
    BY <1>0, <1>7, <2>2, <2>3
    DEF ShutDown, TypeInv, TypeOK, HaveSub, Live, Free
<1>8. ASSUME NEW t \in TaskIds, Receive(t)
      PROVE  TypeInv'
  <2>1. Members(task[t].sub) \in SUBSET Clients /\ task[t].listeners \in SUBSET Clients
    BY <1>0, MembersType DEF TypeOK, TaskType
  <2>2. task' \in [TaskIds -> TaskType]
    <3> DEFINE known == IF task[t].due THEN Members(task[t].sub)
                                       ELSE task[t].listeners
    <3>1. known \in SUBSET Clients
      BY <2>1
    <3>2. task' = [task EXCEPT ![t].listeners = known,
                               ![t].due = FALSE,
                               ![t].at = IF known = {} THEN "close" ELSE "stream"]
      BY <1>8 DEF Receive
    <3>3. task[t] \in TaskType
      BY <1>0 DEF TypeOK
    <3> HIDE DEF known
    <3>4. task'[t] \in TaskType
      BY <1>0, <3>1, <3>2, <3>3 DEF TypeOK, TaskType
    <3> QED BY <1>0, <3>2, <3>4 DEF TypeOK
  <2>3. HaveSub'
    BY <1>0, <1>8 DEF Receive, HaveSub, Live, TypeOK, TaskType
  <2> QED
    BY <1>0, <1>8, <2>2, <2>3 DEF Receive, stateVars, StateTypeOK, TypeInv, TypeOK
<1>9. ASSUME NEW t \in TaskIds, CloseIfEmpty(t)
      PROVE  TypeInv'
  <2>1. StateTypeOK'
    BY <1>0, <1>9 DEF CloseIfEmpty, RemoveEntry, Restrict, StateTypeOK
  <2>2. Free \in TaskType
    BY TaskAssumption DEF Free, TaskType
  <2>3. task' \in [TaskIds -> TaskType]
    BY <1>0, <1>9, <2>2 DEF CloseIfEmpty, TypeOK, TaskType
  <2>4. HaveSub'
    BY <1>0, <1>9 DEF CloseIfEmpty, HaveSub, Live, TypeOK, TaskType, Free
  <2> QED
    BY <1>0, <1>9, <2>1, <2>3, <2>4 DEF CloseIfEmpty, TypeInv, TypeOK
<1>10. ASSUME NEW s \in Subs, PassTime(s)
       PROVE  TypeInv'
  <2>1. StateTypeOK'
    BY <1>0, <1>10 DEF PassTime, AgeFailure, StateTypeOK, BadAges
  <2> QED
    BY <1>0, <1>10, <2>1 DEF PassTime, TypeInv, TypeOK, HaveSub, Live
<1>11. CASE UNCHANGED vars
  BY <1>0, <1>11
  DEF vars, stateVars, StateTypeOK, TypeInv, TypeOK, HaveSub, Live
<1> QED
  BY <1>1, <1>2, <1>3, <1>4, <1>5, <1>6, <1>7, <1>8, <1>9, <1>10, <1>11
  DEF Next, CallStep, TaskStep

(* The tables, the calls and the tasks always have their types.             *)
THEOREM TypeCorrect == Spec => []TypeOK
<1>1. TypeInv => TypeOK
  BY DEF TypeInv
<1> QED BY TypeInvInit, TypeInvStep, <1>1, PTL DEF Spec

-----------------------------------------------------------------------------
(* Ownership: each entry of the map belongs to one task, or to one call     *)
(* that is about to spawn it.                                               *)
OwnInv == OneUpstream /\ EntryOwned

(* At the start there are no entries, tasks or calls.                       *)
LEMMA OwnInvInit == Init => OwnInv
BY DEF Init, StateInit, OwnInv, OneUpstream, EntryOwned, Spawning, Runs, Live,
       Idle, Free

(* Most steps neither start nor end a task, nor touch who is about to.      *)
LEMMA OwnInvFrame ==
  ASSUME OwnInv,
         DOMAIN subscription_state' = DOMAIN subscription_state,
         \A t \in TaskIds, s \in Subs : Runs(t, s)' <=> Runs(t, s),
         \A c \in Clients, s \in Subs : Spawning(c, s)' <=> Spawning(c, s)
  PROVE  OwnInv'
<1>1. OneUpstream'
  BY DEF OwnInv, OneUpstream
<1>2. EntryOwned'
  BY DEF OwnInv, EntryOwned
<1> QED BY <1>1, <1>2 DEF OwnInv

(* The task of s ends together with the entry of s.                         *)
LEMMA OwnInvEnd ==
  ASSUME TypeInv, OwnInv, NEW t \in TaskIds, Live(t),
         RemoveEntry(task[t].sub),
         task' = [task EXCEPT ![t] = Free], call' = call
  PROVE  OwnInv'
<1>1. PICK s \in Subs : s = task[t].sub
  BY DEF TypeInv, HaveSub
<1>2. Runs(t, s)
  BY <1>1 DEF Runs
<1>3. DOMAIN subscription_state' = DOMAIN subscription_state \ {s}
  BY <1>1 DEF RemoveEntry, Restrict
<1>4. \A u \in TaskIds, x \in Subs : Runs(u, x)' <=> Runs(u, x) /\ u # t
  BY DEF Runs, Live, Free, TypeInv, TypeOK
<1>5. \A c \in Clients, x \in Subs : Spawning(c, x)' <=> Spawning(c, x)
  BY DEF Spawning
<1>6. OneUpstream'
  BY <1>4, <1>5 DEF OwnInv, OneUpstream
<1>7. EntryOwned'
  <2>1. \A u \in TaskIds : ~Runs(u, s)'
    BY <1>1, <1>2, <1>4 DEF OwnInv, OneUpstream
  <2>2. \A c \in Clients : ~Spawning(c, s)'
    BY <1>1, <1>2, <1>5 DEF OwnInv, OneUpstream
  <2>3. \A u \in TaskIds, x \in Subs \ {s} : Runs(u, x)' <=> Runs(u, x)
    BY <1>1, <1>4 DEF Runs
  <2> QED BY <1>3, <1>5, <2>1, <2>2, <2>3 DEF OwnInv, EntryOwned
<1> QED BY <1>6, <1>7 DEF OwnInv

(* No step leaves an entry without its one owner, or with two.              *)
LEMMA OwnInvStep == TypeInv /\ OwnInv /\ [Next]_vars => OwnInv'
<1> SUFFICES ASSUME TypeInv, OwnInv, [Next]_vars PROVE OwnInv'
  OBVIOUS
<1>0. TypeOK /\ HaveSub
  BY DEF TypeInv
<1>1. ASSUME NEW c \in Clients, NEW s \in Subs, CheckLocked(c, s)
      PROVE  OwnInv'
  <2>1. \A d \in Clients, x \in Subs : Spawning(d, x)' <=> Spawning(d, x)
    BY <1>0, <1>1 DEF CheckLocked, Spawning, Idle, TypeOK
  <2>2. \A u \in TaskIds, x \in Subs : Runs(u, x)' <=> Runs(u, x)
    BY <1>1 DEF CheckLocked, Runs, Live
  <2> QED BY <1>1, <2>1, <2>2, OwnInvFrame DEF CheckLocked
<1>2. ASSUME NEW c \in Clients, Refuse(c)
      PROVE  OwnInv'
  <2>1. \A d \in Clients, x \in Subs : Spawning(d, x)' <=> Spawning(d, x)
    BY <1>0, <1>2 DEF Refuse, Spawning, Idle, TypeOK
  <2>2. \A u \in TaskIds, x \in Subs : Runs(u, x)' <=> Runs(u, x)
    BY <1>2 DEF Refuse, Runs, Live
  <2> QED BY <1>2, <2>1, <2>2, OwnInvFrame DEF Refuse, stateVars
<1>3. ASSUME NEW c \in Clients, Accept(c)
      PROVE  OwnInv'
  <2>1. PICK s \in Subs : s = call[c].sub
    BY <1>0, <1>3 DEF Accept, HaveSub
  <2>2. DOMAIN subscription_state' = DOMAIN subscription_state \cup {s}
    BY <1>3, <2>1 DEF Accept, Insert, JoinEntry
  <2>3. \A u \in TaskIds, x \in Subs : Runs(u, x)' <=> Runs(u, x)
    BY <1>3 DEF Accept, Runs, Live
  <2>4. CASE s \in DOMAIN subscription_state
    <3>1. \A d \in Clients, x \in Subs : Spawning(d, x)' <=> Spawning(d, x)
      BY <1>0, <1>3, <2>1, <2>4 DEF Accept, Spawning, Idle, TypeOK
    <3> QED BY <2>2, <2>3, <2>4, <3>1, OwnInvFrame
  <2>5. CASE s \notin DOMAIN subscription_state
    <3>1. \A d \in Clients, x \in Subs :
            Spawning(d, x)' <=> Spawning(d, x) \/ (d = c /\ x = s)
      BY <1>0, <1>3, <2>1, <2>5 DEF Accept, Spawning, TypeOK
    <3>2. /\ \A u \in TaskIds : ~Runs(u, s)
          /\ \A d \in Clients : ~Spawning(d, s)
      BY <2>1, <2>5 DEF OwnInv, EntryOwned
    <3>3. OneUpstream'
      BY <2>3, <3>1, <3>2 DEF OwnInv, OneUpstream
    <3>4. EntryOwned'
      BY <2>1, <2>2, <2>3, <3>1 DEF OwnInv, EntryOwned
    <3> QED BY <3>3, <3>4 DEF OwnInv
  <2> QED BY <2>4, <2>5
<1>4. ASSUME NEW c \in Clients, NEW t \in TaskIds, Spawn(c, t)
      PROVE  OwnInv'
  <2>1. PICK s \in Subs : s = call[c].sub /\ Spawning(c, s)
    BY <1>0, <1>4 DEF Spawn, HaveSub, Spawning
  <2>2. \A d \in Clients, x \in Subs : Spawning(d, x)' <=> Spawning(d, x) /\ d # c
    BY <1>0, <1>4 DEF Spawn, Spawning, Idle, TypeOK
  <2>3. \A u \in TaskIds, x \in Subs :
          Runs(u, x)' <=> Runs(u, x) \/ (u = t /\ x = s)
    BY <1>0, <1>4, <2>1 DEF Spawn, Runs, Live, Free, Fresh, TypeOK
  <2>4. \A x \in Subs : Spawning(c, x) => x = s
    BY <2>1 DEF Spawning
  <2>5. \A x \in Subs : ~Runs(t, x)
    BY <1>4 DEF Spawn, Runs, Live, Free
  <2>6. DOMAIN subscription_state' = DOMAIN subscription_state
    BY <1>4 DEF Spawn, stateVars
  <2>7. OneUpstream'
    <3>1. \A u \in TaskIds : ~Runs(u, s)
      BY <2>1 DEF OwnInv, OneUpstream
    <3>2. \A d \in Clients : ~Spawning(d, s)'
      BY <2>1, <2>2 DEF OwnInv, OneUpstream
    <3> QED BY <2>2, <2>3, <3>1, <3>2 DEF OwnInv, OneUpstream
  <2>8. EntryOwned'
    BY <2>1, <2>2, <2>3, <2>4, <2>6 DEF OwnInv, EntryOwned
  <2> QED BY <2>7, <2>8 DEF OwnInv
<1>5. ASSUME NEW c \in Clients, RemoveClient(c)
      PROVE  OwnInv'
  <2>1. DOMAIN subscription_state' = DOMAIN subscription_state
    BY <1>5 DEF RemoveClient, RemoveClientFromState, LeaveEntries
  <2>2. \A d \in Clients, x \in Subs : Spawning(d, x)' <=> Spawning(d, x)
    BY <1>5 DEF RemoveClient, Spawning
  <2>3. \A u \in TaskIds, x \in Subs : Runs(u, x)' <=> Runs(u, x)
    BY <1>5 DEF RemoveClient, Runs, Live
  <2> QED BY <2>1, <2>2, <2>3, OwnInvFrame
<1>6. ASSUME NEW t \in TaskIds,
             ConnectOk(t) \/ ConnectFails(t) \/ ConnectRejected(t) \/ ReadFails(t)
                \/ Receive(t) \/ AgeListeners(t)
      PROVE  OwnInv'
  <2>1. UNCHANGED << subscription_state, call >>
    BY <1>6 DEF ConnectOk, ConnectFails, ConnectRejected, ReadFails, Receive,
                AgeListeners, stateVars
  <2>2. \A u \in TaskIds, x \in Subs : Runs(u, x)' <=> Runs(u, x)
    BY <1>0, <1>6
    DEF ConnectOk, ConnectFails, ConnectRejected, ReadFails, Receive, AgeListeners,
        Connecting, Runs, Live, TypeOK, TaskType
  <2>3. \A d \in Clients, x \in Subs : Spawning(d, x)' <=> Spawning(d, x)
    BY <2>1 DEF Spawning
  <2> QED BY <2>1, <2>2, <2>3, OwnInvFrame
<1>7. ASSUME NEW t \in TaskIds, ShutDown(t)
      PROVE  OwnInv'
  BY <1>7, OwnInvEnd DEF ShutDown, DropSubscription, Live
<1>8. ASSUME NEW t \in TaskIds, CloseIfEmpty(t)
      PROVE  OwnInv'
  <2>1. CASE Members(task[t].sub) = {}
    BY <1>8, <2>1, OwnInvEnd DEF CloseIfEmpty, Live
  <2>2. CASE Members(task[t].sub) # {}
    <3>1. \A u \in TaskIds, x \in Subs : Runs(u, x)' <=> Runs(u, x)
      BY <1>0, <1>8, <2>2 DEF CloseIfEmpty, Runs, Live, TypeOK, TaskType
    <3>2. \A d \in Clients, x \in Subs : Spawning(d, x)' <=> Spawning(d, x)
      BY <1>8 DEF CloseIfEmpty, Spawning
    <3> QED BY <1>8, <2>2, <3>1, <3>2, OwnInvFrame DEF CloseIfEmpty
  <2> QED BY <2>1, <2>2
<1>9. ASSUME NEW s \in Subs, PassTime(s)
      PROVE  OwnInv'
  BY <1>9, OwnInvFrame DEF PassTime, Runs, Live, Spawning
<1>10. CASE UNCHANGED vars
  BY <1>10, OwnInvFrame DEF vars, stateVars, Runs, Live, Spawning
<1> QED
  BY <1>1, <1>2, <1>3, <1>4, <1>5, <1>6, <1>7, <1>8, <1>9, <1>10
  DEF Next, CallStep, TaskStep

(* At most one task holds, or is about to hold, an upstream of a            *)
(* subscription.                                                            *)
THEOREM SingleUpstream == Spec => []OneUpstream
<1>1. OwnInv => OneUpstream
  BY DEF OwnInv
<1> QED BY TypeInvInit, TypeInvStep, OwnInvInit, OwnInvStep, <1>1, PTL DEF Spec

(* An entry is in the map exactly while a task runs for it or is about to.  *)
THEOREM EntriesOwned == Spec => []EntryOwned
<1>1. OwnInv => EntryOwned
  BY DEF OwnInv
<1> QED BY TypeInvInit, TypeInvStep, OwnInvInit, OwnInvStep, <1>1, PTL DEF Spec

-----------------------------------------------------------------------------
(* What each effect does to the clients of every subscription.              *)
LEMMA MembersJoin ==
  ASSUME NEW c, NEW s, JoinEntry(c, s)
  PROVE  \A x : Members(x)' = IF x = s THEN Members(s) \cup {c} ELSE Members(x)
BY DEF JoinEntry, Members

(* Who leaves is in no subscription any more.                               *)
LEMMA MembersLeave ==
  ASSUME NEW c, LeaveEntries(c)
  PROVE  \A x : Members(x)' = Members(x) \ {c}
BY DEF LeaveEntries, Members

(* A removed entry has no clients; the others keep theirs.                  *)
LEMMA MembersRemoved ==
  ASSUME NEW s, RemoveEntry(s)
  PROVE  \A x : Members(x)' = IF x = s THEN {} ELSE Members(x)
BY DEF RemoveEntry, Restrict, Members

(* Clients are only read off subscription_state.                            *)
LEMMA MembersSame ==
  ASSUME UNCHANGED subscription_state
  PROVE  \A x : Members(x)' = Members(x)
BY DEF Members

(* Every step does one of these to the clients, or nothing.                 *)
LEMMA StepEffect ==
  ASSUME TypeInv, [Next]_vars
  PROVE  \/ \E c \in Clients, s \in Subs :
              /\ Accept(c) /\ s = call[c].sub
              /\ c \notin Members(s) /\ ~AtLimit(c) /\ Insert(c, s)
         \/ \E c \in Clients : RemoveClient(c) /\ RemoveClientFromState(c)
         \/ \E t \in TaskIds, s \in Subs :
              ShutDown(t) /\ s = task[t].sub /\ DropSubscription(s)
         \/ /\ \A x : Members(x)' = Members(x)
            /\ UNCHANGED << subscription_count, subscription_ip_count,
                            websocket_limit_state >>
<1> DEFINE Same == /\ \A x : Members(x)' = Members(x)
                   /\ UNCHANGED << subscription_count, subscription_ip_count,
                                   websocket_limit_state >>
<1>1. ASSUME NEW c \in Clients, NEW s \in Subs, CheckLocked(c, s)
      PROVE  Same
  BY <1>1, MembersSame DEF CheckLocked
<1>2. ASSUME NEW c \in Clients, Refuse(c)
      PROVE  Same
  BY <1>2, MembersSame DEF Refuse, stateVars
<1>3. ASSUME NEW c \in Clients, Accept(c)
      PROVE  \E s \in Subs :
               /\ s = call[c].sub
               /\ c \notin Members(s) /\ ~AtLimit(c) /\ Insert(c, s)
  BY <1>3 DEF Accept, TypeInv, HaveSub
<1>4. ASSUME NEW c \in Clients, NEW t \in TaskIds, Spawn(c, t)
      PROVE  Same
  BY <1>4, MembersSame DEF Spawn, stateVars
<1>5. ASSUME NEW c \in Clients, RemoveClient(c)
      PROVE  RemoveClient(c) /\ RemoveClientFromState(c)
  BY <1>5 DEF RemoveClient
<1>6. ASSUME NEW t \in TaskIds,
             ConnectOk(t) \/ ConnectFails(t) \/ ConnectRejected(t) \/ ReadFails(t)
                \/ Receive(t) \/ AgeListeners(t)
      PROVE  Same
  BY <1>6, MembersSame
  DEF ConnectOk, ConnectFails, ConnectRejected, ReadFails, Receive, AgeListeners,
      stateVars
<1>7. ASSUME NEW t \in TaskIds, ShutDown(t)
      PROVE  \E s \in Subs : s = task[t].sub /\ DropSubscription(s)
  BY <1>7 DEF ShutDown, TypeInv, HaveSub, Live
<1>8. ASSUME NEW t \in TaskIds, CloseIfEmpty(t)
      PROVE  Same
  <2>1. CASE Members(task[t].sub) = {}
    BY <1>8, <2>1, MembersRemoved DEF CloseIfEmpty
  <2>2. CASE Members(task[t].sub) # {}
    BY <1>8, <2>2, MembersSame DEF CloseIfEmpty
  <2> QED BY <2>1, <2>2
<1>9. ASSUME NEW s \in Subs, PassTime(s)
      PROVE  Same
  BY <1>9, MembersSame DEF PassTime
<1>10. CASE UNCHANGED vars
  BY <1>10, MembersSame DEF vars, stateVars
<1> HIDE DEF Same
<1>11. CASE \E c \in Clients : CallStep(c) \/ RemoveClient(c)
  <2>1. PICK c \in Clients : CallStep(c) \/ RemoveClient(c)
    BY <1>11
  <2>2. CASE CallStep(c)
    BY <2>2, <1>1, <1>2, <1>3, <1>4 DEF CallStep, Same
  <2>3. CASE RemoveClient(c)
    BY <2>3, <1>5
  <2> QED BY <2>1, <2>2, <2>3
<1>12. CASE \E t \in TaskIds : TaskStep(t)
  BY <1>12, <1>6, <1>7, <1>8 DEF TaskStep, Same
<1>13. CASE \E s \in Subs : PassTime(s)
  BY <1>13, <1>9 DEF Same
<1> QED BY <1>10, <1>11, <1>12, <1>13 DEF Next, Same

-----------------------------------------------------------------------------
(* The count of a client and the subscriptions it is in.                    *)

(* A client is in finitely many subscriptions.                              *)
LEMMA HeldFinite == ASSUME NEW c PROVE IsFiniteSet(Held(c))
BY FiniteAssumption, FS_Subset DEF Held

(* At the start every count is 0 and nobody is in a subscription.           *)
LEMMA CountsInit == Init => CountsAgree
<1> SUFFICES ASSUME Init, NEW c \in Clients
             PROVE  subscription_count[c] = Cardinality(Held(c))
  BY DEF CountsAgree
<1>1. Held(c) = {}
  BY DEF Init, StateInit, Held, Members
<1> QED BY <1>1, FS_EmptySet DEF Init, StateInit

(* Every step that moves a client in or out of subscriptions moves its      *)
(* count by as much.                                                        *)
LEMMA CountsStep == TypeInv /\ CountsAgree /\ [Next]_vars => CountsAgree'
<1> SUFFICES ASSUME TypeInv, CountsAgree, [Next]_vars, NEW d \in Clients
             PROVE  subscription_count'[d] = Cardinality(Held(d)')
  BY DEF CountsAgree
<1>0. /\ subscription_count \in [Clients -> Nat]
      /\ subscription_count[d] = Cardinality(Held(d))
      /\ IsFiniteSet(Held(d))
  BY HeldFinite DEF TypeInv, TypeOK, StateTypeOK, CountsAgree
<1>1. ASSUME NEW c \in Clients, NEW s \in Subs, c \notin Members(s), Insert(c, s)
      PROVE  subscription_count'[d] = Cardinality(Held(d)')
  <2>1. \A x : Members(x)' = IF x = s THEN Members(s) \cup {c} ELSE Members(x)
    BY <1>1, MembersJoin DEF Insert
  <2>2. CASE d = c
    <3>1. Held(d)' = Held(d) \cup {s} /\ s \notin Held(d)
      BY <1>1, <2>1, <2>2 DEF Held
    <3>2. Cardinality(Held(d) \cup {s}) = Cardinality(Held(d)) + 1
      BY <1>0, <3>1, FS_AddElement
    <3> QED BY <1>0, <1>1, <2>2, <3>1, <3>2 DEF Insert
  <2>3. CASE d # c
    <3>1. Held(d)' = Held(d)
      BY <2>1, <2>3 DEF Held
    <3> QED BY <1>0, <1>1, <2>3, <3>1 DEF Insert
  <2> QED BY <2>2, <2>3
<1>2. ASSUME NEW c \in Clients, RemoveClientFromState(c)
      PROVE  subscription_count'[d] = Cardinality(Held(d)')
  <2>1. \A x : Members(x)' = Members(x) \ {c}
    BY <1>2, MembersLeave DEF RemoveClientFromState
  <2>2. CASE d = c
    <3>1. Held(d)' = {}
      BY <2>1, <2>2 DEF Held
    <3> QED BY <1>0, <1>2, <2>2, <3>1, FS_EmptySet DEF RemoveClientFromState
  <2>3. CASE d # c
    <3>1. Held(d)' = Held(d)
      BY <2>1, <2>3 DEF Held
    <3> QED BY <1>0, <1>2, <2>3, <3>1 DEF RemoveClientFromState
  <2> QED BY <2>2, <2>3
<1>3. ASSUME NEW s \in Subs, DropSubscription(s)
      PROVE  subscription_count'[d] = Cardinality(Held(d)')
  <2>1. \A x : Members(x)' = IF x = s THEN {} ELSE Members(x)
    BY <1>3, MembersRemoved DEF DropSubscription
  <2>2. subscription_count'[d] = IF d \in Members(s)
                                      /\ subscription_count[d] > 0
                                 THEN subscription_count[d] - 1
                                 ELSE subscription_count[d]
    BY <1>3 DEF DropSubscription, Uncounted
  <2>3. CASE d \in Members(s)
    <3>1. Held(d)' = Held(d) \ {s} /\ s \in Held(d)
      BY <2>1, <2>3 DEF Held
    <3>2. Cardinality(Held(d) \ {s}) = Cardinality(Held(d)) - 1
      BY <1>0, <3>1, FS_RemoveElement
    <3>3. Cardinality(Held(d) \ {s}) \in Nat
      BY <1>0, FS_RemoveElement, FS_CardinalityType
    <3> QED BY <1>0, <2>2, <2>3, <3>1, <3>2, <3>3
  <2>4. CASE d \notin Members(s)
    <3>1. Held(d)' = Held(d)
      BY <2>1, <2>4 DEF Held
    <3> QED BY <1>0, <2>2, <2>4, <3>1
  <2> QED BY <2>3, <2>4
<1>4. ASSUME \A x : Members(x)' = Members(x), UNCHANGED subscription_count
      PROVE  subscription_count'[d] = Cardinality(Held(d)')
  <2>1. Held(d)' = Held(d)
    BY <1>4 DEF Held
  <2> QED BY <1>0, <1>4, <2>1
<1> QED BY <1>1, <1>2, <1>3, <1>4, StepEffect

(* The count of a client is the number of subscriptions it is in.           *)
THEOREM CountsCorrect == Spec => []CountsAgree
BY TypeInvInit, TypeInvStep, CountsInit, CountsStep, PTL DEF Spec

-----------------------------------------------------------------------------
(* An entry that has clients is only removed by a task that has given up.   *)
THEOREM OnlyIdleCloses == Spec => ClosesOnlyIdle
<1> DEFINE Closes ==
      \A s \in Subs :
        Members(s) # {} /\ s \notin DOMAIN subscription_state'
          => \E t \in TaskIds : Runs(t, s) /\ GivesUp(t)
<1>1. TypeInv /\ [Next]_vars => [Closes]_vars
  <2> SUFFICES ASSUME TypeInv, Next, NEW s \in Subs,
                      Members(s) # {}, s \notin DOMAIN subscription_state'
               PROVE  \E t \in TaskIds : Runs(t, s) /\ GivesUp(t)
    OBVIOUS
  <2>1. Members(s)' # Members(s)
    BY DEF Members
  <2>2. CASE \E c \in Clients, x \in Subs : Insert(c, x)
    BY <2>2 DEF Insert, JoinEntry, Members
  <2>3. CASE \E c \in Clients : RemoveClientFromState(c)
    BY <2>3 DEF RemoveClientFromState, LeaveEntries, Members
  <2>4. CASE \E t \in TaskIds, x \in Subs :
               ShutDown(t) /\ x = task[t].sub /\ DropSubscription(x)
    <3>1. PICK t \in TaskIds, x \in Subs :
                 ShutDown(t) /\ x = task[t].sub /\ DropSubscription(x)
      BY <2>4
    <3>2. x = s
      BY <2>1, <3>1, MembersRemoved DEF DropSubscription
    <3> QED BY <3>1, <3>2 DEF ShutDown, Runs, Live
  <2> QED BY <2>1, <2>2, <2>3, <2>4, StepEffect
<1> QED BY <1>1, TypeInvInit, TypeInvStep, PTL DEF Spec, ClosesOnlyIdle

-----------------------------------------------------------------------------
(* MarketData implements SharedFeeds.  FeedSet and BrokenSet name what      *)
(* Feeds substitutes; by ownership the feeds are the entries of the map.    *)
Listening == [s \in Subs |-> Members(s)]

FeedSet == {s \in Subs : \/ \E t \in TaskIds : Runs(t, s)
                         \/ \E c \in Clients : Spawning(c, s)}

BrokenSet == {s \in Subs : \E t \in TaskIds : Runs(t, s) /\ GivesUp(t)}

(* The feeds are the entries of the map, before and after a step.           *)
LEMMA FeedsAreEntries ==
  /\ TypeInv /\ OwnInv => FeedSet = DOMAIN subscription_state
  /\ TypeInv' /\ OwnInv' => FeedSet' = DOMAIN subscription_state'
BY DEF TypeInv, TypeOK, StateTypeOK, OwnInv, EntryOwned, FeedSet

(* Same clients, same listeners.                                            *)
LEMMA SameListening ==
  ASSUME \A x : Members(x)' = Members(x) PROVE Listening' = Listening
BY DEF Listening

(* The task of s has ended: s is not broken any more, the others stay.      *)
LEMMA BrokenAfterEnd ==
  ASSUME TypeInv, OwnInv, NEW t \in TaskIds, Live(t), NEW s \in Subs,
         s = task[t].sub, task' = [task EXCEPT ![t] = Free]
  PROVE  BrokenSet' = BrokenSet \ {s}
<1>1. \A u \in TaskIds, x \in Subs :
        (Runs(u, x) /\ GivesUp(u))' <=> Runs(u, x) /\ GivesUp(u) /\ u # t
  BY DEF Runs, Live, GivesUp, Free, TypeInv, TypeOK
<1>2. \A u \in TaskIds : Runs(u, s) => u = t
  BY DEF Runs, OwnInv, OneUpstream
<1>3. \A x \in Subs : Runs(t, x) => x = s
  BY DEF Runs
<1> QED BY <1>1, <1>2, <1>3 DEF BrokenSet

(* The initial state is one of SharedFeeds.                                 *)
LEMMA FeedsInit == Init => Feeds!FeedInit
<1> SUFFICES ASSUME Init PROVE Feeds!FeedInit
  OBVIOUS
<1>1. Listening = [s \in Subs |-> {}]
  BY DEF Init, StateInit, Listening, Members
<1>2. FeedSet = {} /\ BrokenSet = {}
  BY DEF Init, FeedSet, BrokenSet, Runs, Live, Free, Spawning, Idle
<1> QED BY <1>1, <1>2 DEF Feeds!FeedInit, Listening, FeedSet, BrokenSet

(* Each step is one of SharedFeeds or changes nothing it sees.              *)
LEMMA FeedsStep ==
  TypeInv /\ OwnInv /\ OwnInv' /\ TypeInv' /\ [Next]_vars
    => [Feeds!FeedNext]_(Feeds!feedVars)
<1> SUFFICES ASSUME TypeInv, OwnInv, OwnInv', TypeInv', [Next]_vars
             PROVE  \/ Feeds!FeedNext
                    \/ Listening' = Listening /\ FeedSet' = FeedSet
                       /\ BrokenSet' = BrokenSet
  BY DEF Feeds!feedVars, Listening, FeedSet, BrokenSet
<1>0. /\ TypeOK /\ HaveSub
      /\ FeedSet = DOMAIN subscription_state
      /\ FeedSet' = DOMAIN subscription_state'
  BY FeedsAreEntries DEF TypeInv
<1> DEFINE Stutters == /\ Listening' = Listening /\ FeedSet' = FeedSet
                       /\ BrokenSet' = BrokenSet
<1>1. ASSUME NEW c \in Clients, NEW s \in Subs, CheckLocked(c, s)
      PROVE  Stutters
  <2>1. BrokenSet' = BrokenSet
    BY <1>1 DEF CheckLocked, BrokenSet, Runs, Live, GivesUp
  <2> QED BY <1>0, <1>1, <2>1, MembersSame, SameListening DEF CheckLocked
<1>2. ASSUME NEW c \in Clients, Refuse(c)
      PROVE  Stutters
  <2>1. BrokenSet' = BrokenSet
    BY <1>2 DEF Refuse, BrokenSet, Runs, Live, GivesUp
  <2> QED BY <1>0, <1>2, <2>1, MembersSame, SameListening DEF Refuse, stateVars
<1>3. ASSUME NEW c \in Clients, Accept(c)
      PROVE  Feeds!FeedNext
  <2>1. PICK s \in Subs :
          s = call[c].sub /\ c \notin Members(s) /\ Insert(c, s)
    BY <1>0, <1>3 DEF Accept, HaveSub
  <2>2. Listening' = [Listening EXCEPT ![s] = @ \cup {c}] /\ c \notin Listening[s]
    BY <2>1, MembersJoin DEF Insert, Listening
  <2>3. FeedSet' = FeedSet \cup {s}
    BY <1>0, <2>1 DEF Insert, JoinEntry
  <2>4. BrokenSet' = BrokenSet
    BY <1>3 DEF Accept, BrokenSet, Runs, Live, GivesUp
  <2>5. Feeds!Join(c, s)
    BY <2>2, <2>3, <2>4 DEF Feeds!Join, Listening, FeedSet, BrokenSet
  <2> QED BY <2>5 DEF Feeds!FeedNext
<1>4. ASSUME NEW c \in Clients, NEW t \in TaskIds, Spawn(c, t)
      PROVE  Stutters
  <2>1. \A u \in TaskIds, x \in Subs :
          (Runs(u, x) /\ GivesUp(u))' <=> Runs(u, x) /\ GivesUp(u)
    BY <1>0, <1>4, TaskAssumption
    DEF Spawn, Runs, Live, GivesUp, Free, Fresh, TypeOK
  <2>2. BrokenSet' = BrokenSet
    BY <2>1 DEF BrokenSet
  <2> QED BY <1>0, <1>4, <2>2, MembersSame, SameListening DEF Spawn, stateVars
<1>5. ASSUME NEW c \in Clients, RemoveClient(c)
      PROVE  Feeds!FeedNext
  <2>1. Listening' = [s \in Subs |-> Listening[s] \ {c}]
    BY <1>5, MembersLeave DEF RemoveClient, RemoveClientFromState, Listening
  <2>2. FeedSet' = FeedSet
    BY <1>0, <1>5 DEF RemoveClient, RemoveClientFromState, LeaveEntries
  <2>3. BrokenSet' = BrokenSet
    BY <1>5 DEF RemoveClient, BrokenSet, Runs, Live, GivesUp
  <2>4. Feeds!Leave(c)
    BY <2>1, <2>2, <2>3 DEF Feeds!Leave, Listening, FeedSet, BrokenSet
  <2> QED BY <2>4 DEF Feeds!FeedNext
<1>6. ASSUME NEW t \in TaskIds,
             ConnectOk(t) \/ ReadFails(t) \/ Receive(t) \/ AgeListeners(t)
      PROVE  Stutters
  <2>1. \A u \in TaskIds, x \in Subs :
          (Runs(u, x) /\ GivesUp(u))' <=> Runs(u, x) /\ GivesUp(u)
    BY <1>0, <1>6, TaskAssumption
    DEF ConnectOk, ReadFails, Receive, AgeListeners, Connecting, Runs, Live, GivesUp,
        TypeOK, TaskType
  <2>2. BrokenSet' = BrokenSet
    BY <2>1 DEF BrokenSet
  <2>3. UNCHANGED subscription_state
    BY <1>6 DEF ConnectOk, ReadFails, Receive, AgeListeners, stateVars
  <2> QED BY <1>0, <2>2, <2>3, MembersSame, SameListening
<1>7. ASSUME NEW t \in TaskIds, ConnectFails(t) \/ ConnectRejected(t)
      PROVE  Feeds!FeedNext \/ Stutters
  <2>1. PICK s \in Subs : s = task[t].sub /\ Runs(t, s) /\ s \in FeedSet
    BY <1>0, <1>7
    DEF ConnectFails, ConnectRejected, Connecting, HaveSub, Live, Runs, FeedSet
  <2>2. UNCHANGED subscription_state
    BY <1>7 DEF ConnectFails, ConnectRejected, stateVars
  <2>3. Listening' = Listening /\ FeedSet' = FeedSet
    BY <1>0, <2>2, MembersSame, SameListening
  <2>4. /\ \A u \in TaskIds, x \in Subs : Runs(u, x)' <=> Runs(u, x)
        /\ \A u \in TaskIds \ {t} : GivesUp(u)' <=> GivesUp(u)
        /\ ~GivesUp(t)
    BY <1>0, <1>7
    DEF ConnectFails, ConnectRejected, Connecting, Runs, Live, GivesUp, TypeOK,
        TaskType
  <2>5. CASE GivesUp(t)'
    <3>1. BrokenSet' = BrokenSet \cup {s}
      BY <2>1, <2>4, <2>5 DEF BrokenSet, Runs
    <3>2. Feeds!Break(s)
      BY <2>1, <2>3, <3>1 DEF Feeds!Break, Listening, FeedSet, BrokenSet
    <3> QED BY <3>2 DEF Feeds!FeedNext
  <2>6. CASE ~GivesUp(t)'
    <3>1. BrokenSet' = BrokenSet
      BY <2>4, <2>6 DEF BrokenSet
    <3> QED BY <2>3, <3>1
  <2> QED BY <2>5, <2>6
<1>8. ASSUME NEW t \in TaskIds, ShutDown(t)
      PROVE  Feeds!FeedNext
  <2>1. PICK s \in Subs : s = task[t].sub /\ Runs(t, s) /\ s \in BrokenSet
    BY <1>0, <1>8 DEF ShutDown, HaveSub, Live, Runs, BrokenSet
  <2>2. RemoveEntry(s)
    BY <1>8, <2>1 DEF ShutDown, DropSubscription
  <2>3. Listening' = [Listening EXCEPT ![s] = {}]
    BY <2>2, MembersRemoved DEF Listening
  <2>4. FeedSet' = FeedSet \ {s}
    BY <1>0, <2>2 DEF RemoveEntry, Restrict
  <2>5. BrokenSet' = BrokenSet \ {s}
    BY <1>8, <2>1, BrokenAfterEnd DEF ShutDown, Runs
  <2>6. Feeds!Fail(s)
    BY <2>1, <2>3, <2>4, <2>5 DEF Feeds!Fail, Listening, FeedSet, BrokenSet
  <2> QED BY <2>6 DEF Feeds!FeedNext
<1>9. ASSUME NEW t \in TaskIds, CloseIfEmpty(t)
      PROVE  Feeds!FeedNext \/ Stutters
  <2>1. PICK s \in Subs : s = task[t].sub /\ Runs(t, s) /\ s \in FeedSet
    BY <1>0, <1>9 DEF CloseIfEmpty, HaveSub, Live, Runs, FeedSet
  <2>2. CASE Members(s) = {}
    <3>1. RemoveEntry(s) /\ task' = [task EXCEPT ![t] = Free]
      BY <1>9, <2>1, <2>2 DEF CloseIfEmpty
    <3>2. Listening' = Listening /\ Listening[s] = {}
      BY <2>2, <3>1, MembersRemoved DEF Listening
    <3>3. FeedSet' = FeedSet \ {s}
      BY <1>0, <3>1 DEF RemoveEntry, Restrict
    <3>4. BrokenSet' = BrokenSet \ {s}
      BY <2>1, <3>1, BrokenAfterEnd DEF Runs
    <3>5. Feeds!Retire(s)
      BY <2>1, <3>2, <3>3, <3>4 DEF Feeds!Retire, Listening, FeedSet, BrokenSet
    <3> QED BY <3>5 DEF Feeds!FeedNext
  <2>3. CASE Members(s) # {}
    <3>1. /\ task' = [task EXCEPT ![t].at = "stream"]
          /\ UNCHANGED subscription_state
      BY <1>9, <2>1, <2>3 DEF CloseIfEmpty
    <3>2. BrokenSet' = BrokenSet
      BY <1>0, <1>9, <3>1
      DEF CloseIfEmpty, BrokenSet, Runs, Live, GivesUp, TypeOK, TaskType
    <3> QED BY <1>0, <3>1, <3>2, MembersSame, SameListening
  <2> QED BY <2>2, <2>3
<1>10. ASSUME NEW s \in Subs, PassTime(s)
       PROVE  Stutters
  <2>1. BrokenSet' = BrokenSet
    BY <1>10 DEF PassTime, BrokenSet, Runs, Live, GivesUp
  <2> QED BY <1>0, <1>10, <2>1, MembersSame, SameListening DEF PassTime
<1>11. CASE UNCHANGED vars
  <2>1. BrokenSet' = BrokenSet
    BY <1>11 DEF vars, BrokenSet, Runs, Live, GivesUp
  <2> QED BY <1>0, <1>11, <2>1, MembersSame, SameListening DEF vars, stateVars
<1> HIDE DEF Stutters
<1>12. CASE \E c \in Clients : CallStep(c) \/ RemoveClient(c)
  <2>1. PICK c \in Clients : CallStep(c) \/ RemoveClient(c)
    BY <1>12
  <2>2. CASE CallStep(c)
    BY <2>2, <1>1, <1>2, <1>3, <1>4 DEF CallStep, Stutters
  <2>3. CASE RemoveClient(c)
    BY <2>3, <1>5
  <2> QED BY <2>1, <2>2, <2>3
<1>13. CASE \E t \in TaskIds : TaskStep(t)
  BY <1>13, <1>6, <1>7, <1>8, <1>9 DEF TaskStep, Stutters
<1>14. CASE \E s \in Subs : PassTime(s)
  BY <1>14, <1>10 DEF Stutters
<1> QED BY <1>11, <1>12, <1>13, <1>14 DEF Next, Stutters

(* The subscriptions of merx implement shared feeds.                        *)
THEOREM ImplementsSharedFeeds == Spec => SharesFeeds
BY TypeInvInit, TypeInvStep, OwnInvInit, OwnInvStep, FeedsInit, FeedsStep, PTL
DEF Spec, SharesFeeds, Feeds!FeedSpec

-----------------------------------------------------------------------------
(* Limits: what a key is charged with never exceeds its count, and the      *)
(* count never exceeds the limit.                                           *)

(* A key is charged with finitely many subscriptions.                       *)
LEMMA ChargedFinite ==
  ASSUME NEW r \in LimitRoutes, NEW k \in LimitKeys
  PROVE  IsFiniteSet(Charged(r, k)) /\ Cardinality(Charged(r, k)) \in Nat
BY FiniteAssumption, FS_Product, FS_Subset, FS_CardinalityType DEF Charged

(* At the start no key is charged or counted.                               *)
LEMMA LimitsInit == Init => LimitCovers
<1> SUFFICES ASSUME Init, NEW r \in LimitRoutes, NEW k \in LimitKeys
             PROVE  /\ Cardinality(Charged(r, k)) <= websocket_limit_state[r][k]
                    /\ websocket_limit_state[r][k] <= LimitNumber[r]
  BY DEF LimitCovers
<1>1. Charged(r, k) = {}
  BY DEF Init, StateInit, Charged, Members
<1>2. websocket_limit_state[r][k] = 0
  BY DEF Init, StateInit
<1> QED BY <1>1, <1>2, FS_EmptySet, LimitAssumption

(* A count goes up with what its key is charged with, below the limit only; *)
(* it goes down only with what it is charged with.                          *)
LEMMA LimitsStep == TypeInv /\ LimitCovers /\ [Next]_vars => LimitCovers'
<1> SUFFICES ASSUME TypeInv, LimitCovers, [Next]_vars,
                    NEW r \in LimitRoutes, NEW k \in LimitKeys
             PROVE  /\ Cardinality(Charged(r, k)') <= websocket_limit_state'[r][k]
                    /\ websocket_limit_state'[r][k] <= LimitNumber[r]
  BY DEF LimitCovers
<1> DEFINE count == websocket_limit_state[r][k]
           Goal == /\ Cardinality(Charged(r, k)') <= websocket_limit_state'[r][k]
                   /\ websocket_limit_state'[r][k] <= LimitNumber[r]
<1>0. /\ StateTypeOK
      /\ websocket_limit_state \in [LimitRoutes -> [LimitKeys -> Nat]]
      /\ count \in Nat
      /\ LimitNumber[r] \in Nat
      /\ IsFiniteSet(Charged(r, k))
      /\ Cardinality(Charged(r, k)) \in Nat
      /\ Cardinality(Charged(r, k)) <= count
      /\ count <= LimitNumber[r]
  BY LimitAssumption, ChargedFinite DEF TypeInv, TypeOK, StateTypeOK, LimitCovers
<1>1. ASSUME Charged(r, k)' \subseteq Charged(r, k), websocket_limit_state'[r][k] = count
      PROVE  Goal
  <2>1. Cardinality(Charged(r, k)') <= Cardinality(Charged(r, k))
        /\ Cardinality(Charged(r, k)') \in Nat
    BY <1>0, <1>1, FS_Subset, FS_CardinalityType
  <2> QED BY <1>0, <1>1, <2>1
<1>2. ASSUME NEW c \in Clients, NEW n, Limited(c), 
             websocket_limit_state' = WithLimitCount(c, n)
      PROVE  websocket_limit_state'[r][k] =
               IF r = RouteOf[c] /\ k = LimitKey(c) THEN n ELSE count
  BY <1>0, <1>2 DEF WithLimitCount, Limited
<1>3. ASSUME NEW c \in Clients, NEW s \in Subs,
             c \notin Members(s), ~AtLimit(c), Insert(c, s)
      PROVE  Goal
  <2>1. \A x : Members(x)' = IF x = s THEN Members(s) \cup {c} ELSE Members(x)
    BY <1>3, MembersJoin DEF Insert
  <2>2. CASE Limited(c) /\ r = RouteOf[c] /\ k = LimitKey(c)
    <3>1. Charged(r, k)' = Charged(r, k) \cup {<< c, s >>}
          /\ << c, s >> \notin Charged(r, k)
      BY <1>3, <2>1, <2>2 DEF Charged, LimitKey
    <3>2. Cardinality(Charged(r, k)') = Cardinality(Charged(r, k)) + 1
      BY <1>0, <3>1, FS_AddElement
    <3>3. LimitCount(c) = count /\ count < LimitNumber[r]
      BY <1>0, <1>3, <2>2 DEF AtLimit, LimitCount
    <3>4. websocket_limit_state'[r][k] = count + 1
      BY <1>2, <1>3, <2>2, <3>3 DEF Insert, TakenLimit
    <3> QED BY <1>0, <3>2, <3>3, <3>4
  <2>3. CASE ~(Limited(c) /\ r = RouteOf[c] /\ k = LimitKey(c))
    <3>1. Charged(r, k)' \subseteq Charged(r, k)
      BY <2>1, <2>3 DEF Charged, Limited, LimitKey
    <3>2. websocket_limit_state'[r][k] = count
      BY <1>2, <1>3, <2>3 DEF Insert, TakenLimit
    <3> QED BY <1>1, <3>1, <3>2
  <2> QED BY <2>2, <2>3
<1>4. ASSUME NEW c \in Clients, RemoveClientFromState(c)
      PROVE  Goal
  <2>1. \A x : Members(x)' = Members(x) \ {c}
    BY <1>4, MembersLeave DEF RemoveClientFromState
  <2>2. Charged(r, k)' \subseteq Charged(r, k)
    BY <2>1 DEF Charged, LimitKey
  <2>3. CASE /\ Limited(c) /\ r = RouteOf[c] /\ k = LimitKey(c)
             /\ \E s \in Subs : Held(c) = {s}
    <3>1. PICK s \in Subs : Held(c) = {s}
      BY <2>3
    <3>2. << c, s >> \in Charged(r, k)
      BY <2>3, <3>1 DEF Charged, Held
    <3>3. Charged(r, k)' \subseteq Charged(r, k) \ {<< c, s >>}
      BY <2>1, <2>2 DEF Charged
    <3>4. /\ Cardinality(Charged(r, k) \ {<< c, s >>}) = Cardinality(Charged(r, k)) - 1
          /\ IsFiniteSet(Charged(r, k) \ {<< c, s >>})
      BY <1>0, <3>2, FS_RemoveElement
    <3>5. Cardinality(Charged(r, k)') <= Cardinality(Charged(r, k) \ {<< c, s >>})
          /\ Cardinality(Charged(r, k)') \in Nat
      BY <3>3, <3>4, FS_Subset, FS_CardinalityType
    <3>6. LimitCount(c) = count
      BY <2>3 DEF LimitCount
    <3>7. websocket_limit_state'[r][k] = Monus(count, 1)
      BY <1>2, <1>4, <2>3, <3>6 DEF RemoveClientFromState, ReleasedLimit
    <3>8. Cardinality(Charged(r, k)) - 1 \in Nat
      BY <3>4, FS_CardinalityType
    <3> QED BY <1>0, <3>4, <3>5, <3>7, <3>8 DEF Monus
  <2>4. CASE ~(/\ Limited(c) /\ r = RouteOf[c] /\ k = LimitKey(c)
               /\ \E s \in Subs : Held(c) = {s})
    <3>1. websocket_limit_state'[r][k] = count
      BY <1>2, <1>4, <2>4 DEF RemoveClientFromState, ReleasedLimit
    <3> QED BY <1>1, <2>2, <3>1
  <2> QED BY <2>3, <2>4
<1>5. ASSUME NEW s \in Subs, DropSubscription(s)
      PROVE  Goal
  <2>1. \A x : Members(x)' = IF x = s THEN {} ELSE Members(x)
    BY <1>5, MembersRemoved DEF DropSubscription
  <2>2. Charged(r, k)' \subseteq Charged(r, k)
    BY <2>1 DEF Charged, LimitKey
  <2> QED BY <1>1, <1>5, <2>2 DEF DropSubscription
<1>6. ASSUME \A x : Members(x)' = Members(x), UNCHANGED websocket_limit_state
      PROVE  Goal
  <2>1. Charged(r, k)' \subseteq Charged(r, k)
    BY <1>6 DEF Charged, LimitKey
  <2> QED BY <1>1, <1>6, <2>1
<1> HIDE DEF Goal
<1> QED BY <1>3, <1>4, <1>5, <1>6, StepEffect DEF Goal

(* A key is never charged with more subscriptions than the limit of the     *)
(* route allows.                                                            *)
THEOREM LimitsHold == Spec => []LimitCovers
BY TypeInvInit, TypeInvStep, LimitsInit, LimitsStep, PTL DEF Spec

-----------------------------------------------------------------------------
(* The ways a count that is exact becomes inexact.                          *)
AllInv == TypeInv /\ CountsAgree /\ LimitCovers

(* The types, the counts of the clients and the limits, at the start ...    *)
LEMMA AllInvInit == Init => AllInv
BY TypeInvInit, CountsInit, LimitsInit DEF AllInv

(* ... and over every step.                                                 *)
LEMMA AllInvStep == AllInv /\ [Next]_vars => AllInv'
BY TypeInvStep, CountsStep, LimitsStep DEF AllInv

(* A set of one element at most is that element.                            *)
LEMMA OneAtMost ==
  ASSUME NEW S, IsFiniteSet(S), Cardinality(S) <= 1, NEW m \in S
  PROVE  S = {m}
<1>1. /\ Cardinality(S \ {m}) = Cardinality(S) - 1
      /\ IsFiniteSet(S \ {m})
  BY FS_RemoveElement
<1>2. Cardinality(S \ {m}) \in Nat /\ Cardinality(S) \in Nat
  BY <1>1, FS_CardinalityType
<1>3. Cardinality(S \ {m}) = 0
  BY <1>1, <1>2
<1>4. S \ {m} = {}
  BY <1>1, <1>3, FS_EmptySet
<1> QED BY <1>4

(* A limit count is taken with the subscription it stands for, and given    *)
(* back with it by a client that holds one.                                 *)
LEMMA LimitStaysExact ==
  ASSUME AllInv, [Next]_vars, NEW r \in LimitRoutes, NEW k \in LimitKeys,
         LimitExact(r, k), \A t \in TaskIds : ~ShutDown(t), ~LeavesSeveral(r, k)
  PROVE  LimitExact(r, k)'
<1> DEFINE count == websocket_limit_state[r][k]
<1>0. /\ TypeInv
      /\ websocket_limit_state \in [LimitRoutes -> [LimitKeys -> Nat]]
      /\ count \in Nat
      /\ count = Cardinality(Charged(r, k))
      /\ IsFiniteSet(Charged(r, k))
  BY ChargedFinite DEF AllInv, TypeInv, TypeOK, StateTypeOK, LimitExact
<1>1. ASSUME Charged(r, k)' = Charged(r, k), websocket_limit_state'[r][k] = count
      PROVE  LimitExact(r, k)'
  BY <1>0, <1>1 DEF LimitExact
<1>2. ASSUME NEW c \in Clients, NEW n, Limited(c),
             websocket_limit_state' = WithLimitCount(c, n)
      PROVE  websocket_limit_state'[r][k] =
               IF r = RouteOf[c] /\ k = LimitKey(c) THEN n ELSE count
  BY <1>0, <1>2 DEF WithLimitCount, Limited
<1>3. ASSUME NEW c \in Clients, NEW s \in Subs, c \notin Members(s), Insert(c, s)
      PROVE  LimitExact(r, k)'
  <2>1. \A x : Members(x)' = IF x = s THEN Members(s) \cup {c} ELSE Members(x)
    BY <1>3, MembersJoin DEF Insert
  <2>2. CASE Limited(c) /\ r = RouteOf[c] /\ k = LimitKey(c)
    <3>1. Charged(r, k)' = Charged(r, k) \cup {<< c, s >>}
          /\ << c, s >> \notin Charged(r, k)
      BY <1>3, <2>1, <2>2 DEF Charged, LimitKey
    <3>2. Cardinality(Charged(r, k)') = Cardinality(Charged(r, k)) + 1
      BY <1>0, <3>1, FS_AddElement
    <3>3. websocket_limit_state'[r][k] = count + 1
      BY <1>2, <1>3, <2>2 DEF Insert, TakenLimit, LimitCount
    <3> QED BY <1>0, <3>2, <3>3 DEF LimitExact
  <2>3. CASE ~(Limited(c) /\ r = RouteOf[c] /\ k = LimitKey(c))
    <3>1. Charged(r, k)' = Charged(r, k)
      BY <2>1, <2>3 DEF Charged, Limited, LimitKey
    <3>2. websocket_limit_state'[r][k] = count
      BY <1>2, <1>3, <2>3 DEF Insert, TakenLimit
    <3> QED BY <1>1, <3>1, <3>2
  <2> QED BY <2>2, <2>3
<1>4. ASSUME NEW c \in Clients, RemoveClient(c), RemoveClientFromState(c)
      PROVE  LimitExact(r, k)'
  <2>1. \A x : Members(x)' = Members(x) \ {c}
    BY <1>4, MembersLeave DEF RemoveClientFromState
  <2>2. CASE Limited(c) /\ r = RouteOf[c] /\ k = LimitKey(c) /\ Held(c) # {}
    <3>1. PICK s \in Subs : s \in Held(c)
      BY <2>2 DEF Held
    <3>2. Held(c) = {s}
      <4>1. ~(Cardinality(Held(c)) > 1)
        BY <1>4, <2>2 DEF LeavesSeveral
      <4>2. Cardinality(Held(c)) <= 1
        BY <4>1, HeldFinite, FS_CardinalityType
      <4> QED BY <3>1, <4>2, HeldFinite, OneAtMost
    <3>3. << c, s >> \in Charged(r, k)
          /\ Charged(r, k)' = Charged(r, k) \ {<< c, s >>}
      BY <2>1, <2>2, <3>2 DEF Charged, Held, LimitKey
    <3>4. /\ Cardinality(Charged(r, k)') = Cardinality(Charged(r, k)) - 1
          /\ Cardinality(Charged(r, k)') \in Nat
      BY <1>0, <3>3, FS_RemoveElement, FS_CardinalityType
    <3>5. websocket_limit_state'[r][k] = Monus(count, 1)
      BY <1>2, <1>4, <2>2, <3>2 DEF RemoveClientFromState, ReleasedLimit, LimitCount
    <3> QED BY <1>0, <3>4, <3>5 DEF Monus, LimitExact
  <2>3. CASE ~(Limited(c) /\ r = RouteOf[c] /\ k = LimitKey(c) /\ Held(c) # {})
    <3>1. websocket_limit_state'[r][k] = count
      BY <1>2, <1>4, <2>3 DEF RemoveClientFromState, ReleasedLimit
    <3>2. Charged(r, k)' = Charged(r, k)
      BY <2>1, <2>3 DEF Charged, Limited, LimitKey, Held
    <3> QED BY <1>1, <3>1, <3>2
  <2> QED BY <2>2, <2>3
<1>5. ASSUME \A x : Members(x)' = Members(x), UNCHANGED websocket_limit_state
      PROVE  LimitExact(r, k)'
  <2>1. Charged(r, k)' = Charged(r, k)
    BY <1>5 DEF Charged, LimitKey
  <2> QED BY <1>1, <1>5, <2>1
<1> QED BY <1>0, <1>3, <1>4, <1>5, StepEffect

(* An IP is charged with finitely many subscriptions.                       *)
LEMMA IpChargedFinite ==
  ASSUME NEW i \in IPs
  PROVE  IsFiniteSet(IpCharged(i)) /\ Cardinality(IpCharged(i)) \in Nat
BY FiniteAssumption, FS_Product, FS_Subset, FS_CardinalityType DEF IpCharged

(* A client that leaves takes as much off the count of its IP as the IP was *)
(* charged with for it.                                                     *)
LEMMA IpStaysExact ==
  ASSUME AllInv, [Next]_vars, NEW i \in IPs,
         IpExact(i), \A t \in TaskIds : ~ShutDown(t)
  PROVE  IpExact(i)'
<1> DEFINE count == subscription_ip_count[i]
<1>0. /\ TypeInv
      /\ subscription_ip_count \in [IPs -> Nat]
      /\ subscription_count \in [Clients -> Nat]
      /\ \A c \in Clients : subscription_count[c] = Cardinality(Held(c))
      /\ count = Cardinality(IpCharged(i))
      /\ IsFiniteSet(IpCharged(i))
  BY IpChargedFinite
  DEF AllInv, TypeInv, TypeOK, StateTypeOK, CountsAgree, IpExact
<1>1. ASSUME IpCharged(i)' = IpCharged(i), subscription_ip_count'[i] = count
      PROVE  IpExact(i)'
  BY <1>0, <1>1 DEF IpExact
<1>2. ASSUME NEW c \in Clients, NEW s \in Subs, c \notin Members(s), Insert(c, s)
      PROVE  IpExact(i)'
  <2>1. \A x : Members(x)' = IF x = s THEN Members(s) \cup {c} ELSE Members(x)
    BY <1>2, MembersJoin DEF Insert
  <2>2. CASE i = IpOf[c]
    <3>1. IpCharged(i)' = IpCharged(i) \cup {<< c, s >>}
          /\ << c, s >> \notin IpCharged(i)
      BY <1>2, <2>1, <2>2 DEF IpCharged
    <3>2. Cardinality(IpCharged(i)') = Cardinality(IpCharged(i)) + 1
      BY <1>0, <3>1, FS_AddElement
    <3> QED BY <1>0, <1>2, <2>2, <3>2 DEF Insert, IpExact
  <2>3. CASE i # IpOf[c]
    <3>1. IpCharged(i)' = IpCharged(i)
      BY <2>1, <2>3 DEF IpCharged
    <3>2. subscription_ip_count'[i] = count
      BY <1>0, <1>2, <2>3 DEF Insert
    <3> QED BY <1>1, <3>1, <3>2
  <2> QED BY <2>2, <2>3
<1>3. ASSUME NEW c \in Clients, RemoveClientFromState(c)
      PROVE  IpExact(i)'
  <2>1. \A x : Members(x)' = Members(x) \ {c}
    BY <1>3, MembersLeave DEF RemoveClientFromState
  <2>2. CASE i = IpOf[c]
    <3> DEFINE own == {c} \X Held(c)
    <3>1. own \subseteq IpCharged(i) /\ IpCharged(i)' = IpCharged(i) \ own
      BY <2>1, <2>2 DEF IpCharged, Held
    <3>2. Cardinality(own) = subscription_count[c]
      <4>1. IsFiniteSet({c}) /\ Cardinality({c}) = 1
        BY FS_Singleton
      <4>2. Cardinality(own) = Cardinality({c}) * Cardinality(Held(c))
        BY <4>1, HeldFinite, FS_Product
      <4>3. Cardinality(Held(c)) \in Nat
        BY HeldFinite, FS_CardinalityType
      <4> QED BY <1>0, <4>1, <4>2, <4>3
    <3> HIDE DEF own
    <3>3. /\ IsFiniteSet(IpCharged(i) \ own)
          /\ Cardinality(IpCharged(i) \ own)
               = Cardinality(IpCharged(i)) - Cardinality(IpCharged(i) \cap own)
      BY <1>0, FS_Difference
    <3>4. IpCharged(i) \cap own = own
      BY <3>1
    <3>5. Cardinality(IpCharged(i)') = count - subscription_count[c]
          /\ Cardinality(IpCharged(i)') \in Nat
      BY <1>0, <3>1, <3>2, <3>3, <3>4, FS_CardinalityType
    <3>6. count \in Nat /\ subscription_count[c] \in Nat
      BY <1>0
    <3>7. subscription_ip_count'[i] = Monus(count, subscription_count[c])
      BY <1>0, <1>3, <2>2 DEF RemoveClientFromState
    <3> QED BY <3>5, <3>6, <3>7 DEF Monus, IpExact
  <2>3. CASE i # IpOf[c]
    <3>1. IpCharged(i)' = IpCharged(i)
      BY <2>1, <2>3 DEF IpCharged
    <3>2. subscription_ip_count'[i] = count
      BY <1>0, <1>3, <2>3 DEF RemoveClientFromState
    <3> QED BY <1>1, <3>1, <3>2
  <2> QED BY <2>2, <2>3
<1>4. ASSUME \A x : Members(x)' = Members(x), UNCHANGED subscription_ip_count
      PROVE  IpExact(i)'
  <2>1. IpCharged(i)' = IpCharged(i)
    BY <1>4 DEF IpCharged
  <2> QED BY <1>1, <1>4, <2>1
<1> QED BY <1>0, <1>2, <1>3, <1>4, StepEffect

(* A limit or IP count that is exact only ever becomes inexact when a       *)
(* subscription is given up or, for a limit, a client leaves several.       *)
THEOREM ExactCountsStay == Spec => ExactStays
<1> DEFINE Stays ==
      /\ \A r \in LimitRoutes, k \in LimitKeys :
           LimitExact(r, k) /\ ~LimitExact(r, k)'
             => (\E t \in TaskIds : ShutDown(t)) \/ LeavesSeveral(r, k)
      /\ \A i \in IPs :
           IpExact(i) /\ ~IpExact(i)' => \E t \in TaskIds : ShutDown(t)
<1>1. AllInv /\ [Next]_vars => [Stays]_vars
  BY LimitStaysExact, IpStaysExact
<1> QED BY <1>1, AllInvInit, AllInvStep, PTL DEF Spec, ExactStays

(* What a steady behaviour keeps, with the invariants of every behaviour.   *)
LimitsKept == AllInv /\ \A r \in LimitRoutes, k \in LimitKeys : LimitExact(r, k)

IpsKept == AllInv /\ \A i \in IPs : IpExact(i)

(* Who leaves a route limited to one subscription does not leave several.   *)
LEMMA LeavesOne ==
  ASSUME AllInv, NEW r \in LimitRoutes, NEW k \in LimitKeys, LimitNumber[r] = 1
  PROVE  ~LeavesSeveral(r, k)
<1> SUFFICES ASSUME NEW c \in Clients, RouteOf[c] = r, LimitKey(c) = k
             PROVE  ~(Cardinality(Held(c)) > 1)
  BY DEF LeavesSeveral
<1>1. Cardinality(Charged(r, k)) <= 1
  <2>1. /\ Cardinality(Charged(r, k)) <= websocket_limit_state[r][k]
        /\ websocket_limit_state[r][k] <= 1
        /\ websocket_limit_state[r][k] \in Nat
    BY DEF AllInv, LimitCovers, TypeInv, TypeOK, StateTypeOK
  <2> QED BY <2>1, ChargedFinite
<1>2. CASE Held(c) = {}
  BY <1>2, FS_EmptySet
<1>3. CASE Held(c) # {}
  <2>1. PICK s \in Held(c) : TRUE
    BY <1>3
  <2>2. \A x \in Held(c) : << c, x >> \in Charged(r, k)
    BY DEF Held, Charged
  <2>3. Charged(r, k) = {<< c, s >>}
    BY <1>1, <2>1, <2>2, ChargedFinite, OneAtMost
  <2>4. Held(c) = {s}
    BY <2>1, <2>2, <2>3
  <2> QED BY <2>4, FS_Singleton
<1> QED BY <1>2, <1>3

(* With every limit at one, as the code has them, the limit count goes down *)
(* with the connections, as its comment says, as long as no subscription is *)
(* given up: that alone can leave it standing.                              *)
THEOREM LimitsReturned ==
  (\A r \in LimitRoutes : LimitNumber[r] = 1)
    => (SteadySpec => []LimitCountsConnections)
<1> SUFFICES ASSUME \A r \in LimitRoutes : LimitNumber[r] = 1
             PROVE  SteadySpec => []LimitCountsConnections
  OBVIOUS
<1>1. Init => LimitsKept
  <2> SUFFICES ASSUME Init, NEW r \in LimitRoutes, NEW k \in LimitKeys
               PROVE  LimitExact(r, k)
    BY AllInvInit DEF LimitsKept
  <2>1. Charged(r, k) = {}
    BY DEF Init, StateInit, Charged, Members
  <2> QED BY <2>1, FS_EmptySet DEF Init, StateInit, LimitExact
<1>2. LimitsKept /\ [Next /\ \A t \in TaskIds : ~ShutDown(t)]_vars => LimitsKept'
  <2> SUFFICES ASSUME LimitsKept, [Next /\ \A t \in TaskIds : ~ShutDown(t)]_vars,
                      NEW r \in LimitRoutes, NEW k \in LimitKeys
               PROVE  LimitExact(r, k)'
    BY AllInvStep DEF LimitsKept
  <2>1. CASE UNCHANGED vars
    <3>1. Charged(r, k)' = Charged(r, k) /\ UNCHANGED websocket_limit_state
      BY <2>1 DEF vars, stateVars, Charged, Members, LimitKey
    <3> QED BY <3>1 DEF LimitsKept, LimitExact
  <2>2. CASE Next /\ \A t \in TaskIds : ~ShutDown(t)
    BY <2>2, LeavesOne, LimitStaysExact DEF LimitsKept
  <2> QED BY <2>1, <2>2
<1>3. LimitsKept => LimitCountsConnections
  <2> SUFFICES ASSUME LimitsKept, NEW r \in LimitRoutes, NEW k \in LimitKeys,
                      \A c \in Clients : RouteOf[c] = r => Held(c) = {}
               PROVE  websocket_limit_state[r][k] = 0
    BY DEF LimitCountsConnections
  <2>1. Charged(r, k) = {}
    BY DEF Charged, Held
  <2> QED BY <2>1, FS_EmptySet DEF LimitsKept, LimitExact
<1> QED BY <1>1, <1>2, <1>3, PTL DEF SteadySpec

(* As long as no subscription is given up, an IP without subscriptions has  *)
(* no count: that alone can leave one behind.                               *)
THEOREM IpCountsReturned == SteadySpec => []IpCountsAgree
<1>1. Init => IpsKept
  <2> SUFFICES ASSUME Init, NEW i \in IPs
               PROVE  IpExact(i)
    BY AllInvInit DEF IpsKept
  <2>1. IpCharged(i) = {}
    BY DEF Init, StateInit, IpCharged, Members
  <2> QED BY <2>1, FS_EmptySet DEF Init, StateInit, IpExact
<1>2. IpsKept /\ [Next /\ \A t \in TaskIds : ~ShutDown(t)]_vars => IpsKept'
  <2> SUFFICES ASSUME IpsKept, [Next /\ \A t \in TaskIds : ~ShutDown(t)]_vars,
                      NEW i \in IPs
               PROVE  IpExact(i)'
    BY AllInvStep DEF IpsKept
  <2>1. CASE UNCHANGED vars
    <3>1. IpCharged(i)' = IpCharged(i) /\ UNCHANGED subscription_ip_count
      BY <2>1 DEF vars, stateVars, IpCharged, Members
    <3> QED BY <3>1 DEF IpsKept, IpExact
  <2>2. CASE Next /\ \A t \in TaskIds : ~ShutDown(t)
    BY <2>2, IpStaysExact DEF IpsKept
  <2> QED BY <2>1, <2>2
<1>3. IpsKept => IpCountsAgree
  <2> SUFFICES ASSUME IpsKept, NEW i \in IPs,
                      \A c \in Clients : IpOf[c] = i => Held(c) = {}
               PROVE  subscription_ip_count[i] = 0
    BY DEF IpCountsAgree
  <2>1. IpCharged(i) = {}
    BY DEF IpCharged, Held
  <2> QED BY <2>1, FS_EmptySet DEF IpsKept, IpExact
<1> QED BY <1>1, <1>2, <1>3, PTL DEF SteadySpec

-----------------------------------------------------------------------------
(* A call that has passed the check of a subscription and not yet joined it *)
(* finds it not locked.                                                     *)
LockInv ==
  \A s \in Subs, c \in Clients :
    subscription_bad[s] = "locked" => ~(call[c].at = "insert" /\ call[c].sub = s)

(* No step locks a subscription under such a call, if none fails under one. *)
LEMMA LockInvStep ==
  TypeInv /\ LockInv /\ [Next /\ Undisturbed]_vars => LockInv'
<1> SUFFICES ASSUME TypeInv, LockInv, Next /\ Undisturbed PROVE LockInv'
  <2> SUFFICES ASSUME LockInv, UNCHANGED vars PROVE LockInv'
    OBVIOUS
  <2> QED BY DEF LockInv, vars, stateVars
<1>0. TypeOK /\ HaveSub /\ StateTypeOK
  BY DEF TypeInv, TypeOK
<1>1. ASSUME NEW c \in Clients, NEW s \in Subs, CheckLocked(c, s)
      PROVE  LockInv'
  BY <1>0, <1>1 DEF CheckLocked, LockInv, StateTypeOK, TypeOK
<1>2. ASSUME NEW c \in Clients,
             Refuse(c) \/ Accept(c) \/ (\E t \in TaskIds : Spawn(c, t)) \/ RemoveClient(c)
      PROVE  LockInv'
  <2>1. UNCHANGED subscription_bad
    BY <1>2 DEF Refuse, Accept, Spawn, RemoveClient, stateVars
  <2>2. \A d \in Clients : call'[d] = call[d] \/ call'[d].at # "insert"
    BY <1>0, <1>2 DEF Refuse, Accept, Spawn, RemoveClient, Idle, TypeOK
  <2> QED BY <2>1, <2>2 DEF LockInv
<1>3. ASSUME NEW t \in TaskIds, ShutDown(t)
      PROVE  LockInv'
  <2>1. \A c \in Clients : ~(call[c].at = "insert" /\ call[c].sub = task[t].sub)
    BY <1>3 DEF Undisturbed
  <2>2. call' = call
    BY <1>3 DEF ShutDown
  <2>3. \A s \in Subs : s # task[t].sub => subscription_bad'[s] = subscription_bad[s]
    BY <1>0, <1>3 DEF ShutDown, NoteFailure, StateTypeOK
  <2> QED BY <2>1, <2>2, <2>3 DEF LockInv
<1>4. ASSUME NEW t \in TaskIds, TaskStep(t), ~ShutDown(t)
      PROVE  LockInv'
  <2>1. UNCHANGED << subscription_bad, call >>
    BY <1>4
    DEF TaskStep, ConnectOk, ConnectFails, ConnectRejected, ReadFails, Receive,
        CloseIfEmpty, AgeListeners, stateVars
  <2> QED BY <2>1 DEF LockInv
<1>5. ASSUME NEW s \in Subs, PassTime(s)
      PROVE  LockInv'
  BY <1>0, <1>5 DEF PassTime, AgeFailure, LockInv, StateTypeOK
<1> QED BY <1>1, <1>2, <1>3, <1>4, <1>5 DEF Next, CallStep

(* If no subscription fails between the two sections of a call that wants   *)
(* it, nobody joins a locked one: that gap alone lets a client in.          *)
THEOREM LocksRefuse == OrderlySpec => LockedMeansRefused
<1> DEFINE Refuses ==
      \A s \in Subs :
        subscription_bad[s] = "locked" => Members(s)' \subseteq Members(s)
<1>1. Init => TypeInv /\ LockInv
  BY TypeInvInit DEF Init, LockInv, Idle
<1>2. TypeInv /\ LockInv /\ [Next /\ Undisturbed]_vars => (TypeInv /\ LockInv)'
  BY TypeInvStep, LockInvStep
<1>3. TypeInv /\ LockInv /\ [Next /\ Undisturbed]_vars => [Refuses]_vars
  <2> SUFFICES ASSUME TypeInv, LockInv, Next, NEW s \in Subs,
                      subscription_bad[s] = "locked"
               PROVE  Members(s)' \subseteq Members(s)
    OBVIOUS
  <2>1. ASSUME NEW c \in Clients, NEW x \in Subs,
               Accept(c), x = call[c].sub, Insert(c, x)
        PROVE  Members(s)' \subseteq Members(s)
    <3>1. x # s
      BY <2>1 DEF Accept, LockInv
    <3> QED BY <2>1, <3>1, MembersJoin DEF Insert
  <2>2. ASSUME NEW c \in Clients, RemoveClientFromState(c)
        PROVE  Members(s)' \subseteq Members(s)
    BY <2>2, MembersLeave DEF RemoveClientFromState
  <2>3. ASSUME NEW x \in Subs, DropSubscription(x)
        PROVE  Members(s)' \subseteq Members(s)
    BY <2>3, MembersRemoved DEF DropSubscription
  <2> QED BY <2>1, <2>2, <2>3, StepEffect
<1> QED BY <1>1, <1>2, <1>3, PTL DEF OrderlySpec, LockedMeansRefused
=============================================================================
