-------------------------- MODULE RuntimeBus_proofs --------------------------
(***************************************************************************)
(* Theorems about RuntimeBus, for every set of threads, commands, faults   *)
(* and calls.                                                              *)
(*                                                                         *)
(* The argument is the lock's: whoever is past "wait" holds it, so that    *)
(* nobody else is past "wait" when a call enters, and STOP and RESET, which *)
(* need the lock too, never meet a cycle.                                  *)
(***************************************************************************)
EXTENDS BusProperties, FiniteSetTheorems, TLAPS

Working == {"run", "track", "poll", "memory", "history", "reply"}

LocalTypes ==
  /\ pc \in [Threads -> Stages]
  /\ op \in [Threads -> CommandKinds \cup {"none"}]
  /\ running \in BOOLEAN

HolderWorks == \A t \in Threads : pc[t] \in Working => lock = t

BusInv == LocalTypes /\ HolderWorks /\ TickCycleOnlyWhileRunning

------------------------------------------------------------------------------
LEMMA BusInvInit == Init => BusInv
  BY DEF Init, BusInv, LocalTypes, HolderWorks, TickCycleOnlyWhileRunning,
         Stages, InStep, Working

(* A call that holds the lock goes on.                                     *)
LEMMA Continues ==
  ASSUME BusInv, NEW t \in Threads, NEW to \in Working,
         pc[t] \in Working, to \in InStep => pc[t] \in InStep,
         pc' = [pc EXCEPT ![t] = to], UNCHANGED <<lock, op, running>>
  PROVE  BusInv'
  BY DEF BusInv, LocalTypes, HolderWorks, TickCycleOnlyWhileRunning,
         Stages, InStep, Working

(* A call takes the lock: nobody else is at work, so running may change.   *)
LEMMA Enters ==
  ASSUME BusInv, NEW t \in Threads, NEW to \in Working,
         Locks(t), pc' = [pc EXCEPT ![t] = to], UNCHANGED op,
         running' \in BOOLEAN,
         op[t] = "TICK" /\ to \in InStep => running'
  PROVE  BusInv'
<1>1. \A s \in Threads : pc[s] \notin Working
  BY BusAssumption DEF BusInv, HolderWorks, Locks
<1>2. \A s \in Threads : s # t => pc'[s] \notin Working
  BY <1>1 DEF BusInv, LocalTypes
<1> QED
  BY <1>2 DEF BusInv, LocalTypes, HolderWorks, TickCycleOnlyWhileRunning, Locks,
              Stages, InStep, Working

(* A call comes back, with an answer or an exception, and frees the lock.  *)
LEMMA Leaves ==
  ASSUME BusInv, NEW t \in Threads, pc[t] \in Working, Raises(t), lock' = Free,
         UNCHANGED running
  PROVE  BusInv'
<1>1. \A s \in Threads : s # t => pc[s] \notin Working
  BY DEF BusInv, HolderWorks
<1> QED
  BY <1>1 DEF BusInv, LocalTypes, HolderWorks, TickCycleOnlyWhileRunning, Raises,
              Stages, InStep, Working

LEMMA BusInvStep == BusInv /\ [Next]_vars => BusInv'
<1> SUFFICES ASSUME BusInv, [Next]_vars PROVE BusInv'
  OBVIOUS
<1> USE DEF kept, locals, busHistory
<1>1. ASSUME NEW t \in Threads, NEW what \in Commands, Call(t, what) PROVE BusInv'
  BY <1>1, BusAssumption
     DEF Call, Goes, BusInv, LocalTypes, HolderWorks, TickCycleOnlyWhileRunning,
         Stages, InStep, Working
<1>2. ASSUME NEW t \in Threads, EnterCycle(t) PROVE BusInv'
  BY <1>2, Enters DEF EnterCycle, StartsCycle, Goes, Working, BusInv, LocalTypes
<1>3. ASSUME NEW t \in Threads, TickWhileStopped(t) PROVE BusInv'
  BY <1>3, Enters DEF TickWhileStopped, Goes, Working, InStep, BusInv, LocalTypes
<1>4. ASSUME NEW t \in Threads, Stop(t) PROVE BusInv'
  BY <1>4, Enters DEF Stop, Goes, Working, InStep
<1>5. ASSUME NEW t \in Threads, Reset(t) PROVE BusInv'
  BY <1>5, Enters DEF Reset, Goes, Working, InStep
<1>6. ASSUME NEW t \in Threads, Monitor(t) PROVE BusInv'
  <2>1. op[t] # "TICK" /\ Locks(t) /\ UNCHANGED <<op, running>>
    BY <1>6 DEF Monitor
  <2>2. PICK to \in Working : pc' = [pc EXCEPT ![t] = to]
    BY <1>6 DEF Monitor, Goes, Working
  <2> QED
    BY <2>1, <2>2, Enters DEF BusInv, LocalTypes
<1>7. ASSUME NEW t \in Threads, RunRaises(t) PROVE BusInv'
  BY <1>7, Leaves DEF RunRaises, Working
<1>8. ASSUME NEW t \in Threads, RunReturns(t) PROVE BusInv'
  BY <1>8, Continues DEF RunReturns, AfterRun, Goes, Working, InStep
<1>9. ASSUME NEW t \in Threads, TrackOrder(t) PROVE BusInv'
  BY <1>9, Continues DEF TrackOrder, Goes, Working, InStep
<1>10. ASSUME NEW t \in Threads, PollAnswered(t) \/ PollUnanswered(t) PROVE BusInv'
  BY <1>10 DEF PollAnswered, PollUnanswered, BusInv, LocalTypes, HolderWorks,
               TickCycleOnlyWhileRunning
<1>11. ASSUME NEW t \in Threads, PollRaises(t) PROVE BusInv'
  BY <1>11, Leaves DEF PollRaises, Working
<1>12. ASSUME NEW t \in Threads, PollEnds(t) PROVE BusInv'
  <2>1. PICK to \in {"reply", "memory"} : pc' = [pc EXCEPT ![t] = to]
    BY <1>12 DEF PollEnds
  <2> QED
    BY <1>12, <2>1, Continues DEF PollEnds, Working, InStep
<1>13. ASSUME NEW t \in Threads, WriteMemory(t) \/ NoMemory(t) PROVE BusInv'
  BY <1>13, Continues DEF WriteMemory, NoMemory, Goes, Working, InStep
<1>14. ASSUME NEW t \in Threads, WriteHistory(t) PROVE BusInv'
  BY <1>14, Continues DEF WriteHistory, Goes, Working, InStep
<1>15. ASSUME NEW t \in Threads, Reply(t) PROVE BusInv'
  BY <1>15, Leaves DEF Reply, Working
<1>16. ASSUME Broker \/ UNCHANGED vars PROVE BusInv'
  BY <1>16 DEF Broker, vars, BusInv, LocalTypes, HolderWorks, TickCycleOnlyWhileRunning
<1> QED
  BY <1>1, <1>2, <1>3, <1>4, <1>5, <1>6, <1>7, <1>8, <1>9, <1>10, <1>11, <1>12,
     <1>13, <1>14, <1>15, <1>16 DEF Next, Work

LEMMA BusInvHolds == Spec => []BusInv
  BY BusInvInit, BusInvStep, PTL DEF Spec

------------------------------------------------------------------------------
(***************************************************************************)
(* Two threads are never in a step or a poll of the bus at once, whatever  *)
(* raises and whatever the broker and the memory do.                       *)
(***************************************************************************)
THEOREM BusRunsOneAtATime == Spec => []OneAtATime
<1>1. BusInv => OneAtATime
  BY DEF BusInv, HolderWorks, OneAtATime, Working, InStep
<1> QED
  BY <1>1, BusInvHolds, PTL

(***************************************************************************)
(* No cycle that a tick started is under way while the runtime is stopped. *)
(***************************************************************************)
THEOREM StopHoldsTicks == Spec => []TickCycleOnlyWhileRunning
<1>1. BusInv => TickCycleOnlyWhileRunning
  BY DEF BusInv
<1> QED
  BY <1>1, BusInvHolds, PTL

------------------------------------------------------------------------------
(***************************************************************************)
(* OpenOrdersFollowed.  The cycles begun and the calls that still wait     *)
(* together never exceed the calls made (CountInv), so that every cycle's  *)
(* order is one of Orders; and an order is new while its cycle runs, and   *)
(* what the cycle returns says so when it is no more (FollowInv), until    *)
(* the holder of the lock has tracked it.                                  *)
(***************************************************************************)
Waiting == {t \in Threads : pc[t] = "wait"}

CountInv ==
  /\ calls \in 0 .. MaxCalls
  /\ count \in Nat
  /\ count + Cardinality(Waiting) <= calls

LEMMA WaitingFinite == IsFiniteSet(Waiting) /\ Cardinality(Waiting) \in Nat
  BY BusAssumption, FS_Subset, FS_CardinalityType DEF Waiting

LEMMA CountInvInit == Init => CountInv
<1> SUFFICES ASSUME Init PROVE CountInv
  OBVIOUS
<1>1. Waiting = {}
  BY DEF Init, Waiting
<1> QED
  BY <1>1, FS_EmptySet, BrokerOrdersAssumption DEF Init, CountInv

(* What the lock's holder does leaves the waiting calls alone.             *)
LEMMA CountStays ==
  ASSUME CountInv, BusInv, NEW t \in Threads, NEW to \in Stages \ {"wait"},
         pc[t] # "wait", pc' = [pc EXCEPT ![t] = to], UNCHANGED <<calls, count>>
  PROVE  CountInv'
<1>1. Waiting' = Waiting
  BY DEF Waiting, BusInv, LocalTypes
<1> QED
  BY <1>1 DEF CountInv

(* A call that enters waits no more, and begins one cycle at most.         *)
LEMMA CountEnters ==
  ASSUME CountInv, BusInv, NEW t \in Threads, NEW to \in Stages \ {"wait"},
         pc[t] = "wait", pc' = [pc EXCEPT ![t] = to], UNCHANGED calls,
         count' \in {count, count + 1}
  PROVE  CountInv'
<1>1. Waiting' = Waiting \ {t} /\ t \in Waiting
  BY DEF Waiting, BusInv, LocalTypes
<1>2. Cardinality(Waiting') = Cardinality(Waiting) - 1
  BY <1>1, WaitingFinite, FS_RemoveElement
<1> QED
  BY <1>2, WaitingFinite DEF CountInv

LEMMA CountCalls ==
  ASSUME CountInv, BusInv, NEW t \in Threads, NEW what \in Commands, Call(t, what)
  PROVE  CountInv'
<1>1. Waiting' = Waiting \cup {t} /\ t \notin Waiting
  BY DEF Waiting, BusInv, LocalTypes, Call, Goes
<1>2. Cardinality(Waiting') = Cardinality(Waiting) + 1
  BY <1>1, WaitingFinite, FS_AddElement
<1> QED
  BY <1>2, WaitingFinite, BrokerOrdersAssumption DEF CountInv, Call, kept

LEMMA CountInvStep == BusInv /\ CountInv /\ [Next]_vars => CountInv'
<1> SUFFICES ASSUME BusInv, CountInv, [Next]_vars PROVE CountInv'
  OBVIOUS
<1> USE DEF kept, locals, busHistory, Stages, InStep, Goes
<1>1. ASSUME NEW t \in Threads, NEW what \in Commands, Call(t, what) PROVE CountInv'
  BY <1>1, CountCalls
<1>2. ASSUME NEW t \in Threads,
             \/ EnterCycle(t) \/ TickWhileStopped(t) \/ Stop(t) \/ Reset(t) \/ Monitor(t)
      PROVE CountInv'
  <2>1. PICK to \in {"run", "reply", "poll"} :
          pc[t] = "wait" /\ pc' = [pc EXCEPT ![t] = to]
    BY <1>2 DEF EnterCycle, TickWhileStopped, Stop, Reset, Monitor
  <2>2. UNCHANGED calls /\ count' \in {count, count + 1}
    BY <1>2 DEF EnterCycle, TickWhileStopped, Stop, Reset, Monitor
  <2> QED
    BY <2>1, <2>2, CountEnters
<1>3. ASSUME NEW t \in Threads, RunRaises(t) \/ PollRaises(t) \/ Reply(t) PROVE CountInv'
  BY <1>3, CountStays DEF RunRaises, PollRaises, Reply, Raises
<1>4. ASSUME NEW t \in Threads,
             RunReturns(t) \/ TrackOrder(t) \/ PollEnds(t) \/ WriteMemory(t) \/ NoMemory(t)
               \/ WriteHistory(t)
      PROVE CountInv'
  <2>1. PICK to \in {"track", "poll", "reply", "memory", "history"} :
          pc[t] # "wait" /\ pc' = [pc EXCEPT ![t] = to]
    BY <1>4 DEF RunReturns, TrackOrder, PollEnds, WriteMemory, NoMemory, WriteHistory,
                AfterRun
  <2>2. UNCHANGED <<calls, count>>
    BY <1>4 DEF RunReturns, TrackOrder, PollEnds, WriteMemory, NoMemory, WriteHistory
  <2> QED
    BY <2>1, <2>2, CountStays
<1>5. ASSUME \/ \E t \in Threads : PollAnswered(t) \/ PollUnanswered(t)
             \/ Broker \/ UNCHANGED vars
      PROVE CountInv'
  <2>1. UNCHANGED <<calls, count, pc>>
    BY <1>5 DEF PollAnswered, PollUnanswered, Broker, vars
  <2> QED
    BY <2>1 DEF CountInv, Waiting
<1> QED
  BY <1>1, <1>2, <1>3, <1>4, <1>5 DEF Next, Work

------------------------------------------------------------------------------
HonestBroker == Faults \cap {"misread", "early", "lost_reply", "unnamed"} = {}

Live(o) == raw[o] \notin Over \cup {"none"}

OrderTypes ==
  /\ raw \in [Orders -> RawStatuses \ Announcing]
  /\ tracked \in [Orders -> OrderStatuses \cup {"untracked"}]
  /\ mine \in [Threads -> Nat]
  /\ outcome \in [Threads -> Outcomes]

(* Only cycles that ran have orders, and what a cycle returns tells of its. *)
NewOrders ==
  /\ \A o \in Orders : o > count => raw[o] = "none"
  /\ \A t \in Threads : pc[t] \in {"run", "track"} => mine[t] = count /\ count > 0
  /\ \A t \in Threads : pc[t] = "run" => raw[count] = "none"
  /\ \A t \in Threads :
       pc[t] = "track" /\ raw[count] # "none" => Submitted(outcome[t]) /\ outcome[t].named

FollowInv == OrderTypes /\ NewOrders /\ OpenOrdersFollowed

LEMMA CountBounded == CountInv => count \in 0 .. MaxCalls
  BY WaitingFinite, BrokerOrdersAssumption DEF CountInv

LEMMA FollowInvInit == Init => FollowInv
  BY BrokerOrdersAssumption
  DEF Init, FollowInv, OrderTypes, NewOrders, OpenOrdersFollowed, InitOrders,
      InitMonitor, RawStatuses, Announcing, NoOutcome, Outcomes, Orders

(* The broker moves an order on: an order that is over stays over.         *)
LEMMA FollowBroker ==
  ASSUME HonestBroker, CountInv, FollowInv, Broker
  PROVE  FollowInv'
<1>1. PICK o \in Orders : BrokerMoves(o)
  BY DEF Broker
<1>2. PICK to \in RawStatuses : <<raw[o], to>> \in RawMoves /\ raw' = [raw EXCEPT ![o] = to]
  BY <1>1 DEF BrokerMoves
<1>3. Live(o) /\ to \notin Announcing /\ to # "none"
  BY <1>2 DEF RawMoves, HonestBroker, Announcing, Over, Live
<1>4. UNCHANGED <<pc, mine, outcome, count, tracked>>
  BY DEF Broker, locals, kept
<1>5. /\ raw' \in [Orders -> RawStatuses \ Announcing]
      /\ \A p \in Orders : (raw'[p] = "none" <=> raw[p] = "none")
      /\ \A p \in Orders : raw'[p] \notin Over \cup {"none"} => Live(p)
  BY <1>2, <1>3 DEF FollowInv, OrderTypes, Live
<1>6. OpenOrdersFollowed'
  BY <1>4, <1>5 DEF FollowInv, OpenOrdersFollowed, Tracked, AboutToBeTracked, Live
<1>7. \A t \in Threads : pc[t] \in {"run", "track"} => count \in Orders
  BY CountBounded, BrokerOrdersAssumption DEF FollowInv, NewOrders, Orders
<1>8. NewOrders'
  BY <1>4, <1>5, <1>7 DEF FollowInv, NewOrders
<1> QED
  BY <1>4, <1>5, <1>6, <1>8 DEF FollowInv, OrderTypes

(* poll stops following an order only once the broker has ended it.        *)
LEMMA FollowPoll ==
  ASSUME HonestBroker, FollowInv, NEW t \in Threads,
         PollAnswered(t) \/ PollUnanswered(t)
  PROVE  FollowInv'
<1> USE DEF kept, FollowInv, OrderTypes, NewOrders, OpenOrdersFollowed, Tracked,
            AboutToBeTracked
<1>1. CASE PollUnanswered(t)
  BY <1>1 DEF PollUnanswered, StatusUnavailable, StatusUnknown, HonestBroker
<1>2. CASE PollAnswered(t)
  <2>1. PICK o \in Orders : StatusKnown(o)
    BY <1>2 DEF PollAnswered
  <2>2. Status(raw[o]) \in OrderStatuses
    BY DEF Status, OrderStatuses
  <2>3. Status(raw[o]) \in TerminalStatuses => raw[o] \in Over
    BY DEF Status, TerminalStatuses, RawStatuses, Announcing, Over
  <2>4. "untracked" \notin OrderStatuses
    BY DEF OrderStatuses
  <2>5. UNCHANGED <<pc, mine, outcome, count, raw>>
    BY <1>2 DEF PollAnswered
  <2>6. /\ tracked' \in [Orders -> OrderStatuses \cup {"untracked"}]
        /\ \A p \in Orders : p # o => tracked'[p] = tracked[p]
        /\ tracked'[o] = "untracked" => raw[o] \in Over
    BY <2>1, <2>2, <2>3, <2>4 DEF StatusKnown
  <2> QED
    BY <2>5, <2>6
<1> QED
  BY <1>1, <1>2

(* What a submission says of its order is one of the system's statuses.    *)
LEMMA RunOutcome ==
  ASSUME NEW t \in Threads, RunReturns(t), HonestBroker
  PROVE  \E x \in Outcomes, word \in RawStatuses \ Announcing :
           /\ outcome' = [outcome EXCEPT ![t] = x]
           /\ \/ raw' = raw
              \/ /\ raw' = [raw EXCEPT ![mine[t]] = word]
                 /\ Submitted(x) /\ x.named
<1>1. CASE \E kind \in OutcomeKinds \ {"submitted"} :
             /\ outcome' = [outcome EXCEPT ![t] = [NoOutcome EXCEPT !.kind = kind]]
             /\ raw' = raw
  <2>1. PICK kind \in OutcomeKinds :
          /\ outcome' = [outcome EXCEPT ![t] = [NoOutcome EXCEPT !.kind = kind]]
          /\ raw' = raw
    BY <1>1
  <2>2. [NoOutcome EXCEPT !.kind = kind] \in Outcomes
    BY DEF NoOutcome, Outcomes, OrderStatuses
  <2>3. "new" \in RawStatuses \ Announcing
    BY DEF RawStatuses, Announcing
  <2> QED
    BY <2>1, <2>2, <2>3
<1>2. CASE \E word \in AnsweredWords :
             /\ raw' = [raw EXCEPT ![mine[t]] = word]
             /\ outcome' = [outcome EXCEPT
                  ![t] = [kind |-> "submitted", status |-> Status(word), named |-> TRUE]]
  <2>1. PICK word \in AnsweredWords :
          /\ raw' = [raw EXCEPT ![mine[t]] = word]
          /\ outcome' = [outcome EXCEPT
               ![t] = [kind |-> "submitted", status |-> Status(word), named |-> TRUE]]
    BY <1>2
  <2>2. Status(word) \in OrderStatuses
    BY DEF Status, OrderStatuses
  <2>3. word \in RawStatuses \ Announcing
    BY DEF AnsweredWords, HonestBroker
  <2> DEFINE x == [kind |-> "submitted", status |-> Status(word), named |-> TRUE]
  <2>4. x \in Outcomes /\ Submitted(x) /\ x.named
    BY <2>2 DEF Outcomes, OutcomeKinds, Submitted
  <2> HIDE DEF x
  <2>5. outcome' = [outcome EXCEPT ![t] = x]
    BY <2>1 DEF x
  <2> QED
    BY <2>1, <2>3, <2>4, <2>5
<1> QED
  BY <1>1, <1>2 DEF RunReturns, HonestBroker

(* The order of a cycle that returns is new, and its outcome tells of it.  *)
LEMMA FollowRun ==
  ASSUME HonestBroker, BusInv, CountInv, FollowInv, NEW t \in Threads, RunReturns(t)
  PROVE  FollowInv'
<1>1. /\ mine[t] = count /\ count > 0 /\ count \in Orders /\ count \in Nat
      /\ raw[count] = "none"
  BY CountBounded, BrokerOrdersAssumption
  DEF RunReturns, Goes, FollowInv, NewOrders, Orders
<1>2. PICK x \in Outcomes, word \in RawStatuses \ Announcing :
        /\ outcome' = [outcome EXCEPT ![t] = x]
        /\ \/ raw' = raw
           \/ raw' = [raw EXCEPT ![count] = word] /\ Submitted(x) /\ x.named
  BY <1>1, RunOutcome
<1>3. /\ pc[t] = "run" /\ pc' = [pc EXCEPT ![t] = AfterRun]
      /\ UNCHANGED <<mine, count, tracked>>
  BY DEF RunReturns, Goes
<1>4. \A s \in Threads : s # t => pc[s] \notin {"run", "track"}
  BY <1>3 DEF BusInv, HolderWorks, Working
<1>5. OrderTypes'
  BY <1>1, <1>2, <1>3 DEF FollowInv, OrderTypes
<1>6. \A o \in Orders : o # count => raw'[o] = raw[o]
  BY <1>1, <1>2 DEF FollowInv, OrderTypes
<1>7. \A s \in Threads : s # t => pc'[s] = pc[s]
  BY <1>3 DEF BusInv, LocalTypes
<1>8. pc'[t] = AfterRun /\ outcome'[t] = x
  BY <1>2, <1>3 DEF BusInv, LocalTypes, FollowInv, OrderTypes
<1>9. NewOrders'
  <2>1. \A o \in Orders : o > count => o # count
    BY <1>1 DEF Orders
  <2>2. \A o \in Orders : o > count' => raw'[o] = "none"
    BY <1>3, <1>6, <2>1 DEF FollowInv, NewOrders
  <2>3. raw'[count] # "none" => Submitted(x) /\ x.named
    BY <1>1, <1>2
  <2> QED
    BY <1>1, <1>3, <1>4, <1>7, <1>8, <2>2, <2>3 DEF NewOrders, AfterRun
<1>10. OpenOrdersFollowed'
  <2> SUFFICES ASSUME HasMonitor, NEW o \in Orders, raw'[o] \notin Over \cup {"none"}
               PROVE  o \in Tracked' \/ AboutToBeTracked(o)'
    BY DEF OpenOrdersFollowed
  <2>1. CASE o = count
    BY <1>1, <1>3, <1>8, <2>1 DEF AboutToBeTracked, AfterRun
  <2>2. CASE o # count
    <3>1. o \in Tracked
      BY <1>3, <1>4, <1>6, <2>2 DEF FollowInv, OpenOrdersFollowed, AboutToBeTracked
    <3> QED
      BY <1>3, <3>1 DEF Tracked
  <2> QED
    BY <2>1, <2>2
<1> QED
  BY <1>5, <1>9, <1>10 DEF FollowInv

(* A submitted order is followed from now on, with a status of its own.    *)
LEMMA FollowTrack ==
  ASSUME BusInv, CountInv, FollowInv, NEW t \in Threads, TrackOrder(t)
  PROVE  FollowInv'
<1>1. mine[t] = count /\ count > 0 /\ count \in Orders /\ pc[t] = "track"
  BY CountBounded, BrokerOrdersAssumption
  DEF TrackOrder, Goes, FollowInv, NewOrders, Orders
<1>2. outcome[t].status \in OrderStatuses /\ "untracked" \notin OrderStatuses
  BY DEF FollowInv, OrderTypes, Outcomes, NoOutcome, OrderStatuses
<1>3. \A s \in Threads : pc'[s] \notin {"run", "track"}
  BY DEF TrackOrder, Goes, BusInv, LocalTypes, HolderWorks, Working
<1>4. UNCHANGED <<raw, mine, outcome, count>>
  BY DEF TrackOrder, kept
<1>5. tracked' = IF Submitted(outcome[t]) /\ outcome[t].named
                 THEN [tracked EXCEPT ![count] = outcome[t].status] ELSE tracked
  BY <1>1 DEF TrackOrder, Track
<1>6. /\ tracked' \in [Orders -> OrderStatuses \cup {"untracked"}]
      /\ \A o \in Orders : o # count => tracked'[o] = tracked[o]
      /\ raw[count] # "none" => tracked'[count] # "untracked"
  BY <1>1, <1>2, <1>5 DEF FollowInv, OrderTypes, NewOrders
<1>7. \A o \in Orders : AboutToBeTracked(o) => o = count
  BY <1>1 DEF FollowInv, NewOrders, AboutToBeTracked
<1>8. OpenOrdersFollowed'
  BY <1>4, <1>6, <1>7 DEF FollowInv, OpenOrdersFollowed, Tracked
<1> QED
  BY <1>3, <1>4, <1>6, <1>8 DEF FollowInv, OrderTypes, NewOrders

(* A cycle that begins takes a number that no order has.                   *)
LEMMA RoomToEnter ==
  ASSUME CountInv, NEW t \in Threads, pc[t] = "wait"
  PROVE  count + 1 \in Orders
<1>1. t \in Waiting
  BY DEF Waiting
<1>2. /\ IsFiniteSet(Waiting \ {t})
      /\ Cardinality(Waiting \ {t}) = Cardinality(Waiting) - 1
  BY <1>1, WaitingFinite, FS_RemoveElement
<1>3. Cardinality(Waiting \ {t}) \in Nat
  BY <1>2, FS_CardinalityType
<1> QED
  BY <1>2, <1>3, WaitingFinite, BrokerOrdersAssumption DEF CountInv, Orders

LEMMA FollowEnter ==
  ASSUME BusInv, CountInv, FollowInv, NEW t \in Threads, EnterCycle(t)
  PROVE  FollowInv'
<1>1. \A s \in Threads : pc[s] \notin {"run", "track"}
  BY BusAssumption DEF EnterCycle, Locks, BusInv, HolderWorks, Working
<1>2. /\ count \in Nat /\ count' = count + 1 /\ count' \in Orders
      /\ UNCHANGED <<raw, tracked, outcome>>
      /\ pc' = [pc EXCEPT ![t] = "run"] /\ mine' = [mine EXCEPT ![t] = count + 1]
  BY RoomToEnter DEF EnterCycle, Goes, CountInv
<1>3. raw[count + 1] = "none"
  BY <1>2 DEF FollowInv, NewOrders
<1>4. NewOrders'
  <2>1. \A o \in Orders : o > count + 1 => o > count
    BY <1>2 DEF Orders
  <2>2. \A s \in Threads : pc'[s] \in {"run", "track"} => s = t /\ pc'[s] = "run"
    BY <1>1, <1>2 DEF BusInv, LocalTypes
  <2>3. mine'[t] = count + 1
    BY <1>2 DEF FollowInv, OrderTypes
  <2> QED
    BY <1>2, <1>3, <2>1, <2>2, <2>3 DEF FollowInv, NewOrders
<1>5. OpenOrdersFollowed'
  BY <1>1, <1>2 DEF FollowInv, OpenOrdersFollowed, AboutToBeTracked, Tracked
<1> QED
  BY <1>2, <1>4, <1>5 DEF FollowInv, OrderTypes

(* Every other step leaves the orders alone, and begins no cycle.          *)
LEMMA FollowStays ==
  ASSUME FollowInv, UNCHANGED <<raw, tracked, count>>,
         \A s \in Threads : pc'[s] \in {"run", "track"} =>
           pc'[s] = pc[s] /\ mine'[s] = mine[s] /\ outcome'[s] = outcome[s],
         \A s \in Threads : pc[s] = "track" => pc'[s] = "track",
         mine' \in [Threads -> Nat], outcome' \in [Threads -> Outcomes]
  PROVE  FollowInv'
<1>1. OrderTypes' /\ NewOrders'
  BY DEF FollowInv, OrderTypes, NewOrders
<1>2. \A o \in Orders : AboutToBeTracked(o) => AboutToBeTracked(o)'
  BY DEF AboutToBeTracked
<1>3. OpenOrdersFollowed'
  BY <1>2 DEF FollowInv, OpenOrdersFollowed, Tracked
<1> QED
  BY <1>1, <1>3 DEF FollowInv

LEMMA FollowInvStep ==
  HonestBroker /\ BusInv /\ CountInv /\ FollowInv /\ [Next]_vars => FollowInv'
<1> SUFFICES ASSUME HonestBroker, BusInv, CountInv, FollowInv, [Next]_vars PROVE FollowInv'
  OBVIOUS
<1> USE DEF kept, locals, busHistory, Goes
<1>1. ASSUME NEW t \in Threads, NEW what \in Commands, Call(t, what) PROVE FollowInv'
  BY <1>1, FollowStays DEF Call, BusInv, LocalTypes, FollowInv, OrderTypes
<1>2. ASSUME NEW t \in Threads,
             \/ TickWhileStopped(t) \/ Stop(t) \/ Reset(t) \/ Monitor(t) \/ PollEnds(t)
             \/ WriteMemory(t) \/ NoMemory(t) \/ WriteHistory(t)
      PROVE FollowInv'
  <2>1. PICK to \in {"reply", "poll", "memory", "history"} :
          pc[t] # "track" /\ pc' = [pc EXCEPT ![t] = to]
    BY <1>2 DEF TickWhileStopped, Stop, Reset, Monitor, PollEnds, WriteMemory, NoMemory,
                WriteHistory
  <2>2. UNCHANGED <<raw, tracked, count, mine, outcome>>
    BY <1>2 DEF TickWhileStopped, Stop, Reset, Monitor, PollEnds, WriteMemory, NoMemory,
                WriteHistory
  <2> QED
    BY <2>1, <2>2, FollowStays DEF BusInv, LocalTypes, FollowInv, OrderTypes
<1>3. ASSUME NEW t \in Threads, RunRaises(t) \/ PollRaises(t) \/ Reply(t) PROVE FollowInv'
  <2>1. pc[t] # "track" /\ Raises(t) /\ UNCHANGED <<raw, tracked, count>>
    BY <1>3 DEF RunRaises, PollRaises, Reply
  <2>2. NoOutcome \in Outcomes
    BY DEF Outcomes
  <2> QED
    BY <2>1, <2>2, FollowStays DEF Raises, BusInv, LocalTypes, FollowInv, OrderTypes
<1>4. ASSUME UNCHANGED vars PROVE FollowInv'
  BY <1>4, FollowStays DEF vars, FollowInv, OrderTypes
<1> QED
  BY <1>1, <1>2, <1>3, <1>4, FollowEnter, FollowRun, FollowTrack, FollowPoll, FollowBroker
  DEF Next, Work

(***************************************************************************)
(* Every order the broker holds is followed until the broker has ended it, *)
(* through every command and exception, as long as the answers to          *)
(* submissions come and bear an id, no error is taken for an unknown order *)
(* and the broker announces no end ahead of time.                          *)
(***************************************************************************)
THEOREM OpenOrdersStayFollowed == HonestBroker => (Spec => []OpenOrdersFollowed)
<1> SUFFICES ASSUME HonestBroker PROVE Spec => []OpenOrdersFollowed
  OBVIOUS
<1>1. Init => BusInv /\ CountInv /\ FollowInv
  BY BusInvInit, CountInvInit, FollowInvInit
<1>2. BusInv /\ CountInv /\ FollowInv /\ [Next]_vars => (BusInv /\ CountInv /\ FollowInv)'
  BY BusInvStep, CountInvStep, FollowInvStep
<1>3. FollowInv => OpenOrdersFollowed
  BY DEF FollowInv
<1> QED
  BY <1>1, <1>2, <1>3, PTL DEF Spec
==============================================================================
