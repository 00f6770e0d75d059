-------------------------- MODULE BusAnswers_proofs --------------------------
(***************************************************************************)
(* More theorems about RuntimeBus: its types, and what its answers, its    *)
(* reports and the memory owe each other, for every set of threads,        *)
(* commands, faults and calls.                                             *)
(*                                                                         *)
(* The lock keeps one cycle at work, so that the number a thread works on  *)
(* is the engine's count; what the bus shows follows stage by stage.       *)
(***************************************************************************)
EXTENDS RuntimeBus_proofs

(* A thread that works in a cycle works on the last one begun; the poll    *)
(* and the answer of MONITOR belong to none, and who waits has none.       *)
Stepping ==
  \A t \in Threads :
    /\ pc[t] \in {"idle", "wait"} => mine[t] = 0
    /\ pc[t] \in {"run", "track", "memory", "history"} => mine[t] = count /\ count > 0
    /\ pc[t] \in {"poll", "reply"} => mine[t] \in {0, count}

TypeInv == TypeOK /\ Stepping

------------------------------------------------------------------------------
LEMMA TypeInvInit == Init => TypeInv
<1> SUFFICES ASSUME Init PROVE TypeInv
  OBVIOUS
<1>1. NoOutcome \in Outcomes /\ NoReport \in Reports /\ <<>> \in Seq(Orders) /\ Len(<<>>) = 0
  <2>1. NoOutcome \in Outcomes
    BY DEF Outcomes
  <2>2. NoReport \in Reports
    BY BrokerOrdersAssumption DEF NoReport, Reports
  <2> QED
    BY <2>1, <2>2
<1>2. TypeOKOrders /\ TypeOKMonitor
  BY DEF Init, InitOrders, InitMonitor, TypeOKOrders, TypeOKMonitor, RawStatuses
<1>3. TypeOK
  <2>1. /\ pc \in [Threads -> Stages]
        /\ op \in [Threads -> CommandKinds \cup {"none"}]
        /\ mine \in [Threads -> 0 .. MaxCalls]
        /\ outcome \in [Threads -> Outcomes]
        /\ todo \in [Threads -> SUBSET Orders]
        /\ report \in [Threads -> SUBSET Orders]
    BY <1>1, BrokerOrdersAssumption DEF Init, Stages, InStep
  <2>2. hist \in Seq(Orders) /\ Len(hist) <= HistorySize
    BY <1>1, BusAssumption DEF Init
  <2>3. /\ lock \in Threads \cup {Free}
        /\ calls \in 0 .. MaxCalls /\ count \in 0 .. MaxCalls /\ shown \in 0 .. MaxCalls
        /\ error \in {"none", "cycle", "memory"}
        /\ remembered \subseteq Orders /\ followed \subseteq Orders /\ intact \in BOOLEAN
        /\ published \subseteq Orders
    BY BrokerOrdersAssumption DEF Init
  <2>4. monitoring \in Reports
    BY <1>1 DEF Init
  <2> QED
    BY <1>2, <2>1, <2>2, <2>3, <2>4, BusInvInit DEF TypeOK, BusInv, LocalTypes
<1>4. Stepping
  BY DEF Init, Stepping
<1> QED
  BY <1>3, <1>4 DEF TypeInv

(* What every step keeps because of the invariants already proved.         *)
LEMMA Counted == CountInv => calls \in 0 .. MaxCalls /\ count \in 0 .. MaxCalls
  BY CountBounded DEF CountInv

LEMMA CountedNext == CountInv' => calls' \in 0 .. MaxCalls /\ count' \in 0 .. MaxCalls
<1>1. Cardinality(Waiting') \in Nat
  BY BusAssumption, FS_Subset, FS_CardinalityType DEF Waiting
<1> QED
  BY <1>1, BrokerOrdersAssumption DEF CountInv

LEMMA StatusIsOne == \A word : Status(word) \in OrderStatuses
  BY DEF Status, OrderStatuses

(* The thread that works is alone: a number that changes is nobody else's. *)
LEMMA OthersRest ==
  ASSUME BusInv, NEW t \in Threads, pc[t] \in Working \/ lock = Free,
         NEW s \in Threads, s # t
  PROVE  pc[s] \in {"idle", "wait"}
  BY BusAssumption DEF BusInv, LocalTypes, HolderWorks, Working, Stages, InStep

LEMMA TypeEnter ==
  ASSUME BusInv, CountInv, CountInv', TypeInv, NEW t \in Threads, EnterCycle(t)
  PROVE  TypeInv'
<1>1. \A s \in Threads : s # t => pc[s] \in {"idle", "wait"}
  BY OthersRest DEF EnterCycle, Locks
<1>2. count' \in 0 .. MaxCalls /\ calls' \in 0 .. MaxCalls
  BY CountedNext
<1>3. count' = count + 1 /\ count \in Nat
  BY DEF EnterCycle, CountInv
<1>4. TypeOK'
  BY <1>2, <1>3
  DEF EnterCycle, Locks, Goes, busHistory, TypeInv, TypeOK, TypeOKOrders, TypeOKMonitor,
      Stages, InStep
<1>5. Stepping'
  BY <1>1, <1>3
  DEF EnterCycle, Goes, TypeInv, TypeOK, Stepping, Stages, InStep
<1> QED
  BY <1>4, <1>5 DEF TypeInv

LEMMA TypeCall ==
  ASSUME BusInv, CountInv', TypeInv, NEW t \in Threads, NEW what \in Commands,
         Call(t, what)
  PROVE  TypeInv'
<1>1. what \in CommandKinds
  BY BusAssumption
<1>2. calls' \in 0 .. MaxCalls
  BY CountedNext
<1> QED
  BY <1>1, <1>2
  DEF Call, Goes, kept, busHistory, TypeInv, TypeOK, TypeOKOrders, TypeOKMonitor,
      Stepping, Stages, InStep

(* A call that enters without a cycle.                                     *)
LEMMA TypeEntersIdle ==
  ASSUME BusInv, TypeInv, NEW t \in Threads,
         TickWhileStopped(t) \/ Stop(t) \/ Reset(t) \/ Monitor(t)
  PROVE  TypeInv'
<1>1. NoReport \in Reports /\ <<>> \in Seq(Orders) /\ Len(<<>>) <= HistorySize
  <2>1. NoReport \in Reports
    BY BrokerOrdersAssumption DEF NoReport, Reports
  <2> QED
    BY <2>1, BusAssumption
<1>2. PICK to \in {"reply", "poll"} : pc[t] = "wait" /\ pc' = [pc EXCEPT ![t] = to]
  BY DEF TickWhileStopped, Stop, Reset, Monitor, Goes
<1>3. UNCHANGED <<calls, op, mine, outcome, report, count, remembered, intact, raw,
                  tracked, followed, published>>
  BY DEF TickWhileStopped, Stop, Reset, Monitor, kept, busHistory
<1>4. /\ lock' = t
      /\ shown' \in {shown, 0}
      /\ monitoring' \in {monitoring, NoReport}
      /\ error' \in {error, "none"}
      /\ hist' \in {hist, <<>>}
      /\ todo' \in {todo, [todo EXCEPT ![t] = Tracked]}
  BY DEF TickWhileStopped, Stop, Reset, Monitor, Locks, kept
<1>5. Tracked \subseteq Orders
  BY DEF Tracked
<1>6. TypeOK'
  <2>1. running' \in BOOLEAN
    BY DEF TickWhileStopped, Stop, Reset, Monitor, kept, TypeInv, TypeOK
  <2>2. /\ hist' \in Seq(Orders) /\ Len(hist') <= HistorySize
        /\ monitoring' \in Reports
    BY <1>1, <1>4 DEF TypeInv, TypeOK
  <2>3. todo' \in [Threads -> SUBSET Orders] /\ pc' \in [Threads -> Stages]
    BY <1>2, <1>4, <1>5 DEF TypeInv, TypeOK, Stages, InStep
  <2>4. shown' \in 0 .. MaxCalls /\ error' \in {"none", "cycle", "memory"}
    BY <1>4, BrokerOrdersAssumption DEF TypeInv, TypeOK
  <2> QED
    BY <1>3, <1>4, <2>1, <2>2, <2>3, <2>4
    DEF TypeInv, TypeOK, TypeOKOrders, TypeOKMonitor
<1>7. Stepping'
  BY <1>2, <1>3 DEF TypeInv, TypeOK, Stepping
<1> QED
  BY <1>6, <1>7 DEF TypeInv

(* A call that comes back leaves no number behind.                         *)
LEMMA TypeRaises ==
  ASSUME BusInv, TypeInv, NEW t \in Threads,
         RunRaises(t) \/ PollRaises(t) \/ Reply(t)
  PROVE  TypeInv'
<1>1. NoOutcome \in Outcomes
  BY DEF Outcomes
<1>2. Raises(t) /\ lock' = Free /\ UNCHANGED <<calls, kept, raw, tracked, busHistory>>
  BY DEF RunRaises, PollRaises, Reply
<1> QED
  BY <1>1, <1>2, BrokerOrdersAssumption
  DEF Raises, kept, busHistory, TypeInv, TypeOK, TypeOKOrders, TypeOKMonitor,
      Stepping, Stages, InStep

LEMMA TypeRun ==
  ASSUME BusInv, TypeInv, NEW t \in Threads, RunReturns(t)
  PROVE  TypeInv'
<1>1. PICK x \in Outcomes : outcome' = [outcome EXCEPT ![t] = x]
  <2>1. PICK x : /\ outcome' = [outcome EXCEPT ![t] = x]
                 /\ \/ \E kind \in OutcomeKinds : x = [NoOutcome EXCEPT !.kind = kind]
                    \/ \E word \in AnsweredWords, named \in BOOLEAN :
                         x = [kind |-> "submitted", status |-> Status(word),
                              named |-> named]
    BY DEF RunReturns, OutcomeKinds
  <2>2. ASSUME NEW kind \in OutcomeKinds
        PROVE  [NoOutcome EXCEPT !.kind = kind] \in Outcomes
    BY DEF NoOutcome, Outcomes, OrderStatuses
  <2>3. ASSUME NEW word, NEW named \in BOOLEAN
        PROVE  [kind |-> "submitted", status |-> Status(word), named |-> named] \in Outcomes
    BY StatusIsOne DEF Outcomes, OutcomeKinds
  <2> QED
    BY <2>1, <2>2, <2>3
<1>2. raw' \in [Orders -> RawStatuses]
  <2>1. raw' = raw \/ \E word \in RawStatuses : raw' = [raw EXCEPT ![mine[t]] = word]
    BY DEF RunReturns, AnsweredWords
  <2> QED
    BY <2>1 DEF TypeInv, TypeOK, TypeOKOrders
<1>3. PICK to \in {"track", "memory"} : pc[t] = "run" /\ pc' = [pc EXCEPT ![t] = to]
  BY DEF RunReturns, Goes, AfterRun
<1>4. shown' = mine[t] /\ error' \in {"cycle", "none"}
  BY DEF RunReturns
<1>5. UNCHANGED <<lock, calls, op, mine, todo, report, running, count, monitoring,
                  hist, remembered, intact, tracked, busHistory>>
  BY DEF RunReturns
<1>6. TypeOK'
  BY <1>1, <1>2, <1>3, <1>4, <1>5
  DEF busHistory, TypeInv, TypeOK, TypeOKOrders, TypeOKMonitor, Stages, InStep
<1>7. Stepping'
  BY <1>3, <1>5 DEF TypeInv, TypeOK, Stepping
<1> QED
  BY <1>6, <1>7 DEF TypeInv

LEMMA TypeTrack ==
  ASSUME BusInv, TypeInv, NEW t \in Threads, TrackOrder(t)
  PROVE  TypeInv'
<1>1. mine[t] \in Orders
  BY BrokerOrdersAssumption DEF TrackOrder, Goes, TypeInv, TypeOK, Stepping, Orders
<1>2. outcome[t].status \in OrderStatuses
  BY DEF TypeInv, TypeOK, Outcomes, NoOutcome, OrderStatuses
<1>3. tracked' \in [Orders -> OrderStatuses \cup {"untracked"}]
  BY <1>2 DEF TrackOrder, Track, TypeInv, TypeOK, TypeOKMonitor
<1>4. followed' \subseteq Orders /\ Tracked' \subseteq Orders
  BY DEF TrackOrder, Tracked, TypeInv, TypeOK
<1>5. pc[t] = "track" /\ pc' = [pc EXCEPT ![t] = "poll"]
  BY DEF TrackOrder, Goes
<1>6. PICK asked \in SUBSET Orders : todo' = [todo EXCEPT ![t] = asked]
  BY <1>4 DEF TrackOrder
<1>7. UNCHANGED <<lock, calls, op, mine, outcome, report, kept, raw, published>>
  BY DEF TrackOrder
<1>8. TypeOK'
  BY <1>3, <1>4, <1>5, <1>6, <1>7
  DEF kept, TypeInv, TypeOK, TypeOKOrders, TypeOKMonitor, Stages, InStep
<1>9. Stepping'
  BY <1>5, <1>7 DEF kept, TypeInv, TypeOK, Stepping
<1> QED
  BY <1>8, <1>9 DEF TypeInv

LEMMA TypePoll ==
  ASSUME BusInv, TypeInv, NEW t \in Threads, PollAnswered(t) \/ PollUnanswered(t)
  PROVE  TypeInv'
<1>1. PICK o \in Orders : /\ Asks(t, o)
                          /\ tracked' \in [Orders -> OrderStatuses \cup {"untracked"}]
                          /\ report' \in {report, [report EXCEPT ![t] = @ \cup {o}]}
  <2>1. CASE PollAnswered(t)
    <3>1. PICK o \in Orders : /\ Asks(t, o) /\ StatusKnown(o)
                              /\ report' \in {report, [report EXCEPT ![t] = @ \cup {o}]}
      BY <2>1 DEF PollAnswered, TypeInv, TypeOK
    <3> QED
      BY <3>1, StatusIsOne DEF StatusKnown, TypeInv, TypeOK, TypeOKMonitor
  <2>2. CASE PollUnanswered(t)
    BY <2>2 DEF PollUnanswered, StatusUnavailable, StatusUnknown, Untrack, TypeInv,
                TypeOK, TypeOKMonitor
  <2> QED
    BY <2>1, <2>2
<1>2. UNCHANGED <<lock, calls, pc, op, mine, outcome, kept, raw, busHistory>>
  BY DEF PollAnswered, PollUnanswered
<1>3. TypeOK'
  <2>1. todo' \in [Threads -> SUBSET Orders]
    BY <1>1 DEF Asks, TypeInv, TypeOK
  <2>2. report' \in [Threads -> SUBSET Orders]
    <3>1. report \in [Threads -> SUBSET Orders] /\ report[t] \cup {o} \in SUBSET Orders
      BY <1>1 DEF TypeInv, TypeOK
    <3>2. CASE report' = report
      BY <3>1, <3>2
    <3>3. CASE report' = [report EXCEPT ![t] = report[t] \cup {o}]
      BY <3>1, <3>3
    <3> QED
      BY <1>1, <3>2, <3>3
  <2>3. tracked' \in [Orders -> OrderStatuses \cup {"untracked"}]
    BY <1>1
  <2> QED
    BY <1>2, <2>1, <2>2, <2>3
    DEF kept, busHistory, TypeInv, TypeOK, TypeOKOrders, TypeOKMonitor
<1>4. Stepping'
  BY <1>2 DEF kept, TypeInv, Stepping
<1> QED
  BY <1>3, <1>4 DEF TypeInv

LEMMA TypePollEnds ==
  ASSUME BusInv, TypeInv, NEW t \in Threads, PollEnds(t)
  PROVE  TypeInv'
<1>1. monitoring' \in Reports
  <2>1. mine[t] \in 0 .. MaxCalls /\ report[t] \in SUBSET Orders
    BY DEF TypeInv, TypeOK
  <2>2. Report(mine[t], report[t]) \in Reports
    BY <2>1 DEF Report, Reports
  <2> QED
    BY <2>2 DEF PollEnds
<1>2. PICK to \in {"reply", "memory"} :
        /\ pc[t] = "poll" /\ pc' = [pc EXCEPT ![t] = to]
        /\ to = "memory" => mine[t] # 0
  BY DEF PollEnds
<1>3. UNCHANGED <<lock, calls, op, mine, outcome, todo, running, count, shown, error,
                  hist, remembered, intact, raw, tracked, followed>>
  BY DEF PollEnds
<1>4. published' = published \cup report[t] /\ report' = [report EXCEPT ![t] = {}]
  BY DEF PollEnds
<1>5. TypeOK'
  BY <1>1, <1>2, <1>3, <1>4
  DEF TypeInv, TypeOK, TypeOKOrders, TypeOKMonitor, Stages, InStep
<1>6. Stepping'
  BY <1>2, <1>3 DEF TypeInv, TypeOK, Stepping
<1> QED
  BY <1>5, <1>6 DEF TypeInv

LEMMA TypeMemory ==
  ASSUME BusInv, TypeInv, NEW t \in Threads, WriteMemory(t) \/ NoMemory(t)
  PROVE  TypeInv'
<1>1. monitoring.ended \subseteq Orders
  BY DEF TypeInv, TypeOK, Reports
<1>2. remembered' \in {remembered, remembered \cup monitoring.ended}
  BY DEF WriteMemory, NoMemory, kept
<1>3. error' \in {error, "memory"} /\ intact' \in BOOLEAN
  BY DEF WriteMemory, NoMemory, kept, TypeInv, TypeOK
<1>4. pc[t] = "memory" /\ pc' = [pc EXCEPT ![t] = "history"]
  BY DEF WriteMemory, NoMemory, Goes
<1>5. UNCHANGED <<lock, calls, op, mine, outcome, todo, report, running, count, shown,
                  monitoring, hist, raw, tracked, busHistory>>
  BY DEF WriteMemory, NoMemory, kept
<1>6. TypeOK'
  BY <1>1, <1>2, <1>3, <1>4, <1>5
  DEF busHistory, TypeInv, TypeOK, TypeOKOrders, TypeOKMonitor, Stages, InStep
<1>7. Stepping'
  BY <1>4, <1>5 DEF TypeInv, TypeOK, Stepping
<1> QED
  BY <1>6, <1>7 DEF TypeInv

------------------------------------------------------------------------------
(* The history keeps its order and its length when a line is added that    *)
(* is greater than all it holds.                                           *)
Increasing(seq) == \A i, j \in 1 .. Len(seq) : i < j => seq[i] < seq[j]
Below(seq, n) == \A i \in 1 .. Len(seq) : seq[i] < n

LEMMA AppendedInOrder ==
  ASSUME NEW n \in Orders, hist \in Seq(Orders), Len(hist) <= HistorySize
  PROVE  /\ Appended(n) \in Seq(Orders)
         /\ Len(Appended(n)) \in 1 .. HistorySize
         /\ Appended(n)[Len(Appended(n))] = n
         /\ Increasing(hist) /\ Below(hist, n) =>
              /\ Increasing(Appended(n))
              /\ \A i \in 1 .. Len(Appended(n)) : Appended(n)[i] <= n
<1> DEFINE kept_ == IF Len(hist) < HistorySize THEN hist ELSE Tail(hist)
<1>1. /\ kept_ \in Seq(Orders)
      /\ Len(kept_) < HistorySize
      /\ \E d \in {0, 1} : /\ Len(kept_) + d = Len(hist)
                          /\ \A i \in 1 .. Len(kept_) : kept_[i] = hist[i + d]
  <2>1. CASE Len(hist) < HistorySize
    BY <2>1 DEF Orders
  <2>2. CASE ~ (Len(hist) < HistorySize)
    <3>1. HistorySize \in Nat \ {0} /\ Len(hist) \in Nat
      BY BusAssumption
    <3>2. Len(hist) = HistorySize /\ hist # <<>>
      BY <2>2, <3>1
    <3>3. /\ Tail(hist) \in Seq(Orders)
          /\ Len(Tail(hist)) = Len(hist) - 1
          /\ \A i \in 1 .. Len(Tail(hist)) : Tail(hist)[i] = hist[i + 1]
      BY <3>2
    <3> QED
      BY <2>2, <3>1, <3>2, <3>3
  <2> QED
    BY <2>1, <2>2
<1>2. PICK d \in {0, 1} : /\ Len(kept_) + d = Len(hist)
                         /\ \A i \in 1 .. Len(kept_) : kept_[i] = hist[i + d]
  BY <1>1
<1>3. Appended(n) = Append(kept_, n)
  BY DEF Appended
<1> HIDE DEF kept_
<1>4. /\ Append(kept_, n) \in Seq(Orders)
      /\ Len(Append(kept_, n)) = Len(kept_) + 1
      /\ Append(kept_, n)[Len(kept_) + 1] = n
      /\ \A i \in 1 .. Len(kept_) : Append(kept_, n)[i] = kept_[i]
  BY <1>1
<1>5. Len(kept_) \in Nat /\ Len(hist) \in Nat /\ HistorySize \in Nat
  BY <1>1, BusAssumption
<1>6. ASSUME Increasing(hist), Below(hist, n)
      PROVE  /\ Increasing(Append(kept_, n))
             /\ \A i \in 1 .. Len(Append(kept_, n)) : Append(kept_, n)[i] <= n
  <2>1. ASSUME NEW i \in 1 .. Len(kept_)
        PROVE  i + d \in 1 .. Len(hist) /\ kept_[i] = hist[i + d]
    BY <1>2, <1>5
  <2>2. /\ \A i, j \in 1 .. Len(kept_) : i < j => kept_[i] < kept_[j]
        /\ \A i \in 1 .. Len(kept_) : kept_[i] < n
    <3>1. ASSUME NEW i \in 1 .. Len(kept_), NEW j \in 1 .. Len(kept_), i < j
          PROVE  kept_[i] < kept_[j]
      <4>1. i + d < j + d
        BY <1>2, <1>5, <3>1
      <4> QED
        BY <1>6, <2>1, <4>1 DEF Increasing
    <3>2. ASSUME NEW i \in 1 .. Len(kept_)
          PROVE  kept_[i] < n
      BY <1>6, <2>1 DEF Below
    <3> QED
      BY <3>1, <3>2
  <2>3. \A i \in 1 .. Len(kept_) + 1 : i = Len(kept_) + 1 \/ i \in 1 .. Len(kept_)
    BY <1>5
  <2>4. ASSUME NEW i \in 1 .. Len(kept_) + 1, NEW j \in 1 .. Len(kept_) + 1, i < j
        PROVE  Append(kept_, n)[i] < Append(kept_, n)[j]
    <3>1. i \in 1 .. Len(kept_)
      BY <1>5, <2>4
    <3>2. CASE j \in 1 .. Len(kept_)
      BY <1>4, <2>2, <2>4, <3>1, <3>2
    <3>3. CASE j = Len(kept_) + 1
      BY <1>4, <2>2, <3>1, <3>3
    <3> QED
      BY <2>3, <3>2, <3>3
  <2>5. ASSUME NEW i \in 1 .. Len(kept_) + 1
        PROVE  Append(kept_, n)[i] <= n
    <3>1. CASE i = Len(kept_) + 1
      BY <1>4, <3>1 DEF Orders
    <3>2. CASE i \in 1 .. Len(kept_)
      <4>1. kept_[i] \in Orders
        BY <1>1, <3>2
      <4>2. kept_[i] \in Nat /\ n \in Nat
        BY <4>1 DEF Orders
      <4> QED
        BY <1>4, <2>2, <3>2, <4>2
    <3> QED
      BY <2>3, <3>1, <3>2
  <2> QED
    BY <1>4, <2>4, <2>5 DEF Increasing
<1> QED
  BY <1>1, <1>3, <1>4, <1>5, <1>6

LEMMA TypeHistory ==
  ASSUME BusInv, TypeInv, NEW t \in Threads, WriteHistory(t)
  PROVE  TypeInv'
<1>1. mine[t] \in Orders
  BY BrokerOrdersAssumption DEF WriteHistory, Goes, TypeInv, TypeOK, Stepping, Orders
<1>2. hist' \in Seq(Orders) /\ Len(hist') <= HistorySize
  BY <1>1, AppendedInOrder, BusAssumption DEF WriteHistory, TypeInv, TypeOK
<1>3. pc[t] = "history" /\ pc' = [pc EXCEPT ![t] = "reply"]
  BY DEF WriteHistory, Goes
<1>4. UNCHANGED <<lock, calls, op, mine, outcome, todo, report, running, count, shown,
                  error, monitoring, remembered, intact, raw, tracked, busHistory>>
  BY DEF WriteHistory
<1>5. TypeOK'
  BY <1>2, <1>3, <1>4
  DEF busHistory, TypeInv, TypeOK, TypeOKOrders, TypeOKMonitor, Stages, InStep
<1>6. Stepping'
  BY <1>3, <1>4 DEF TypeInv, TypeOK, Stepping
<1> QED
  BY <1>5, <1>6 DEF TypeInv

LEMMA TypeBroker ==
  ASSUME TypeInv, Broker \/ UNCHANGED vars
  PROVE  TypeInv'
<1>1. raw' \in [Orders -> RawStatuses]
  BY DEF Broker, BrokerMoves, vars, TypeInv, TypeOK, TypeOKOrders
<1>2. UNCHANGED <<lock, calls, locals, kept, tracked, busHistory>>
  BY DEF Broker, vars
<1> QED
  BY <1>1, <1>2
  DEF locals, kept, busHistory, TypeInv, TypeOK, Stepping, TypeOKOrders, TypeOKMonitor

LEMMA TypeInvStep == BusInv /\ CountInv /\ TypeInv /\ [Next]_vars => TypeInv'
<1> SUFFICES ASSUME BusInv, CountInv, TypeInv, [Next]_vars PROVE TypeInv'
  OBVIOUS
<1>1. CountInv'
  BY CountInvStep
<1> QED
  BY <1>1, TypeCall, TypeEnter, TypeEntersIdle, TypeRaises, TypeRun, TypeTrack, TypePoll,
     TypePollEnds, TypeMemory, TypeHistory, TypeBroker
  DEF Next, Work

(* The three invariants that the answers rest on, together.                *)
Ground == BusInv /\ CountInv /\ TypeInv

LEMMA GroundInit == Init => Ground
  BY BusInvInit, CountInvInit, TypeInvInit DEF Ground

LEMMA GroundStep == Ground /\ [Next]_vars => Ground'
  BY BusInvStep, CountInvStep, TypeInvStep DEF Ground

(***************************************************************************)
(* Every variable of the bus keeps its type: the history its bounded       *)
(* length, the cycle count its bound by the calls made.                    *)
(***************************************************************************)
THEOREM BusTypeCorrect == Spec => []TypeOK
<1>1. Ground => TypeOK
  BY DEF Ground, TypeInv
<1> QED
  BY <1>1, GroundInit, GroundStep, PTL DEF Spec

------------------------------------------------------------------------------
(* What each stage knows of what is shown: the cycle at work comes after   *)
(* all that is shown until it returns, and after the whole history until   *)
(* it is added to it.                                                      *)
NotAfter(seq, n) == \A i \in 1 .. Len(seq) : seq[i] <= n

HangStage(t) ==
  /\ pc[t] = "run" => shown < mine[t]
  /\ pc[t] \in {"track", "poll", "memory", "history"} /\ mine[t] # 0 =>
       shown = mine[t] /\ Below(hist, mine[t])
  /\ pc[t] = "reply" /\ mine[t] # 0 =>
       shown = mine[t] /\ hist # <<>> /\ hist[Len(hist)] = mine[t]

HangInv ==
  /\ shown <= count
  /\ Increasing(hist)
  /\ NotAfter(hist, shown)
  /\ \A t \in Threads : HangStage(t)

LEMMA HangInvInit == Init => HangInv
  BY DEF Init, HangInv, HangStage, Increasing, NotAfter

(* A thread that is not at work knows nothing of what is shown.            *)
LEMMA RestingStage ==
  ASSUME NEW s \in Threads, pc[s] \in {"idle", "wait"}
  PROVE  HangStage(s)
  BY DEF HangStage

LEMMA HangEnter ==
  ASSUME Ground, HangInv, NEW t \in Threads, EnterCycle(t)
  PROVE  HangInv'
<1>1. \A s \in Threads : s # t => pc'[s] \in {"idle", "wait"}
  BY OthersRest DEF EnterCycle, Locks, Goes, Ground, BusInv, LocalTypes
<1>2. /\ pc'[t] = "run" /\ mine'[t] = count + 1 /\ count' = count + 1
      /\ UNCHANGED <<shown, hist>>
  BY DEF EnterCycle, Goes, Ground, TypeInv, TypeOK
<1>3. shown \in Nat /\ count \in Nat
  BY DEF Ground, TypeInv, TypeOK
<1>4. \A s \in Threads : HangStage(s)'
  BY <1>1, <1>2, <1>3 DEF HangStage, HangInv
<1> QED
  BY <1>2, <1>3, <1>4 DEF HangInv, Increasing, NotAfter

(* A step that changes nothing shown, by a thread that goes on within the  *)
(* stages of its cycle or that rests afterwards.                           *)
LEMMA HangStays ==
  ASSUME HangInv, UNCHANGED <<shown, hist, count>>,
         \A s \in Threads :
           \/ pc'[s] \in {"idle", "wait"}
           \/ mine'[s] = 0 /\ pc'[s] # "run"
           \/ mine'[s] = mine[s] /\ pc'[s] = pc[s]
           \/ /\ mine'[s] = mine[s]
              /\ {pc[s], pc'[s]} \subseteq {"track", "poll", "memory", "history"}
  PROVE  HangInv'
<1>1. \A s \in Threads : HangStage(s)'
  BY DEF HangInv, HangStage, Below
<1> QED
  BY <1>1 DEF HangInv, Increasing, NotAfter

LEMMA HangReset ==
  ASSUME Ground, HangInv, NEW t \in Threads, Reset(t)
  PROVE  HangInv'
<1>1. \A s \in Threads : s # t => pc'[s] \in {"idle", "wait"}
  BY OthersRest DEF Reset, Locks, Goes, Ground, BusInv, LocalTypes
<1>2. pc'[t] = "reply" /\ mine'[t] = 0
  BY DEF Reset, Goes, Ground, TypeInv, TypeOK, Stepping
<1>3. hist' = <<>> /\ shown' = 0 /\ count' = count /\ count \in Nat
  BY DEF Reset, Ground, TypeInv, TypeOK
<1>4. \A s \in Threads : HangStage(s)'
  BY <1>1, <1>2 DEF HangStage
<1> QED
  BY <1>3, <1>4 DEF HangInv, Increasing, NotAfter

(* The cycle returns: it is shown, and comes after the whole history.      *)
LEMMA HangRun ==
  ASSUME Ground, HangInv, NEW t \in Threads, RunReturns(t)
  PROVE  HangInv'
<1>1. \A s \in Threads : s # t => pc'[s] \in {"idle", "wait"}
  BY OthersRest DEF RunReturns, Goes, Working, Ground, BusInv, LocalTypes
<1>2. /\ pc'[t] \in {"track", "memory"} /\ mine'[t] = mine[t] /\ shown' = mine[t]
      /\ UNCHANGED <<hist, count>>
  BY DEF RunReturns, AfterRun, Goes, Ground, BusInv, LocalTypes
<1>3. mine[t] = count /\ shown < mine[t] /\ shown \in Nat /\ count \in Nat
  BY DEF RunReturns, Goes, Ground, TypeInv, TypeOK, Stepping, HangInv, HangStage
<1>4. Below(hist, mine[t]) /\ NotAfter(hist, mine[t])
  <2>1. \A i \in 1 .. Len(hist) : hist[i] \in Nat
    <3>1. hist \in Seq(Orders)
      BY DEF Ground, TypeInv, TypeOK
    <3>2. \A i \in 1 .. Len(hist) : hist[i] \in Orders
      BY <3>1
    <3> QED
      BY <3>2 DEF Orders
  <2> QED
    BY <1>3, <2>1 DEF HangInv, NotAfter, Below
<1>5. \A s \in Threads : HangStage(s)'
  BY <1>1, <1>2, <1>4 DEF HangStage, Below
<1> QED
  BY <1>2, <1>3, <1>4, <1>5 DEF HangInv, Increasing, NotAfter

(* The cycle is added to the history and ends it.                          *)
LEMMA HangHistory ==
  ASSUME Ground, HangInv, NEW t \in Threads, WriteHistory(t)
  PROVE  HangInv'
<1>1. \A s \in Threads : s # t => pc'[s] \in {"idle", "wait"}
  BY OthersRest DEF WriteHistory, Goes, Working, Ground, BusInv, LocalTypes
<1>2. mine[t] \in Orders /\ mine[t] = count /\ count > 0 /\ count \in Nat
  BY BrokerOrdersAssumption
  DEF WriteHistory, Goes, Ground, TypeInv, TypeOK, Stepping, Orders
<1>3. shown = mine[t] /\ Below(hist, mine[t])
  BY <1>2 DEF WriteHistory, Goes, HangInv, HangStage
<1>4. /\ pc'[t] = "reply" /\ UNCHANGED <<mine, shown, count>>
      /\ hist' = Appended(mine[t])
  BY DEF WriteHistory, Goes, Ground, BusInv, LocalTypes
<1>5. hist \in Seq(Orders) /\ Len(hist) <= HistorySize
  BY DEF Ground, TypeInv, TypeOK
<1>6. /\ Appended(mine[t]) \in Seq(Orders)
      /\ Len(Appended(mine[t])) \in 1 .. HistorySize
      /\ Appended(mine[t])[Len(Appended(mine[t]))] = mine[t]
      /\ Increasing(Appended(mine[t]))
      /\ \A i \in 1 .. Len(Appended(mine[t])) : Appended(mine[t])[i] <= mine[t]
  BY <1>2, <1>3, <1>5, AppendedInOrder DEF HangInv
<1>7. Increasing(hist') /\ NotAfter(hist', shown')
  BY <1>3, <1>4, <1>6 DEF NotAfter
<1>8. hist' # <<>> /\ hist'[Len(hist')] = mine[t]
  BY <1>4, <1>6
<1>9. \A s \in Threads : HangStage(s)'
  BY <1>1, <1>3, <1>4, <1>8 DEF HangStage
<1> QED
  BY <1>4, <1>7, <1>9 DEF HangInv, Increasing, NotAfter

LEMMA HangInvStep == Ground /\ HangInv /\ [Next]_vars => HangInv'
<1> SUFFICES ASSUME Ground, HangInv, [Next]_vars PROVE HangInv'
  OBVIOUS
<1> USE DEF Goes, kept, locals, busHistory
<1>1. ASSUME NEW t \in Threads, NEW what \in Commands, Call(t, what) PROVE HangInv'
  BY <1>1, HangStays DEF Call, Ground, BusInv, LocalTypes
<1>2. ASSUME NEW t \in Threads, TickWhileStopped(t) \/ Stop(t) \/ Monitor(t)
      PROVE HangInv'
  <2>1. PICK to \in {"reply", "poll"} : pc[t] = "wait" /\ pc' = [pc EXCEPT ![t] = to]
    BY <1>2 DEF TickWhileStopped, Stop, Monitor
  <2>2. UNCHANGED <<shown, hist, count, mine>>
    BY <1>2 DEF TickWhileStopped, Stop, Monitor
  <2>3. mine[t] = 0
    BY <2>1 DEF Ground, TypeInv, Stepping
  <2> QED
    BY <2>1, <2>2, <2>3, HangStays DEF Ground, BusInv, LocalTypes
<1>3. ASSUME NEW t \in Threads, RunRaises(t) \/ PollRaises(t) \/ Reply(t)
      PROVE HangInv'
  <2>1. Raises(t) /\ UNCHANGED <<shown, hist, count>>
    BY <1>3 DEF RunRaises, PollRaises, Reply
  <2> QED
    BY <2>1, HangStays DEF Raises, Ground, BusInv, LocalTypes, TypeInv, TypeOK
<1>4. ASSUME NEW t \in Threads,
             TrackOrder(t) \/ PollEnds(t) \/ WriteMemory(t) \/ NoMemory(t)
      PROVE HangInv'
  <2>1. PICK to \in {"poll", "reply", "memory", "history"} :
          /\ pc[t] \in {"track", "poll", "memory"} /\ pc' = [pc EXCEPT ![t] = to]
          /\ to = "reply" => mine[t] = 0
    BY <1>4 DEF TrackOrder, PollEnds, WriteMemory, NoMemory
  <2>2. UNCHANGED <<shown, hist, count, mine>>
    BY <1>4 DEF TrackOrder, PollEnds, WriteMemory, NoMemory
  <2> QED
    BY <2>1, <2>2, HangStays DEF Ground, BusInv, LocalTypes
<1>5. ASSUME \/ \E t \in Threads : PollAnswered(t) \/ PollUnanswered(t)
             \/ Broker \/ UNCHANGED vars
      PROVE HangInv'
  <2>1. UNCHANGED <<shown, hist, count, mine, pc>>
    BY <1>5 DEF PollAnswered, PollUnanswered, Broker, vars
  <2> QED
    BY <2>1, HangStays
<1> QED
  BY <1>1, <1>2, <1>3, <1>4, <1>5, HangEnter, HangReset, HangRun, HangHistory
  DEF Next, Work

(***************************************************************************)
(* What a call answers belongs together, whatever other threads ask and    *)
(* whatever raises: the history is in order and does not run ahead of the  *)
(* last outcome, and a step answers with its own cycle, the last of all.   *)
(***************************************************************************)
THEOREM AnswersAgree == Spec => []AnswersHangTogether
<1>1. Ground /\ HangInv => AnswersHangTogether
  BY DEF Ground, TypeInv, Stepping, HangInv, HangStage, Increasing, NotAfter,
         AnswersHangTogether
<1>2. Init => Ground /\ HangInv
  BY GroundInit, HangInvInit
<1>3. Ground /\ HangInv /\ [Next]_vars => (Ground /\ HangInv)'
  BY GroundStep, HangInvStep
<1> QED
  BY <1>1, <1>2, <1>3, PTL DEF Spec

------------------------------------------------------------------------------
(* What each stage knows of the memory: a cycle that ended in an error has *)
(* set it, and once the memory is written, or could not be, the ends of    *)
(* the report are in it or the error tells.                                *)
MemoryStage(t) ==
  mine[t] # 0 =>
    /\ pc[t] \in {"track", "poll", "memory"} /\ outcome[t].kind = "error" =>
         error # "none"
    /\ pc[t] \in {"history", "reply"} /\ HasMemory =>
         monitoring.ended \subseteq remembered \/ error # "none" \/ ~intact

MemoryInv == \A t \in Threads : MemoryStage(t)

LEMMA MemoryInvInit == Init => MemoryInv
  BY DEF Init, MemoryInv, MemoryStage

(* A step of one thread, while the others rest, that keeps its own stage.  *)
LEMMA MemoryAlone ==
  ASSUME Ground, NEW t \in Threads, pc[t] \in Working \/ lock = Free,
         \A s \in Threads : s # t => mine'[s] = mine[s],
         MemoryStage(t)'
  PROVE  MemoryInv'
<1>1. \A s \in Threads : s # t => mine'[s] = 0
  BY OthersRest DEF Ground, TypeInv, Stepping
<1> QED
  BY <1>1 DEF MemoryInv, MemoryStage

LEMMA MemoryInvStep == Ground /\ MemoryInv /\ [Next]_vars => MemoryInv'
<1> SUFFICES ASSUME Ground, MemoryInv, [Next]_vars PROVE MemoryInv'
  OBVIOUS
<1> USE DEF Goes, kept, locals, busHistory
<1>1. ASSUME NEW t \in Threads, NEW what \in Commands, Call(t, what) PROVE MemoryInv'
  BY <1>1 DEF Call, Ground, BusInv, LocalTypes, MemoryInv, MemoryStage
<1>2. ASSUME NEW t \in Threads, EnterCycle(t) PROVE MemoryInv'
  BY <1>2, MemoryAlone
  DEF EnterCycle, Locks, Ground, BusInv, LocalTypes, TypeInv, TypeOK, MemoryStage
<1>3. ASSUME NEW t \in Threads,
             TickWhileStopped(t) \/ Stop(t) \/ Reset(t) \/ Monitor(t)
      PROVE MemoryInv'
  <2>1. lock = Free /\ mine' = mine /\ mine[t] = 0
    BY <1>3 DEF TickWhileStopped, Stop, Reset, Monitor, Locks, Ground, TypeInv, Stepping
  <2> QED
    BY <2>1, MemoryAlone DEF MemoryStage
<1>4. ASSUME NEW t \in Threads, RunRaises(t) \/ PollRaises(t) \/ Reply(t)
      PROVE MemoryInv'
  <2>1. pc[t] \in Working /\ Raises(t)
    BY <1>4 DEF RunRaises, PollRaises, Reply, Working
  <2> QED
    BY <2>1, MemoryAlone DEF Raises, Ground, TypeInv, TypeOK, MemoryStage
<1>5. ASSUME NEW t \in Threads, RunReturns(t) PROVE MemoryInv'
  <2>1. /\ pc[t] \in Working /\ mine' = mine
        /\ pc'[t] \in {"track", "memory"}
        /\ outcome'[t].kind = "error" => error' = "cycle"
    BY <1>5 DEF RunReturns, AfterRun, Working, Ground, BusInv, LocalTypes
  <2> QED
    BY <2>1, MemoryAlone DEF MemoryStage
<1>6. ASSUME NEW t \in Threads, TrackOrder(t) \/ PollEnds(t) PROVE MemoryInv'
  <2>1. /\ pc[t] \in {"track", "poll"} /\ UNCHANGED <<mine, outcome, error>>
        /\ pc'[t] \in {"poll", "memory"} \/ mine[t] = 0
    BY <1>6 DEF TrackOrder, PollEnds, Ground, BusInv, LocalTypes
  <2> QED
    BY <2>1, MemoryAlone DEF Working, MemoryInv, MemoryStage
<1>7. ASSUME NEW t \in Threads, PollAnswered(t) \/ PollUnanswered(t) PROVE MemoryInv'
  BY <1>7 DEF PollAnswered, PollUnanswered, MemoryInv, MemoryStage
<1>8. ASSUME NEW t \in Threads, WriteMemory(t) \/ NoMemory(t) PROVE MemoryInv'
  <2>1. /\ pc[t] = "memory" /\ pc'[t] = "history"
        /\ UNCHANGED <<mine, outcome, monitoring>>
    BY <1>8 DEF WriteMemory, NoMemory, Ground, BusInv, LocalTypes
  <2>2. HasMemory /\ mine[t] # 0 =>
          monitoring.ended \subseteq remembered' \/ error' # "none" \/ ~intact'
    BY <1>8, <2>1 DEF WriteMemory, NoMemory, Decided, MemoryInv, MemoryStage
  <2> QED
    BY <2>1, <2>2, MemoryAlone DEF Working, MemoryStage
<1>9. ASSUME NEW t \in Threads, WriteHistory(t) PROVE MemoryInv'
  BY <1>9, MemoryAlone
  DEF WriteHistory, Working, Ground, BusInv, LocalTypes, MemoryInv, MemoryStage
<1>10. ASSUME Broker \/ UNCHANGED vars PROVE MemoryInv'
  BY <1>10 DEF Broker, vars, MemoryInv, MemoryStage
<1> QED
  BY <1>1, <1>2, <1>3, <1>4, <1>5, <1>6, <1>7, <1>8, <1>9, <1>10 DEF Next, Work

(***************************************************************************)
(* The ends of orders that a step reports are in the memory when it        *)
(* answers, or its answer bears an error or shows a memory that cannot be  *)
(* read back, whose ValueErrors the bus takes for duplicates: a memory     *)
(* that is whole never loses an end in silence.                            *)
(***************************************************************************)
THEOREM EndsRemembered == Spec => []StepsRemember
<1>1. MemoryInv => StepsRemember
  BY DEF MemoryInv, MemoryStage, StepsRemember
<1>2. Init => Ground /\ MemoryInv
  BY GroundInit, MemoryInvInit
<1>3. Ground /\ MemoryInv /\ [Next]_vars => (Ground /\ MemoryInv)'
  BY GroundStep, MemoryInvStep
<1> QED
  BY <1>1, <1>2, <1>3, PTL DEF Spec

------------------------------------------------------------------------------
(* Without these the report of a poll is complete and is kept.             *)
WholeReports == Faults \cap {"misread", "poll"} = {}

Told(o) == o \in published \/ \E t \in Threads : pc[t] = "poll" /\ o \in report[t]

LEMMA ToldInit == Init => EndsAreTold
  BY DEF Init, EndsAreTold

(* A step that lets go of no order and takes no report back.               *)
LEMMA ToldStays ==
  ASSUME EndsAreTold, followed \ Tracked' = followed \ Tracked, followed' = followed,
         published \subseteq published',
         \A s \in Threads : pc[s] = "poll" => pc'[s] = "poll" /\ report'[s] = report[s]
  PROVE  EndsAreTold'
  BY DEF EndsAreTold

LEMMA ToldStep ==
  WholeReports /\ Ground /\ EndsAreTold /\ [Next]_vars => EndsAreTold'
<1> SUFFICES ASSUME WholeReports, Ground, EndsAreTold, [Next]_vars PROVE EndsAreTold'
  OBVIOUS
<1> USE DEF Goes, kept, locals, busHistory
<1>1. ASSUME NEW t \in Threads, pc[t] # "poll",
             \A s \in Threads : s # t => pc'[s] = pc[s] /\ report'[s] = report[s],
             UNCHANGED <<tracked, followed, published>>
      PROVE EndsAreTold'
  BY <1>1, ToldStays DEF Tracked
<1>2. ASSUME NEW t \in Threads, NEW what \in Commands, Call(t, what) PROVE EndsAreTold'
  BY <1>1, <1>2 DEF Call, Ground, BusInv, LocalTypes
<1>3. ASSUME NEW t \in Threads,
             \/ EnterCycle(t) \/ TickWhileStopped(t) \/ Stop(t) \/ Reset(t) \/ Monitor(t)
             \/ RunReturns(t) \/ WriteMemory(t) \/ NoMemory(t) \/ WriteHistory(t)
      PROVE EndsAreTold'
  <2>1. UNCHANGED <<tracked, followed, published, report>>
    BY <1>3 DEF EnterCycle, TickWhileStopped, Stop, Reset, Monitor, RunReturns,
                WriteMemory, NoMemory, WriteHistory
  <2>2. PICK to : pc[t] # "poll" /\ pc' = [pc EXCEPT ![t] = to]
    BY <1>3 DEF EnterCycle, TickWhileStopped, Stop, Reset, Monitor, RunReturns,
                WriteMemory, NoMemory, WriteHistory
  <2> QED
    BY <1>1, <2>1, <2>2 DEF Ground, BusInv, LocalTypes
<1>4. ASSUME NEW t \in Threads, RunRaises(t) \/ PollRaises(t) \/ Reply(t)
      PROVE EndsAreTold'
  <2>1. pc[t] # "poll" /\ Raises(t) /\ UNCHANGED <<tracked, followed, published>>
    BY <1>4 DEF RunRaises, PollRaises, Reply, WholeReports
  <2> QED
    BY <1>1, <2>1 DEF Raises, Ground, BusInv, LocalTypes, TypeInv, TypeOK
<1>5. ASSUME NEW t \in Threads, TrackOrder(t) PROVE EndsAreTold'
  <2>1. "untracked" \notin OrderStatuses
    BY DEF OrderStatuses
  <2>2. outcome[t].status \in OrderStatuses
    BY DEF Ground, TypeInv, TypeOK, Outcomes, NoOutcome, OrderStatuses
  <2>3. mine[t] \in Orders
    BY <1>5, BrokerOrdersAssumption
    DEF TrackOrder, Ground, TypeInv, TypeOK, Stepping, Orders
  <2>4. followed' \ Tracked' \subseteq followed \ Tracked
    BY <1>5, <2>1, <2>2, <2>3
    DEF TrackOrder, Track, Tracked, Ground, TypeInv, TypeOK, TypeOKMonitor
  <2>5. pc[t] = "track" /\ pc' = [pc EXCEPT ![t] = "poll"] /\ UNCHANGED <<report, published>>
    BY <1>5 DEF TrackOrder
  <2> QED
    BY <2>4, <2>5 DEF EndsAreTold, Ground, BusInv, LocalTypes
<1>6. ASSUME NEW t \in Threads, PollAnswered(t) PROVE EndsAreTold'
  <2>1. PICK o \in Orders :
          /\ Asks(t, o) /\ StatusKnown(o)
          /\ report' = [report EXCEPT
               ![t] = IF Status(raw[o]) \in TerminalStatuses THEN @ \cup {o} ELSE @]
    BY <1>6 DEF PollAnswered
  <2>2. UNCHANGED <<pc, followed, published>>
    BY <1>6 DEF PollAnswered
  <2>3. \A s \in Threads : report[s] \subseteq report'[s]
    BY <2>1 DEF Ground, TypeInv, TypeOK
  <2>4. ASSUME NEW p \in followed \ Tracked', p # o PROVE p \notin Tracked
    BY <2>1, <2>4 DEF StatusKnown, Tracked, Ground, TypeInv, TypeOK, TypeOKMonitor
  <2>5. o \notin Tracked' => pc'[t] = "poll" /\ o \in report'[t]
    <3>1. Status(raw[o]) # "untracked"
      BY StatusIsOne DEF OrderStatuses
    <3> QED
      BY <2>1, <2>2, <3>1
      DEF StatusKnown, Asks, Tracked, Ground, TypeInv, TypeOK, TypeOKMonitor
  <2>6. ASSUME NEW p \in followed \ Tracked' PROVE Told(p)'
    <3>1. CASE p = o
      BY <2>5, <2>6, <3>1 DEF Told
    <3>2. CASE p # o
      <4>1. p \in followed \ Tracked
        BY <2>4, <2>6, <3>2
      <4>2. p \in published \/ \E s \in Threads : pc[s] = "poll" /\ p \in report[s]
        BY <4>1 DEF EndsAreTold
      <4> QED
        BY <2>2, <2>3, <4>2 DEF Told
    <3> QED
      BY <3>1, <3>2
  <2> QED
    BY <2>2, <2>6 DEF EndsAreTold, Told
<1>7. ASSUME NEW t \in Threads, PollUnanswered(t) PROVE EndsAreTold'
  <2>1. UNCHANGED <<tracked, followed, published, pc, report>>
    BY <1>7 DEF PollUnanswered, StatusUnavailable, StatusUnknown, WholeReports
  <2> QED
    BY <2>1, ToldStays DEF Tracked
<1>8. ASSUME NEW t \in Threads, PollEnds(t) PROVE EndsAreTold'
  <2>1. /\ published' = published \cup report[t]
        /\ \A s \in Threads : s # t => pc'[s] = pc[s] /\ report'[s] = report[s]
        /\ UNCHANGED <<tracked, followed>>
    BY <1>8 DEF PollEnds, Ground, BusInv, LocalTypes, TypeInv, TypeOK
  <2> QED
    BY <2>1 DEF EndsAreTold, Tracked
<1>9. ASSUME Broker \/ UNCHANGED vars PROVE EndsAreTold'
  BY <1>9, ToldStays DEF Broker, vars, Tracked
<1> QED
  BY <1>2, <1>3, <1>4, <1>5, <1>6, <1>7, <1>8, <1>9 DEF Next, Work

(***************************************************************************)
(* No order vanishes from the monitor without its end being in a report    *)
(* that is kept, or in the one being made, as long as no error is taken    *)
(* for an unknown order and poll raises nothing.                           *)
(***************************************************************************)
THEOREM EndsTold == WholeReports => (Spec => []EndsAreTold)
<1> SUFFICES ASSUME WholeReports PROVE Spec => []EndsAreTold
  OBVIOUS
<1>1. Init => Ground /\ EndsAreTold
  BY GroundInit, ToldInit
<1>2. Ground /\ EndsAreTold /\ [Next]_vars => (Ground /\ EndsAreTold)'
  BY GroundStep, ToldStep
<1> QED
  BY <1>1, <1>2, PTL DEF Spec
==============================================================================
