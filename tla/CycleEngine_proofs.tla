------------------------- MODULE CycleEngine_proofs --------------------------
(***************************************************************************)
(* Proofs that the properties of CycleProperties hold for every number of  *)
(* cycles, every wiring of the engine and every set of faults that their   *)
(* statements allow.                                                       *)
(***************************************************************************)
EXTENDS CycleProperties, TLAPS, SequenceTheorems

------------------------------------------------------------------------------
(* What the helpers return.                                                *)

(* event_type_from_order_status always names an event of the ledger. *)
LEMMA EventTypeTypes ==
  ASSUME NEW status, NEW submitted \in BOOLEAN
  PROVE  EventType(status, submitted) \in EventTypes
BY DEF EventType, EventTypes

(* Whatever becomes of an append, the file remains a sequence of lines. *)
LEMMA AppendTypes ==
  ASSUME TypeOKLedger, NEW e \in Lines, AppendReturns(e) \/ AppendRaises(e)
  PROVE  TypeOKLedger'
<1>1. TornLine \in Lines
  BY DEF Lines
<1>2. ledger' = ledger \/ (\E l \in Lines : ledger' = Append(ledger, l))
  BY <1>1 DEF AppendReturns, AppendRaises
<1>3. synced' = synced
  BY DEF AppendReturns, AppendRaises
<1> QED
  BY <1>2, <1>3 DEF TypeOKLedger

(* The same of the receipt store. *)
LEMMA RecordTypes ==
  ASSUME TypeOKStore, NEW r \in Receipts, RecordReturns(r) \/ RecordRaises(r)
  PROVE  TypeOKStore'
BY DEF TypeOKStore, RecordReturns, RecordRaises

(* The hash an engine starts from is that of a cycle, or of none. *)
LEMMA LastHashTypes ==
  ASSUME TypeOKStore
  PROVE  LastHash \in {Genesis} \cup Cycles
<1>1. CASE receipts = <<>>
  BY <1>1 DEF LastHash
<1>2. CASE receipts # <<>>
  <2>1. receipts[Len(receipts)] \in Receipts \cup {TornReceipt}
    BY <1>2, EmptySeq, ElementOfSeq, LenProperties DEF TypeOKStore
  <2>2. receipts[Len(receipts)].cycle \in {Genesis} \cup Cycles
    BY <2>1 DEF Receipts, TornReceipt, Receipt, Genesis
  <2> QED
    BY <1>2, <2>2 DEF LastHash
<1> QED
  BY <1>1, <1>2

(* What the loss of the machine leaves of the ledger is a sequence of lines. *)
LEMMA LosePowerTypes ==
  ASSUME TypeOKLedger, LosePower
  PROVE  TypeOKLedger'
<1>1. PICK kept \in synced .. Len(ledger) :
         ledger' = SubSeq(ledger, 1, kept) /\ synced' = kept
  BY DEF LosePower
<1>2. kept \in 0 .. Len(ledger) /\ Len(ledger) \in Nat /\ ledger \in Seq(Lines)
  BY <1>1 DEF TypeOKLedger
<1>3. SubSeq(ledger, 1, kept) \in Seq(Lines) /\ Len(SubSeq(ledger, 1, kept)) = kept
  BY <1>2, SubSeqProperties
<1> QED
  BY <1>1, <1>2, <1>3 DEF TypeOKLedger

(* The adapter's answers are results. *)
LEMMA StatusTypes == \A word : Status(word) \in OrderStatuses
BY DEF Status, OrderStatuses

LEMMA AnswersTypes ==
  ASSUME NEW state
  PROVE  SubmitAnswers(state) \subseteq Results
<1>1. \A word : Result(TRUE, Status(word), "none") \in Results
  BY StatusTypes DEF Result, Results, Reasons
<1>2. Result(FALSE, "REJECTED", "broker") \in Results
  BY DEF Result, Results, Reasons, OrderStatuses
<1> QED
  BY <1>1, <1>2 DEF SubmitAnswers

LEMMA UnansweredTypes == Unanswered \subseteq Results
BY DEF Unanswered, NotSubmitted, Result, Results, OrderStatuses, Reasons

LEMMA NotSubmittedTypes ==
  ASSUME NEW why \in Reasons
  PROVE  NotSubmitted(why) \in Results
BY DEF NotSubmitted, Result, Results, OrderStatuses

LEMMA VerdictTypes ==
  ASSUME NEW reply \in Replies
  PROVE  Verdict(reply) \in Authorities
BY DEF Verdict, Authorities

(* The bridge never turns an answer into ACT that did not mean ACT. *)
LEMMA VerdictIsTheKernels ==
  ASSUME NEW reply \in Replies, Verdict(reply) = "ACT"
  PROVE  KernelSaysAct(reply)
BY DEF Verdict, KernelSaysAct, Normalized, KernelWords, Replies, Answers, Fields,
       Unreachable
------------------------------------------------------------------------------
(***************************************************************************)
(* Type correctness.  TypeOK is not inductive by itself: the lines that a  *)
(* step writes have their types because of where the cycle is.             *)
(***************************************************************************)
Deciding == {
  "plan", "barrier", "preflight", "guard", "intent", "submit", "await", "log" }

Placed ==
  /\ pc \notin {"idle", "down"} => cycle \in Cycles /\ count \in Cycles
  /\ pc \in Deciding => decision.id \in Ids
  /\ pc = "prove" => decision.id \in DecisionIds

TypeInv == TypeOK /\ Placed

LEMMA TypeInit == Init => TypeInv
<1> SUFFICES ASSUME Init PROVE TypeInv
  OBVIOUS
<1> USE EnvironmentAssumption, EngineAssumption DEF Init
<1>1. TypeOKLedger /\ TypeOKStore /\ TypeOKBroker
  BY DEF InitLedger, InitStore, InitBroker, TypeOKLedger, TypeOKStore,
         TypeOKBroker, OrderStates
<1>2. result \in Results
  BY DEF NoResult, Result, Results, Reasons
<1>3. plan \in [action : ActionKinds \cup {"none"}, auth : Authorities]
  BY DEF NoPlan, Authorities
<1>4. /\ obs \in ObservationSpace
      /\ decision \in [id : {0} \cup DecisionIds, auth : Authorities]
      /\ proposal \in [action : ActionKinds, sized : BOOLEAN]
  BY DEF NoObservation, ObservationSpace, Portfolios, Snapshots, DataQualities,
         NoDecision, Authorities, NoProposal, ActionKinds
<1>5. /\ pc \in Steps
      /\ cycle \in 0 .. MaxCycles /\ count \in 0 .. cycle
      /\ last \in {Genesis} \cup Cycles
      /\ granted \subseteq Cycles \X Ids /\ contacts \subseteq Cycles \X Ids
      /\ outcome \in [Cycles -> Outcomes]
  BY DEF Steps, Outcomes
<1>6. Placed
  BY DEF Placed, Deciding
<1> QED
  BY <1>1, <1>2, <1>3, <1>4, <1>5, <1>6 DEF TypeInv, TypeOK

(* A cycle that returns leaves well-typed variables behind. *)
LEMMA ReturnTypes ==
  ASSUME TypeInv, pc \notin {"idle", "down"}, NEW how \in Outcomes, Return(how),
         UNCHANGED <<cycle, count, orders, granted, contacts>>,
         last' \in {Genesis} \cup Cycles, TypeOKLedger', TypeOKStore'
  PROVE  TypeInv'
<1>1. /\ pc' \in Steps /\ outcome' \in [Cycles -> Outcomes]
  BY DEF Return, TypeInv, TypeOK, Placed, Steps
<1>2. /\ obs' \in ObservationSpace
      /\ decision' \in [id : {0} \cup DecisionIds, auth : Authorities]
      /\ proposal' \in [action : ActionKinds, sized : BOOLEAN]
      /\ plan' \in [action : ActionKinds \cup {"none"}, auth : Authorities]
  BY DEF Return, Forget, NoObservation, ObservationSpace, Portfolios, Snapshots,
         DataQualities, NoDecision, Authorities, NoProposal, ActionKinds, NoPlan
<1>3. result' \in Results
  BY DEF Return, Forget, NoResult, Result, Results, Reasons
<1>4. TypeOKBroker'
  BY DEF TypeInv, TypeOK, TypeOKBroker
<1>5. Placed'
  BY DEF Return, Placed, Deciding
<1> QED
  BY <1>1, <1>2, <1>3, <1>4, <1>5 DEF TypeInv, TypeOK

(* A step that refuses, or gets its result in another way, and writes      *)
(* nothing but lines of the ledger, leaves well-typed variables behind.    *)
LEMMA ResultTypes ==
  ASSUME TypeInv, pc \in Deciding, result' \in Results,
         pc' \in Deciding \cup {"prove"},
         UNCHANGED <<cycle, count, last, obs, decision, proposal, plan, receipts,
                     history>>,
         TypeOKLedger', TypeOKBroker'
  PROVE  TypeInv'
<1>1. pc' \in Steps
  BY DEF Deciding, Steps
<1>2. decision.id \in Ids => decision.id \in DecisionIds
  BY EnvironmentAssumption DEF Ids, Cycles, DecisionIds
<1>3. Placed'
  BY <1>2 DEF TypeInv, Placed, Deciding
<1>4. TypeOKStore'
  BY DEF TypeInv, TypeOK, TypeOKStore
<1> QED
  BY <1>1, <1>3, <1>4 DEF TypeInv, TypeOK, history
LEMMA TypeStep ==
  ASSUME TypeInv, [Next]_vars
  PROVE  TypeInv'
<1> USE EnvironmentAssumption, EngineAssumption
<1> DEFINE kept == TypeOKLedger' /\ TypeOKStore' /\ TypeOKBroker'
<1>1. /\ UNCHANGED ledgerVars => TypeOKLedger'
      /\ UNCHANGED receipts => TypeOKStore'
      /\ UNCHANGED orders => TypeOKBroker'
  BY DEF TypeInv, TypeOK, ledgerVars, TypeOKLedger, TypeOKStore, TypeOKBroker
<1>2. UNCHANGED persisted => TypeOKLedger' /\ TypeOKStore'
  BY <1>1 DEF persisted
<1>3. NoObservation \in ObservationSpace /\ NoResult \in Results
  BY DEF NoObservation, ObservationSpace, Portfolios, Snapshots, DataQualities,
         NoResult, Result, Results, Reasons
<1>4. CASE BeginCycle
  BY <1>1, <1>2, <1>4 DEF BeginCycle, Goto, TypeInv, TypeOK, Placed, Deciding,
     Steps, Cycles, volatile, history
<1>5. CASE ObserveFails \/ AnalysisRaises \/ PlanRaises \/ GuardRaises
  <2>1. "ERROR" \in Outcomes /\ "RAISED" \in Outcomes
    BY DEF Outcomes
  <2>2. last' \in {Genesis} \cup Cycles
    BY <1>5 DEF ObserveFails, AnalysisRaises, PlanRaises, GuardRaises, TypeInv, TypeOK
  <2>3. CASE ObserveFails
    BY <1>2, <2>1, <2>2, <2>3, ReturnTypes DEF ObserveFails
  <2>4. CASE AnalysisRaises
    BY <1>2, <2>1, <2>2, <2>4, ReturnTypes DEF AnalysisRaises
  <2>5. CASE PlanRaises
    BY <1>2, <2>1, <2>2, <2>5, ReturnTypes DEF PlanRaises
  <2>6. CASE GuardRaises
    BY <1>2, <2>1, <2>2, <2>6, ReturnTypes DEF GuardRaises
  <2> QED
    BY <1>5, <2>3, <2>4, <2>5, <2>6
<1>6. CASE Observe
  BY <1>1, <1>2, <1>6 DEF Observe, Goto, TypeInv, TypeOK, Placed, Deciding, Steps,
     history
<1>7. CASE Abstain
  <2>1. AbstentionId(count) \in DecisionIds
    BY <1>7 DEF Abstain, Goto, TypeInv, Placed, AbstentionId, DecisionIds, Cycles
  <2> QED
    BY <1>1, <1>2, <1>7, <2>1 DEF Abstain, Goto, TypeInv, TypeOK, Placed, Deciding,
       Steps, Authorities, history
<1>8. CASE Decide
  <2>1. PICK reply \in Replies, id \in AuthorityIds :
          /\ decision' = [id |-> id, auth |-> Verdict(reply)]
          /\ granted' = IF KernelSaysAct(reply)
                        THEN granted \cup {<<cycle, id>>} ELSE granted
    BY <1>8 DEF Decide
  <2>2. cycle \in Cycles /\ id \in Ids /\ id \in DecisionIds
    BY <1>8 DEF Decide, Goto, TypeInv, Placed, AuthorityIds, Ids, Cycles, DecisionIds
  <2>3. decision' \in [id : {0} \cup DecisionIds, auth : Authorities]
    BY <2>1, <2>2, VerdictTypes
  <2>4. granted' \subseteq Cycles \X Ids
    BY <2>1, <2>2 DEF TypeInv, TypeOK
  <2>5. proposal' \in [action : ActionKinds, sized : BOOLEAN]
    BY <1>8 DEF Decide
  <2>6. Placed'
    BY <1>8, <2>1, <2>2 DEF Decide, Goto, TypeInv, Placed
  <2> QED
    BY <1>1, <1>2, <1>8, <2>3, <2>4, <2>5, <2>6 DEF Decide, Goto, TypeInv, TypeOK, Steps
<1>9. CASE MakePlan
  <2>1. plan' \in [action : ActionKinds \cup {"none"}, auth : Authorities]
    BY <1>9 DEF MakePlan, NoPlan, PlannerPlans, AnyPlan, TypeInv, TypeOK, Authorities
  <2>2. pc \in Deciding /\ pc' \in Deciding \cup {"prove"} /\ pc' \in Steps
    BY <1>9 DEF MakePlan, Deciding, Steps
  <2>3. Placed'
    BY <1>9, <2>2 DEF MakePlan, TypeInv, Placed, Deciding, Ids, Cycles, DecisionIds
  <2> QED
    BY <1>1, <1>2, <1>9, <2>1, <2>2, <2>3 DEF MakePlan, TypeInv, TypeOK, history
<1>10. CASE Barrier
  <2>1. result' \in Results
    BY <1>10, NotSubmittedTypes DEF Barrier, Refuse, TypeInv, TypeOK, Reasons
  <2> QED
    BY <1>1, <1>2, <1>10, <2>1, ResultTypes DEF Barrier, Refuse, Deciding, persisted
<1>11. CASE PreflightPasses \/ GuardPasses
  <2>1. result' \in Results
    BY <1>11 DEF PreflightPasses, GuardPasses, volatile, TypeInv, TypeOK
  <2> QED
    BY <1>1, <1>2, <1>11, <2>1, ResultTypes DEF PreflightPasses, GuardPasses, Goto,
       Deciding, persisted, volatile
<1>12. CASE PreflightFails \/ GuardBlocks \/ BrokerRefuses
  <2>1. result' \in Results
    BY <1>12, NotSubmittedTypes DEF PreflightFails, GuardBlocks, BrokerRefuses,
       Refuse, Reasons
  <2> QED
    BY <1>1, <1>2, <1>12, <2>1, ResultTypes DEF PreflightFails, GuardBlocks,
       BrokerRefuses, Refuse, Deciding, persisted
<1>13. CASE RecordIntent \/ IntentFails
  <2>1. decision.id \in Ids
    BY <1>13 DEF RecordIntent, IntentFails, Goto, TypeInv, Placed, Deciding
  <2>2. Intent(decision.id) \in Lines
    BY <2>1 DEF Intent, Event, Lines, EventTypes
  <2>3. TypeOKLedger'
    BY <1>13, <2>2, AppendTypes DEF RecordIntent, IntentFails, TypeInv, TypeOK
  <2>4. result' \in Results
    BY <1>13, NotSubmittedTypes DEF RecordIntent, IntentFails, Refuse, Reasons,
       volatile, TypeInv, TypeOK
  <2> QED
    BY <1>1, <1>13, <2>3, <2>4, ResultTypes DEF RecordIntent, IntentFails, Goto,
       Refuse, Deciding, volatile
<1>14. CASE SendFails \/ ReplyLost
  <2>1. result' \in Results
    BY <1>14, UnansweredTypes DEF SendFails, ReplyLost
  <2> QED
    BY <1>1, <1>2, <1>14, <2>1, ResultTypes DEF SendFails, ReplyLost, Goto,
       Deciding, persisted
<1>15. CASE Send
  <2>1. decision.id \in Ids /\ cycle \in Cycles
    BY <1>15 DEF Send, Goto, TypeInv, Placed, Deciding
  <2>2. TypeOKBroker'
    BY <1>15, <2>1 DEF Send, Post, TypeInv, TypeOK, TypeOKBroker, OrderStates
  <2>3. contacts' \subseteq Cycles \X Ids
    BY <1>15, <2>1 DEF Send, TypeInv, TypeOK
  <2> QED
    BY <1>1, <1>2, <1>15, <2>1, <2>2, <2>3 DEF Send, Goto, TypeInv, TypeOK, Placed,
       Deciding, Steps, volatile
<1>16. CASE ReplyArrives
  <2>1. result' \in Results
    BY <1>16, AnswersTypes DEF ReplyArrives
  <2> QED
    BY <1>1, <1>2, <1>16, <2>1, ResultTypes DEF ReplyArrives, Goto, Deciding, persisted
<1>17. CASE LogResult
  <2> DEFINE event == Event(decision.id, EventType(result.status, result.submitted))
  <2>1. decision.id \in Ids /\ result.submitted \in BOOLEAN
    BY <1>17 DEF LogResult, Goto, TypeInv, TypeOK, Placed, Deciding, Results
  <2>2. event \in Lines
    BY <2>1, EventTypeTypes DEF Event, Lines
  <2>3. TypeOKLedger'
    <3>1. CASE HasLedger
      BY <1>17, <2>2, <3>1, AppendTypes DEF LogResult, TypeInv, TypeOK
    <3>2. CASE ~HasLedger
      BY <1>1, <1>17, <3>2 DEF LogResult
    <3> QED
      BY <3>1, <3>2
  <2>4. result' \in Results
    BY <1>17 DEF LogResult, volatile, TypeInv, TypeOK
  <2> QED
    BY <1>1, <1>17, <2>3, <2>4, ResultTypes DEF LogResult, Goto, Deciding, volatile
<1>18. CASE ProveInMemory
  <2>1. "NOT_APPLICABLE" \in Outcomes /\ last' \in {Genesis} \cup Cycles
    BY <1>18 DEF ProveInMemory, Outcomes, TypeInv, Placed
  <2> QED
    BY <1>2, <1>18, <2>1, ReturnTypes DEF ProveInMemory
<1>19. CASE ProvePersisted \/ ProveFails
  <2>1. pc = "prove"
    BY <1>19 DEF ProvePersisted, ProveFails
  <2>2. CurrentReceipt \in Receipts
    BY <2>1 DEF CurrentReceipt, Receipt, Receipts, TypeInv, TypeOK, Placed, Results
  <2>3. TypeOKStore'
    BY <1>19, <2>2, RecordTypes DEF ProvePersisted, ProveFails, TypeInv, TypeOK
  <2>4. last' \in {Genesis} \cup Cycles
    BY <1>19, <2>1 DEF ProvePersisted, ProveFails, PointerAfterFailure, TypeInv,
       TypeOK, Placed
  <2>5. "PROVEN" \in Outcomes /\ Unproven(result) \in Outcomes
    BY DEF Outcomes, Unproven
  <2> QED
    BY <1>1, <1>19, <2>1, <2>3, <2>4, <2>5, ReturnTypes DEF ProvePersisted, ProveFails
<1>20. CASE Crash \/ PowerCut
  <2>1. Die /\ TypeOKLedger'
    BY <1>1, <1>20, LosePowerTypes DEF Crash, PowerCut, TypeInv, TypeOK
  <2>2. /\ decision' \in [id : {0} \cup DecisionIds, auth : Authorities]
        /\ proposal' \in [action : ActionKinds, sized : BOOLEAN]
        /\ plan' \in [action : ActionKinds \cup {"none"}, auth : Authorities]
    BY <2>1 DEF Die, Forget, NoDecision, NoProposal, NoPlan, Authorities, ActionKinds
  <2> QED
    BY <1>1, <1>3, <2>1, <2>2 DEF Die, Forget, TypeInv, TypeOK, Placed, Deciding,
       Steps, history
<1>21. CASE Restart
  <2>1. LastHash \in {Genesis} \cup Cycles
    BY LastHashTypes DEF TypeInv, TypeOK
  <2> QED
    BY <1>1, <1>2, <1>21, <2>1 DEF Restart, Goto, PointerAtStart, TypeInv, TypeOK,
       Placed, Deciding, Steps, volatile, history
<1>22. CASE Broker
  <2>1. TypeOKBroker'
    BY <1>22 DEF Broker, BrokerMoves, TypeInv, TypeOK, TypeOKBroker
  <2> QED
    BY <1>2, <1>22, <2>1 DEF Broker, TypeInv, TypeOK, Placed, volatile, history
<1>23. CASE OperatingSystem
  <2>1. TypeOKLedger'
    BY <1>23 DEF OperatingSystem, Writeback, TypeInv, TypeOK, TypeOKLedger
  <2> QED
    BY <1>1, <1>23, <2>1 DEF OperatingSystem, TypeInv, TypeOK, Placed, volatile, history
<1>24. CASE UNCHANGED vars
  BY <1>1, <1>2, <1>24 DEF vars, volatile, history, TypeInv, TypeOK, Placed
<1> QED
  BY <1>4, <1>5, <1>6, <1>7, <1>8, <1>9, <1>10, <1>11, <1>12, <1>13, <1>14, <1>15,
     <1>16, <1>17, <1>18, <1>19, <1>20, <1>21, <1>22, <1>23, <1>24 DEF Next, Step

(* Every variable of the engine, its files and its broker keeps its type,  *)
(* whatever the wiring and the faults.                                     *)
THEOREM TypeCorrect == Spec => []TypeOK
<1>1. Spec => []TypeInv
  BY TypeInit, TypeStep, PTL DEF Spec
<1>2. TypeInv => TypeOK
  BY DEF TypeInv
<1> QED
  BY <1>1, <1>2, PTL
------------------------------------------------------------------------------
(***************************************************************************)
(* No order without the kernel's ACT.  The authority is tested long before *)
(* the order leaves: the invariant says that from there on it is the one   *)
(* the kernel gave in this cycle, and that none survives a cycle's end.    *)
(***************************************************************************)
Cleared == {"preflight", "guard", "intent", "submit"}

ActInv ==
  /\ NoOrderWithoutAct
  /\ decision.auth = "ACT" => <<cycle, decision.id>> \in granted
  /\ pc \in {"idle", "down"} => decision.auth # "ACT"
  /\ pc \in Cleared => decision.auth = "ACT"

LEMMA ActInit == Init => ActInv
BY DEF Init, ActInv, NoOrderWithoutAct, NoDecision, Cleared

(* A step that keeps the decision of the current cycle. *)
LEMMA ActKept ==
  ASSUME ActInv, pc' \notin {"idle", "down"}, pc' \in Cleared => decision.auth = "ACT",
         UNCHANGED <<cycle, decision, granted, contacts>>
  PROVE  ActInv'
BY DEF ActInv, NoOrderWithoutAct, Cleared

(* A step that ends the cycle, or the process. *)
LEMMA ActForgotten ==
  ASSUME ActInv, pc' \in {"idle", "down"}, Forget, UNCHANGED <<granted, contacts>>
  PROVE  ActInv'
BY DEF ActInv, NoOrderWithoutAct, Cleared, Forget, NoDecision

LEMMA ActStep ==
  ASSUME ActInv, [Next]_vars
  PROVE  ActInv'
<1>1. CASE BeginCycle
  BY <1>1 DEF BeginCycle, Goto, ActInv, NoOrderWithoutAct, Cleared, volatile, history
<1>2. CASE ObserveFails \/ AnalysisRaises \/ PlanRaises \/ GuardRaises
  BY <1>2, ActForgotten DEF ObserveFails, AnalysisRaises, PlanRaises, GuardRaises,
     Return
<1>3. CASE Observe
  BY <1>3, ActKept DEF Observe, Goto, Cleared, history
<1>4. CASE Abstain
  BY <1>4 DEF Abstain, Goto, ActInv, NoOrderWithoutAct, Cleared, history
<1>5. CASE Decide
  <2>1. PICK reply \in Replies, id \in AuthorityIds :
          /\ decision' = [id |-> id, auth |-> Verdict(reply)]
          /\ granted' = IF KernelSaysAct(reply)
                        THEN granted \cup {<<cycle, id>>} ELSE granted
    BY <1>5 DEF Decide
  <2>2. decision'.auth = "ACT" => <<cycle', decision'.id>> \in granted'
    BY <1>5, <2>1, VerdictIsTheKernels DEF Decide
  <2> QED
    BY <1>5, <2>1, <2>2 DEF Decide, Goto, ActInv, NoOrderWithoutAct, Cleared
<1>6. CASE MakePlan \/ LogResult \/ ReplyArrives \/ ReplyLost \/ SendFails
  BY <1>6, ActKept DEF MakePlan, LogResult, ReplyArrives, ReplyLost, SendFails, Goto,
     Cleared, history, volatile
<1>7. CASE Barrier
  BY <1>7, ActKept DEF Barrier, Authorizes, Refuse, Cleared, history
<1>8. CASE PreflightPasses \/ GuardPasses \/ RecordIntent
  BY <1>8, ActKept DEF PreflightPasses, GuardPasses, RecordIntent, Goto, ActInv,
     Cleared, history, volatile
<1>9. CASE PreflightFails \/ GuardBlocks \/ IntentFails \/ BrokerRefuses
  BY <1>9, ActKept DEF PreflightFails, GuardBlocks, IntentFails, BrokerRefuses, Refuse,
     Cleared, history
<1>10. CASE Send
  BY <1>10 DEF Send, Goto, ActInv, NoOrderWithoutAct, Cleared, volatile
<1>11. CASE ProveInMemory \/ ProvePersisted \/ ProveFails
  BY <1>11, ActForgotten DEF ProveInMemory, ProvePersisted, ProveFails, Return
<1>12. CASE Crash \/ PowerCut
  BY <1>12, ActForgotten DEF Crash, PowerCut, Die, history
<1>13. CASE Restart
  BY <1>13 DEF Restart, Goto, ActInv, NoOrderWithoutAct, Cleared, volatile, history
<1>14. CASE Broker \/ OperatingSystem \/ UNCHANGED vars
  BY <1>14 DEF Broker, OperatingSystem, vars, ActInv, NoOrderWithoutAct, volatile, history
<1> QED
  BY <1>1, <1>2, <1>3, <1>4, <1>5, <1>6, <1>7, <1>8, <1>9, <1>10, <1>11, <1>12,
     <1>13, <1>14 DEF Next, Step

(* No request for an order ever leaves in a cycle in which the kernel did  *)
(* not itself answer ACT for that decision, under any fault whatever.      *)
THEOREM GovernedContacts == Spec => []NoOrderWithoutAct
<1>1. Spec => []ActInv
  BY ActInit, ActStep, PTL DEF Spec
<1>2. ActInv => NoOrderWithoutAct
  BY DEF ActInv
<1> QED
  BY <1>1, <1>2, PTL
------------------------------------------------------------------------------
(***************************************************************************)
(* One submission for each decision, and its intention first.  What makes  *)
(* the guard work is that between it and the request the ledger says of    *)
(* this order exactly that it is intended, and that nothing of what is     *)
(* written later, by this cycle or another, takes a line back.             *)
(***************************************************************************)
SubmissionInv ==
  /\ AtMostOneSubmission
  /\ IntentComesFirst
  /\ pc = "intent" => ~Blocked(decision.id)
  /\ pc = "submit" =>
       /\ IntendedFirst(decision.id)
       /\ \A x \in contacts : x[2] # decision.id

LEMMA SubmissionInit == Init => SubmissionInv
BY DEF Init, SubmissionInv, AtMostOneSubmission, IntentComesFirst

(* Every line but the one an append may add stays what and where it was. *)
LEMMA AppendedLedger ==
  ASSUME TypeOKLedger, NEW l, ledger' = Append(ledger, l)
  PROVE  /\ Len(ledger) \in Nat /\ Len(ledger') = Len(ledger) + 1
         /\ \A i \in 1 .. Len(ledger) : ledger'[i] = ledger[i]
         /\ ledger'[Len(ledger) + 1] = l
BY DEF TypeOKLedger

(* What a ledger write leaves of the file: itself, or one line more. *)
LEMMA AppendShape ==
  ASSUME NEW e, AppendReturns(e) \/ AppendRaises(e)
  PROVE  ledger' = ledger \/ \E l : ledger' = Append(ledger, l)
BY DEF AppendReturns, AppendRaises

LEMMA IntendedFirstKept ==
  ASSUME TypeOKLedger, NEW id, IntendedFirst(id),
         ledger' = ledger \/ \E l : ledger' = Append(ledger, l)
  PROVE  IntendedFirst(id)'
<1>1. PICK i \in EventsOf(id) :
        ledger[i] = Intent(id) /\ \A j \in EventsOf(id) : i <= j
  BY DEF IntendedFirst
<1>2. CASE ledger' = ledger
  BY <1>1, <1>2 DEF IntendedFirst, EventsOf, Intent, Event
<1>3. CASE \E l : ledger' = Append(ledger, l)
  <2>1. PICK l : ledger' = Append(ledger, l)
    BY <1>3
  <2>2. i \in EventsOf(id)' /\ ledger'[i] = Intent(id)
    BY <1>1, <2>1, AppendedLedger DEF EventsOf
  <2>3. ASSUME NEW j \in EventsOf(id)' PROVE i <= j
    BY <1>1, <2>1, <2>3, AppendedLedger DEF EventsOf
  <2> QED
    BY <2>2, <2>3 DEF IntendedFirst, Intent, Event
<1> QED
  BY <1>2, <1>3

(* The first line about an order is its intention when no line was there. *)
LEMMA IntendedFirstBegins ==
  ASSUME TypeOKLedger, NEW id, ~Blocked(id), ledger' = Append(ledger, Intent(id))
  PROVE  IntendedFirst(id)'
<1>1. Len(ledger) + 1 \in EventsOf(id)' /\ ledger'[Len(ledger) + 1] = Intent(id)
  BY AppendedLedger DEF EventsOf, Intent, Event
<1>2. ASSUME NEW j \in EventsOf(id)' PROVE Len(ledger) + 1 <= j
  BY <1>2, AppendedLedger DEF EventsOf, Blocked
<1> QED
  BY <1>1, <1>2 DEF IntendedFirst, Intent, Event

(* A step that sends nothing and keeps or extends the ledger. *)
LEMMA SubmissionKept ==
  ASSUME TypeOKLedger, SubmissionInv, UNCHANGED contacts,
         ledger' = ledger \/ \E l : ledger' = Append(ledger, l),
         pc' \notin {"intent", "submit"}
  PROVE  SubmissionInv'
<1>1. IntentComesFirst'
  BY IntendedFirstKept DEF SubmissionInv, IntentComesFirst
<1> QED
  BY <1>1 DEF SubmissionInv, AtMostOneSubmission

LEMMA SubmissionStep ==
  ASSUME HasLedger, "power" \notin Faults, TypeInv, SubmissionInv, [Next]_vars
  PROVE  SubmissionInv'
<1> USE DEF ledgerVars, persisted, history, volatile
<1>1. TypeOKLedger
  BY DEF TypeInv, TypeOK
<1>2. CASE BeginCycle \/ Observe \/ Abstain \/ Decide \/ Restart
  BY <1>1, <1>2, SubmissionKept DEF BeginCycle, Observe, Abstain, Decide, Restart, Goto
<1>3. CASE ObserveFails \/ AnalysisRaises \/ PlanRaises \/ GuardRaises \/ ProveInMemory
           \/ ProvePersisted \/ ProveFails
  BY <1>1, <1>3, SubmissionKept DEF ObserveFails, AnalysisRaises, PlanRaises,
     GuardRaises, ProveInMemory, ProvePersisted, ProveFails, Return
<1>4. CASE MakePlan \/ Barrier \/ PreflightFails \/ GuardBlocks \/ BrokerRefuses
  BY <1>1, <1>4, SubmissionKept DEF MakePlan, Barrier, PreflightFails, GuardBlocks,
     BrokerRefuses, Refuse
<1>5. CASE PreflightPasses
  BY <1>1, <1>5, SubmissionKept DEF PreflightPasses
<1>6. CASE GuardPasses
  <2>1. IntentComesFirst' /\ AtMostOneSubmission'
    BY <1>1, <1>6, IntendedFirstKept DEF GuardPasses, SubmissionInv, IntentComesFirst,
       AtMostOneSubmission
  <2> QED
    BY <1>6, <2>1 DEF GuardPasses, Goto, SubmissionInv, Blocked, EventsOf
<1>7. CASE RecordIntent
  <2>1. ledger' = Append(ledger, Intent(decision.id))
    BY <1>7 DEF RecordIntent, AppendReturns
  <2>2. ~Blocked(decision.id) /\ pc' = "submit" /\ UNCHANGED <<decision, contacts>>
    BY <1>7 DEF RecordIntent, Goto, SubmissionInv
  <2>3. IntendedFirst(decision.id)'
    BY <1>1, <2>1, <2>2, IntendedFirstBegins
  <2>4. IntentComesFirst' /\ AtMostOneSubmission'
    BY <1>1, <2>1, <2>2, IntendedFirstKept DEF SubmissionInv, IntentComesFirst,
       AtMostOneSubmission
  <2>5. \A x \in contacts : x[2] # decision.id
    BY <2>2 DEF SubmissionInv, IntentComesFirst, IntendedFirst, Blocked
  <2> QED
    BY <2>2, <2>3, <2>4, <2>5 DEF SubmissionInv, IntendedFirst, EventsOf, Intent, Event
<1>8. CASE IntentFails
  BY <1>1, <1>8, AppendShape, SubmissionKept DEF IntentFails, Refuse
<1>9. CASE Send
  <2>1. /\ contacts' = contacts \cup {<<cycle, decision.id>>}
        /\ UNCHANGED ledger /\ pc = "submit" /\ pc' = "await"
    BY <1>9 DEF Send, Goto
  <2>2. IntentComesFirst'
    BY <1>1, <2>1, IntendedFirstKept DEF SubmissionInv, IntentComesFirst
  <2>3. AtMostOneSubmission'
    BY <2>1 DEF SubmissionInv, AtMostOneSubmission
  <2> QED
    BY <2>1, <2>2, <2>3 DEF SubmissionInv
<1>10. CASE SendFails \/ ReplyArrives \/ ReplyLost
  BY <1>1, <1>10, SubmissionKept DEF SendFails, ReplyArrives, ReplyLost, Goto
<1>11. CASE LogResult
  <2>1. ledger' = ledger \/ \E l : ledger' = Append(ledger, l)
    BY <1>11, AppendShape DEF LogResult
  <2> QED
    BY <1>1, <1>11, <2>1, SubmissionKept DEF LogResult, Goto
<1>12. CASE Crash \/ PowerCut
  BY <1>1, <1>12, SubmissionKept DEF Crash, PowerCut, Die
<1>13. CASE Broker \/ OperatingSystem \/ UNCHANGED vars
  <2>1. UNCHANGED <<pc, decision, contacts, ledger>>
    BY <1>13 DEF Broker, OperatingSystem, Writeback, vars
  <2>2. IntentComesFirst' /\ AtMostOneSubmission'
    BY <1>1, <2>1, IntendedFirstKept DEF SubmissionInv, IntentComesFirst,
       AtMostOneSubmission
  <2> QED
    BY <2>1, <2>2 DEF SubmissionInv, Blocked, EventsOf, IntendedFirst, Intent, Event
<1> QED
  BY <1>2, <1>3, <1>4, <1>5, <1>6, <1>7, <1>8, <1>9, <1>10, <1>11, <1>12, <1>13
     DEF Next, Step

LEMMA SubmissionInvariant ==
  ASSUME HasLedger, "power" \notin Faults
  PROVE  Spec => [](TypeInv /\ SubmissionInv)
<1>1. Init => TypeInv /\ SubmissionInv
  BY TypeInit, SubmissionInit
<1>2. TypeInv /\ SubmissionInv /\ [Next]_vars => TypeInv' /\ SubmissionInv'
  BY TypeStep, SubmissionStep
<1> QED
  BY <1>1, <1>2, PTL DEF Spec

(* With a ledger, as long as the machine is not lost, a decision is sent   *)
(* to the broker at most once, however often it comes back.                *)
THEOREM SubmittedOnce ==
  ASSUME HasLedger, "power" \notin Faults
  PROVE  Spec => []AtMostOneSubmission
<1>1. SubmissionInv => AtMostOneSubmission
  BY DEF SubmissionInv
<1> QED
  BY <1>1, SubmissionInvariant, PTL

(* Under the same conditions the ledger's first line about an order that   *)
(* was sent is its intention.                                              *)
THEOREM IntendedBeforeSent ==
  ASSUME HasLedger, "power" \notin Faults
  PROVE  Spec => []IntentComesFirst
<1>1. SubmissionInv => IntentComesFirst
  BY DEF SubmissionInv
<1> QED
  BY <1>1, SubmissionInvariant, PTL
------------------------------------------------------------------------------
(***************************************************************************)
(* The chain of receipts.  It holds because the engine's pointer names the *)
(* last line whenever the store can be read, which neither a failed write  *)
(* nor a restart may disturb.                                              *)
(***************************************************************************)
ChainInv ==
  /\ ChainIntact
  /\ pc # "down" /\ HasProof /\ StoreReadable => last = LastHash

LEMMA ChainInit == Init => ChainInv
BY DEF Init, InitStore, ChainInv, ChainIntact, LastHash

(* A step that touches neither the store nor the pointer. *)
LEMMA ChainKept ==
  ASSUME ChainInv, UNCHANGED <<receipts, last>>, pc # "down"
  PROVE  ChainInv'
BY DEF ChainInv, ChainIntact, StoreReadable, LastHash, Linked, TornReceipt, Receipt

LEMMA AppendedReceipt ==
  ASSUME TypeOKStore, NEW r, receipts' = Append(receipts, r)
  PROVE  /\ Len(receipts) \in Nat /\ Len(receipts') = Len(receipts) + 1
         /\ receipts' # <<>>
         /\ \A i \in 1 .. Len(receipts) : receipts'[i] = receipts[i]
         /\ receipts'[Len(receipts) + 1] = r
BY DEF TypeOKStore

(* A receipt that names the last line, of a cycle that has none yet, and   *)
(* the remains of such a receipt, both leave the chain intact.             *)
LEMMA ChainExtended ==
  ASSUME TypeOKStore, ChainIntact, StoreReadable, NEW r, receipts' = Append(receipts, r),
         r = TornReceipt \/ r.prev = LastHash,
         ~Recorded(r.cycle)
  PROVE  ChainIntact'
<1> DEFINE n == Len(receipts)
<1>1. n \in Nat /\ Len(receipts') = n + 1
  BY AppendedReceipt
<1>2. \A i \in 1 .. n : receipts'[i] = receipts[i] /\ receipts[i] # TornReceipt
  BY AppendedReceipt DEF StoreReadable
<1>3. receipts'[n + 1] = r
  BY AppendedReceipt
<1>4. ASSUME NEW i \in 1 .. n + 1
      PROVE  receipts'[i] = TornReceipt \/ Linked(i)'
  <2>1. CASE i \in 1 .. n
    BY <1>1, <1>2, <2>1 DEF ChainIntact, Linked
  <2>2. CASE i = n + 1
    <3>1. CASE n = 0
      BY <1>1, <1>3, <2>2, <3>1, EmptySeq DEF Linked, LastHash, TypeOKStore
    <3>2. CASE n # 0
      BY <1>1, <1>2, <1>3, <2>2, <3>2 DEF Linked, LastHash
    <3> QED
      BY <3>1, <3>2
  <2> QED
    BY <1>1, <2>1, <2>2
<1>5. ASSUME NEW i \in 1 .. n + 1, NEW j \in 1 .. n + 1,
             receipts'[i].cycle = receipts'[j].cycle
      PROVE  i = j
  BY <1>1, <1>2, <1>3, <1>5 DEF ChainIntact, Recorded
<1>6. ASSUME NEW i \in 1 .. n PROVE receipts'[i] # TornReceipt
  BY <1>2
<1>7. TornReceipt' = TornReceipt /\ (n + 1) - 1 = n
  BY <1>1 DEF TornReceipt, Receipt
<1> QED
  BY <1>1, <1>4, <1>5, <1>6, <1>7 DEF ChainIntact

(* A readable store holds no line of cycle 0, which the remains of a line  *)
(* are given.                                                              *)
LEMMA NoCycleZero ==
  ASSUME TypeOKStore, StoreReadable
  PROVE  ~Recorded(TornReceipt.cycle)
<1>1. ASSUME NEW i \in 1 .. Len(receipts) PROVE receipts[i].cycle # 0
  <2>1. receipts[i] \in Receipts
    BY ElementOfSeq DEF TypeOKStore, StoreReadable
  <2> QED
    BY <2>1, EnvironmentAssumption DEF Receipts, Cycles
<1> QED
  BY <1>1 DEF Recorded, TornReceipt, Receipt

LEMMA ChainStep ==
  ASSUME "receipt_fsync" \notin Faults, TypeInv, ChainInv, [Next]_vars
  PROVE  ChainInv'
<1> USE DEF persisted, history, volatile
<1>1. TypeOKStore
  BY DEF TypeInv, TypeOK
<1>2. CASE BeginCycle \/ Observe \/ Abstain \/ Decide \/ MakePlan \/ Barrier
  BY <1>2, ChainKept DEF BeginCycle, Observe, Abstain, Decide, MakePlan, Barrier, Goto
<1>3. CASE ObserveFails \/ AnalysisRaises \/ PlanRaises \/ GuardRaises
  BY <1>3, ChainKept DEF ObserveFails, AnalysisRaises, PlanRaises, GuardRaises
<1>4. CASE PreflightPasses \/ PreflightFails \/ GuardBlocks \/ GuardPasses
  BY <1>4, ChainKept DEF PreflightPasses, PreflightFails, GuardBlocks, GuardPasses, Goto
<1>5. CASE RecordIntent \/ IntentFails \/ LogResult
  BY <1>5, ChainKept DEF RecordIntent, IntentFails, LogResult, Goto
<1>6. CASE BrokerRefuses \/ SendFails \/ Send \/ ReplyArrives \/ ReplyLost
  BY <1>6, ChainKept DEF BrokerRefuses, SendFails, Send, ReplyArrives, ReplyLost, Goto
<1>7. CASE ProveInMemory
  BY <1>7 DEF ProveInMemory, ChainInv, ChainIntact, Linked, TornReceipt, Receipt
<1>8. CASE ProvePersisted
  <2>1. /\ StoreReadable /\ ~Recorded(cycle)
        /\ receipts' = Append(receipts, CurrentReceipt)
        /\ CurrentReceipt.prev = last /\ CurrentReceipt.cycle = cycle
        /\ pc = "prove" /\ HasProof /\ last' = cycle
    BY <1>8 DEF ProvePersisted, RecordReturns, CurrentReceipt, Receipt
  <2>2. last = LastHash
    BY <2>1 DEF ChainInv
  <2>3. ChainIntact'
    BY <1>1, <2>1, <2>2, ChainExtended DEF ChainInv
  <2>4. LastHash' = cycle
    BY <1>1, <2>1, AppendedReceipt DEF LastHash
  <2> QED
    BY <2>1, <2>3, <2>4 DEF ChainInv
<1>9. CASE ProveFails
  <2>1. last' = last /\ pc = "prove" /\ HasProof /\ RecordRaises(CurrentReceipt)
    BY <1>9 DEF ProveFails, PointerAfterFailure
  <2>2. CASE UNCHANGED receipts
    BY <2>1, <2>2, ChainKept
  <2>3. CASE StoreReadable /\ receipts' = Append(receipts, TornReceipt)
    <3>1. ChainIntact'
      BY <1>1, <2>3, NoCycleZero, ChainExtended DEF ChainInv
    <3>2. ~StoreReadable'
      BY <1>1, <2>3, AppendedReceipt DEF StoreReadable, TornReceipt, Receipt
    <3> QED
      BY <3>1, <3>2 DEF ChainInv
  <2> QED
    BY <2>1, <2>2, <2>3 DEF RecordRaises
<1>10. CASE Crash \/ PowerCut
  BY <1>10 DEF Crash, PowerCut, Die, ChainInv, ChainIntact, Linked, TornReceipt, Receipt
<1>11. CASE Restart
  BY <1>11 DEF Restart, Goto, PointerAtStart, ChainInv, ChainIntact, StoreReadable,
     LastHash, Linked, TornReceipt, Receipt
<1>12. CASE Broker \/ OperatingSystem \/ UNCHANGED vars
  BY <1>12 DEF Broker, OperatingSystem, vars, ChainInv, ChainIntact, StoreReadable,
     LastHash, Linked, TornReceipt, Receipt
<1> QED
  BY <1>2, <1>3, <1>4, <1>5, <1>6, <1>7, <1>8, <1>9, <1>10, <1>11, <1>12 DEF Next, Step

(* Unless a flush or an fsync raises when its line is already out, the     *)
(* chain of receipts holds through failed writes, crashes, restarts and    *)
(* the loss of the machine.                                                *)
THEOREM ChainHolds ==
  ASSUME "receipt_fsync" \notin Faults
  PROVE  Spec => []ChainIntact
<1>1. Init => TypeInv /\ ChainInv
  BY TypeInit, ChainInit
<1>2. TypeInv /\ ChainInv /\ [Next]_vars => TypeInv' /\ ChainInv'
  BY TypeStep, ChainStep
<1>3. ChainInv => ChainIntact
  BY DEF ChainInv
<1> QED
  BY <1>1, <1>2, <1>3, PTL DEF Spec
------------------------------------------------------------------------------
(***************************************************************************)
(* Refinement: every step of the engine, its files and its broker is a     *)
(* step of GovernedSubmission or changes nothing that it speaks of.        *)
(***************************************************************************)
GrantedIds == {x[2] : x \in granted}
SentIds == {x[2] : x \in contacts}

(* The ids of a set of pairs grow with it. *)
LEMMA SecondsGrow ==
  ASSUME NEW S, NEW T, NEW c, NEW id, T = S \cup {<<c, id>>}
  PROVE  {x[2] : x \in T} = {x[2] : x \in S} \cup {id}
<1>1. <<c, id>>[2] = id
  OBVIOUS
<1>2. \A o : (\E x \in T : o = x[2]) <=> (\E x \in S : o = x[2]) \/ o = id
  BY <1>1
<1> QED
  BY <1>2

(* No result is written down as an intention. *)
LEMMA EventTypeIsNoIntent ==
  ASSUME NEW id, NEW status, NEW submitted
  PROVE  Event(id, EventType(status, submitted)) # Intent(id)
BY DEF EventType, Event, Intent

(* One line more in the ledger, and what it means for the intentions. *)
LEMMA IntendedAppended ==
  ASSUME TypeOKLedger, NEW l, ledger' = Append(ledger, l)
  PROVE  /\ \A id \in Ids : l = Intent(id) => Intended' = Intended \cup {id}
         /\ (\A id \in Ids : l # Intent(id)) => Intended' = Intended
<1>1. \A id \in Ids : id \in Intended' <=> id \in Intended \/ l = Intent(id)
  BY AppendedLedger DEF Intended, Intent, Event
<1>2. Intended \subseteq Ids /\ Intended' \subseteq Ids
  BY DEF Intended
<1>3. \A id, other : Intent(id) = Intent(other) => id = other
  BY DEF Intent, Event
<1> QED
  BY <1>1, <1>2, <1>3

LEMMA StutterStep ==
  ASSUME UNCHANGED <<granted, contacts, ledger>>
  PROVE  UNCHANGED Abstract!svars
BY DEF Abstract!svars, Intended, Intent, Event

LEMMA AppendStep ==
  ASSUME TypeInv, ActInv, NEW e, AppendReturns(e) \/ AppendRaises(e),
         UNCHANGED <<granted, contacts>>,
         \/ e = Intent(decision.id) /\ decision.id \in Ids /\ decision.id \in GrantedIds
         \/ \A id \in Ids : e # Intent(id)
  PROVE  [Abstract!Next]_(Abstract!svars)
<1>1. TypeOKLedger
  BY DEF TypeInv, TypeOK
<1>2. \A id \in Ids : TornLine # Intent(id)
  BY DEF TornLine, Intent, Event
<1>3. CASE ledger' = ledger
  BY <1>3, StutterStep
<1>4. CASE ledger' = Append(ledger, TornLine)
  BY <1>1, <1>2, <1>4, IntendedAppended DEF Abstract!svars
<1>5. CASE ledger' = Append(ledger, e)
  <2>1. CASE \A id \in Ids : e # Intent(id)
    BY <1>1, <1>5, <2>1, IntendedAppended DEF Abstract!svars
  <2>2. CASE e = Intent(decision.id) /\ decision.id \in Ids /\ decision.id \in GrantedIds
    <3>1. Intended' = Intended \cup {decision.id}
      BY <1>1, <1>5, <2>2, IntendedAppended
    <3>2. Abstract!Intend(decision.id)
      BY <2>2, <3>1 DEF Abstract!Intend, GrantedIds
    <3> QED
      BY <2>2, <3>2 DEF Abstract!Next
  <2> QED
    BY <2>1, <2>2
<1> QED
  BY <1>3, <1>4, <1>5 DEF AppendReturns, AppendRaises

LEMMA AbstractInit == Init => Abstract!Init
BY DEF Init, InitLedger, Abstract!Init, Intended

LEMMA AbstractStep ==
  ASSUME TypeInv, ActInv, SubmissionInv, "power" \notin Faults, [Next]_vars
  PROVE  [Abstract!Next]_(Abstract!svars)
<1> USE DEF ledgerVars, persisted, history, volatile
<1>1. CASE BeginCycle \/ Observe \/ Abstain \/ MakePlan \/ Barrier
  BY <1>1, StutterStep DEF BeginCycle, Observe, Abstain, MakePlan, Barrier
<1>2. CASE ObserveFails \/ AnalysisRaises \/ PlanRaises \/ GuardRaises
  BY <1>2, StutterStep DEF ObserveFails, AnalysisRaises, PlanRaises, GuardRaises
<1>3. CASE PreflightPasses \/ PreflightFails \/ GuardBlocks \/ GuardPasses
  BY <1>3, StutterStep DEF PreflightPasses, PreflightFails, GuardBlocks, GuardPasses
<1>4. CASE BrokerRefuses \/ SendFails \/ ReplyArrives \/ ReplyLost
  BY <1>4, StutterStep DEF BrokerRefuses, SendFails, ReplyArrives, ReplyLost
<1>5. CASE ProveInMemory \/ ProvePersisted \/ ProveFails
  BY <1>5, StutterStep DEF ProveInMemory, ProvePersisted, ProveFails
<1>6. CASE Crash \/ PowerCut \/ Restart
  BY <1>6, StutterStep DEF Crash, PowerCut, Die, Restart
<1>7. CASE Broker \/ OperatingSystem \/ UNCHANGED vars
  BY <1>7, StutterStep DEF Broker, OperatingSystem, Writeback, vars
<1>8. CASE Decide
  <2>1. PICK id \in AuthorityIds :
          granted' = granted \/ granted' = granted \cup {<<cycle, id>>}
    BY <1>8 DEF Decide
  <2>2. UNCHANGED <<contacts, ledger>>
    BY <1>8 DEF Decide
  <2>3. CASE granted' = granted
    BY <2>2, <2>3, StutterStep
  <2>4. CASE granted' = granted \cup {<<cycle, id>>}
    <3>1. id \in Ids
      BY <1>8, EnvironmentAssumption
         DEF Decide, Goto, TypeInv, Placed, AuthorityIds, Ids, Cycles
    <3>2. GrantedIds' = GrantedIds \cup {id}
      BY <2>4, SecondsGrow DEF GrantedIds
    <3>3. Abstract!Grant(id)
      BY <2>2, <3>2 DEF Abstract!Grant, GrantedIds, Intended, Intent, Event
    <3> QED
      BY <3>1, <3>3 DEF Abstract!Next
  <2> QED
    BY <2>1, <2>3, <2>4
<1>9. CASE RecordIntent \/ IntentFails
  <2>1. decision.id \in Ids /\ <<cycle, decision.id>> \in granted
    BY <1>9 DEF RecordIntent, IntentFails, Goto, TypeInv, Placed, Deciding, ActInv,
       Cleared
  <2>2. decision.id \in GrantedIds
    BY <2>1 DEF GrantedIds
  <2> QED
    BY <1>9, <2>1, <2>2, AppendStep DEF RecordIntent, IntentFails
<1>10. CASE Send
  <2>1. decision.id \in Ids /\ decision.id \in Intended /\ decision.id \notin SentIds
    BY <1>10 DEF Send, Goto, TypeInv, Placed, Deciding, SubmissionInv, IntendedFirst,
       EventsOf, Intended, SentIds
  <2>2. SentIds' = SentIds \cup {decision.id} /\ UNCHANGED <<granted, ledger>>
    BY <1>10, SecondsGrow DEF Send, SentIds
  <2>3. PICK o \in Ids : o = decision.id
    BY <2>1
  <2>4. Abstract!Send(o)
    BY <2>1, <2>2, <2>3 DEF Abstract!Send, SentIds, Intended, Intent, Event
  <2> QED
    BY <2>4 DEF Abstract!Next
<1>11. CASE LogResult
  <2>1. CASE HasLedger
    <3> DEFINE event == Event(decision.id, EventType(result.status, result.submitted))
    <3>1. \A id \in Ids : event # Intent(id)
      BY EventTypeIsNoIntent DEF Event, Intent
    <3> QED
      BY <1>11, <2>1, <3>1, AppendStep DEF LogResult
  <2>2. CASE ~HasLedger
    BY <1>11, <2>2, StutterStep DEF LogResult
  <2> QED
    BY <2>1, <2>2
<1> QED
  BY <1>1, <1>2, <1>3, <1>4, <1>5, <1>6, <1>7, <1>8, <1>9, <1>10, <1>11 DEF Next, Step

(* With a ledger and unless the machine is lost, the governed cycle is an  *)
(* implementation of GovernedSubmission.                                   *)
THEOREM CycleImplements ==
  ASSUME HasLedger, "power" \notin Faults
  PROVE  Spec => ImplementsGovernedSubmission
<1>1. Init => TypeInv /\ ActInv /\ SubmissionInv
  BY TypeInit, ActInit, SubmissionInit
<1>2. TypeInv /\ ActInv /\ SubmissionInv /\ [Next]_vars
        => TypeInv' /\ ActInv' /\ SubmissionInv'
  BY TypeStep, ActStep, SubmissionStep
<1>3. TypeInv /\ ActInv /\ SubmissionInv /\ [Next]_vars
        => [Abstract!Next]_(Abstract!svars)
  BY AbstractStep
<1> QED
  BY <1>1, <1>2, <1>3, AbstractInit, PTL
     DEF Spec, ImplementsGovernedSubmission, Abstract!Spec
==============================================================================
