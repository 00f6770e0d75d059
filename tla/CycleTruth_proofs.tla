-------------------------- MODULE CycleTruth_proofs --------------------------
(***************************************************************************)
(* Proofs of what CycleProperties says of the way a cycle returned, of its *)
(* receipt, of the orders the ledger keeps in sight, and of the state an   *)
(* order rests on when it leaves.  They continue CycleEngine_proofs.       *)
(***************************************************************************)
EXTENDS CycleEngine_proofs

------------------------------------------------------------------------------
(***************************************************************************)
(* Outcomes and receipts.  Both are written at the end of a cycle, while   *)
(* the broker's orders go on moving: they stay true because a cycle that   *)
(* ended left only settled orders, which no later cycle sends again.       *)
(***************************************************************************)
Before == {
  "observe", "decide", "plan", "barrier", "preflight", "guard", "intent", "submit" }

(* The orders of cycle c are in the broker's books, or never will be. *)
Settled(c) ==
  \A id \in Ids : <<c, id>> \in contacts => orders[id] \in Booked \cup {"refused", "lost"}

Closed(c) == outcome[c] # "none" \/ Recorded(c)

TruthInv ==
  /\ HonestOutcome
  /\ ReceiptsTellTheTruth
  /\ \A c \in Cycles, id \in Ids : <<c, id>> \in contacts => c <= cycle
  /\ pc \in Before => ~Contacted(cycle)
  /\ pc \in Before \cup {"idle", "down"} => ~result.submitted
  /\ pc = "await" =>
       /\ <<cycle, decision.id>> \in contacts
       /\ \A id \in Ids : <<cycle, id>> \in contacts => id = decision.id
  /\ pc \in {"log", "prove"} => Settled(cycle) /\ (result.submitted <=> Executed(cycle))
  /\ \A c \in Cycles : Closed(c) =>
       c <= cycle /\ Settled(c) /\ (c = cycle => pc \in {"idle", "down"})

(* The order about to leave is of no decision that was sent before. *)
Fresh == pc = "submit" => \A c \in Cycles : <<c, decision.id>> \notin contacts

LEMMA TruthInit == Init => TruthInv
<1> SUFFICES ASSUME Init PROVE TruthInv
  OBVIOUS
<1>1. contacts = {} /\ receipts = <<>> /\ pc = "idle" /\ result = NoResult
      /\ cycle = 0 /\ \A c \in Cycles : outcome[c] = "none"
  BY DEF Init, InitStore
<1>2. HonestOutcome /\ ReceiptsTellTheTruth
  BY <1>1 DEF HonestOutcome, ReceiptsTellTheTruth, Executed, Contacted
<1>3. \A c \in Cycles : ~Closed(c)
  BY <1>1 DEF Closed, Recorded
<1> QED
  BY <1>1, <1>2, <1>3 DEF TruthInv, Before, NoResult, Result

(* A step of a cycle that has sent nothing yet and does not send. *)
LEMMA TruthKept ==
  ASSUME TypeInv, TruthInv, pc \in Before, pc' \in Before \cup {"log", "prove"},
         ~result'.submitted, UNCHANGED <<cycle, receipts, orders, contacts, outcome>>
  PROVE  TruthInv'
<1>1. HonestOutcome' /\ ReceiptsTellTheTruth'
  BY DEF TruthInv, HonestOutcome, ReceiptsTellTheTruth, Executed, Contacted, Recorded,
         TornReceipt, Receipt
<1>2. ~Contacted(cycle)'
  BY DEF TruthInv, Contacted
<1>3. Settled(cycle)' /\ ~Executed(cycle)'
  BY <1>2 DEF Settled, Executed, Contacted
<1>4. \A c \in Cycles : Closed(c)' => c <= cycle' /\ Settled(c)' /\ c # cycle'
  BY DEF TruthInv, Closed, Recorded, Settled, Before
<1> QED
  BY <1>1, <1>2, <1>3, <1>4 DEF TruthInv, Before

(* The receipts of other cycles claim what they claimed, whatever the      *)
(* current cycle adds to the file.                                         *)
LEMMA RecordedBefore ==
  ASSUME TypeOKStore, NEW r, NEW c \in Cycles, receipts' = Append(receipts, r)
  PROVE  Recorded(c)' <=> Recorded(c) \/ r.cycle = c
BY AppendedReceipt DEF Recorded

(* A line that is added is not the file as it was. *)
LEMMA SameReceipt ==
  ASSUME TypeOKStore, NEW r, receipts' = Append(receipts, r), receipts' = receipts
  PROVE  FALSE
<1>1. Len(receipts) = Len(receipts) + 1 /\ Len(receipts) \in Nat
  BY AppendedReceipt
<1> QED
  BY <1>1

(* A cycle that returns without having sent anything. *)
LEMMA TruthRaised ==
  ASSUME TypeInv, TruthInv, pc \in Before, NEW how \in {"ERROR", "RAISED"}, Return(how),
         UNCHANGED <<cycle, receipts, orders, contacts>>
  PROVE  TruthInv'
<1>1. /\ pc' = "idle" /\ ~result'.submitted /\ cycle \in Cycles
      /\ outcome' = [outcome EXCEPT ![cycle] = how]
      /\ outcome \in [Cycles -> Outcomes]
  BY DEF Return, Forget, NoResult, Result, TypeInv, TypeOK, Placed, Before
<1>2. \A c \in Cycles : outcome'[c] = IF c = cycle THEN how ELSE outcome[c]
  BY <1>1
<1>3. \A c : /\ Executed(c)' <=> Executed(c)
             /\ Contacted(c)' <=> Contacted(c)
             /\ Recorded(c)' <=> Recorded(c)
             /\ Settled(c)' <=> Settled(c)
  BY DEF Executed, Contacted, Recorded, Settled
<1>4. ~Contacted(cycle) /\ ~Executed(cycle) /\ Settled(cycle)
  BY DEF TruthInv, Contacted, Executed, Settled
<1>5. HonestOutcome'
  BY <1>1, <1>2, <1>3, <1>4 DEF TruthInv, HonestOutcome
<1>6. ReceiptsTellTheTruth'
  BY <1>3 DEF TruthInv, ReceiptsTellTheTruth, TornReceipt, Receipt
<1>7. \A c \in Cycles : Closed(c)' => c <= cycle' /\ Settled(c)'
  BY <1>1, <1>2, <1>3, <1>4 DEF TruthInv, Closed, Cycles
<1> QED
  BY <1>1, <1>5, <1>6, <1>7 DEF TruthInv, Before

(* The end of a cycle: it returns what its result says, and adds at most   *)
(* its own receipt, or the remains of one, to the store.                   *)
LEMMA TruthProved ==
  ASSUME TypeInv, TruthInv, pc = "prove",
         NEW how \in {"PROVEN", "NOT_APPLICABLE", Unproven(result)}, Return(how),
         \/ receipts' = receipts
         \/ receipts' = Append(receipts, TornReceipt)
         \/ receipts' = Append(receipts, CurrentReceipt),
         how = "PROVEN" => receipts' = Append(receipts, CurrentReceipt),
         UNCHANGED <<cycle, orders, contacts>>
  PROVE  TruthInv'
<1>1. /\ pc' = "idle" /\ ~result'.submitted /\ cycle \in Cycles
      /\ outcome' = [outcome EXCEPT ![cycle] = how]
      /\ outcome \in [Cycles -> Outcomes] /\ TypeOKStore
  BY DEF Return, Forget, NoResult, Result, TypeInv, TypeOK, Placed
<1>2. \A c \in Cycles : outcome'[c] = IF c = cycle THEN how ELSE outcome[c]
  BY <1>1
<1>3. \A c : /\ Executed(c)' <=> Executed(c)
             /\ Contacted(c)' <=> Contacted(c)
             /\ Settled(c)' <=> Settled(c)
  BY DEF Executed, Contacted, Settled
<1>4. Settled(cycle) /\ (result.submitted <=> Executed(cycle))
  BY DEF TruthInv
<1>5. CurrentReceipt.cycle = cycle /\ CurrentReceipt.executed = result.submitted
  BY DEF CurrentReceipt, Receipt
<1>6. TornReceipt.cycle = 0 /\ TornReceipt' = TornReceipt
  BY DEF TornReceipt, Receipt
<1>7. \A c \in Cycles :
        /\ Recorded(c) => Recorded(c)'
        /\ Recorded(c)' => Recorded(c) \/ c = cycle
        /\ receipts' = Append(receipts, CurrentReceipt) => Recorded(cycle)'
  <2>1. CASE receipts' = receipts
    <3>1. receipts' # Append(receipts, CurrentReceipt)
      BY <1>1, <2>1, SameReceipt
    <3> QED
      BY <2>1, <3>1 DEF Recorded
  <2>2. CASE receipts' = Append(receipts, TornReceipt)
    <3>1. \A c \in Cycles : c # 0
      BY EnvironmentAssumption DEF Cycles
    <3> QED
      BY <1>1, <1>5, <1>6, <2>2, <3>1, RecordedBefore
  <2>3. CASE receipts' = Append(receipts, CurrentReceipt)
    BY <1>1, <1>5, <2>3, RecordedBefore
  <2> QED
    BY <2>1, <2>2, <2>3
<1>8. HonestOutcome'
  <2> SUFFICES ASSUME NEW c \in Cycles
               PROVE  /\ Executed(c) =>
                           outcome'[c] \notin
                             {"ABSTENTION_PROOF_INCOMPLETE", "ERROR", "RAISED"}
                      /\ outcome'[c] = "PROVEN" => Recorded(c)'
                      /\ outcome'[c] = "EXECUTION_SUCCEEDED_PROOF_INCOMPLETE" => Executed(c)
                      /\ outcome'[c] \in {"ERROR", "RAISED"} => ~Contacted(c)
    BY <1>3 DEF HonestOutcome
  <2>1. CASE c = cycle
    BY <1>2, <1>4, <1>7, <2>1 DEF Unproven
  <2>2. CASE c # cycle
    BY <1>2, <1>7, <2>2 DEF TruthInv, HonestOutcome
  <2> QED
    BY <2>1, <2>2
<1>9. ReceiptsTellTheTruth'
  <2> SUFFICES ASSUME NEW i \in 1 .. Len(receipts'), receipts'[i] # TornReceipt
               PROVE  receipts'[i].executed <=> Executed(receipts'[i].cycle)
    BY <1>3, <1>6 DEF ReceiptsTellTheTruth
  <2>1. CASE receipts' = receipts
    BY <2>1 DEF TruthInv, ReceiptsTellTheTruth
  <2>2. ASSUME NEW r, receipts' = Append(receipts, r), r = TornReceipt \/ r = CurrentReceipt
        PROVE  receipts'[i].executed <=> Executed(receipts'[i].cycle)
    <3>1. CASE i \in 1 .. Len(receipts)
      BY <1>1, <2>2, <3>1, AppendedReceipt DEF TruthInv, ReceiptsTellTheTruth
    <3>2. CASE i = Len(receipts) + 1
      BY <1>1, <1>4, <1>5, <2>2, <3>2, AppendedReceipt
    <3> QED
      BY <1>1, <2>2, <3>1, <3>2, AppendedReceipt
  <2> QED
    BY <2>1, <2>2
<1>10. \A c \in Cycles : Closed(c)' => c <= cycle' /\ Settled(c)'
  BY <1>1, <1>2, <1>3, <1>4, <1>7 DEF TruthInv, Closed, Cycles
<1> QED
  BY <1>1, <1>8, <1>9, <1>10 DEF TruthInv, Before

(* What the broker does by itself never unsettles an order. *)
LEMMA SettledStays ==
  ASSUME TypeOKBroker, NEW x \in Ids, BrokerMoves(x), NEW id \in Ids
  PROVE  /\ orders[id] \in Booked => orders'[id] \in Booked
         /\ orders[id] \in {"refused", "lost"} => orders'[id] = orders[id]
         /\ orders[id] = "none" => orders'[id] = "none"
         /\ orders[id] \notin Live => orders'[id] \notin Live
<1>1. PICK to \in OrderStates :
        <<orders[x], to>> \in Moves /\ orders' = [orders EXCEPT ![x] = to]
  BY DEF BrokerMoves
<1>2. CASE id # x
  BY <1>1, <1>2 DEF TypeOKBroker
<1>3. CASE id = x
  BY <1>1, <1>3 DEF TypeOKBroker, Moves, Booked, Live
<1> QED
  BY <1>2, <1>3

(* The broker moves, and changes neither which cycles executed nor what    *)
(* they left settled, for the cycles whose orders are settled.             *)
LEMMA TruthMoves ==
  ASSUME TypeInv, TruthInv, Broker
  PROVE  TruthInv'
<1>1. /\ UNCHANGED <<pc, cycle, decision, result, receipts, contacts, outcome>>
      /\ TypeOKBroker
  BY DEF Broker, volatile, persisted, history, TypeInv, TypeOK
<1>2. \A id \in Ids :
        /\ orders[id] \in Booked => orders'[id] \in Booked
        /\ orders[id] \in {"refused", "lost"} => orders'[id] = orders[id]
  BY <1>1, SettledStays DEF Broker
<1>3. ASSUME NEW c, Settled(c)
      PROVE  Settled(c)' /\ (Executed(c)' <=> Executed(c))
  BY <1>1, <1>2, <1>3 DEF Settled, Executed, Booked
<1>4. \A c : (Contacted(c)' <=> Contacted(c)) /\ (Recorded(c)' <=> Recorded(c))
             /\ (Closed(c)' <=> Closed(c))
  BY <1>1 DEF Contacted, Recorded, Closed
<1>5. \A c \in Cycles : Closed(c) => Settled(c)
  BY DEF TruthInv
<1>6. HonestOutcome'
  <2> SUFFICES ASSUME NEW c \in Cycles, outcome[c] # "none"
               PROVE  /\ Executed(c) =>
                           outcome[c] \notin
                             {"ABSTENTION_PROOF_INCOMPLETE", "ERROR", "RAISED"}
                      /\ outcome[c] = "PROVEN" => Recorded(c)
                      /\ outcome[c] = "EXECUTION_SUCCEEDED_PROOF_INCOMPLETE" => Executed(c)
                      /\ outcome[c] \in {"ERROR", "RAISED"} => ~Contacted(c)
    BY <1>1, <1>3, <1>4, <1>5 DEF HonestOutcome, Closed
  <2> QED
    BY DEF TruthInv, HonestOutcome
<1>7. ReceiptsTellTheTruth'
  <2> SUFFICES ASSUME NEW i \in 1 .. Len(receipts), receipts[i] # TornReceipt,
                      NEW c, c = receipts[i].cycle
               PROVE  receipts[i].executed <=> Executed(c)'
    BY <1>1 DEF ReceiptsTellTheTruth, TornReceipt, Receipt, Executed
  <2>1. c \in Cycles
    BY ElementOfSeq DEF TypeInv, TypeOK, TypeOKStore, Receipts
  <2>2. Settled(c)
    BY <1>5, <2>1 DEF Closed, Recorded
  <2> QED
    BY <1>3, <2>2 DEF TruthInv, ReceiptsTellTheTruth
<1> QED
  BY <1>1, <1>3, <1>4, <1>5, <1>6, <1>7 DEF TruthInv, Settled

(* An answer says that the order was submitted exactly when the broker has *)
(* it in its books.                                                        *)
LEMMA AnswersMeanBooked ==
  ASSUME NEW state \in Booked \cup {"refused"}, NEW r \in SubmitAnswers(state)
  PROVE  r.submitted <=> state \in Booked
BY DEF SubmitAnswers, Result, Booked

LEMMA TruthStep ==
  ASSUME "lost_reply" \notin Faults, TypeInv, Fresh, TruthInv, [Next]_vars
  PROVE  TruthInv'
<1> USE DEF persisted, history, volatile
<1>1. TypeOKStore /\ TypeOKBroker
  BY DEF TypeInv, TypeOK
<1>2. CASE BeginCycle
  <2>1. /\ UNCHANGED <<receipts, orders, contacts, outcome, result>>
        /\ pc = "idle" /\ pc' = "observe" /\ cycle' = cycle + 1 /\ cycle \in Nat
    BY <1>2 DEF BeginCycle, Goto, TypeInv, TypeOK
  <2>2. HonestOutcome' /\ ReceiptsTellTheTruth'
    BY <2>1 DEF TruthInv, HonestOutcome, ReceiptsTellTheTruth, Executed, Contacted,
       Recorded, TornReceipt, Receipt
  <2>3. \A c \in Cycles, id \in Ids : <<c, id>> \in contacts => c <= cycle
    BY DEF TruthInv
  <2>4. contacts \subseteq Cycles \X Ids
    BY DEF TypeInv, TypeOK
  <2>5. ~Contacted(cycle)'
    <3> SUFFICES ASSUME NEW id \in Ids, <<cycle + 1, id>> \in contacts PROVE FALSE
      BY <2>1 DEF Contacted
    <3>1. cycle + 1 \in Cycles
      BY <2>4
    <3>2. cycle + 1 <= cycle
      BY <2>3, <3>1
    <3> QED
      BY <2>1, <3>2
  <2>6. ASSUME NEW c \in Cycles, Closed(c)'
        PROVE  c <= cycle' /\ Settled(c)' /\ c # cycle'
    <3>1. c <= cycle /\ Settled(c)
      BY <2>1, <2>6 DEF TruthInv, Closed, Recorded
    <3> QED
      BY <2>1, <3>1 DEF Settled, Cycles
  <2>7. \A c \in Cycles, id \in Ids : <<c, id>> \in contacts' => c <= cycle'
    BY <2>1, <2>3 DEF Cycles
  <2> QED
    BY <2>1, <2>2, <2>5, <2>6, <2>7 DEF TruthInv, Before
<1>3. CASE ObserveFails \/ AnalysisRaises \/ PlanRaises \/ GuardRaises
  BY <1>3, TruthRaised DEF ObserveFails, AnalysisRaises, PlanRaises, GuardRaises, Before
<1>4. CASE Observe \/ Abstain \/ Decide \/ PreflightPasses \/ GuardPasses \/ RecordIntent
  <2>1. pc \in Before /\ pc' \in Before \cup {"prove"} /\ UNCHANGED result
    BY <1>4 DEF Observe, Abstain, Decide, PreflightPasses, GuardPasses, RecordIntent,
       Goto, Before
  <2>2. UNCHANGED <<cycle, receipts, orders, contacts, outcome>>
    BY <1>4 DEF Observe, Abstain, Decide, PreflightPasses, GuardPasses, RecordIntent
  <2> QED
    BY <2>1, <2>2, TruthKept DEF TruthInv
<1>5. CASE MakePlan \/ Barrier \/ PreflightFails \/ GuardBlocks \/ IntentFails
           \/ BrokerRefuses \/ SendFails
  <2>1. pc \in Before /\ pc' \in Before \cup {"log", "prove"}
    BY <1>5 DEF MakePlan, Barrier, PreflightFails, GuardBlocks, IntentFails,
       BrokerRefuses, SendFails, Refuse, Goto, Before
  <2>2. ~result'.submitted
    BY <1>5, <2>1 DEF MakePlan, Barrier, PreflightFails, GuardBlocks, IntentFails,
       BrokerRefuses, SendFails, Refuse, NotSubmitted, Result, Unanswered, TruthInv
  <2>3. UNCHANGED <<cycle, receipts, orders, contacts, outcome>>
    BY <1>5 DEF MakePlan, Barrier, PreflightFails, GuardBlocks, IntentFails,
       BrokerRefuses, SendFails
  <2> QED
    BY <2>1, <2>2, <2>3, TruthKept
<1>6. CASE Send
  <2>1. /\ pc = "submit" /\ pc' = "await"
        /\ contacts' = contacts \cup {<<cycle, decision.id>>}
        /\ orders' = [orders EXCEPT ![decision.id] = "travelling"]
        /\ UNCHANGED <<cycle, decision, receipts, outcome, result>>
        /\ cycle \in Cycles /\ decision.id \in Ids
    BY <1>6 DEF Send, Goto, Post, TypeInv, Placed, Deciding
  <2>2. \A c \in Cycles, id \in Ids :
          <<c, id>> \in contacts => orders'[id] = orders[id]
    BY <1>1, <2>1 DEF Fresh, TypeOKBroker
  <2>3. ASSUME NEW c \in Cycles, c # cycle
        PROVE  /\ Executed(c)' <=> Executed(c)
               /\ Contacted(c)' <=> Contacted(c)
               /\ Settled(c)' <=> Settled(c)
    <3>1. \A id \in Ids : <<c, id>> \in contacts' <=> <<c, id>> \in contacts
      BY <2>1, <2>3
    <3> QED
      BY <2>2, <3>1 DEF Executed, Contacted, Settled
  <2>4. outcome[cycle] = "none" /\ ~Recorded(cycle)
    BY <2>1 DEF TruthInv, Closed
  <2>5. HonestOutcome'
    <3> SUFFICES ASSUME NEW c \in Cycles
                 PROVE  /\ Executed(c)' =>
                             outcome[c] \notin
                               {"ABSTENTION_PROOF_INCOMPLETE", "ERROR", "RAISED"}
                        /\ outcome[c] = "PROVEN" => Recorded(c)
                        /\ outcome[c] = "EXECUTION_SUCCEEDED_PROOF_INCOMPLETE"
                             => Executed(c)'
                        /\ outcome[c] \in {"ERROR", "RAISED"} => ~Contacted(c)'
      BY <2>1 DEF HonestOutcome, Recorded
    <3>1. CASE c = cycle
      BY <2>4, <3>1
    <3>2. CASE c # cycle
      BY <2>3, <3>2 DEF TruthInv, HonestOutcome
    <3> QED
      BY <3>1, <3>2
  <2>6. ReceiptsTellTheTruth'
    <3> SUFFICES ASSUME NEW i \in 1 .. Len(receipts), receipts[i] # TornReceipt,
                        NEW c, c = receipts[i].cycle
                 PROVE  receipts[i].executed <=> Executed(c)'
      BY <2>1 DEF ReceiptsTellTheTruth, TornReceipt, Receipt, Executed
    <3>1. c \in Cycles /\ c # cycle
      BY <1>1, <2>4, ElementOfSeq DEF TypeOKStore, Receipts, Recorded
    <3> QED
      BY <2>3, <3>1 DEF TruthInv, ReceiptsTellTheTruth
  <2>7. ASSUME NEW c \in Cycles, Closed(c)'
        PROVE  c <= cycle' /\ Settled(c)' /\ c # cycle'
    BY <2>1, <2>3, <2>4, <2>7 DEF TruthInv, Closed, Recorded
  <2>8. \A c \in Cycles, id \in Ids : <<c, id>> \in contacts' => c <= cycle'
    BY <2>1 DEF TruthInv, Cycles
  <2>9. \A id \in Ids : <<cycle, id>> \in contacts' => id = decision.id
    BY <2>1 DEF TruthInv, Before, Contacted
  <2> QED
    BY <2>1, <2>5, <2>6, <2>7, <2>8, <2>9 DEF TruthInv, Before
<1>7. CASE ReplyArrives \/ ReplyLost
  <2>1. /\ pc = "await" /\ pc' = "log" /\ cycle \in Cycles /\ decision.id \in Ids
        /\ UNCHANGED <<cycle, receipts, orders, contacts, outcome>>
    BY <1>7 DEF ReplyArrives, ReplyLost, Goto, TypeInv, Placed, Deciding
  <2>2. /\ orders[decision.id] \in Booked \cup {"refused", "lost"}
        /\ result'.submitted <=> orders[decision.id] \in Booked
    <3>1. CASE ReplyArrives
      BY <3>1, AnswersMeanBooked DEF ReplyArrives
    <3>2. CASE ReplyLost
      BY <3>2 DEF ReplyLost, Unanswered, NotSubmitted, Result, Booked
    <3> QED
      BY <1>7, <3>1, <3>2
  <2>3. Settled(cycle)' /\ (result'.submitted <=> Executed(cycle)')
    BY <2>1, <2>2 DEF TruthInv, Settled, Executed
  <2>4. HonestOutcome' /\ ReceiptsTellTheTruth'
    BY <2>1 DEF TruthInv, HonestOutcome, ReceiptsTellTheTruth, Executed, Contacted,
       Recorded, TornReceipt, Receipt
  <2>5. \A c \in Cycles : Closed(c)' => c <= cycle' /\ Settled(c)' /\ c # cycle'
    BY <2>1 DEF TruthInv, Closed, Recorded, Settled
  <2> QED
    BY <2>1, <2>3, <2>4, <2>5 DEF TruthInv, Before
<1>8. CASE LogResult
  <2>1. /\ pc = "log" /\ pc' = "prove"
        /\ UNCHANGED <<cycle, result, receipts, orders, contacts, outcome>>
    BY <1>8 DEF LogResult, Goto
  <2> QED
    BY <2>1 DEF TruthInv, HonestOutcome, ReceiptsTellTheTruth, Executed, Contacted,
       Recorded, TornReceipt, Receipt, Closed, Settled, Before
<1>9. CASE ProveInMemory \/ ProvePersisted \/ ProveFails
  <2>1. CASE ProveInMemory
    <3>1. /\ pc = "prove" /\ Return("NOT_APPLICABLE")
          /\ UNCHANGED <<cycle, receipts, orders, contacts>>
      BY <2>1 DEF ProveInMemory
    <3> QED
      BY <3>1, TruthProved
  <2>2. CASE ProvePersisted
    <3>1. /\ pc = "prove" /\ Return("PROVEN") /\ UNCHANGED <<cycle, orders, contacts>>
          /\ receipts' = Append(receipts, CurrentReceipt)
      BY <2>2 DEF ProvePersisted, RecordReturns
    <3> QED
      BY <3>1, TruthProved
  <2>3. CASE ProveFails
    <3>1. /\ pc = "prove" /\ Return(Unproven(result))
          /\ UNCHANGED <<cycle, orders, contacts>>
          /\ \/ receipts' = receipts
             \/ receipts' = Append(receipts, TornReceipt)
             \/ receipts' = Append(receipts, CurrentReceipt)
      BY <2>3 DEF ProveFails, RecordRaises
    <3>2. Unproven(result) # "PROVEN"
      BY DEF Unproven
    <3> QED
      BY <3>1, <3>2, TruthProved
  <2> QED
    BY <1>9, <2>1, <2>2, <2>3
<1>10. CASE Crash \/ PowerCut
  <2>1. /\ pc' = "down" /\ ~result'.submitted
        /\ UNCHANGED <<cycle, receipts, orders, contacts, outcome>>
    BY <1>10 DEF Crash, PowerCut, Die, Forget, NoResult, Result
  <2> QED
    BY <2>1 DEF TruthInv, HonestOutcome, ReceiptsTellTheTruth, Executed, Contacted,
       Recorded, TornReceipt, Receipt, Closed, Settled, Before
<1>11. CASE Restart
  <2>1. /\ pc = "down" /\ pc' = "idle"
        /\ UNCHANGED <<cycle, result, receipts, orders, contacts, outcome>>
    BY <1>11 DEF Restart, Goto
  <2> QED
    BY <2>1 DEF TruthInv, HonestOutcome, ReceiptsTellTheTruth, Executed, Contacted,
       Recorded, TornReceipt, Receipt, Closed, Settled, Before
<1>12. CASE Broker
  BY <1>12, TruthMoves
<1>13. CASE OperatingSystem \/ UNCHANGED vars
  <2>1. UNCHANGED <<pc, cycle, decision, result, receipts, orders, contacts, outcome>>
    BY <1>13 DEF OperatingSystem, vars
  <2> QED
    BY <2>1 DEF TruthInv, HonestOutcome, ReceiptsTellTheTruth, Executed, Contacted,
       Recorded, TornReceipt, Receipt, Closed, Settled, Before
<1> QED
  BY <1>2, <1>3, <1>4, <1>5, <1>6, <1>7, <1>8, <1>9, <1>10, <1>11, <1>12, <1>13
     DEF Next, Step

------------------------------------------------------------------------------
(***************************************************************************)
(* That the order about to leave is fresh has one of two causes: without   *)
(* replays a decision belongs to its cycle, and with a ledger that no loss *)
(* of the machine shortens the guard has seen to it.                       *)
(***************************************************************************)
OwnInv ==
  /\ pc \in Deciding => decision.id = cycle
  /\ \A c \in Cycles, id \in Ids : <<c, id>> \in contacts => id = c

LEMMA OwnStep ==
  ASSUME "replay" \notin Faults, OwnInv, [Next]_vars
  PROVE  OwnInv'
<1> USE DEF persisted, history, volatile, OwnInv, Deciding
<1>1. CASE BeginCycle \/ Observe \/ Abstain \/ Restart \/ LogResult
  BY <1>1 DEF BeginCycle, Observe, Abstain, Restart, LogResult, Goto
<1>2. CASE ObserveFails \/ AnalysisRaises \/ PlanRaises \/ GuardRaises
           \/ ProveInMemory \/ ProvePersisted \/ ProveFails
  BY <1>2 DEF ObserveFails, AnalysisRaises, PlanRaises, GuardRaises, ProveInMemory,
     ProvePersisted, ProveFails, Return
<1>3. CASE Decide
  BY <1>3 DEF Decide, Goto, AuthorityIds
<1>4. CASE MakePlan \/ Barrier \/ PreflightPasses \/ PreflightFails \/ GuardBlocks
           \/ GuardPasses \/ RecordIntent \/ IntentFails
  BY <1>4 DEF MakePlan, Barrier, PreflightPasses, PreflightFails, GuardBlocks,
     GuardPasses, RecordIntent, IntentFails, Refuse, Goto
<1>5. CASE BrokerRefuses \/ SendFails \/ ReplyArrives \/ ReplyLost
  BY <1>5 DEF BrokerRefuses, SendFails, ReplyArrives, ReplyLost, Refuse, Goto
<1>6. CASE Send
  BY <1>6 DEF Send, Goto
<1>7. CASE Crash \/ PowerCut \/ Broker \/ OperatingSystem \/ UNCHANGED vars
  BY <1>7 DEF Crash, PowerCut, Die, Broker, OperatingSystem, vars
<1> QED
  BY <1>1, <1>2, <1>3, <1>4, <1>5, <1>6, <1>7 DEF Next, Step

(* A decision is sent once, and the broker's answers arrive. *)
AnswersArrive ==
  /\ "lost_reply" \notin Faults
  /\ "replay" \notin Faults \/ (HasLedger /\ "power" \notin Faults)

LEMMA TruthInvariant ==
  ASSUME AnswersArrive
  PROVE  Spec => [](TypeInv /\ TruthInv)
<1>1. CASE "replay" \notin Faults
  <2>1. Init => TypeInv /\ TruthInv /\ OwnInv
    BY TypeInit, TruthInit DEF Init, OwnInv, Deciding
  <2>2. OwnInv /\ TypeInv /\ TruthInv => Fresh
    BY DEF OwnInv, TruthInv, TypeInv, Placed, Fresh, Before, Contacted, Deciding
  <2>3. TypeInv /\ TruthInv /\ OwnInv /\ [Next]_vars => TypeInv' /\ TruthInv' /\ OwnInv'
    BY <1>1, <2>2, TypeStep, TruthStep, OwnStep DEF AnswersArrive
  <2> QED
    BY <2>1, <2>3, PTL DEF Spec
<1>2. CASE HasLedger /\ "power" \notin Faults
  <2>1. SubmissionInv => Fresh
    BY DEF SubmissionInv, Fresh
  <2>2. TypeInv /\ TruthInv /\ SubmissionInv /\ [Next]_vars
          => TypeInv' /\ TruthInv' /\ SubmissionInv'
    BY <1>2, <2>1, TypeStep, TruthStep, SubmissionStep DEF AnswersArrive
  <2> QED
    BY <2>2, TypeInit, TruthInit, SubmissionInit, PTL DEF Spec
<1> QED
  BY <1>1, <1>2 DEF AnswersArrive

(* When the broker's answers arrive, whatever word they say, and no        *)
(* decision can be sent twice, no cycle returns a lie about its order or   *)
(* its proof.                                                              *)
THEOREM OutcomesHonest ==
  ASSUME AnswersArrive
  PROVE  Spec => []HonestOutcome
<1>1. TruthInv => HonestOutcome
  BY DEF TruthInv
<1> QED
  BY <1>1, TruthInvariant, PTL

(* Under the same conditions a stored receipt claims an execution exactly  *)
(* when an order of its cycle entered the broker's books.                  *)
THEOREM ReceiptsHonest ==
  ASSUME AnswersArrive
  PROVE  Spec => []ReceiptsTellTheTruth
<1>1. TruthInv => ReceiptsTellTheTruth
  BY DEF TruthInv
<1> QED
  BY <1>1, TruthInvariant, PTL

------------------------------------------------------------------------------
(***************************************************************************)
(* Orders that stay in sight.  The last line about an order the broker may *)
(* still fill is never an end: the result that is about to be written can  *)
(* only be an end when the order is one no more.                           *)
(***************************************************************************)
InSight(id) ==
  \E i \in EventsOf(id) :
    ledger[i].type \notin Terminal /\ \A j \in EventsOf(id) : j <= i

AllInSight ==
  \A c \in Cycles, id \in Ids :
    <<c, id>> \in contacts /\ orders[id] \in Live => InSight(id)

ResultType == EventType(result.status, result.submitted)

SightInv ==
  /\ LedgerReadable => AllInSight
  /\ pc = "submit" /\ LedgerReadable => InSight(decision.id)
  /\ pc = "log" /\ ResultType \in Terminal =>
       \A c \in Cycles : <<c, decision.id>> \in contacts => orders[decision.id] \notin Live

LEMMA SightMeansOpen ==
  ASSUME TypeOKLedger, NEW id \in Ids, InSight(id)
  PROVE  id \in NonTerminal
<1>1. PICK i \in EventsOf(id) :
        ledger[i].type \notin Terminal /\ \A j \in EventsOf(id) : j <= i
  BY DEF InSight
<1> DEFINE k == CHOOSE m \in EventsOf(id) : \A j \in EventsOf(id) : j <= m
<1>2. k \in EventsOf(id) /\ \A j \in EventsOf(id) : j <= k
  BY <1>1
<1>3. k = i
  BY <1>1, <1>2 DEF EventsOf
<1> QED
  BY <1>1, <1>3 DEF NonTerminal, LatestType

(* Lines that end nothing, or are of other orders, put nothing out of      *)
(* sight.                                                                  *)
LEMMA SightKept ==
  ASSUME TypeOKLedger, NEW id, InSight(id),
         \/ ledger' = ledger
         \/ \E l : ledger' = Append(ledger, l) /\ (l.id = id => l.type \notin Terminal)
  PROVE  InSight(id)'
<1>1. PICK i \in EventsOf(id) :
        ledger[i].type \notin Terminal /\ \A j \in EventsOf(id) : j <= i
  BY DEF InSight
<1>2. CASE ledger' = ledger
  BY <1>1, <1>2 DEF InSight, EventsOf
<1>3. CASE \E l : ledger' = Append(ledger, l) /\ (l.id = id => l.type \notin Terminal)
  <2>1. PICK l : ledger' = Append(ledger, l) /\ (l.id = id => l.type \notin Terminal)
    BY <1>3
  <2>2. /\ Len(ledger) \in Nat /\ Len(ledger') = Len(ledger) + 1
        /\ \A j \in 1 .. Len(ledger) : ledger'[j] = ledger[j]
        /\ ledger'[Len(ledger) + 1] = l
    BY <2>1, AppendedLedger
  <2>3. CASE l.id = id
    <3>1. Len(ledger) + 1 \in EventsOf(id)'
      BY <2>2, <2>3 DEF EventsOf
    <3>2. ledger'[Len(ledger) + 1].type \notin Terminal
      BY <2>1, <2>2, <2>3
    <3>3. \A j \in EventsOf(id)' : j <= Len(ledger) + 1
      BY <2>2 DEF EventsOf
    <3> QED
      BY <3>1, <3>2, <3>3 DEF InSight
  <2>4. CASE l.id # id
    <3>1. i \in EventsOf(id)' /\ ledger'[i].type \notin Terminal
      BY <1>1, <2>2 DEF EventsOf
    <3>2. ASSUME NEW j \in EventsOf(id)' PROVE j <= i
      BY <1>1, <2>2, <2>4, <3>2 DEF EventsOf
    <3> QED
      BY <3>1, <3>2 DEF InSight
  <2> QED
    BY <2>3, <2>4
<1> QED
  BY <1>2, <1>3

(* The line just written is the one in sight. *)
LEMMA SightBegins ==
  ASSUME TypeOKLedger, NEW l, ledger' = Append(ledger, l), l.type \notin Terminal
  PROVE  InSight(l.id)'
<1>1. Len(ledger) + 1 \in EventsOf(l.id)' /\ ledger'[Len(ledger) + 1] = l
  BY AppendedLedger DEF EventsOf
<1>2. \A j \in EventsOf(l.id)' : j <= Len(ledger) + 1
  BY AppendedLedger DEF EventsOf
<1> QED
  BY <1>1, <1>2 DEF InSight

LEMMA ReadableBefore ==
  ASSUME TypeOKLedger, LedgerReadable',
         ledger' = ledger \/ \E l : ledger' = Append(ledger, l)
  PROVE  LedgerReadable
<1>1. CASE ledger' = ledger
  BY <1>1 DEF LedgerReadable, TornLine
<1>2. CASE \E l : ledger' = Append(ledger, l)
  BY <1>2, AppendedLedger DEF LedgerReadable, TornLine
<1> QED
  BY <1>1, <1>2

(* The remains of a line make the file unreadable for good. *)
LEMMA TornUnreadable ==
  ASSUME TypeOKLedger, ledger' = Append(ledger, TornLine)
  PROVE  ~LedgerReadable'
<1>1. ledger'[Len(ledger) + 1] = TornLine /\ Len(ledger) + 1 \in 1 .. Len(ledger')
  BY AppendedLedger
<1> QED
  BY <1>1 DEF LedgerReadable, TornLine

(* A step that sends nothing, and whose lines in the ledger end no order   *)
(* that may still be filled.                                               *)
LEMMA AllInSightKept ==
  ASSUME TypeOKLedger, SightInv, UNCHANGED contacts,
         \A id \in Ids : orders[id] \notin Live => orders'[id] \notin Live,
         \/ ledger' = ledger
         \/ ledger' = Append(ledger, TornLine)
         \/ \E l : /\ ledger' = Append(ledger, l)
                   /\ \A c \in Cycles, id \in Ids :
                        /\ <<c, id>> \in contacts
                        /\ orders[id] \in Live
                        /\ l.id = id
                        => l.type \notin Terminal
  PROVE  LedgerReadable' => AllInSight'
<1> SUFFICES ASSUME LedgerReadable', NEW c \in Cycles, NEW id \in Ids,
                    <<c, id>> \in contacts, orders'[id] \in Live
             PROVE  InSight(id)'
  BY DEF AllInSight
<1>1. LedgerReadable /\ ledger' # Append(ledger, TornLine)
  BY ReadableBefore, TornUnreadable
<1>2. orders[id] \in Live /\ InSight(id)
  BY <1>1 DEF SightInv, AllInSight
<1> QED
  BY <1>1, <1>2, SightKept

(* A refusal of the engine or of its adapter is logged as unknown. *)
LEMMA RefusalEndsNothing ==
  ASSUME NEW why, result' = NotSubmitted(why)
  PROVE  ResultType' \notin Terminal
BY DEF ResultType, EventType, NotSubmitted, Result, Terminal

(* Without early words, an answer that ends an order is about one that can *)
(* no longer be filled.                                                    *)
LEMMA AnswersEndInTime ==
  ASSUME "early_end" \notin Faults, NEW state \in Booked \cup {"refused"},
         NEW r \in SubmitAnswers(state), EventType(r.status, r.submitted) \in Terminal
  PROVE  state \notin Live
<1>1. CASE state = "open"
  <2>1. Words(state) = {"new", "held", "pending_replace"}
    BY <1>1 DEF Words
  <2>2. PICK word \in Words(state) : r = Result(TRUE, Status(word), "none")
    BY <1>1 DEF SubmitAnswers
  <2>3. Status(word) \in {"ACCEPTED", "UNKNOWN", "PENDING_SUBMIT"}
    BY <2>1 DEF Status
  <2> QED
    BY <2>2, <2>3 DEF Result, EventType, Terminal
<1>2. CASE state = "partial"
  <2>1. Words(state) = {"partially_filled", "pending_replace"}
    BY <1>2 DEF Words
  <2>2. PICK word \in Words(state) : r = Result(TRUE, Status(word), "none")
    BY <1>2 DEF SubmitAnswers
  <2>3. Status(word) \in {"PARTIALLY_FILLED", "PENDING_SUBMIT"}
    BY <2>1 DEF Status
  <2> QED
    BY <2>2, <2>3 DEF Result, EventType, Terminal
<1> QED
  BY <1>1, <1>2 DEF Booked, Live

LEMMA SightStep ==
  ASSUME HasLedger, "lost_reply" \notin Faults, "early_end" \notin Faults,
         "power" \notin Faults,
         TypeInv, Fresh, SightInv, [Next]_vars
  PROVE  SightInv'
<1> USE DEF ledgerVars, persisted, history, volatile
<1>1. TypeOKLedger /\ TypeOKBroker
  BY DEF TypeInv, TypeOK
<1>2. CASE BeginCycle \/ Observe \/ Abstain \/ Decide \/ Restart \/ MakePlan
           \/ PreflightPasses \/ GuardPasses
  <2>1. UNCHANGED <<ledger, contacts, orders>> /\ pc' \notin {"submit", "log"}
    BY <1>2 DEF BeginCycle, Observe, Abstain, Decide, Restart, MakePlan,
       PreflightPasses, GuardPasses, Goto
  <2> QED
    BY <1>1, <2>1, AllInSightKept DEF SightInv
<1>3. CASE ObserveFails \/ AnalysisRaises \/ PlanRaises \/ GuardRaises
           \/ ProveInMemory \/ ProvePersisted \/ ProveFails \/ Crash
  <2>1. UNCHANGED <<ledger, contacts, orders>> /\ pc' \notin {"submit", "log"}
    BY <1>3 DEF ObserveFails, AnalysisRaises, PlanRaises, GuardRaises, ProveInMemory,
       ProvePersisted, ProveFails, Return, Crash, Die
  <2> QED
    BY <1>1, <2>1, AllInSightKept DEF SightInv
<1>4. CASE Barrier \/ PreflightFails \/ GuardBlocks \/ BrokerRefuses
  <2>1. /\ UNCHANGED <<ledger, contacts, orders>> /\ pc' # "submit"
        /\ pc' = "log" => \E why : result' = NotSubmitted(why)
    BY <1>4 DEF Barrier, PreflightFails, GuardBlocks, BrokerRefuses, Refuse
  <2> QED
    BY <1>1, <2>1, AllInSightKept, RefusalEndsNothing DEF SightInv
<1>5. CASE RecordIntent
  <2>1. /\ ledger' = Append(ledger, Intent(decision.id))
        /\ UNCHANGED <<decision, contacts, orders>> /\ pc' = "submit"
    BY <1>5 DEF RecordIntent, AppendReturns, Goto
  <2>2. Intent(decision.id).type \notin Terminal /\ Intent(decision.id).id = decision.id
    BY DEF Intent, Event, Terminal
  <2>3. InSight(decision.id)'
    BY <1>1, <2>1, <2>2, SightBegins DEF InSight, EventsOf
  <2> QED
    BY <1>1, <2>1, <2>2, <2>3, AllInSightKept DEF SightInv
<1>6. CASE IntentFails
  <2>1. /\ UNCHANGED <<contacts, orders>> /\ pc' = "prove"
        /\ \/ ledger' = ledger
           \/ ledger' = Append(ledger, TornLine)
           \/ ledger' = Append(ledger, Intent(decision.id))
    BY <1>6 DEF IntentFails, AppendRaises, Refuse
  <2>2. Intent(decision.id).type \notin Terminal
    BY DEF Intent, Event, Terminal
  <2> QED
    BY <1>1, <2>1, <2>2, AllInSightKept DEF SightInv
<1>7. CASE Send
  <2>1. /\ pc = "submit" /\ pc' = "await"
        /\ contacts' = contacts \cup {<<cycle, decision.id>>}
        /\ orders' = [orders EXCEPT ![decision.id] = "travelling"]
        /\ UNCHANGED ledger
    BY <1>7 DEF Send, Goto, Post
  <2>2. ASSUME LedgerReadable', NEW c \in Cycles, NEW id \in Ids,
               <<c, id>> \in contacts', orders'[id] \in Live
        PROVE  InSight(id)'
    <3>1. LedgerReadable
      BY <1>1, <2>1, <2>2, ReadableBefore
    <3>2. CASE id = decision.id
      BY <1>1, <2>1, <3>1, <3>2, SightKept DEF SightInv
    <3>3. CASE id # decision.id
      <4>1. <<c, id>> \in contacts /\ orders[id] \in Live
        BY <1>1, <2>1, <2>2, <3>3 DEF TypeOKBroker
      <4> QED
        BY <1>1, <2>1, <3>1, <4>1, SightKept DEF SightInv, AllInSight
    <3> QED
      BY <3>2, <3>3
  <2> QED
    BY <2>1, <2>2 DEF SightInv, AllInSight
<1>8. CASE SendFails
  <2>1. /\ UNCHANGED <<ledger, decision, contacts, orders>> /\ pc' = "log"
        /\ \A c \in Cycles : <<c, decision.id>> \notin contacts
    BY <1>8 DEF SendFails, Goto, Fresh
  <2> QED
    BY <1>1, <2>1, AllInSightKept DEF SightInv
<1>9. CASE ReplyArrives \/ ReplyLost
  <2>1. UNCHANGED <<ledger, decision, contacts, orders>> /\ pc' = "log"
    BY <1>9 DEF ReplyArrives, ReplyLost, Goto
  <2>2. ResultType' \in Terminal => orders[decision.id] \notin Live
    <3>1. CASE ReplyArrives
      BY <3>1, AnswersEndInTime DEF ReplyArrives, ResultType
    <3>2. CASE ReplyLost
      BY <3>2 DEF ReplyLost, Live
    <3> QED
      BY <1>9, <3>1, <3>2
  <2> QED
    BY <1>1, <2>1, <2>2, AllInSightKept DEF SightInv
<1>10. CASE LogResult
  <2> DEFINE e == Event(decision.id, ResultType)
  <2>1. /\ UNCHANGED <<contacts, orders>> /\ pc = "log" /\ pc' = "prove"
        /\ \/ ledger' = ledger
           \/ ledger' = Append(ledger, TornLine)
           \/ ledger' = Append(ledger, e)
    BY <1>10 DEF LogResult, AppendReturns, AppendRaises, ResultType, Goto
  <2>2. \A c \in Cycles, id \in Ids :
          <<c, id>> \in contacts /\ orders[id] \in Live /\ e.id = id
            => e.type \notin Terminal
    BY <2>1 DEF SightInv, Event
  <2> QED
    BY <1>1, <2>1, <2>2, AllInSightKept DEF SightInv
<1>11. CASE Broker
  <2>1. UNCHANGED <<pc, decision, result, ledger, contacts>>
    BY <1>11 DEF Broker
  <2>2. \A id \in Ids : orders[id] \notin Live => orders'[id] \notin Live
    BY <1>1, <1>11, SettledStays DEF Broker
  <2>3. LedgerReadable' => AllInSight'
    BY <1>1, <2>1, <2>2, AllInSightKept
  <2>4. pc' = "submit" /\ LedgerReadable' => InSight(decision.id)'
    BY <2>1 DEF SightInv, InSight, EventsOf, LedgerReadable, TornLine
  <2>5. contacts \subseteq Cycles \X Ids
    BY DEF TypeInv, TypeOK
  <2>6. pc' = "log" /\ ResultType' \in Terminal =>
          \A c \in Cycles :
            <<c, decision.id>> \in contacts => orders'[decision.id] \notin Live
    BY <2>1, <2>2, <2>5 DEF SightInv, ResultType
  <2> QED
    BY <2>1, <2>3, <2>4, <2>6 DEF SightInv
<1>12. CASE OperatingSystem \/ UNCHANGED vars
  <2>1. UNCHANGED <<pc, decision, result, ledger, contacts, orders>>
    BY <1>12 DEF OperatingSystem, Writeback, vars
  <2>2. LedgerReadable' => AllInSight'
    BY <1>1, <2>1, AllInSightKept
  <2> QED
    BY <2>1, <2>2 DEF SightInv, InSight, EventsOf, LedgerReadable, TornLine, ResultType
<1>13. ~PowerCut
  BY DEF PowerCut
<1> QED
  BY <1>2, <1>3, <1>4, <1>5, <1>6, <1>7, <1>8, <1>9, <1>10, <1>11, <1>12, <1>13
     DEF Next, Step

LEMMA SightInit == Init => SightInv
BY DEF Init, SightInv, AllInSight

(* With a ledger, while the machine is not lost and the broker's answers   *)
(* arrive and announce no end that is yet to come, an order the broker     *)
(* holds or may still come to hold is among the orders the ledger calls    *)
(* non-terminal.                                                           *)
THEOREM OrdersStayVisible ==
  ASSUME HasLedger, "lost_reply" \notin Faults, "early_end" \notin Faults,
         "power" \notin Faults
  PROVE  Spec => []OpenOrdersVisible
<1>1. SubmissionInv => Fresh
  BY DEF SubmissionInv, Fresh
<1>2. Init => TypeInv /\ SubmissionInv /\ SightInv
  BY TypeInit, SubmissionInit, SightInit
<1>3. TypeInv /\ SubmissionInv /\ SightInv /\ [Next]_vars
        => TypeInv' /\ SubmissionInv' /\ SightInv'
  BY <1>1, TypeStep, SubmissionStep, SightStep
<1>4. TypeInv /\ SightInv => OpenOrdersVisible
  <2> SUFFICES ASSUME TypeInv, SightInv, LedgerReadable, NEW x \in contacts,
                      orders[x[2]] \in Live
               PROVE  x[2] \in NonTerminal
    BY DEF OpenOrdersVisible
  <2>1. PICK c \in Cycles, id \in Ids : x = <<c, id>>
    BY DEF TypeInv, TypeOK
  <2>2. InSight(id)
    BY <2>1 DEF SightInv, AllInSight
  <2> QED
    BY <2>1, <2>2, SightMeansOpen DEF TypeInv, TypeOK
<1> QED
  BY <1>2, <1>3, <1>4, PTL DEF Spec

------------------------------------------------------------------------------
(***************************************************************************)
(* What an order rests on when it leaves: a file of receipts that was read *)
(* two or three steps earlier, and a plan made from an observation that    *)
(* nothing has touched since.                                              *)
(***************************************************************************)
StoreInv == ProofRequired /\ pc \in {"guard", "intent", "submit"} => StoreReadable

LEMMA StoreStep ==
  ASSUME StoreInv, [Next]_vars
  PROVE  StoreInv'
<1> USE DEF persisted, history, volatile, StoreInv, StoreReadable, TornReceipt, Receipt,
            ProofRequired
<1>1. CASE BeginCycle \/ Observe \/ Abstain \/ Decide \/ Restart \/ MakePlan \/ Barrier
           \/ SendFails \/ Send \/ ReplyArrives \/ ReplyLost \/ LogResult
  BY <1>1 DEF BeginCycle, Observe, Abstain, Decide, Restart, MakePlan, Barrier,
     SendFails, Send, ReplyArrives, ReplyLost, LogResult, Goto, Refuse
<1>2. CASE ObserveFails \/ AnalysisRaises \/ PlanRaises \/ GuardRaises
           \/ ProveInMemory \/ ProvePersisted \/ ProveFails \/ Crash \/ PowerCut
  BY <1>2 DEF ObserveFails, AnalysisRaises, PlanRaises, GuardRaises, ProveInMemory,
     ProvePersisted, ProveFails, Return, Crash, PowerCut, Die
<1>3. CASE PreflightPasses \/ GuardPasses \/ RecordIntent
  BY <1>3 DEF PreflightPasses, GuardPasses, RecordIntent, Goto
<1>4. CASE PreflightFails \/ GuardBlocks \/ IntentFails \/ BrokerRefuses
  BY <1>4 DEF PreflightFails, GuardBlocks, IntentFails, BrokerRefuses, Refuse
<1>5. CASE Broker \/ OperatingSystem \/ UNCHANGED vars
  BY <1>5 DEF Broker, OperatingSystem, vars
<1> QED
  BY <1>1, <1>2, <1>3, <1>4, <1>5 DEF Next, Step

(* Only Send contacts the broker. *)
LEMMA OnlySendContacts ==
  ASSUME [Next]_vars, contacts' # contacts
  PROVE  Send
BY DEF Next, Step, vars, history, volatile, persisted, BeginCycle, ObserveFails, Observe,
   Abstain, AnalysisRaises, Decide, PlanRaises, MakePlan, Barrier, PreflightPasses,
   PreflightFails, GuardRaises, GuardBlocks, GuardPasses, RecordIntent, IntentFails,
   BrokerRefuses, SendFails, ReplyArrives, ReplyLost, LogResult, ProveInMemory,
   ProvePersisted, ProveFails, Crash, PowerCut, Die, Restart, Broker, OperatingSystem

(* Under PROOF_REQUIRED no request leaves while the receipt store cannot   *)
(* be read, under any fault.                                               *)
THEOREM ContactsNeedTheStore == Spec => NoContactWithoutProofStore
<1>1. Init => StoreInv
  BY DEF Init, StoreInv
<1>2. StoreInv /\ [Next]_vars => StoreInv'
  BY StoreStep
<1>3. StoreInv /\ [Next]_vars
        => [contacts' # contacts /\ ProofRequired => StoreReadable]_vars
  BY OnlySendContacts DEF StoreInv, Send, Goto
<1> QED
  BY <1>1, <1>2, <1>3, PTL DEF Spec, NoContactWithoutProofStore

Planned == {"barrier", "preflight", "guard", "intent", "submit"}

SoundInv == pc \in Planned => plan.action = proposal.action /\ Plannable

LEMMA SoundStep ==
  ASSUME "planner" \notin Faults, SoundInv, [Next]_vars
  PROVE  SoundInv'
<1> USE DEF persisted, history, volatile, SoundInv, Planned
<1>1. CASE BeginCycle \/ Observe \/ Abstain \/ Decide \/ Restart
           \/ SendFails \/ Send \/ ReplyArrives \/ ReplyLost \/ LogResult
  BY <1>1 DEF BeginCycle, Observe, Abstain, Decide, Restart,
     SendFails, Send, ReplyArrives, ReplyLost, LogResult, Goto
<1>2. CASE ObserveFails \/ AnalysisRaises \/ PlanRaises \/ GuardRaises
           \/ ProveInMemory \/ ProvePersisted \/ ProveFails \/ Crash \/ PowerCut
  BY <1>2 DEF ObserveFails, AnalysisRaises, PlanRaises, GuardRaises, ProveInMemory,
     ProvePersisted, ProveFails, Return, Crash, PowerCut, Die
<1>3. CASE MakePlan
  <2>1. pc' = "barrier" => plan' # NoPlan /\ plan' \in PlannerPlans
    BY <1>3 DEF MakePlan
  <2>2. /\ UNCHANGED <<obs, decision, proposal>>
        /\ pc' \in {"prove", "barrier"}
    BY <1>3 DEF MakePlan
  <2>3. pc' = "barrier" => plan'.action = proposal.action /\ Plannable
    BY <2>1 DEF PlannerPlans
  <2> QED
    BY <2>2, <2>3 DEF Plannable, CanSupport, QualityAccepted
<1>4. CASE Barrier \/ PreflightPasses \/ GuardPasses \/ RecordIntent
  <2>1. pc \in Planned /\ UNCHANGED <<obs, decision, proposal, plan>>
    BY <1>4 DEF Barrier, PreflightPasses, GuardPasses, RecordIntent, Goto
  <2> QED
    BY <2>1 DEF Plannable, CanSupport, QualityAccepted
<1>5. CASE PreflightFails \/ GuardBlocks \/ IntentFails \/ BrokerRefuses
  BY <1>5 DEF PreflightFails, GuardBlocks, IntentFails, BrokerRefuses, Refuse
<1>6. CASE Broker \/ OperatingSystem \/ UNCHANGED vars
  <2>1. UNCHANGED <<pc, obs, proposal, plan>>
    BY <1>6 DEF Broker, OperatingSystem, vars
  <2> QED
    BY <2>1 DEF Plannable, CanSupport, QualityAccepted
<1> QED
  BY <1>1, <1>2, <1>3, <1>4, <1>5, <1>6 DEF Next, Step

(* With the reference planner an order leaves only on an observation that  *)
(* supports an irreversible action, for a sized action that has a side.    *)
THEOREM OrdersRestOnSoundState ==
  ASSUME "planner" \notin Faults
  PROVE  Spec => OrderOnSoundState
<1> DEFINE sound == /\ obs.portfolio = "open" /\ obs.snapshot = "good"
                    /\ obs.quality \in IF Mode = "SIM" THEN DataQualities \ {"MISSING"}
                                       ELSE {"LIVE", "DELAYED"}
                    /\ proposal.sized /\ plan.action = proposal.action
<1>1. Init => TypeInv /\ SoundInv
  BY TypeInit DEF Init, SoundInv, Planned
<1>2. TypeInv /\ SoundInv /\ [Next]_vars => TypeInv' /\ SoundInv'
  BY TypeStep, SoundStep
<1>3. TypeInv /\ SoundInv /\ [Next]_vars => [contacts' # contacts => sound]_vars
  <2> SUFFICES ASSUME TypeInv, SoundInv, [Next]_vars, contacts' # contacts PROVE sound
    OBVIOUS
  <2>1. plan.action = proposal.action /\ Plannable
    BY OnlySendContacts DEF Send, Goto, SoundInv, Planned
  <2>2. obs.quality \in DataQualities
    BY DEF TypeInv, TypeOK, ObservationSpace
  <2> QED
    BY <2>1, <2>2 DEF Plannable, CanSupport, QualityAccepted
<1> QED
  BY <1>1, <1>2, <1>3, PTL DEF Spec, OrderOnSoundState
==============================================================================
