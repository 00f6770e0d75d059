----------------------------- MODULE CycleEngine -----------------------------
(***************************************************************************)
(* The decision cycle of execution/binder/engine.py, one action for each   *)
(* step of run_cycle that reads or writes something outside the engine,    *)
(* composed with the order ledger, the receipt store, the governance       *)
(* bridge and the broker.  The process may die between any two steps.      *)
(***************************************************************************)
EXTENDS Integers, OrderLedger, ReceiptStore, BrokerPort, GovernanceBridge

CONSTANTS
  Policy,          \* proof_policy: "BEST_EFFORT" or "REQUIRED"
  HasProof,        \* whether a proof port was injected
  HasLedger,       \* whether an order ledger was injected
  Mode,            \* "SIM", "PAPER" or "LIVE"
  Observations,    \* what observing the market and the account may show
  ProposedActions  \* the actions the proposals of this instance name

Portfolios == {"unknown", "blocked", "open"}
Snapshots == {"none", "untradable", "closed", "unpriced", "good"}
DataQualities == {"LIVE", "DELAYED", "CACHED", "SYNTHETIC", "STALE", "MISSING"}
ObservationSpace ==
  [portfolio : Portfolios, snapshot : Snapshots, quality : DataQualities]

ActionKinds == {
  "BUY", "SELL", "ADD", "REDUCE", "CLOSE", "KEEP",
  "MODIFY_ORDER", "CANCEL_ORDER", "WAIT", "NO_ACTION" }

ASSUME EngineAssumption ==
  /\ Policy \in {"BEST_EFFORT", "REQUIRED"}
  /\ HasProof \in BOOLEAN
  /\ HasLedger \in BOOLEAN
  /\ Mode \in {"SIM", "PAPER", "LIVE"}
  /\ Observations \subseteq ObservationSpace
  /\ ProposedActions \subseteq ActionKinds

VARIABLES
  pc,        \* the step of run_cycle about to be taken; "idle", "down"
  cycle,     \* number of cycle_ids drawn so far: the current cycle
  count,     \* cycle_count: cycles run since this engine was built
  last,      \* _last_receipt_hash
  obs,       \* the observed state, as far as it decides anything
  decision,  \* the Decision of the current cycle
  proposal,  \* its ActionProposal
  plan,      \* its ExecutionPlan
  result     \* its ExecutionResult

(* History: what no component stores, but the properties speak of. *)
VARIABLES
  granted,   \* <<cycle, id>>: the kernel answered ACT for this decision
  contacts,  \* <<cycle, id>>: a POST left for the broker
  outcome    \* how each cycle returned: proof_outcome, ERROR or RAISED

volatile == <<obs, decision, proposal, plan, result>>
persisted == <<ledgerVars, receipts>>
history == <<granted, contacts, outcome>>
vars == <<pc, cycle, count, last, volatile, persisted, orders, history>>

------------------------------------------------------------------------------
(* domain/types.py *)
Authorities == {"ACT", "HOLD", "BLOCK"}
AuthorizesUnlessBlocked(auth) == auth # "BLOCK"
Authorizes(auth) == auth = "ACT"

Irreversible(action) == action \notin {"KEEP", "WAIT", "NO_ACTION"}
HasSide(action) == action \in {"BUY", "SELL", "ADD", "REDUCE", "CLOSE"}

NoObservation == [portfolio |-> "unknown", snapshot |-> "none", quality |-> "MISSING"]
NoDecision == [id |-> 0, auth |-> "HOLD"]
NoProposal == [action |-> "NO_ACTION", sized |-> FALSE]
NoPlan == [action |-> "none", auth |-> "HOLD"]
NoResult == Result(FALSE, "none", "none")

(* ExecutionPlan.is_authorized *)
PlanAuthorized(p) == Irreversible(p.action) => Authorizes(p.auth)

(* AlpacaBroker._require_authority *)
BrokerAuthorizes(p) == Irreversible(p.action) /\ Authorizes(p.auth)

(* TradingDomainState.can_support_irreversible_action *)
QualityAccepted(quality) ==
  IF Mode = "SIM" THEN quality # "MISSING" ELSE quality \in {"LIVE", "DELAYED"}

CanSupportAnyQuality(o) == o.portfolio = "open" /\ o.snapshot = "good"

CanSupport(o) ==
  o.portfolio = "open" /\ o.snapshot = "good" /\ QualityAccepted(o.quality)

(* ExecutionPlanner.plan: the conditions under which it builds a plan. *)
Plannable ==
  /\ Irreversible(proposal.action)
  /\ proposal.sized
  /\ CanSupport(obs)
  /\ HasSide(proposal.action)

PlannerPlans ==
  IF Plannable THEN {[action |-> proposal.action, auth |-> decision.auth]}
  ELSE {NoPlan}

(* A PlannerPort that was wired by mistake may return anything. *)
AnyPlan == [action : ProposedActions, auth : Authorities]

------------------------------------------------------------------------------
Forget ==
  /\ obs' = NoObservation
  /\ decision' = NoDecision
  /\ proposal' = NoProposal
  /\ plan' = NoPlan
  /\ result' = NoResult

(* run_cycle returns, or raises, and its local variables are gone. *)
Return(how) ==
  /\ pc' = "idle"
  /\ outcome' = [outcome EXCEPT ![cycle] = how]
  /\ Forget

Refuse(why, next) ==
  /\ result' = NotSubmitted(why)
  /\ pc' = next

Goto(from, next) == pc = from /\ pc' = next

(* run_cycle, up to and including _observe, _discover and _select_symbol. *)
BeginCycle ==
  /\ Goto("idle", "observe")
  /\ cycle < MaxCycles
  /\ cycle' = cycle + 1
  /\ count' = count + 1
  /\ UNCHANGED <<last, volatile, persisted, orders, history>>

ObserveFails ==
  /\ pc = "observe"
  /\ Return("ERROR")
  /\ UNCHANGED <<cycle, count, last, persisted, orders, granted, contacts>>

Observe ==
  /\ Goto("observe", "decide")
  /\ obs' \in {o \in Observations : o.snapshot # "none"}
  /\ UNCHANGED <<cycle, count, last, decision, proposal, plan, result,
                 persisted, orders, history>>

Abstain ==
  /\ Goto("observe", "prove")
  /\ obs' \in {o \in Observations : o.snapshot = "none"}
  /\ decision' = [id |-> AbstentionId(count), auth |-> "HOLD"]
  /\ UNCHANGED <<cycle, count, last, proposal, plan, result,
                 persisted, orders, history>>

(* Agents, aggregation, sizing and the bridge's local signal are not       *)
(* guarded: what they raise leaves run_cycle.                              *)
AnalysisRaises ==
  /\ pc = "decide"
  /\ Return("RAISED")
  /\ UNCHANGED <<cycle, count, last, persisted, orders, granted, contacts>>

AuthorityIds == IF "replay" \in Faults THEN 1 .. cycle ELSE {cycle}

Decide ==
  /\ Goto("decide", "plan")
  /\ \E reply \in Replies, id \in AuthorityIds :
       /\ decision' = [id |-> id, auth |-> Verdict(reply)]
       /\ granted' = IF KernelSaysAct(reply)
                     THEN granted \cup {<<cycle, id>>} ELSE granted
  /\ proposal' \in [action : ProposedActions, sized : BOOLEAN]
  /\ UNCHANGED <<cycle, count, last, obs, plan, result, persisted, orders,
                 contacts, outcome>>

------------------------------------------------------------------------------
(* _plan *)
PlanRaises ==
  /\ pc = "plan"
  /\ Authorizes(decision.auth)
  /\ Return("RAISED")
  /\ UNCHANGED <<cycle, count, last, persisted, orders, granted, contacts>>

MakePlan ==
  /\ pc = "plan"
  /\ \/ /\ ~Authorizes(decision.auth)
        /\ plan' = NoPlan
     \/ /\ Authorizes(decision.auth)
        /\ plan' \in PlannerPlans
     \/ /\ Authorizes(decision.auth) /\ "planner" \in Faults
        /\ plan' \in AnyPlan
  /\ pc' = IF plan' = NoPlan THEN "prove" ELSE "barrier"
  /\ UNCHANGED <<cycle, count, last, obs, decision, proposal, result,
                 persisted, orders, history>>

(* _execute, its second governance barrier *)
Barrier ==
  /\ pc = "barrier"
  /\ \/ /\ Authorizes(decision.auth) /\ PlanAuthorized(plan)
        /\ pc' = "preflight"
        /\ UNCHANGED result
     \/ /\ ~(Authorizes(decision.auth) /\ PlanAuthorized(plan))
        /\ Refuse("authority", "log")
  /\ UNCHANGED <<cycle, count, last, obs, decision, proposal, plan,
                 persisted, orders, history>>

(* _execute, last_hash() called before any irreversible step *)
ProofRequired == Policy = "REQUIRED" /\ HasProof

PreflightSkipped ==
  /\ pc = "preflight"
  /\ pc' = IF HasLedger THEN "guard" ELSE "submit"
  /\ UNCHANGED <<cycle, count, last, volatile, persisted, orders, history>>

PreflightPasses ==
  /\ pc = "preflight"
  /\ ProofRequired => StoreReadable
  /\ pc' = IF HasLedger THEN "guard" ELSE "submit"
  /\ UNCHANGED <<cycle, count, last, volatile, persisted, orders, history>>

PreflightFails ==
  /\ pc = "preflight"
  /\ ProofRequired
  /\ ~StoreReadable \/ "receipt_io" \in Faults
  /\ Refuse("proof", "log")
  /\ UNCHANGED <<cycle, count, last, obs, decision, proposal, plan,
                 persisted, orders, history>>

(* _execute, submission_blocker: outside any try block *)
GuardRaises ==
  /\ pc = "guard"
  /\ ~LedgerReadable \/ "ledger_io" \in Faults
  /\ Return("RAISED")
  /\ UNCHANGED <<cycle, count, last, persisted, orders, granted, contacts>>

GuardBlocks ==
  /\ pc = "guard"
  /\ LedgerReadable
  /\ Blocked(decision.id)
  /\ Refuse("duplicate", "prove")
  /\ UNCHANGED <<cycle, count, last, obs, decision, proposal, plan,
                 persisted, orders, history>>

GuardPasses ==
  /\ Goto("guard", "intent")
  /\ LedgerReadable
  /\ ~Blocked(decision.id)
  /\ UNCHANGED <<cycle, count, last, volatile, persisted, orders, history>>

(* _execute, the intention is written before the broker is contacted *)
Intent(id) == Event(id, "SUBMISSION_INTENT_RECORDED")

RecordIntent ==
  /\ Goto("intent", "submit")
  /\ AppendReturns(Intent(decision.id))
  /\ UNCHANGED <<cycle, count, last, volatile, receipts, orders, history>>

IntentFailureIgnored ==
  /\ Goto("intent", "submit")
  /\ AppendRaises(Intent(decision.id))
  /\ UNCHANGED <<cycle, count, last, volatile, receipts, orders, history>>

IntentFails ==
  /\ pc = "intent"
  /\ AppendRaises(Intent(decision.id))
  /\ Refuse("intent", "prove")
  /\ UNCHANGED <<cycle, count, last, obs, decision, proposal, plan,
                 receipts, orders, history>>

------------------------------------------------------------------------------
(* _execute, broker.submit: refused by the adapter, failing before the     *)
(* request leaves, or on its way.                                          *)
BrokerRefuses ==
  /\ pc = "submit"
  /\ ~BrokerAuthorizes(plan)
  /\ Refuse("authority", "log")
  /\ UNCHANGED <<cycle, count, last, obs, decision, proposal, plan,
                 persisted, orders, history>>

SendFails ==
  /\ Goto("submit", "log")
  /\ BrokerAuthorizes(plan)
  /\ result' \in Unanswered
  /\ UNCHANGED <<cycle, count, last, obs, decision, proposal, plan,
                 persisted, orders, history>>

Send ==
  /\ Goto("submit", "await")
  /\ BrokerAuthorizes(plan)
  /\ Post(decision.id)
  /\ contacts' = contacts \cup {<<cycle, decision.id>>}
  /\ UNCHANGED <<cycle, count, last, volatile, persisted, granted, outcome>>

ReplyArrives ==
  /\ Goto("await", "log")
  /\ orders[decision.id] \in Booked \cup {"refused"}
  /\ result' \in SubmitAnswers(orders[decision.id])
  /\ UNCHANGED <<cycle, count, last, obs, decision, proposal, plan,
                 persisted, orders, history>>

ReplyLostWithoutTimeout ==
  /\ Goto("await", "log")
  /\ orders[decision.id] = "lost"
  /\ result' \in Unanswered
  /\ UNCHANGED <<cycle, count, last, obs, decision, proposal, plan,
                 persisted, orders, history>>

ReplyLost ==
  /\ Goto("await", "log")
  /\ orders[decision.id] = "lost" \/ "lost_reply" \in Faults
  /\ result' \in Unanswered
  /\ UNCHANGED <<cycle, count, last, obs, decision, proposal, plan,
                 persisted, orders, history>>

(* _record_ledger_result: whatever append raises is noted and dropped *)
LogResult ==
  /\ Goto("log", "prove")
  /\ LET event == Event(decision.id, EventType(result.status, result.submitted))
     IN IF HasLedger THEN AppendReturns(event) \/ AppendRaises(event)
        ELSE UNCHANGED ledgerVars
  /\ UNCHANGED <<cycle, count, last, volatile, receipts, orders, history>>

------------------------------------------------------------------------------
(* _prove *)
CurrentReceiptOfPlan == Receipt(cycle, decision.id, last, plan # NoPlan)
CurrentReceipt == Receipt(cycle, decision.id, last, result.submitted)

ProveInMemoryAsProven ==
  /\ pc = "prove"
  /\ ~HasProof
  /\ last' = cycle
  /\ Return("PROVEN")
  /\ UNCHANGED <<cycle, count, persisted, orders, granted, contacts>>

ProveInMemory ==
  /\ pc = "prove"
  /\ ~HasProof
  /\ last' = cycle
  /\ Return("NOT_APPLICABLE")
  /\ UNCHANGED <<cycle, count, persisted, orders, granted, contacts>>

ProvePersisted ==
  /\ pc = "prove"
  /\ HasProof
  /\ RecordReturns(CurrentReceipt)
  /\ last' = cycle
  /\ Return("PROVEN")
  /\ UNCHANGED <<cycle, count, ledgerVars, orders, granted, contacts>>

UnprovenAlwaysAbstention(r) == "ABSTENTION_PROOF_INCOMPLETE"

Unproven(r) ==
  IF r.submitted THEN "EXECUTION_SUCCEEDED_PROOF_INCOMPLETE"
  ELSE "ABSTENTION_PROOF_INCOMPLETE"

PointerAfterFailure(pointer) == pointer

ProveFails ==
  /\ pc = "prove"
  /\ HasProof
  /\ RecordRaises(CurrentReceipt)
  /\ last' = PointerAfterFailure(last)
  /\ Return(Unproven(result))
  /\ UNCHANGED <<cycle, count, ledgerVars, orders, granted, contacts>>

------------------------------------------------------------------------------
(* The process dies; what was in memory is gone. *)
Die ==
  /\ pc # "down"
  /\ pc' = "down"
  /\ last' = Genesis
  /\ count' = 0
  /\ Forget
  /\ UNCHANGED <<cycle, receipts, orders, history>>

Crash == "crash" \in Faults /\ Die /\ UNCHANGED ledgerVars

PowerCut == "power" \in Faults /\ Die /\ LosePower

(* CycleEngine.__init__ over the same files; last_hash() may raise. *)
PointerAtStartForgotten == Genesis
PointerAtStart == IF HasProof THEN LastHash ELSE Genesis

Restart ==
  /\ Goto("down", "idle")
  /\ HasProof => StoreReadable
  /\ last' = PointerAtStart
  /\ UNCHANGED <<cycle, count, volatile, persisted, orders, history>>

Broker ==
  /\ \E id \in Ids : BrokerMoves(id)
  /\ UNCHANGED <<pc, cycle, count, last, volatile, persisted, history>>

OperatingSystem ==
  /\ Writeback
  /\ UNCHANGED <<pc, cycle, count, last, volatile, receipts, orders, history>>

------------------------------------------------------------------------------
Init ==
  /\ pc = "idle"
  /\ cycle = 0
  /\ count = 0
  /\ last = Genesis
  /\ obs = NoObservation
  /\ decision = NoDecision
  /\ proposal = NoProposal
  /\ plan = NoPlan
  /\ result = NoResult
  /\ granted = {}
  /\ contacts = {}
  /\ outcome = [c \in Cycles |-> "none"]
  /\ InitLedger
  /\ InitStore
  /\ InitBroker

(* The steps of a running cycle, as opposed to its start and to the world. *)
Step ==
  \/ ObserveFails \/ Observe \/ Abstain
  \/ AnalysisRaises \/ Decide
  \/ PlanRaises \/ MakePlan \/ Barrier
  \/ PreflightPasses \/ PreflightFails
  \/ GuardRaises \/ GuardBlocks \/ GuardPasses
  \/ RecordIntent \/ IntentFails
  \/ BrokerRefuses \/ SendFails \/ Send
  \/ ReplyArrives \/ ReplyLost
  \/ LogResult
  \/ ProveInMemory \/ ProvePersisted \/ ProveFails

Next ==
  \/ BeginCycle
  \/ Step
  \/ Crash \/ PowerCut \/ Restart
  \/ Broker \/ OperatingSystem

Spec == Init /\ [][Next]_vars

(* A running cycle is one synchronous call: while the process lives its    *)
(* next step is taken, the HTTP client giving up at its timeout.           *)
FairSpec == Spec /\ WF_vars(Step)
==============================================================================
