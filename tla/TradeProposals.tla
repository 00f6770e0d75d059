--------------------------- MODULE TradeProposals ---------------------------
(***************************************************************************)
(* From what the ports find to what is submitted to X-108 and planned:     *)
(* domain/proposal.py, domain/types.py, domain/state.py, the choices of    *)
(* execution/binder/engine.py and execution/binder/planner.py.             *)
(* Identifiers are numbers in the order of the texts they stand for; 0 is  *)
(* the empty one, which the constructors replace.                          *)
(***************************************************************************)
EXTENDS AlpacaReadings, SequencesExt

Irreversible == {"BUY", "SELL", "ADD", "REDUCE", "CLOSE", "MODIFY_ORDER", "CANCEL_ORDER"}
Actions == Irreversible \cup {"KEEP", "WAIT", "NO_ACTION"}

SideOf(action) ==
  CASE action \in {"BUY", "ADD"} -> "BUY"
    [] action \in {"SELL", "REDUCE", "CLOSE"} -> "SELL"
    [] OTHER -> "none"

------------------------------------------------------------------------------
(* Opportunities and strategy candidates.  A price that may be missing is  *)
(* Nothing or <<price>>.                                                   *)
Opportunities ==
  [symbol : Nat, status : {"VALID", "CONFLICTED", "WEAK", "DEGRADED"},
   score : Int, id : Nat]

OrderTypes == {"MARKET", "LIMIT", "STOP", "STOP_LIMIT", "TRAILING_STOP"}
StrategyCandidates ==
  [id : Nat, action : Actions,
   status : {"VALID", "CONFLICTED", "WEAK", "INCOMPATIBLE"}, confidence : Int,
   order_type : OrderTypes, stop_loss : Seq(Int), take_profit : Seq(Int)]

Ranked(statuses, status) ==
  IF \E i \in DOMAIN statuses : statuses[i] = status
  THEN CHOOSE i \in DOMAIN statuses : statuses[i] = status
  ELSE 9

OpportunityRank(o) == Ranked(<<"VALID", "CONFLICTED", "WEAK", "DEGRADED">>, o.status)
StrategyRank(c) == Ranked(<<"VALID", "CONFLICTED", "WEAK", "INCOMPATIBLE">>, c.status)

(* The identifier of a candidate that its port left unnamed says its       *)
(* symbol, its action and where it comes from, and nothing else of it.     *)
StrategyId(c, names) == IF c.id # 0 THEN c.id ELSE names[c.action]

Earlier(key1, key2) ==
  \E i \in DOMAIN key1 :
    key1[i] < key2[i] /\ \A j \in 1 .. i - 1 : key1[j] = key2[j]

(* sorted(...)[0], of the keys in the order of the port: the place of the  *)
(* smallest key, the first of those that share it.                         *)
FirstBy(keys) ==
  CHOOSE i \in DOMAIN keys :
    /\ \A j \in DOMAIN keys : ~ Earlier(keys[j], keys[i])
    /\ \A j \in 1 .. i - 1 : Earlier(keys[i], keys[j])

OpportunityKey(o) == <<OpportunityRank(o), -o.score, o.symbol, o.id>>
CandidateKeyUnnamed(c, names) == <<StrategyRank(c), -c.confidence>>
CandidateKey(c, names) == <<StrategyRank(c), -c.confidence, StrategyId(c, names)>>

OpportunityKeys(found) == [i \in DOMAIN found |-> OpportunityKey(found[i])]
CandidateKeys(built, names) == [i \in DOMAIN built |-> CandidateKey(built[i], names)]

(* The symbol of the best opportunity, else the first one followed if      *)
(* nothing discovers.                                                      *)
SelectSymbol(found, discovers, symbols) ==
  IF found # <<>> THEN <<found[FirstBy(OpportunityKeys(found))].symbol>>
  ELSE IF discovers \/ symbols = <<>> THEN Nothing
  ELSE <<symbols[1]>>

(* The opportunity that the proposal carries: the first one found for the  *)
(* symbol, which need not be the one that made the symbol be selected.     *)
AttachedOpportunity(found, symbol) ==
  LET same == {i \in DOMAIN found : found[i].symbol = symbol}
  IN IF same = {} THEN Nothing ELSE <<found[Min(same)]>>

SelectStrategy(built, names) ==
  IF built = <<>> THEN Nothing
  ELSE <<built[FirstBy(CandidateKeys(built, names))]>>

(* SizingDecision.__post_init__ *)
SizingStatus(quantity, requested) ==
  CASE quantity <= 0 /\ requested <= 0 -> "ZERO"
    [] quantity <= 0 /\ requested > 0 -> "REJECTED"
    [] quantity > 0 /\ quantity < requested -> "REDUCED"
    [] OTHER -> "VALID"

Sized(quantity, requested) ==
  [quantity |-> quantity, requested |-> requested,
   status |-> SizingStatus(quantity, requested)]

------------------------------------------------------------------------------
(* The observed state: state.market[s] is Nothing or <<snapshot>>.         *)
QualityIsAcceptable(mode, quality) ==
  IF mode = "SIM" THEN quality # "MISSING" ELSE quality \in {"LIVE", "DELAYED"}

CanSupport(state, symbol, mode) ==
  /\ state.portfolio # Nothing
  /\ ~ state.portfolio[1].account.trading_blocked
  /\ state.market[symbol] # Nothing
  /\ LET snapshot == state.market[symbol][1]
     IN /\ snapshot.tradable
        /\ snapshot.market_open # "closed"
        /\ snapshot.last_price > 0
        /\ QualityIsAcceptable(mode, snapshot.provenance.quality)

------------------------------------------------------------------------------
(* ExecutionPlanner.plan: Nothing, or the plan.  A limit follows the last  *)
(* price, one unit worse for each Slippage of it.                          *)
LimitPrice(order_type, price, action, slip) ==
  IF order_type \notin {"LIMIT", "STOP_LIMIT"} THEN Nothing
  ELSE CASE SideOf(action) = "BUY" -> <<price + slip>>
         [] SideOf(action) = "SELL" -> <<price - slip>>
         [] OTHER -> <<price>>

Plan(proposal, authority, state, mode, decision_id) ==
  IF \/ authority # "ACT"
     \/ proposal.action \notin Irreversible
     \/ proposal.sizing.quantity <= 0
     \/ ~ CanSupport(state, proposal.symbol, mode)
     \/ SideOf(proposal.action) = "none"
  THEN Nothing
  ELSE LET strategy == proposal.strategy
           type == IF strategy = Nothing THEN "MARKET" ELSE strategy[1].order_type
           price == state.market[proposal.symbol][1].last_price
       IN <<[decision_id |-> decision_id, symbol |-> proposal.symbol,
             action |-> proposal.action, side |-> SideOf(proposal.action),
             quantity |-> proposal.sizing.quantity, order_type |-> type,
             limit_price |-> LimitPrice(type, price, proposal.action, 1),
             stop_price |->
               IF strategy # Nothing /\ type \in {"STOP", "STOP_LIMIT"}
               THEN strategy[1].stop_loss ELSE Nothing,
             take_profit |-> IF strategy = Nothing THEN Nothing ELSE strategy[1].take_profit,
             stop_loss |-> IF strategy = Nothing THEN Nothing ELSE strategy[1].stop_loss,
             client_order_id |-> decision_id,
             reduce_only |-> proposal.action \in {"REDUCE", "CLOSE"}]>>

(* ExecutionPlan.__post_init__ raises for any other plan, and the cycle    *)
(* with it.                                                                *)
PlanStands(plan) ==
  /\ plan.quantity > 0
  /\ plan.order_type \in {"LIMIT", "STOP_LIMIT"} => plan.limit_price # Nothing
  /\ plan.order_type \in {"STOP", "STOP_LIMIT"} => plan.stop_price # Nothing
  /\ plan.order_type # "TRAILING_STOP"
==============================================================================
