------------------------------ MODULE TradeDesk ------------------------------
(***************************************************************************)
(* One engine, its broker and its monitor, at the grain of the provider's  *)
(* calls: run_cycle of execution/binder/engine.py from the observation to  *)
(* the submission, then the poll of execution/binder/bus.py after it, or a *)
(* poll of its own (MONITOR).  Orders move at the broker between any two   *)
(* calls.  What proves a cycle is left to CycleEngine, the commands and    *)
(* threads of the bus to RuntimeBus.                                       *)
(***************************************************************************)
EXTENDS PositionReviews, ExecutionMonitor

CONSTANTS
  Symbols,       \* 1 .. n: the symbols followed, in alphabetical order
  Mode,          \* "SIM", "PAPER" or "LIVE"
  Held,          \* symbol -> what is held of it at the start
  Entry,         \* the average entry price of every position
  MarketReads,   \* what a reading of the market may give, per symbol
  Marks,         \* what a reading of the positions may give, per symbol
  AccountReadings, \* what a reading of the account may give
  Discoveries,   \* what the discovery port may find
  Candidates,    \* what the strategy port may build
  DefaultIds,    \* action -> the identifier of a candidate without a name
  Sizes          \* what the sizing port may decide

ASSUME TradeDeskAssumption ==
  /\ Symbols \subseteq Nat /\ IsFiniteSet(Symbols)
  /\ Held \in [Symbols -> Int]
  /\ Entry \in Nat \ {0}

(* What the ports may answer.  A discovered symbol need not be followed.   *)
ASSUME PortsAssumption ==
  /\ \A marks \in Marks, s \in Symbols : marks[s].price \in Int
  /\ Discoveries \subseteq Seq(Opportunities)
  /\ Candidates \subseteq Seq(StrategyCandidates)
  /\ DefaultIds \in [Actions -> Nat]
  /\ \A size \in Sizes : size.quantity \in Int

VARIABLES
  sent,      \* order -> the payload the broker accepted
  filled,    \* order -> how much of it is done
  cycle,     \* the cycles begun; also the instant of everything they read
  pc,        \* the next call
  purpose,   \* what the portfolio is read for: "cycle" or "review"
  stepping,  \* whether the poll belongs to a cycle
  reading,   \* the blocks of the portfolio read so far
  state,     \* the state that the cycle observed
  choice,    \* what the ports made of it, and what was chosen; then forgotten
  plan,      \* the plan to submit, or Nothing
  asking,    \* the followed orders that the poll has yet to ask about
  report     \* the report of the last poll, or of the one under way

deskVars == <<sent, filled, cycle, pc, purpose, stepping, reading, state,
              choice, plan, asking, report>>
vars == <<raw, tracked, deskVars>>

NoOrder == [symbol |-> 0, qty |-> 0, side |-> "none", type |-> "none",
            client_order_id |-> 0]
Sent == {o \in Orders : sent[o] # NoOrder}
IsOpen(o) == raw[o] \notin Over \cup {"none"}

Signed(o) == IF sent[o].side = "buy" THEN 1 ELSE -1
OrdersOn(s) == {o \in Sent : sent[o].symbol = s}

(* What the broker really holds. *)
Book(s) ==
  Held[s] + SumFunctionOnSet([o \in Orders |-> Signed(o) * filled[o]], OrdersOn(s))

NoReading == [account |-> Nothing, positions |-> {}]
NoChoice == [found |-> <<>>, built |-> <<>>, symbol |-> Nothing,
             strategy |-> Nothing, opportunity |-> Nothing]
NoReport == [orders |-> {}, reviews |-> {}, proposals |-> {}, basis |-> Nothing,
             degraded |-> 0]
Observed(market, portfolio, found, degraded) ==
  [market |-> market, portfolio |-> portfolio, opportunities |-> found,
   degraded |-> degraded]
Unobserved == Observed([s \in Symbols |-> Nothing], Nothing, <<>>, {})

------------------------------------------------------------------------------
(* The broker works on an order: nothing of it is taken back. *)
Works(o) ==
  /\ BrokerMoves(o)
  /\ \E done \in filled[o] .. sent[o].qty :
       /\ raw'[o] = "filled" => done = sent[o].qty
       /\ raw'[o] = "partially_filled" => filled[o] < done /\ done < sent[o].qty
       /\ raw'[o] \in {"canceled", "rejected", "expired"} => done = filled[o]
       /\ filled' = [filled EXCEPT ![o] = done]
  /\ UNCHANGED <<tracked, sent, cycle, pc, purpose, stepping, reading, state,
                 choice, plan, asking, report>>

------------------------------------------------------------------------------
(* The market data port is Alpaca's, or another one that says itself what  *)
(* its data is worth.                                                      *)
SnapshotOf(read, at) ==
  IF ~ SnapshotReads(read) THEN Nothing
  ELSE LET snapshot == SnapshotFrom(read, at)
       IN IF read.quality = "unsaid" THEN <<snapshot>>
          ELSE <<[snapshot EXCEPT !.provenance = Provenance(at, read.quality, {})]>>

(* _observe: the market first, then the portfolio in three calls.          *)
StartCycle(read) ==
  /\ pc = "idle"
  /\ cycle < MaxCalls
  /\ cycle' = cycle + 1
  /\ LET market == [s \in Symbols |-> SnapshotOf(read[s], cycle')]
     IN state' = Observed(market, Nothing, <<>>,
                          {s \in Symbols : market[s] = Nothing})
  /\ pc' = "account"
  /\ purpose' = "cycle"
  /\ stepping' = TRUE
  /\ reading' = NoReading
  /\ report' = NoReport
  /\ UNCHANGED <<raw, tracked, sent, filled, choice, plan, asking>>

ReadAccount(payload) ==
  /\ pc = "account"
  /\ AccountReads(payload)
  /\ reading' = [account |-> <<AccountFrom(payload, cycle)>>, positions |-> {}]
  /\ pc' = "positions"
  /\ UNCHANGED <<raw, tracked, sent, filled, cycle, purpose, stepping, state,
                 choice, plan, asking, report>>

PositionPayload(s, mark) ==
  [symbol |-> s, qty |-> Book(s), side |-> IF Book(s) < 0 THEN "short" ELSE "long",
   avg_entry_price |-> Entry, current_price |-> <<mark.price>>,
   market_value |-> IF mark.known THEN <<mark.price * Book(s)>> ELSE Nothing,
   unrealized_pl |-> IF mark.known THEN <<(mark.price - Entry) * Book(s)>> ELSE Nothing]

ReadPositions(marks) ==
  /\ pc = "positions"
  /\ reading' = [reading EXCEPT !.positions =
       {PositionFrom(PositionPayload(s, marks[s]), cycle) :
          s \in {s \in Symbols : Book(s) # 0}}]
  /\ pc' = "open_orders"
  /\ UNCHANGED <<raw, tracked, sent, filled, cycle, purpose, stepping, state,
                 choice, plan, asking, report>>

StatusPayload(o) ==
  [id |-> o, symbol |-> sent[o].symbol, side |-> sent[o].side, qty |-> sent[o].qty,
   filled_qty |-> filled[o], status |-> raw[o]]

WithPortfolio(portfolio) ==
  IF purpose = "cycle"
  THEN /\ state' = [state EXCEPT !.portfolio = <<portfolio>>]
       /\ pc' = "choose"
       /\ UNCHANGED report
  ELSE /\ report' = [report EXCEPT !.basis = <<portfolio>>]
       /\ pc' = "review"
       /\ UNCHANGED state

ReadOpenOrders ==
  /\ pc = "open_orders"
  /\ WithPortfolio(PortfolioFrom(reading.account[1], reading.positions,
       {OrderFrom(StatusPayload(o), cycle) : o \in {o \in Sent : IsOpen(o)}}))
  /\ reading' = NoReading
  /\ UNCHANGED <<raw, tracked, sent, filled, cycle, purpose, stepping, choice,
                 plan, asking>>

(* The cycle goes on without a portfolio, the poll ends without reviews.   *)
WithoutPortfolio ==
  /\ reading' = NoReading
  /\ IF purpose = "cycle"
     THEN /\ pc' = "choose"
          /\ state' = [state EXCEPT !.degraded = @ \cup {0}]
          /\ UNCHANGED report
     ELSE /\ pc' = "idle"
          /\ report' = [report EXCEPT !.degraded = @ + 1]
          /\ UNCHANGED state
  /\ UNCHANGED <<raw, tracked, sent, filled, cycle, purpose, stepping, choice,
                 plan, asking>>

(* BrokerUnavailable: no answer, or no number where one is required.       *)
PortfolioUnavailable ==
  /\ pc \in {"account", "positions", "open_orders"}
  /\ "unavailable" \in Faults
  /\ WithoutPortfolio

AccountUnreadable(payload) ==
  /\ pc = "account"
  /\ ~ AccountReads(payload)
  /\ WithoutPortfolio

------------------------------------------------------------------------------
BeginPoll(step) ==
  /\ pc' = "poll"
  /\ purpose' = "review"
  /\ stepping' = step
  /\ asking' = {o \in Orders : tracked'[o] # "untracked"}

(* Discover, select, build.  Without a symbol, or without its snapshot,    *)
(* the cycle abstains; a symbol that is not followed has none.             *)
Choose(found, discovers, built) ==
  LET symbol == SelectSymbol(found, discovers, SetToSortSeq(Symbols, <))
      observable == /\ symbol # Nothing
                    /\ symbol[1] \in Symbols
                    /\ state.market[symbol[1]] # Nothing
  IN /\ pc = "choose"
     /\ discovers \/ found = <<>>
     /\ state' = [state EXCEPT !.opportunities = found]
     /\ choice' =
          IF observable
          THEN [found |-> found, built |-> built, symbol |-> symbol,
                strategy |-> SelectStrategy(built, DefaultIds),
                opportunity |-> AttachedOpportunity(found, symbol[1])]
          ELSE [NoChoice EXCEPT !.found = found, !.symbol = symbol]
     /\ pc' = "plan"
     /\ UNCHANGED <<raw, tracked, sent, filled, cycle, purpose, stepping, reading,
                    plan, asking, report>>

(* Size, ask X-108, plan.  Without a strategy the proposal follows the     *)
(* consensus, for a quantity of 0: whatever its action, it cannot be       *)
(* planned.  When the plan does not stand, the cycle raises and the bus    *)
(* does not poll after it.                                                 *)
Proposed(size) ==
  [symbol |-> choice.symbol[1], action |-> choice.strategy[1].action,
   strategy |-> choice.strategy, sizing |-> size]

Planned(size, authority) ==
  IF choice.strategy = Nothing THEN Nothing
  ELSE Plan(Proposed(size), authority, state, Mode, cycle)

Decide(size, authority) ==
  LET planned == Planned(size, authority)
  IN /\ pc = "plan"
     /\ choice' = NoChoice
     /\ UNCHANGED <<raw, tracked, sent, filled, cycle, reading, state, report>>
     /\ CASE planned = Nothing -> BeginPoll(TRUE) /\ UNCHANGED plan
          [] planned # Nothing /\ PlanStands(planned[1]) ->
               /\ pc' = "submit"
               /\ plan' = planned
               /\ UNCHANGED <<purpose, stepping, asking>>
          [] OTHER -> pc' = "idle" /\ UNCHANGED <<plan, purpose, stepping, asking>>

(* submit, and track.  The order takes the number of its cycle, which the  *)
(* answer always bears here: RuntimeBus has the one that does not.         *)
Submit ==
  /\ pc = "submit"
  /\ LET answer == ExecutionFrom(plan[1], [status |-> "new", id |-> cycle,
                     filled_qty |-> 0, filled_avg_price |-> Nothing])
     IN /\ sent' = [sent EXCEPT ![cycle] = OrderPayload(plan[1])]
        /\ raw' = [raw EXCEPT ![cycle] = "new"]
        /\ Track(answer.id, answer.submitted, answer.id # NoId, answer.status)
  /\ BeginPoll(TRUE)
  /\ plan' = Nothing
  /\ UNCHANGED <<filled, cycle, reading, state, choice, report>>

SubmissionRefused ==
  /\ pc = "submit"
  /\ LET answer == Refused(plan[1])
     IN Track(answer.id, answer.submitted, answer.id # NoId, answer.status)
  /\ BeginPoll(TRUE)
  /\ plan' = Nothing
  /\ UNCHANGED <<raw, sent, filled, cycle, reading, state, choice, report>>

------------------------------------------------------------------------------
(* poll: each followed order, the oldest first. *)
StartMonitor ==
  /\ pc = "idle"
  /\ report' = NoReport
  /\ UNCHANGED tracked
  /\ BeginPoll(FALSE)
  /\ state' = Unobserved
  /\ UNCHANGED <<raw, sent, filled, cycle, reading, choice, plan>>

AskAbout(o) ==
  /\ pc = "poll"
  /\ asking # {}
  /\ o = Min(asking)
  /\ asking' = asking \ {o}
  /\ \/ /\ StatusKnown(o)
        /\ report' = [report EXCEPT !.orders =
             @ \cup {Observe(OrderFrom(StatusPayload(o), cycle), tracked[o])}]
     \/ /\ StatusUnavailable(o) \/ StatusUnknown(o)
        /\ report' = [report EXCEPT !.degraded = @ + 1]
  /\ UNCHANGED <<raw, sent, filled, cycle, pc, purpose, stepping, reading, state,
                 choice, plan>>

OrdersAskedAnew ==
  /\ pc = "poll"
  /\ asking = {}
  /\ pc' = "account"
  /\ UNCHANGED <<raw, tracked, sent, filled, cycle, purpose, stepping, reading,
                 state, choice, plan, asking, report>>

(* The reviews rest on the portfolio that the cycle observed, before its   *)
(* own order; without one, or without a cycle, on a portfolio read now.    *)
OrdersAsked ==
  /\ pc = "poll"
  /\ asking = {}
  /\ IF stepping /\ state.portfolio # Nothing
     THEN pc' = "review" /\ report' = [report EXCEPT !.basis = state.portfolio]
     ELSE pc' = "account" /\ UNCHANGED report
  /\ UNCHANGED <<raw, tracked, sent, filled, cycle, purpose, stepping, reading,
                 state, choice, plan, asking>>

ReviewPositions ==
  /\ pc = "review"
  /\ LET given == IF stepping THEN <<state>> ELSE Nothing
         reviews == Reviews(report.basis[1], given)
     IN report' = [report EXCEPT
          !.reviews = reviews,
          !.proposals = IF stepping THEN ProposalsFrom(reviews, state) ELSE {}]
  /\ pc' = "idle"
  /\ UNCHANGED <<raw, tracked, sent, filled, cycle, purpose, stepping, reading,
                 state, choice, plan, asking>>

------------------------------------------------------------------------------
Init ==
  /\ InitOrders
  /\ InitMonitor
  /\ sent = [o \in Orders |-> NoOrder]
  /\ filled = [o \in Orders |-> 0]
  /\ cycle = 0
  /\ pc = "idle"
  /\ purpose = "cycle"
  /\ stepping = FALSE
  /\ reading = NoReading
  /\ state = Unobserved
  /\ choice = NoChoice
  /\ plan = Nothing
  /\ asking = {}
  /\ report = NoReport

Next ==
  \/ \E o \in Sent : Works(o)
  \/ \E read \in MarketReads : StartCycle(read)
  \/ \E payload \in AccountReadings : ReadAccount(payload) \/ AccountUnreadable(payload)
  \/ \E marks \in Marks : ReadPositions(marks)
  \/ ReadOpenOrders
  \/ PortfolioUnavailable
  \/ \E found \in Discoveries, discovers \in BOOLEAN, built \in Candidates :
       Choose(found, discovers, built)
  \/ \E size \in Sizes, authority \in {"ACT", "HOLD", "BLOCK"} : Decide(size, authority)
  \/ Submit
  \/ SubmissionRefused
  \/ StartMonitor
  \/ \E o \in Orders : AskAbout(o)
  \/ OrdersAsked
  \/ ReviewPositions

Spec == Init /\ [][Next]_vars
==============================================================================
