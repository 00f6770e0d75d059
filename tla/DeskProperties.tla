--------------------------- MODULE DeskProperties ---------------------------
(* What may be said of the observation, the choice and the reviews. *)
EXTENDS TradeDesk

Portfolios == Range(state.portfolio) \cup Range(report.basis)
PositionOn(portfolio, s) ==
  SumFunctionOnSet([p \in portfolio.positions |-> p.quantity],
                   {p \in portfolio.positions : p.symbol = s})
OpenOn(portfolio, s, side) ==
  SumFunctionOnSet([o \in portfolio.open_orders |-> RemainingQuantity(o)],
                   {o \in portfolio.open_orders : o.symbol = s /\ o.side = side})
OrdersToward(s, side) == {o \in OrdersOn(s) : sent[o].side = side}
SentOn(s, side) == SumFunctionOnSet([o \in Orders |-> sent[o].qty], OrdersToward(s, side))

(* The state has the shape the code gives it. *)
TypeOK ==
  /\ TypeOKOrders
  /\ TypeOKMonitor
  /\ \A o \in Orders : sent[o] # NoOrder =>
       /\ sent[o].symbol \in Symbols
       /\ sent[o].side \in {"buy", "sell"}
       /\ filled[o] \in 0 .. sent[o].qty
  /\ Sent \subseteq 1 .. cycle
  /\ asking \subseteq Sent
  /\ pc \in {"idle", "account", "positions", "open_orders", "choose", "plan",
             "submit", "poll", "review"}
  /\ \A p \in Portfolios :
       \A q \in p.positions : q.symbol \in Symbols /\ q.updated_at \in 0 .. cycle
  /\ plan # Nothing => plan[1].action \in Irreversible
  /\ \A pr \in report.proposals : pr.action \in Actions /\ pr.halves \in Nat

(* The portfolio is read in three calls while the orders move, and no lock *)
(* holds them together.  Because the positions are read before the open    *)
(* orders, a fill between the two calls is missed by both but is never     *)
(* counted twice: what an observation says is held and still to come stays *)
(* within what was ever ordered.                                           *)
NothingCountedTwice ==
  \A p \in Portfolios, s \in Symbols :
    /\ PositionOn(p, s) + OpenOn(p, s, "BUY") <= Held[s] + SentOn(s, "buy")
    /\ PositionOn(p, s) - OpenOn(p, s, "SELL") >= Held[s] - SentOn(s, "sell")

(* The symbol the cycle looks at and the strategy it proposes do not       *)
(* depend on the order in which the ports list what they found, unless two *)
(* candidates of the same rank and confidence carry one identifier, as two *)
(* that their port left unnamed may.  The opportunity attached to the      *)
(* proposal is the first of the symbol and does depend on it.              *)
Reorderings(seq) ==
  {[i \in DOMAIN seq |-> seq[perm[i]]] :
     perm \in {f \in [DOMAIN seq -> DOMAIN seq] : Range(f) = DOMAIN seq}}
ChoiceIgnoresOrder ==
  /\ \A found \in Reorderings(choice.found) :
       found # <<>> => SelectSymbol(found, TRUE, <<>>) = choice.symbol
  /\ \A built \in Reorderings(choice.built) :
       LET other == SelectStrategy(built, DefaultIds)
       IN \/ other = choice.strategy
          \/ StrategyId(other[1], DefaultIds) = StrategyId(choice.strategy[1], DefaultIds)

(* After a cycle there is one proposal for each position reviewed.  None   *)
(* proposes more than the position that was read, a reduction leaves as    *)
(* much as it takes, and nothing irreversible is proposed on a profit or   *)
(* loss that is not known, inside the nominal range, or on a snapshot that *)
(* is stale.                                                               *)
ProposalsFitThePosition ==
  report.proposals # {} =>
    /\ Cardinality(report.proposals) = Cardinality(report.reviews)
    /\ \A pr \in report.proposals :
         LET p == CHOOSE q \in report.basis[1].positions : q.symbol = pr.symbol
             pct == UnrealizedPct(p)
             snapshot == state.market[pr.symbol]
         IN /\ pr.halves <= 2 * Magnitude(p.quantity)
            /\ pr.action = "REDUCE" => pr.halves = 2 * Magnitude(p.quantity) - pr.halves
            /\ pr.action = "CLOSE" => pr.halves = 2 * Magnitude(p.quantity)
            /\ pr.halves > 0 <=> pr.action \in Irreversible
            /\ pr.action \in Irreversible =>
                 /\ pct # Nothing
                 /\ AtMost(pct, -5) \/ AtLeast(pct, 6)
                 /\ snapshot # Nothing => snapshot[1].provenance.quality # "STALE"

(* The reviews that follow a cycle rest on the portfolio the cycle saw     *)
(* before it sent its order: they describe the position without that order *)
(* even when the same report tells that it is filled.                      *)
ReviewsIgnoreTheOwnOrder ==
  (report.reviews # {} /\ stepping /\ state.portfolio # Nothing
     /\ sent[cycle] # NoOrder) =>
    \A r \in report.reviews :
      OrdersOn(r.symbol) = {cycle} => r.quantity = Held[r.symbol]
==============================================================================
