---------------------------- MODULE NativeRoster ----------------------------
(***************************************************************************)
(* The native roster: native/agents/domains/trading_agents.py, the vote    *)
(* they build (contracts.py), and the adapter and the aggregation that     *)
(* stand between them and the decision cycle.                              *)
(*                                                                         *)
(* What an agent looks at is a record s: the symbol, the number of prices  *)
(* and a tape, which holds the figures the indicators would give if they   *)
(* had enough of them.  Returns and volatilities are in basis points,      *)
(* confidences in percent, the z-score in tenths.                          *)
(***************************************************************************)
EXTENDS Integers, Sequences, FiniteSets

Unknown == -1  \* None, for a figure that is never negative
OrElse(v, default) == IF v \in {Unknown, 0} THEN default ELSE v
Abs(x) == IF x < 0 THEN -x ELSE x
AtMost100(x) == IF x > 100 THEN 100 ELSE x

(* utils/indicators.py: None below the number of prices each one needs. *)
RealizedVolatility(s, period) ==
  IF s.prices >= period + 1 THEN s.tape.rv[period] ELSE Unknown
Rsi(s) == IF s.prices >= 15 THEN s.tape.rsi ELSE Unknown
HasZscore(s) == s.prices >= 20
Return(s, n) == IF s.prices >= n + 1 THEN s.tape.ret[n] ELSE 0

(* Without bars the snapshot's last price is the whole history. *)
StateFromSnapshot(symbol, bars, tape) ==
  [symbol |-> symbol, prices |-> IF bars = 0 THEN 1 ELSE bars, tape |-> tape]

------------------------------------------------------------------------------
(* What an agent hands to the constructor of its vote. *)
Absent == "absent"
Told(layer, verdict, confidence) ==
  [layer |-> layer, verdict |-> verdict, confidence |-> AtMost100(confidence),
   unknowns |-> {}, contradictions |-> {}, risk_flags |-> {}]

(* The agents test BUY and SELL in turn; the tests exclude each other. *)
Lean(buy, sell) == CASE buy -> "BUY" [] sell -> "SELL" [] OTHER -> "HOLD"
FlagIf(cond, token) == IF cond THEN {token} ELSE {}

MarketDataAgent(s) ==
  LET change == Return(s, 1)
  IN Told("OBSERVATION", Lean(change > 10, change < -10), Abs(change) \div 4)

(* No spread reaches the state: it counts as zero here and below. *)
LiquidityAgent(s) ==
  Told("OBSERVATION", Lean(s.tape.heavy, FALSE), IF s.tape.heavy THEN 70 ELSE 50)

VolatilityAgent(s) ==
  LET rv20 == OrElse(RealizedVolatility(s, 20), 0)
      rv60 == OrElse(OrElse(RealizedVolatility(s, 60), rv20), 1)
      high == rv20 * 100 > rv60 * 130
  IN [Told("OBSERVATION", Lean(rv20 * 100 < rv60 * 85, high),
           2 * Abs((rv20 * 100) \div rv60 - 100))
        EXCEPT !.risk_flags = FlagIf(high, "HIGH_VOLATILITY")]

MacroAgent(s) == Told("OBSERVATION", "HOLD", 0)       \* no event risk: 0.5
CorrelationAgent(s) ==                                \* no reference prices: 0
  Told("OBSERVATION", "HOLD", Abs(Return(s, 5)) \div 10)
EventAgent(s) == Told("OBSERVATION", "BUY", 81)       \* no event risk: 0.0

MomentumAgent(s) ==
  LET ret5 == Return(s, 5)
      r == Rsi(s)
  IN Told("INTERPRETATION",
          Lean(ret5 > 0 /\ (r = Unknown \/ r < 75), ret5 < 0 /\ (r = Unknown \/ r > 25)),
          Abs(ret5) \div 5)

NeedsMore == Told("INTERPRETATION", Absent, 20)

MeanReversionAgent(s) ==
  IF ~ HasZscore(s) THEN NeedsMore
  ELSE Told("INTERPRETATION", Lean(s.tape.z < -20, s.tape.z > 20),
            (100 * Abs(s.tape.z)) \div 30)

(* The last close lies inside the last bar, which the range includes. *)
BreakoutAgent(s) ==
  IF s.prices < 20 THEN NeedsMore
  ELSE Told("INTERPRETATION", "HOLD", s.tape.width \div 4)

PatternAgent(s) ==
  IF s.prices < 5 THEN NeedsMore
  ELSE Told("INTERPRETATION", Lean(s.tape.rises >= 4, s.tape.drops >= 4),
            20 * (IF s.tape.rises > s.tape.drops THEN s.tape.rises ELSE s.tape.drops))

SentimentAgent(s) == Told("INTERPRETATION", "HOLD", 0)

PredictionAgent(s) ==
  LET composite == AtMost100(OrElse(RealizedVolatility(s, 20), 0) \div 10)
  IN Told("INTERPRETATION", Lean(composite < 35, composite > 70), 2 * Abs(composite - 50))

PortfolioAgent(s) == Told("INTERPRETATION", "BUY", 0)     \* exposure reads as 0
ExecutionQualityAgent(s) == Told("CONTRADICTION", "BUY", 0)

RegimeShiftAgent(s) ==
  LET rv20 == OrElse(RealizedVolatility(s, 20), 0)
      rv5 == OrElse(RealizedVolatility(s, 5), rv20)
      shift == rv5 * 10 > rv20 * 16
  IN [Told("CONTRADICTION", Lean(FALSE, shift),
           Abs((rv5 * 100) \div OrElse(rv20, 1) - 100))
        EXCEPT !.contradictions = FlagIf(shift, "REGIME_SHIFT_DETECTED")]

PortfolioStressAgent(s) == Told("CONTRADICTION", "HOLD", 0)

ProofConsistencyAgent(s) ==
  LET short == s.prices < 20
  IN [Told("PROOF", Lean(~short, FALSE), IF short THEN 40 ELSE 90)
        EXCEPT !.unknowns = FlagIf(short, "SHORT_PRICE_HISTORY")]

ROSTER_17 ==
  <<"MarketData", "Liquidity", "Volatility", "Macro", "Correlation", "Event",
    "Momentum", "MeanReversion", "Breakout", "Pattern", "Sentiment", "Prediction",
    "Portfolio", "ExecutionQuality", "RegimeShift", "PortfolioStress",
    "ProofConsistency">>

Evaluate(agent, s) ==
  CASE agent = "MarketData" -> MarketDataAgent(s)
    [] agent = "Liquidity" -> LiquidityAgent(s)
    [] agent = "Volatility" -> VolatilityAgent(s)
    [] agent = "Macro" -> MacroAgent(s)
    [] agent = "Correlation" -> CorrelationAgent(s)
    [] agent = "Event" -> EventAgent(s)
    [] agent = "Momentum" -> MomentumAgent(s)
    [] agent = "MeanReversion" -> MeanReversionAgent(s)
    [] agent = "Breakout" -> BreakoutAgent(s)
    [] agent = "Pattern" -> PatternAgent(s)
    [] agent = "Sentiment" -> SentimentAgent(s)
    [] agent = "Prediction" -> PredictionAgent(s)
    [] agent = "Portfolio" -> PortfolioAgent(s)
    [] agent = "ExecutionQuality" -> ExecutionQualityAgent(s)
    [] agent = "RegimeShift" -> RegimeShiftAgent(s)
    [] agent = "PortfolioStress" -> PortfolioStressAgent(s)
    [] agent = "ProofConsistency" -> ProofConsistencyAgent(s)

------------------------------------------------------------------------------
(* The constructor of AgentVote takes its arguments for a vote of a domain *)
(* only if the text of the second one is a domain's name or value.  The    *)
(* text of a member of a plain Enum is neither, and the arguments fall in  *)
(* the other order: the layer where a missing verdict would be, the claim  *)
(* (which is no number) where the confidence would be.                     *)
DomainTexts == {"bank", "trading", "ecom", "gps_defense_aviation", "meta",
                "BANK", "TRADING", "ECOM", "GPS_DEFENSE_AVIATION", "META"}
TextOfValue == "TRADING"
TextOfDomain == "Domain.TRADING"

(* A claim says who made it: "no_claim" is nobody's. *)
Claim(by) == [by |-> by]

AgentVote(agent, told) ==
  LET readAsMeant == TextOfDomain \in DomainTexts
      missing == IF readAsMeant THEN "HOLD" ELSE told.layer
  IN [name |-> agent,
      verdict |-> IF told.verdict = Absent THEN missing ELSE told.verdict,
      confidence |-> IF readAsMeant THEN told.confidence ELSE 0,
      claim |-> IF readAsMeant THEN Claim("agent") ELSE Claim("nobody"),
      unknowns |-> told.unknowns,
      contradictions |-> told.contradictions,
      risk_flags |-> told.risk_flags,
      evidence_refs |-> {}]

NativeVotes(s) ==
  [i \in DOMAIN ROSTER_17 |-> AgentVote(ROSTER_17[i], Evaluate(ROSTER_17[i], s))]

------------------------------------------------------------------------------
(* domain/contracts/canonical.py: the one way to a signal of the cycle. *)
ToCanonicalSummarised(v, signal, source) ==
  [name |-> v.name, signal |-> signal, confidence |-> v.confidence,
   rationale |-> v.claim, unknowns |-> v.unknowns,
   contradictions |-> {}, risk_flags |-> v.risk_flags,
   evidence_refs |-> v.evidence_refs, source |-> source]

ToCanonicalAgentSignal(v, signal, source) ==
  [name |-> v.name, signal |-> signal, confidence |-> v.confidence,
   rationale |-> v.claim, unknowns |-> v.unknowns,
   contradictions |-> v.contradictions, risk_flags |-> v.risk_flags,
   evidence_refs |-> v.evidence_refs, source |-> source]

NativeSource(id) == [system |-> "NATIVE", id |-> id, adapter |-> "none", organization |-> "none"]

AgentVoteToAgentOutput(v) == ToCanonicalAgentSignal(v, v.verdict, NativeSource(v.name))

NativeOutputs(votes) == [i \in DOMAIN votes |-> AgentVoteToAgentOutput(votes[i])]
==============================================================================
