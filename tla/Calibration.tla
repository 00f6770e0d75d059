---------------------------- MODULE Calibration -----------------------------
(***************************************************************************)
(* The calibration of the roster on real closes: the attempt to get them   *)
(* (market/adapters/alpaca/real_dataset_attempt.py), the estimates, the    *)
(* pack they make and the two agents that consult it                       *)
(* (domain/calibration*.py, native/agents/calibrated_agents.py).           *)
(*                                                                         *)
(* A return is known by its magnitude, a small number: the estimates look  *)
(* at nothing else here.  Days count from the start of the instance.       *)
(***************************************************************************)
EXTENDS NativeRoster, SequencesExt

(* How the attempt can end.  Only "bars" brings observations. *)
FailedAttempts == {"NO_CREDENTIALS_CONFIGURED", "REQUESTS_MODULE_UNAVAILABLE",
  "TRANSPORT_ERROR", "HTTP", "MALFORMED_RESPONSE", "EMPTY_RESPONSE"}

(* One bar in the reply may lack its close: it is observed, not priced. *)
Dataset(symbol, day, bars, flags) ==
  [symbol |-> symbol, retrieved |-> day, observations |-> bars, flags |-> flags]

FailedDataset(symbol, day, why) == Dataset(symbol, day, 0, {why})
ReceivedDataset(symbol, day, bars, closes) ==
  Dataset(symbol, day, bars, FlagIf(closes # bars, "SOME_BARS_MISSING_CLOSE_FIELD"))

IsReal(dataset) == dataset.observations > 0

(* One return between two consecutive closes. *)
LogReturns(closes, word) ==
  [i \in 1 .. (IF closes = 0 THEN 0 ELSE closes - 1) |-> word[(i % Len(word)) + 1]]

------------------------------------------------------------------------------
MIN_OBSERVATIONS_VOLATILITY == 10
MIN_OBSERVATIONS_GARCH == 30
MIN_OBSERVATIONS_MARKOV == 30

(* The spread of the returns, in basis points a day: nought if they are    *)
(* all the same.                                                           *)
EstimateRealizedVolatility(returns, daily) ==
  IF Len(returns) < MIN_OBSERVATIONS_VOLATILITY THEN [sufficient |-> FALSE, vol |-> 0]
  ELSE [sufficient |-> TRUE, vol |-> IF Cardinality(Range(returns)) = 1 THEN 0 ELSE daily]

EstimateGarch(returns) == [sufficient |-> Len(returns) >= MIN_OBSERVATIONS_GARCH]

(* Two regimes, parted at the median magnitude (the least that more than   *)
(* half of the returns do not exceed); one more in every cell.             *)
Threshold(returns) ==
  Min({t \in Range(returns) :
         Cardinality({i \in DOMAIN returns : returns[i] <= t}) > Len(returns) \div 2})
RegimeBelow(r, threshold) == IF r < threshold THEN 0 ELSE 1
RegimeOf(r, threshold) == IF r <= threshold THEN 0 ELSE 1

EstimateMarkov(returns) ==
  IF Len(returns) < MIN_OBSERVATIONS_MARKOV
  THEN [sufficient |-> FALSE, counts |-> [from \in {0, 1} |-> [to \in {0, 1} |-> 0]],
        observed |-> [r \in {0, 1} |-> 0]]
  ELSE LET regime == [i \in DOMAIN returns |-> RegimeOf(returns[i], Threshold(returns))]
       IN [sufficient |-> TRUE,
           counts |-> [from \in {0, 1} |-> [to \in {0, 1} |->
             1 + Cardinality({i \in 2 .. Len(returns) :
                                regime[i - 1] = from /\ regime[i] = to})]],
           observed |-> [r \in {0, 1} |->
             Cardinality({i \in DOMAIN returns : regime[i] = r})]]

------------------------------------------------------------------------------
Models == {"realized_volatility", "garch_1_1", "markov_regime_matrix"}
Calibrated(sufficient) == IF sufficient THEN "CALIBRATED" ELSE "UNCALIBRATED"

(* A pack is its own identifier: the identifier is a digest of the rest. *)
NoPack == [symbol |-> "none", created |-> 0, status |-> "none", vol |-> 0,
           returns |-> 0, regimes |-> EstimateMarkov(<<>>),
           models |-> [m \in Models |-> "none"]]

PackStatus(dataset, models) ==
  CASE ~ IsReal(dataset) -> "NOT_CALIBRATED_NO_REAL_DATA"
    [] IsReal(dataset) /\ \E m \in Models : models[m] = "UNCALIBRATED" -> "PARTIALLY_CALIBRATED"
    [] OTHER -> "CALIBRATED"

BuildPack(dataset, returns, daily) ==
  LET vol == EstimateRealizedVolatility(returns, daily)
      models == [m \in Models |->
        CASE m = "realized_volatility" -> Calibrated(vol.sufficient)
          [] m = "garch_1_1" -> Calibrated(EstimateGarch(returns).sufficient)
          [] OTHER -> Calibrated(EstimateMarkov(returns).sufficient)]
  IN [symbol |-> dataset.symbol, created |-> dataset.retrieved,
      status |-> PackStatus(dataset, models), vol |-> vol.vol,
      returns |-> Len(returns), regimes |-> EstimateMarkov(returns), models |-> models]

------------------------------------------------------------------------------
(* No agent asks for a greatest age: the freshness clause never applies. *)
NoMaxAge == -1
MaxAgeAsked == NoMaxAge

CheckStatusOnly(pack, symbol, today) ==
  CASE pack = NoPack -> "NO_PACK"
    [] pack.status = "NOT_CALIBRATED_NO_REAL_DATA" -> "NOT_CALIBRATED"
    [] OTHER -> "COMPATIBLE"

CheckCompatibility(pack, symbol, today) ==
  CASE pack = NoPack -> "NO_PACK"
    [] pack # NoPack /\ pack.symbol # symbol -> "SYMBOL_MISMATCH"
    [] pack.symbol = symbol /\ pack.status = "NOT_CALIBRATED_NO_REAL_DATA" -> "NOT_CALIBRATED"
    [] pack.symbol = symbol /\ pack.status # "NOT_CALIBRATED_NO_REAL_DATA"
         /\ MaxAgeAsked # NoMaxAge /\ today - pack.created > MaxAgeAsked -> "STALE"
    [] OTHER -> "COMPATIBLE"

Usable(pack, symbol, today) == CheckCompatibility(pack, symbol, today) = "COMPATIBLE"

CalibratedDailyVolatility(pack) ==
  IF pack.models["realized_volatility"] = "UNCALIBRATED" \/ pack.vol <= 0
  THEN Unknown ELSE pack.vol

Reference(what, pack) == [what |-> what, pack |-> pack]
NoteFor(model, pack) ==
  {Reference("calibration_id", pack), Reference("dataset_digest", pack),
   Reference(model, pack)}

RefusalOfMismatch(pack, symbol, today) ==
  FlagIf(CheckCompatibility(pack, symbol, today) = "SYMBOL_MISMATCH",
         "CALIBRATION_UNAVAILABLE")

(* An unusable pack is told among the unknowns; the absence of one is not. *)
Refusal(pack, symbol, today) ==
  FlagIf(~ Usable(pack, symbol, today) /\ pack # NoPack, "CALIBRATION_UNAVAILABLE")

CalibrationAwareVolatilityAgent(v, s, pack, today) ==
  LET usable == Usable(pack, s.symbol, today)
      degraded == s.prices < 61
      noted == IF usable THEN [v EXCEPT !.evidence_refs = @ \cup NoteFor("garch_1_1", pack)]
               ELSE v
      vol == CalibratedDailyVolatility(pack)
      rv20 == OrElse(RealizedVolatility(s, 20), 0)
      high == rv20 * 100 > vol * 130
  IN CASE ~ degraded -> noted
       [] degraded /\ ~ usable ->
            [noted EXCEPT !.unknowns = @ \cup Refusal(pack, s.symbol, today)]
       [] degraded /\ usable /\ vol = Unknown -> noted
       [] OTHER ->
            [noted EXCEPT
               !.verdict = Lean(rv20 * 100 < vol * 85, high),
               !.confidence = AtMost100(2 * Abs((rv20 * 100) \div vol - 100)),
               !.claim = [by |-> "calibration", pack |-> pack],
               !.risk_flags = @ \cup FlagIf(high, "HIGH_VOLATILITY")]

CalibrationAwareRegimeShiftAgent(v, s, pack, today) ==
  IF Usable(pack, s.symbol, today)
  THEN [v EXCEPT !.evidence_refs = @ \cup NoteFor("markov_regime_matrix", pack)]
  ELSE [v EXCEPT !.unknowns = @ \cup Refusal(pack, s.symbol, today)]

(* build_calibrated_trading_agents: the same roster, two agents replaced. *)
CalibratedVotes(s, pack, today) ==
  LET native == NativeVotes(s)
  IN [i \in DOMAIN ROSTER_17 |->
        CASE ROSTER_17[i] = "Volatility" ->
               CalibrationAwareVolatilityAgent(native[i], s, pack, today)
          [] ROSTER_17[i] = "RegimeShift" ->
               CalibrationAwareRegimeShiftAgent(native[i], s, pack, today)
          [] OTHER -> native[i]]
==============================================================================
