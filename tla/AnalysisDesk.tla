---------------------------- MODULE AnalysisDesk ----------------------------
(***************************************************************************)
(* The cognition of the cycle, as it is wired: an AnalysisPort (native,    *)
(* calibrated or external), the aggregation of its signals, the local      *)
(* structural score, and the evidence that leaves for the kernel           *)
(* (native/agents/aggregation.py, governance/bridge/local_signal.py and    *)
(* ir_payload.py).  Beside it, what the naive path of                      *)
(* apps/naive_vs_governed makes of the same snapshot.                      *)
(*                                                                         *)
(* Days pass, the roster is calibrated anew, snapshots are analysed.       *)
(***************************************************************************)
EXTENDS Calibration, ExternalStack

CONSTANTS
  Wirings,       \* the analysis ports of this instance
  Symbols,       \* the symbols followed
  Tapes,         \* what the market may look like
  BarCounts,     \* how many bars a snapshot may hold
  DatasetSizes,  \* how many bars an attempt may receive
  Words,         \* the returns of a dataset, repeated to its size
  DailyVols,     \* what their spread may come to
  Payloads,      \* what the third party may send
  MaxSignals,    \* bound: signals of one fetch
  MaxDay         \* bound: days

ASSUME DeskAssumption ==
  /\ Wirings \subseteq {"native", "calibrated", "external"}
  /\ "none" \notin Symbols
  /\ BarCounts \subseteq Nat
  /\ DatasetSizes \subseteq Nat \ {0}
  /\ Words \subseteq Seq(Nat) \ {<<>>}
  /\ DailyVols \subseteq Nat
  /\ \A tape \in Tapes : \A n \in {5, 20, 60} : tape.rv[n] \in Nat
  /\ \A p \in Payloads : p.confidence.percent \in Int
  /\ MaxDay \in Nat
  /\ MaxSignals \in Nat

VARIABLES
  wiring,     \* the port the engine was built with
  day,        \* today
  pack,       \* the pack the calibrated agents were built with
  looked,     \* what the cycle's analysis looked at, or nothing yet
  outputs,    \* its signals
  consensus,  \* their aggregate
  evidence,   \* what of them the payload for the kernel carries
  raised      \* whether the analysis raised

vars == <<wiring, day, pack, looked, outputs, consensus, evidence, raised>>

------------------------------------------------------------------------------
(* Aggregation. *)
Weight(outs, signal) ==
  SumFunctionOnSet([i \in DOMAIN outs |-> outs[i].confidence],
                   {i \in DOMAIN outs : outs[i].signal = signal})

SideOfNothing(buy, sell, hold) ==
  CASE buy >= sell /\ buy >= hold -> "BUY"
    [] buy < sell /\ sell >= hold -> "SELL"
    [] OTHER -> "HOLD"

Side(buy, sell, hold) ==
  CASE buy + sell + hold <= 0 -> "HOLD"
    [] buy + sell + hold > 0 /\ buy >= sell /\ buy >= hold -> "BUY"
    [] buy + sell + hold > 0 /\ buy < sell /\ sell >= hold -> "SELL"
    [] OTHER -> "HOLD"

Opposing(outs, side) ==
  {i \in DOMAIN outs : outs[i].signal \notin {side, "HOLD"}}

Aggregate(outs) ==
  LET buy == Weight(outs, "BUY")
      sell == Weight(outs, "SELL")
      hold == Weight(outs, "HOLD")
      side == Side(buy, sell, hold)
  IN [side |-> side, buy |-> buy, sell |-> sell, hold |-> hold,
      opposing |-> Opposing(outs, side),
      agreeing |-> Cardinality({i \in DOMAIN outs : outs[i].signal = side})]

NoConsensus == [side |-> "none", buy |-> 0, sell |-> 0, hold |-> 0,
                opposing |-> {}, agreeing |-> 0]

(* The evidence block of build_trading_ir_payload. *)
Gathered(outs, f(_)) == UNION {f(outs[i]) : i \in DOMAIN outs}
Evidence(outs) ==
  [unknowns |-> Gathered(outs, LAMBDA o : o.unknowns),
   contradictions |-> Gathered(outs, LAMBDA o : o.contradictions),
   risk_flags |-> Gathered(outs, LAMBDA o : o.risk_flags),
   evidence_refs |-> Gathered(outs, LAMBDA o : o.evidence_refs),
   agents |-> Len(outs)]
NoEvidence == Evidence(<<>>)

------------------------------------------------------------------------------
CoherenceOfBuyers(outs) ==
  [i \in DOMAIN outs |-> [j \in DOMAIN outs |->
     CASE i = j -> 200
       [] i # j /\ outs[i].signal = outs[j].signal /\ outs[i].signal = "BUY" ->
            outs[i].confidence + outs[j].confidence
       [] OTHER -> 0]]

(* The local structural score.  A weight counts 200 for two signals in     *)
(* full agreement, T, H and A in the same unit, S in percent.              *)
Coherence(outs) ==
  [i \in DOMAIN outs |-> [j \in DOMAIN outs |->
     CASE i = j -> 200
       [] i # j /\ outs[i].signal = outs[j].signal ->
            outs[i].confidence + outs[j].confidence
       [] OTHER -> 0]]

SumOver(a, b, term(_)) ==
  LET sum[i \in (a - 1) .. b] == IF i = a - 1 THEN 0 ELSE sum[i - 1] + term(i)
  IN IF b < a THEN 0 ELSE sum[b]

Cohesion(W, i, j, k) == W[i][j] + W[j][k] + W[k][i]
TriangleMean(W) ==
  LET n == Len(W)
      OverTriangles(f(_, _, _)) ==
        SumOver(1, n, LAMBDA i : SumOver(i + 1, n, LAMBDA j : SumOver(j + 1, n, LAMBDA k :
          IF Cohesion(W, i, j, k) >= 0 THEN f(i, j, k) ELSE 0)))
      counted == OverTriangles(LAMBDA i, j, k : 1)
  IN IF counted = 0 THEN 0
     ELSE OverTriangles(LAMBDA i, j, k : Cohesion(W, i, j, k)) \div (3 * counted)

Degree(W, i) == SumOver(1, Len(W), LAMBDA j : W[i][j])
AllDegrees(W) == SumOver(1, Len(W), LAMBDA i : Degree(W, i))
AsymmetryPenalty(W) ==
  LET m == AllDegrees(W) \div Len(W)
  IN SumOver(1, Len(W), LAMBDA i : Abs(Degree(W, i) - m)) \div Len(W)

(* alpha = beta = 1, gamma = 1/2. *)
StructuralScore(outs) ==
  IF outs = <<>> THEN 0
  ELSE LET W == Coherence(outs)
           n == Len(W)
           H == AllDegrees(W) \div (n * n)
           A == AsymmetryPenalty(W) \div (IF n > 1 THEN n - 1 ELSE 1)
           kept == IF A > 400 THEN 0 ELSE 400 - A
           S == ((TriangleMean(W) + H) * kept) \div 1600
       IN IF S < 0 THEN 0 ELSE AtMost100(S)

------------------------------------------------------------------------------
(* The naive path: the votes of the same agents on the same snapshot, of   *)
(* which only the most frequent verdict counts; the first one seen, if     *)
(* several are.                                                            *)
Count(votes, verdict) == Cardinality({i \in DOMAIN votes : votes[i].verdict = verdict})

Dominant(votes) ==
  LET first == CHOOSE i \in DOMAIN votes :
        /\ \A j \in DOMAIN votes :
             Count(votes, votes[j].verdict) <= Count(votes, votes[i].verdict)
        /\ \A j \in 1 .. i - 1 :
             Count(votes, votes[j].verdict) < Count(votes, votes[i].verdict)
  IN votes[first].verdict

NaiveCounterfactual(votes) ==
  [dominant |-> Dominant(votes),
   acts |-> Dominant(votes) \in {"BUY", "SELL"},
   ignored_unknowns |-> Gathered(votes, LAMBDA v : v.unknowns),
   ignored_contradictions |-> Gathered(votes, LAMBDA v : v.contradictions),
   ignored_risk_flags |-> Gathered(votes, LAMBDA v : v.risk_flags)]

NaivePath(s) == NaiveCounterfactual(NativeVotes(s))

------------------------------------------------------------------------------
NotLooked == <<>>
NoSignals == <<>>

Forget ==
  /\ looked' = NotLooked
  /\ outputs' = NoSignals
  /\ consensus' = NoConsensus
  /\ evidence' = NoEvidence
  /\ raised' = FALSE

Init ==
  /\ wiring \in Wirings
  /\ day = 0
  /\ pack = NoPack
  /\ looked = NotLooked
  /\ outputs = NoSignals
  /\ consensus = NoConsensus
  /\ evidence = NoEvidence
  /\ raised = FALSE

(* The next cycle looks anew. *)
NextCycle ==
  /\ looked # NotLooked
  /\ Forget
  /\ UNCHANGED <<wiring, day, pack>>

(* A day passes between two cycles. *)
Pass ==
  /\ day < MaxDay
  /\ day' = day + 1
  /\ Forget
  /\ UNCHANGED <<wiring, pack>>

(* attempt_real_historical_dataset_with_closes, then the full pack, then   *)
(* build_calibrated_trading_agents with it.                                *)
Calibrate(dataset, returns, daily) ==
  /\ wiring = "calibrated"
  /\ looked = NotLooked
  /\ pack' = BuildPack(dataset, returns, daily)
  /\ UNCHANGED <<wiring, day, looked, outputs, consensus, evidence, raised>>

AttemptFails(symbol, why) == Calibrate(FailedDataset(symbol, day, why), <<>>, 0)

(* Every bar that came has a close, or one has none. *)
AttemptSucceeds(symbol, bars, closes, word, daily) ==
  Calibrate(ReceivedDataset(symbol, day, bars, closes), LogReturns(closes, word), daily)

(* run_cycle: analyse, aggregate, and what the bridge makes of the signals. *)
Conclude(outs) ==
  /\ outputs' = outs
  /\ consensus' = Aggregate(outs)
  /\ evidence' = Evidence(outs)
  /\ raised' = FALSE

AnalyseNative(s) ==
  /\ wiring = "native"
  /\ looked' = <<s>>
  /\ Conclude(NativeOutputs(NativeVotes(s)))
  /\ UNCHANGED <<wiring, day, pack>>

AnalyseCalibrated(s) ==
  /\ wiring = "calibrated"
  /\ looked' = <<s>>
  /\ Conclude(NativeOutputs(CalibratedVotes(s, pack, day)))
  /\ UNCHANGED <<wiring, day, pack>>

(* The snapshot is not shown to the third party: only the symbol is.  An   *)
(* adapter returns a sequence of validated signals.                        *)
AnalyseExternal(symbol, payloads) ==
  /\ wiring = "external"
  /\ \A i \in DOMAIN payloads : IsValid(payloads[i])
  /\ looked' = <<[symbol |-> symbol]>>
  /\ Conclude(ExternalOutputs(payloads))
  /\ UNCHANGED <<wiring, day, pack>>

(* The adapter of the repository validates the one payload it gets inside  *)
(* fetch_signals: InvalidExternalSignal leaves analyse.                    *)
FetchRaises(symbol, payload) ==
  /\ wiring = "external"
  /\ ~ IsValid(payload)
  /\ looked' = <<[symbol |-> symbol]>>
  /\ raised' = TRUE
  /\ UNCHANGED <<wiring, day, pack, outputs, consensus, evidence>>

Next ==
  \/ NextCycle
  \/ Pass
  \/ \E symbol \in Symbols, why \in FailedAttempts : AttemptFails(symbol, why)
  \/ \E symbol \in Symbols, bars \in DatasetSizes, missing \in {0, 1}, word \in Words,
        daily \in DailyVols : AttemptSucceeds(symbol, bars, bars - missing, word, daily)
  \/ /\ looked = NotLooked
     /\ \E symbol \in Symbols, bars \in BarCounts, tape \in Tapes :
          LET s == StateFromSnapshot(symbol, bars, tape)
          IN AnalyseNative(s) \/ AnalyseCalibrated(s)
  \/ /\ looked = NotLooked
     /\ \E symbol \in Symbols :
          \/ \E n \in 0 .. MaxSignals : \E payloads \in [1 .. n -> Payloads] :
               AnalyseExternal(symbol, payloads)
          \/ \E payload \in Payloads : FetchRaises(symbol, payload)

Spec == Init /\ [][Next]_vars
==============================================================================
