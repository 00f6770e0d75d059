----------------------------- MODULE MCAnalysis -----------------------------
(* A small instance of AnalysisProperties for TLC. *)
EXTENDS AnalysisProperties, TLC

(* A tape: returns over 1 and 5 bars, RSI, volume, volatilities over 5, 20 *)
(* and 60 bars, z-score, width of the range, moves of the last 4 bars.     *)
Tape(ret1, ret5, rsi, heavy, rv5, rv20, rv60, z, rises, drops) ==
  [ret |-> (1 :> ret1 @@ 5 :> ret5), rsi |-> rsi, heavy |-> heavy,
   rv |-> (5 :> rv5 @@ 20 :> rv20 @@ 60 :> rv60),
   z |-> z, width |-> 40, rises |-> rises, drops |-> drops]

MCTapes == {
  Tape(0, 0, 50, FALSE, 0, 0, 0, 0, 0, 0),             \* a market at rest
  Tape(60, 200, 60, TRUE, 100, 100, 130, 10, 4, 0),    \* a calm rise
  Tape(40, 900, 90, TRUE, 300, 150, 100, 25, 4, 0),    \* an overheated one
  Tape(-80, -300, 40, TRUE, 120, 110, 100, -15, 0, 4), \* a fall
  Tape(-300, -2000, 10, TRUE, 900, 720, 300, -30, 1, 3) } \* a crash

(* Returns that are all the same, half and half, and mostly small. *)
MCWords == {<<1>>, <<1, 2>>, <<1, 1, 3>>}

MCPayload(id, signal, confidence, reservations, contradictions) ==
  [source_id |-> id, organization_id |-> Organization, adapter_id |-> "somebody_else",
   signal |-> signal, rationale |-> "why", confidence |-> confidence,
   unknowns |-> reservations, contradictions |-> contradictions,
   risk_flags |-> reservations, evidence_refs |-> contradictions]

MCPayloads == {
  ExamplePayload,
  MCPayload("desk", "SELL", Number(80), {"unaudited"}, {"rising_trend"}),
  MCPayload("desk", "HOLD", Number(10), {}, {}),
  MCPayload("bot", "STRONG_BUY", Number(100), {"unaudited"}, {}),
  MCPayload("bot", "BUY", Number(-50), {}, {"thin_book"}),
  MCPayload("feed", "SELL", NotANumber, {}, {}),
  MCPayload(Empty, "SELL", Number(50), {}, {}),
  MCPayload("feed", Missing, Number(50), {}, {}) }
==============================================================================
