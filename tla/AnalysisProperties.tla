------------------------- MODULE AnalysisProperties -------------------------
(* What the analysis promises to the cycle and to the kernel. *)
EXTENDS AnalysisDesk

Agents == Range(ROSTER_17)
Names == Agents \cup {p.source_id : p \in Payloads}
Signals == {"BUY", "SELL", "HOLD", "OBSERVATION", "INTERPRETATION", "CONTRADICTION", "PROOF"}
             \cup {p.signal : p \in Payloads}
Evaluated == looked # NotLooked /\ ~ raised
Seen == looked[1]
OutputOf(agent) == CHOOSE o \in Range(outputs) : o.name = agent

(* The state has the shape the code gives it. *)
TypeOK ==
  /\ wiring \in Wirings
  /\ day \in 0 .. MaxDay
  /\ pack = NoPack \/ (pack.symbol \in Symbols /\ pack.created \in 0 .. day)
  /\ pack.returns \in Nat /\ pack.vol \in Nat
  /\ Len(looked) <= 1
  /\ \A i \in DOMAIN looked : looked[i].symbol \in Symbols
  /\ \A i \in DOMAIN outputs :
       /\ outputs[i].name \in Names
       /\ outputs[i].signal \in Signals
       /\ outputs[i].confidence \in Int
       /\ outputs[i].source.system \in {"NATIVE", "EXTERNAL"}
  /\ consensus.side \in {"none", "BUY", "SELL", "HOLD"}
  /\ raised \in BOOLEAN

(* The votes of the native roster carry no confidence, because of the way  *)
(* their constructor reads its arguments: the roster takes a side only     *)
(* when a pack, of real data on this very symbol and with a volatility,    *)
(* spoke in place of a history too short for the agent's own.              *)
SidesNeedCalibration ==
  Evaluated /\ wiring # "external" /\ consensus.side # "HOLD" =>
    /\ wiring = "calibrated"
    /\ Seen.prices < 61
    /\ pack.symbol = Seen.symbol
    /\ pack.returns >= 10
    /\ pack.vol > 0
    /\ OutputOf("Volatility").signal = consensus.side

(* No side without a voice: whatever an external stack sends (signals      *)
(* nobody knows, confidences of any sign), a side is only taken if someone *)
(* spoke for it with a confidence above zero, and every signal against it  *)
(* is in the opposing evidence.                                            *)
NoSideWithoutAVoice ==
  Evaluated /\ consensus.side # "HOLD" =>
    /\ \E i \in DOMAIN outputs :
         outputs[i].signal = consensus.side /\ outputs[i].confidence > 0
    /\ \A i \in DOMAIN outputs :
         outputs[i].signal \in {"BUY", "SELL"} \ {consensus.side} => i \in consensus.opposing

(* Whoever the calibrated roster makes speak otherwise than the native one *)
(* says on which pack, and only the volatility agent ever does; the pack   *)
(* is of the symbol looked at.  Nothing else about the signals changes.    *)
CalibrationIsTraceable ==
  Evaluated /\ wiring = "calibrated" =>
    LET native == NativeOutputs(NativeVotes(Seen))
    IN \A i \in DOMAIN outputs :
         LET o == outputs[i]
         IN /\ native[i].unknowns \subseteq o.unknowns
            /\ o.contradictions = native[i].contradictions
            /\ native[i].risk_flags \subseteq o.risk_flags
            /\ <<o.signal, o.confidence>> # <<native[i].signal, native[i].confidence>> =>
                 /\ o.name = "Volatility"
                 /\ o.rationale = [by |-> "calibration", pack |-> pack]
                 /\ Reference("calibration_id", pack) \in o.evidence_refs
                 /\ pack.symbol = Seen.symbol

(* A pack that cannot be used is never passed over in silence: the kernel  *)
(* is told, and the agents say what they would have said without it.       *)
RefusalsAreTold ==
  Evaluated /\ wiring = "calibrated" /\ pack # NoPack
    /\ (pack.symbol # Seen.symbol \/ pack.status = "NOT_CALIBRATED_NO_REAL_DATA") =>
    /\ "CALIBRATION_UNAVAILABLE" \in evidence.unknowns
    /\ Seen.prices < 61 => "CALIBRATION_UNAVAILABLE" \in OutputOf("Volatility").unknowns
    /\ \A i \in DOMAIN outputs :
         outputs[i].signal = NativeOutputs(NativeVotes(Seen))[i].signal

(* What the naive path ignores of a snapshot is what the kernel is told of *)
(* it: a history too short, a shift of regime whenever the agent speaks    *)
(* against the market for one, and a high volatility exactly when a        *)
(* history of 61 prices shows one.                                         *)
EvidenceReachesTheKernel ==
  Evaluated /\ wiring = "native" =>
    /\ evidence.unknowns = NaivePath(Seen).ignored_unknowns
    /\ evidence.contradictions = NaivePath(Seen).ignored_contradictions
    /\ evidence.risk_flags = NaivePath(Seen).ignored_risk_flags
    /\ Seen.prices < 20 => "SHORT_PRICE_HISTORY" \in evidence.unknowns
    /\ OutputOf("RegimeShift").signal = "SELL" <=>
         "REGIME_SHIFT_DETECTED" \in evidence.contradictions
    /\ "HIGH_VOLATILITY" \in evidence.risk_flags <=>
         /\ Seen.prices >= 61 /\ Seen.tape.rv[60] > 0
         /\ Seen.tape.rv[20] * 100 > Seen.tape.rv[60] * 130

(* An external signal never passes for a native one, nor for one of        *)
(* another adapter: it says what one valid payload said, under the name of *)
(* that payload's source, and all that the payload does not know, is       *)
(* contradicted by, warns of and refers to reaches the kernel with it.     *)
ExternalStaysExternal ==
  /\ Evaluated => \A i \in DOMAIN outputs :
       (outputs[i].source.system = "NATIVE") <=> (wiring # "external")
  /\ Evaluated /\ wiring = "external" =>
       \A i \in DOMAIN outputs :
            /\ outputs[i].source.adapter = AdapterId
            /\ \E p \in Payloads :
                 /\ IsValid(p)
                 /\ outputs[i].source.id = p.source_id
                 /\ outputs[i].source.organization = p.organization_id
                 /\ outputs[i].signal = p.signal
                 /\ outputs[i].confidence = p.confidence.percent
                 /\ p.unknowns \subseteq evidence.unknowns
                 /\ p.contradictions \subseteq evidence.contradictions
                 /\ p.risk_flags \subseteq evidence.risk_flags
                 /\ p.evidence_refs \subseteq evidence.evidence_refs

(* The structural score measures how far the signals agree, never on what: *)
(* with every BUY turned into a SELL and back it is the same.              *)
Opposite(signal) == CASE signal = "BUY" -> "SELL" [] signal = "SELL" -> "BUY" [] OTHER -> signal
ScoreIsBlindToSide ==
  Evaluated =>
    StructuralScore(outputs) =
      StructuralScore([i \in DOMAIN outputs |->
        [outputs[i] EXCEPT !.signal = Opposite(@)]])

(* The regimes of a calibrated pack count every return once and every      *)
(* transition once, one more in each cell; at least half of the returns    *)
(* lie in the calm regime, but the other may have been seen by none of     *)
(* them, and its row then says one chance in two without an observation.   *)
RegimesCountEveryReturn ==
  pack.models["markov_regime_matrix"] = "CALIBRATED" =>
    LET c == pack.regimes.counts
        seen == pack.regimes.observed
    IN /\ seen[0] + seen[1] = pack.returns
       /\ c[0][0] + c[0][1] + c[1][0] + c[1][1] = pack.returns + 3
       /\ 2 * seen[0] >= pack.returns
       /\ c[1][0] + c[1][1] - 2 \in {seen[1] - 1, seen[1]}
       /\ seen[1] = 0 => c[1] = [r \in {0, 1} |-> 1]

(* Said by native/agents/calibrated_agents.py:8-9: a pack is consulted     *)
(* only if it has not expired.  A pack of an earlier day has.              *)
ExpiredPacksAreRefused ==
  Evaluated /\ wiring = "calibrated" /\ pack # NoPack /\ pack.created < day =>
    OutputOf("Volatility").rationale.by # "calibration"
==============================================================================
