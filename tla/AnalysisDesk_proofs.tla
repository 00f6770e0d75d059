------------------------- MODULE AnalysisDesk_proofs -------------------------
(***************************************************************************)
(* Theorems about AnalysisDesk, for every wiring, snapshot, dataset, pack  *)
(* and payload.                                                            *)
(*                                                                         *)
(* The invariant says what the signals, their aggregate and the evidence   *)
(* were made of: of what was looked at and of the pack and the day that    *)
(* have not changed since, because a new pack and a new day forget them.   *)
(* What it is made of is then a matter of the operators alone, and of      *)
(* the lemmas about them: who votes, what a calibrated vote keeps of the   *)
(* native one, what a normalised signal keeps of its payload, that a side  *)
(* has someone who speaks for it, that the regimes of a pack add up.  A    *)
(* second invariant keeps what the pack says of itself and that the        *)
(* figures of a snapshot are numbers.                                      *)
(***************************************************************************)
EXTENDS AnalysisProperties, LeastAndSums, TLAPS

Made ==
  /\ evidence = Evidence(outputs)
  /\ consensus = Aggregate(outputs)
  /\ wiring = "native" => outputs = NativeOutputs(NativeVotes(Seen))
  /\ wiring = "calibrated" =>
       outputs = NativeOutputs(CalibratedVotes(Seen, pack, day))
  /\ wiring = "external" =>
       \E n \in 0 .. MaxSignals : \E payloads \in [1 .. n -> Payloads] :
         /\ \A i \in 1 .. n : IsValid(payloads[i])
         /\ outputs = ExternalOutputs(payloads)

Silent == outputs = NoSignals /\ consensus = NoConsensus

DeskInv ==
  /\ wiring \in {"native", "calibrated", "external"}
  /\ raised \in BOOLEAN
  /\ raised => looked # NotLooked
  /\ looked = NotLooked \/ raised => Silent
  /\ Evaluated => Made

------------------------------------------------------------------------------
LEMMA DeskInvInit == Init => DeskInv
  BY DeskAssumption DEF Init, DeskInv, Silent, Evaluated

(* What forgets leaves nothing to answer for.                              *)
LEMMA Forgets ==
  ASSUME DeskInv, Forget, wiring' = wiring
  PROVE  DeskInv'
  BY DEF DeskInv, Forget, Silent, Evaluated

(* A pack is only replaced between two cycles.                             *)
LEMMA Calibrates ==
  ASSUME DeskInv, NEW d, NEW r, NEW v, Calibrate(d, r, v)
  PROVE  DeskInv'
  BY DEF DeskInv, Calibrate, Silent, Evaluated

LEMMA NativeStep ==
  ASSUME DeskInv, NEW s, AnalyseNative(s)
  PROVE  DeskInv'
  <1>1. <<s>> # NotLooked /\ <<s>>[1] = s
    BY DEF NotLooked
  <1>2. Made'
    BY <1>1 DEF AnalyseNative, Conclude, Made, Seen
  <1> QED
    BY <1>1, <1>2 DEF DeskInv, AnalyseNative, Conclude, Evaluated

LEMMA CalibratedStep ==
  ASSUME DeskInv, NEW s, AnalyseCalibrated(s)
  PROVE  DeskInv'
  <1>1. <<s>> # NotLooked /\ <<s>>[1] = s
    BY DEF NotLooked
  <1>2. Made'
    BY <1>1 DEF AnalyseCalibrated, Conclude, Made, Seen
  <1> QED
    BY <1>1, <1>2 DEF DeskInv, AnalyseCalibrated, Conclude, Evaluated

LEMMA ExternalStep ==
  ASSUME DeskInv, NEW symbol, NEW n \in 0 .. MaxSignals,
         NEW payloads \in [1 .. n -> Payloads], AnalyseExternal(symbol, payloads)
  PROVE  DeskInv'
  <1>1. <<[symbol |-> symbol]>> # NotLooked
    BY DEF NotLooked
  <1>2. Made'
    BY DEF AnalyseExternal, Conclude, Made
  <1> QED
    BY <1>1, <1>2 DEF DeskInv, AnalyseExternal, Conclude, Evaluated

LEMMA RaisingStep ==
  ASSUME DeskInv, NEW symbol, NEW payload, looked = NotLooked,
         FetchRaises(symbol, payload)
  PROVE  DeskInv'
  <1>1. <<[symbol |-> symbol]>> # NotLooked
    BY DEF NotLooked
  <1> QED
    BY <1>1 DEF DeskInv, FetchRaises, Silent, Evaluated

LEMMA DeskInvNext == DeskInv /\ [Next]_vars => DeskInv'
  <1> SUFFICES ASSUME DeskInv, [Next]_vars PROVE DeskInv'
    OBVIOUS
  <1>1. CASE NextCycle
    BY <1>1, Forgets DEF NextCycle
  <1>2. CASE Pass
    BY <1>2, Forgets DEF Pass
  <1>3. ASSUME NEW symbol, NEW why, AttemptFails(symbol, why) PROVE DeskInv'
    BY <1>3, Calibrates DEF AttemptFails
  <1>4. ASSUME NEW symbol, NEW bars, NEW closes, NEW word, NEW daily,
               AttemptSucceeds(symbol, bars, closes, word, daily)
        PROVE  DeskInv'
    BY <1>4, Calibrates DEF AttemptSucceeds
  <1>5. ASSUME NEW s, AnalyseNative(s) \/ AnalyseCalibrated(s) PROVE DeskInv'
    BY <1>5, NativeStep, CalibratedStep
  <1>6. ASSUME looked = NotLooked, NEW symbol, NEW n \in 0 .. MaxSignals,
               NEW payloads \in [1 .. n -> Payloads], AnalyseExternal(symbol, payloads)
        PROVE  DeskInv'
    BY <1>6, ExternalStep
  <1>7. ASSUME looked = NotLooked, NEW symbol, NEW payload, FetchRaises(symbol, payload)
        PROVE  DeskInv'
    BY <1>7, RaisingStep
  <1>8. CASE UNCHANGED vars
    BY <1>8 DEF vars, DeskInv, Silent, Evaluated, Made, Seen
  <1> QED
    BY <1>1, <1>2, <1>3, <1>4, <1>5, <1>6, <1>7, <1>8 DEF Next

LEMMA DeskInvHolds == Spec => []DeskInv
  BY DeskInvInit, DeskInvNext, PTL DEF Spec

------------------------------------------------------------------------------
(* Who votes.                                                              *)
LEMMA RosterPlaces ==
  /\ DOMAIN ROSTER_17 = 1 .. 17
  /\ ROSTER_17[3] = "Volatility" /\ ROSTER_17[15] = "RegimeShift"
  /\ ROSTER_17[17] = "ProofConsistency"
  /\ \A i \in 1 .. 17 : ROSTER_17[i] = "Volatility" => i = 3
  /\ \A i \in 1 .. 17 : ROSTER_17[i] = "RegimeShift" => i = 15
  BY DEF ROSTER_17

(* A vote is a record with the name of its agent.                          *)
LEMMA VoteFields ==
  ASSUME NEW agent, NEW told
  PROVE  LET v == AgentVote(agent, told)
         IN /\ v = [name |-> v.name, verdict |-> v.verdict, confidence |-> v.confidence,
                    claim |-> v.claim, unknowns |-> v.unknowns,
                    contradictions |-> v.contradictions, risk_flags |-> v.risk_flags,
                    evidence_refs |-> v.evidence_refs]
            /\ v.name = agent
            /\ v.unknowns = told.unknowns
            /\ v.contradictions = told.contradictions
            /\ v.risk_flags = told.risk_flags
            /\ told.verdict # Absent => v.verdict = told.verdict
  BY DEF AgentVote

LEMMA OutputFields ==
  ASSUME NEW votes, NEW i \in DOMAIN votes
  PROVE  LET o == NativeOutputs(votes)[i]
         IN /\ o.name = votes[i].name
            /\ o.signal = votes[i].verdict
            /\ o.confidence = votes[i].confidence
            /\ o.rationale = votes[i].claim
            /\ o.unknowns = votes[i].unknowns
            /\ o.contradictions = votes[i].contradictions
            /\ o.risk_flags = votes[i].risk_flags
            /\ o.evidence_refs = votes[i].evidence_refs
            /\ o.source.system = "NATIVE"
  BY DEF NativeOutputs, AgentVoteToAgentOutput, ToCanonicalAgentSignal, NativeSource

LEMMA OutputDomain ==
  ASSUME NEW votes
  PROVE  DOMAIN NativeOutputs(votes) = DOMAIN votes
  BY DEF NativeOutputs

LEMMA NativeVote ==
  ASSUME NEW s, NEW i \in 1 .. 17
  PROVE  /\ DOMAIN NativeVotes(s) = 1 .. 17
         /\ NativeVotes(s)[i] = AgentVote(ROSTER_17[i], Evaluate(ROSTER_17[i], s))
  BY RosterPlaces DEF NativeVotes

------------------------------------------------------------------------------
(* What the calibration may change of a vote.                              *)
Kept(v, c) ==
  /\ c.name = v.name
  /\ v.unknowns \subseteq c.unknowns
  /\ c.contradictions = v.contradictions
  /\ v.risk_flags \subseteq c.risk_flags

LEMMA UsablePackIsOfTheSymbol ==
  ASSUME NEW p, NEW symbol, NEW today, Usable(p, symbol, today)
  PROVE  p # NoPack /\ p.symbol = symbol /\ p.status # "NOT_CALIBRATED_NO_REAL_DATA"
  BY DEF Usable, CheckCompatibility

LEMMA VolatilityVote ==
  ASSUME NEW agent, NEW told, NEW s, NEW p, NEW today
  PROVE  LET v == AgentVote(agent, told)
             c == CalibrationAwareVolatilityAgent(v, s, p, today)
         IN /\ Kept(v, c)
            /\ <<c.verdict, c.confidence>> # <<v.verdict, v.confidence>> =>
                 /\ Usable(p, s.symbol, today)
                 /\ c.claim = [by |-> "calibration", pack |-> p]
                 /\ Reference("calibration_id", p) \in c.evidence_refs
            /\ ~ Usable(p, s.symbol, today) => c.verdict = v.verdict
            /\ ~ Usable(p, s.symbol, today) /\ p # NoPack /\ s.prices < 61 =>
                 "CALIBRATION_UNAVAILABLE" \in c.unknowns
  <1> DEFINE v == AgentVote(agent, told)
             c == CalibrationAwareVolatilityAgent(v, s, p, today)
             usable == Usable(p, s.symbol, today)
             noted == IF usable
                      THEN [v EXCEPT !.evidence_refs = @ \cup NoteFor("garch_1_1", p)]
                      ELSE v
  <1>1. v = [name |-> v.name, verdict |-> v.verdict, confidence |-> v.confidence,
             claim |-> v.claim, unknowns |-> v.unknowns,
             contradictions |-> v.contradictions, risk_flags |-> v.risk_flags,
             evidence_refs |-> v.evidence_refs]
    BY VoteFields
  <1> HIDE DEF v
  <1>2. noted = [name |-> v.name, verdict |-> v.verdict, confidence |-> v.confidence,
                 claim |-> v.claim, unknowns |-> v.unknowns,
                 contradictions |-> v.contradictions, risk_flags |-> v.risk_flags,
                 evidence_refs |-> noted.evidence_refs]
    BY <1>1
  <1>3. usable => Reference("calibration_id", p) \in noted.evidence_refs
    BY <1>1 DEF NoteFor
  <1> DEFINE vol == CalibratedDailyVolatility(p)
             rv20 == OrElse(RealizedVolatility(s, 20), 0)
             high == rv20 * 100 > vol * 130
             lean == Lean(rv20 * 100 < vol * 85, high)
             strength == AtMost100(2 * Abs((rv20 * 100) \div vol - 100))
  <1>4. c = CASE ~ (s.prices < 61) -> noted
              [] s.prices < 61 /\ ~ usable ->
                   [noted EXCEPT !.unknowns = @ \cup Refusal(p, s.symbol, today)]
              [] s.prices < 61 /\ usable /\ vol = Unknown -> noted
              [] OTHER ->
                   [noted EXCEPT !.verdict = lean, !.confidence = strength,
                      !.claim = [by |-> "calibration", pack |-> p],
                      !.risk_flags = @ \cup FlagIf(high, "HIGH_VOLATILITY")]
    BY DEF CalibrationAwareVolatilityAgent
  <1> DEFINE Good ==
               /\ Kept(v, c)
               /\ <<c.verdict, c.confidence>> # <<v.verdict, v.confidence>> =>
                    /\ usable
                    /\ c.claim = [by |-> "calibration", pack |-> p]
                    /\ Reference("calibration_id", p) \in c.evidence_refs
               /\ ~ usable => c.verdict = v.verdict
               /\ ~ usable /\ p # NoPack /\ s.prices < 61 =>
                    "CALIBRATION_UNAVAILABLE" \in c.unknowns
  <1> HIDE DEF noted, vol, high, lean, strength, c
  <1>5. ASSUME ~ (s.prices < 61) PROVE Good
    <2>1. c = noted
      BY <1>4, <1>5
    <2> QED
      BY <1>2, <1>5, <2>1 DEF Kept
  <1>6. ASSUME s.prices < 61 /\ ~ usable PROVE Good
    <2>1. c = [noted EXCEPT !.unknowns = @ \cup Refusal(p, s.symbol, today)]
      BY <1>4, <1>6
    <2> QED
      BY <1>2, <1>6, <2>1 DEF Kept, Refusal, FlagIf
  <1>7. ASSUME s.prices < 61 /\ usable /\ vol = Unknown PROVE Good
    <2>1. c = noted
      BY <1>4, <1>7
    <2> QED
      BY <1>2, <1>7, <2>1 DEF Kept
  <1>8. ASSUME s.prices < 61 /\ usable /\ vol # Unknown PROVE Good
    <2>1. c = [noted EXCEPT !.verdict = lean, !.confidence = strength,
                 !.claim = [by |-> "calibration", pack |-> p],
                 !.risk_flags = @ \cup FlagIf(high, "HIGH_VOLATILITY")]
      BY <1>4, <1>8
    <2> QED
      BY <1>2, <1>3, <1>8, <2>1 DEF Kept
  <1>9. Good
    BY <1>5, <1>6, <1>7, <1>8
  <1> QED
    BY <1>9 DEF v, c

LEMMA RegimeShiftVote ==
  ASSUME NEW agent, NEW told, NEW s, NEW p, NEW today
  PROVE  LET v == AgentVote(agent, told)
             c == CalibrationAwareRegimeShiftAgent(v, s, p, today)
         IN /\ Kept(v, c)
            /\ c.verdict = v.verdict /\ c.confidence = v.confidence
            /\ ~ Usable(p, s.symbol, today) /\ p # NoPack =>
                 "CALIBRATION_UNAVAILABLE" \in c.unknowns
  <1> DEFINE v == AgentVote(agent, told)
             c == CalibrationAwareRegimeShiftAgent(v, s, p, today)
  <1>1. v = [name |-> v.name, verdict |-> v.verdict, confidence |-> v.confidence,
             claim |-> v.claim, unknowns |-> v.unknowns,
             contradictions |-> v.contradictions, risk_flags |-> v.risk_flags,
             evidence_refs |-> v.evidence_refs]
    BY VoteFields
  <1>2. c = IF Usable(p, s.symbol, today)
            THEN [v EXCEPT !.evidence_refs = @ \cup NoteFor("markov_regime_matrix", p)]
            ELSE [v EXCEPT !.unknowns = @ \cup Refusal(p, s.symbol, today)]
    BY DEF CalibrationAwareRegimeShiftAgent
  <1> HIDE DEF v, c
  <1>3. /\ Kept(v, c)
        /\ c.verdict = v.verdict /\ c.confidence = v.confidence
        /\ ~ Usable(p, s.symbol, today) /\ p # NoPack =>
             "CALIBRATION_UNAVAILABLE" \in c.unknowns
    BY <1>1, <1>2 DEF Kept, Refusal, FlagIf
  <1> QED
    BY <1>3 DEF v, c

(* What the calibrated roster says, place by place.                        *)
LEMMA CalibratedVote ==
  ASSUME NEW s, NEW p, NEW today, NEW i \in 1 .. 17
  PROVE  LET v == NativeVotes(s)[i]
             c == CalibratedVotes(s, p, today)[i]
         IN /\ Kept(v, c)
            /\ <<c.verdict, c.confidence>> # <<v.verdict, v.confidence>> =>
                 /\ i = 3
                 /\ Usable(p, s.symbol, today)
                 /\ c.claim = [by |-> "calibration", pack |-> p]
                 /\ Reference("calibration_id", p) \in c.evidence_refs
            /\ ~ Usable(p, s.symbol, today) => c.verdict = v.verdict
            /\ ~ Usable(p, s.symbol, today) /\ p # NoPack =>
                 /\ i = 15 => "CALIBRATION_UNAVAILABLE" \in c.unknowns
                 /\ i = 3 /\ s.prices < 61 => "CALIBRATION_UNAVAILABLE" \in c.unknowns
  <1>1. NativeVotes(s)[i] = AgentVote(ROSTER_17[i], Evaluate(ROSTER_17[i], s))
    BY NativeVote
  <1>2. CASE i = 3
    <2>1. CalibratedVotes(s, p, today)[i] =
            CalibrationAwareVolatilityAgent(NativeVotes(s)[i], s, p, today)
      BY <1>2, RosterPlaces DEF CalibratedVotes
    <2> QED
      BY <1>1, <1>2, <2>1, VolatilityVote
  <1>3. CASE i = 15
    <2>1. CalibratedVotes(s, p, today)[i] =
            CalibrationAwareRegimeShiftAgent(NativeVotes(s)[i], s, p, today)
      BY <1>3, RosterPlaces DEF CalibratedVotes
    <2> QED
      BY <1>1, <1>3, <2>1, RegimeShiftVote
  <1>4. CASE i # 3 /\ i # 15
    <2>1. CalibratedVotes(s, p, today)[i] = NativeVotes(s)[i]
      BY <1>4, RosterPlaces DEF CalibratedVotes
    <2> QED
      BY <1>4, <2>1 DEF Kept
  <1> QED
    BY <1>2, <1>3, <1>4

LEMMA CalibratedDomain ==
  ASSUME NEW s, NEW p, NEW today
  PROVE  DOMAIN CalibratedVotes(s, p, today) = 1 .. 17
  BY RosterPlaces DEF CalibratedVotes

------------------------------------------------------------------------------
(* Whatever the roster's pack, a vote that it makes differ from the native *)
(* one is the volatility agent's, says which pack made it and is on the    *)
(* symbol of that pack; reservations are only ever added.  (The consults   *)
(* of native/agents/calibrated_agents.py.)                                 *)
THEOREM CalibrationTraced == Spec => []CalibrationIsTraceable
  <1>1. DeskInv => CalibrationIsTraceable
    <2> SUFFICES ASSUME DeskInv, Evaluated, wiring = "calibrated"
                 PROVE  CalibrationIsTraceable
      BY DEF CalibrationIsTraceable
    <2> DEFINE native == NativeOutputs(NativeVotes(Seen))
    <2>1. outputs = NativeOutputs(CalibratedVotes(Seen, pack, day))
      BY DEF DeskInv, Made
    <2>2. DOMAIN outputs = 1 .. 17
      BY <2>1, CalibratedDomain, OutputDomain
    <2>3. ASSUME NEW i \in 1 .. 17
          PROVE  /\ native[i].unknowns \subseteq outputs[i].unknowns
                 /\ outputs[i].contradictions = native[i].contradictions
                 /\ native[i].risk_flags \subseteq outputs[i].risk_flags
                 /\ <<outputs[i].signal, outputs[i].confidence>>
                      # <<native[i].signal, native[i].confidence>> =>
                      /\ outputs[i].name = "Volatility"
                      /\ outputs[i].rationale = [by |-> "calibration", pack |-> pack]
                      /\ Reference("calibration_id", pack) \in outputs[i].evidence_refs
                      /\ pack.symbol = Seen.symbol
      <3> DEFINE v == NativeVotes(Seen)[i]
                 c == CalibratedVotes(Seen, pack, day)[i]
      <3>1. /\ native[i].signal = v.verdict
            /\ native[i].confidence = v.confidence
            /\ native[i].unknowns = v.unknowns
            /\ native[i].contradictions = v.contradictions
            /\ native[i].risk_flags = v.risk_flags
        BY NativeVote, OutputFields
      <3>2. /\ outputs[i].name = c.name
            /\ outputs[i].signal = c.verdict
            /\ outputs[i].confidence = c.confidence
            /\ outputs[i].rationale = c.claim
            /\ outputs[i].unknowns = c.unknowns
            /\ outputs[i].contradictions = c.contradictions
            /\ outputs[i].risk_flags = c.risk_flags
            /\ outputs[i].evidence_refs = c.evidence_refs
        BY <2>1, CalibratedDomain, OutputFields
      <3>3. v.name = ROSTER_17[i]
        BY NativeVote, VoteFields
      <3>4. /\ Kept(v, c)
            /\ <<c.verdict, c.confidence>> # <<v.verdict, v.confidence>> =>
                 /\ i = 3
                 /\ Usable(pack, Seen.symbol, day)
                 /\ c.claim = [by |-> "calibration", pack |-> pack]
                 /\ Reference("calibration_id", pack) \in c.evidence_refs
        BY CalibratedVote
      <3> HIDE DEF native, v, c
      <3> QED
        BY <3>1, <3>2, <3>3, <3>4, RosterPlaces, UsablePackIsOfTheSymbol DEF Kept
    <2> QED
      BY <2>2, <2>3 DEF CalibrationIsTraceable
  <1> QED
    BY <1>1, DeskInvHolds, PTL

(* The output named for the volatility agent is the third one.             *)
LEMMA VolatilityOutput ==
  ASSUME NEW votes, DOMAIN votes = 1 .. 17,
         \A i \in 1 .. 17 : votes[i].name = ROSTER_17[i],
         outputs = NativeOutputs(votes)
  PROVE  OutputOf("Volatility") = outputs[3]
  <1>1. DOMAIN outputs = 1 .. 17
    BY OutputDomain
  <1>2. \A i \in 1 .. 17 : outputs[i].name = ROSTER_17[i]
    BY OutputFields
  <1>3. outputs[3] \in Range(outputs) /\ outputs[3].name = "Volatility"
    BY <1>1, <1>2, RosterPlaces DEF Range
  <1>4. \A o \in Range(outputs) : o.name = "Volatility" => o = outputs[3]
    BY <1>1, <1>2, RosterPlaces DEF Range
  <1> QED
    BY <1>3, <1>4 DEF OutputOf

(* A pack that cannot be used is told to the kernel, and the votes stay as *)
(* the native roster casts them.  (check_compatibility and the refusals of *)
(* native/agents/calibrated_agents.py.)                                    *)
THEOREM RefusalsTold == Spec => []RefusalsAreTold
  <1>1. DeskInv => RefusalsAreTold
    <2> SUFFICES ASSUME DeskInv, Evaluated, wiring = "calibrated", pack # NoPack,
                        pack.symbol # Seen.symbol
                          \/ pack.status = "NOT_CALIBRATED_NO_REAL_DATA"
                 PROVE  RefusalsAreTold
      BY DEF RefusalsAreTold
    <2> DEFINE votes == CalibratedVotes(Seen, pack, day)
               native == NativeOutputs(NativeVotes(Seen))
    <2>1. outputs = NativeOutputs(votes) /\ evidence = Evidence(outputs)
      BY DEF DeskInv, Made
    <2>2. DOMAIN votes = 1 .. 17 /\ DOMAIN outputs = 1 .. 17
      BY <2>1, CalibratedDomain, OutputDomain
    <2>3. ~ Usable(pack, Seen.symbol, day)
      BY UsablePackIsOfTheSymbol
    <2>4. ASSUME NEW i \in 1 .. 17 PROVE votes[i].name = ROSTER_17[i]
      <3>1. NativeVotes(Seen)[i].name = ROSTER_17[i]
        BY NativeVote, VoteFields
      <3>2. Kept(NativeVotes(Seen)[i], votes[i])
        BY CalibratedVote
      <3> QED
        BY <3>1, <3>2 DEF Kept
    <2>5. "CALIBRATION_UNAVAILABLE" \in outputs[15].unknowns
      <3>1. "CALIBRATION_UNAVAILABLE" \in votes[15].unknowns
        <4>1. 15 \in 1 .. 17
          OBVIOUS
        <4> QED
          BY <2>3, <4>1, CalibratedVote
      <3>2. outputs[15].unknowns = votes[15].unknowns
        BY <2>1, <2>2, OutputFields
      <3> QED
        BY <3>1, <3>2
    <2>6. Seen.prices < 61 => "CALIBRATION_UNAVAILABLE" \in outputs[3].unknowns
      <3>1. Seen.prices < 61 => "CALIBRATION_UNAVAILABLE" \in votes[3].unknowns
        <4>1. 3 \in 1 .. 17
          OBVIOUS
        <4> QED
          BY <2>3, <4>1, CalibratedVote
      <3>2. outputs[3].unknowns = votes[3].unknowns
        BY <2>1, <2>2, OutputFields
      <3> QED
        BY <3>1, <3>2
    <2>7. ASSUME NEW i \in 1 .. 17 PROVE outputs[i].signal = native[i].signal
      <3>1. votes[i].verdict = NativeVotes(Seen)[i].verdict
        BY <2>3, CalibratedVote
      <3>2. outputs[i].signal = votes[i].verdict
        BY <2>1, <2>2, OutputFields
      <3>3. native[i].signal = NativeVotes(Seen)[i].verdict
        BY NativeVote, OutputFields
      <3> QED
        BY <3>1, <3>2, <3>3
    <2>8. OutputOf("Volatility") = outputs[3]
      BY <2>1, <2>2, <2>4, VolatilityOutput
    <2>9. "CALIBRATION_UNAVAILABLE" \in evidence.unknowns
      BY <2>1, <2>2, <2>5 DEF Evidence, Gathered
    <2> HIDE DEF native
    <2> QED
      BY <2>2, <2>6, <2>7, <2>8, <2>9 DEF RefusalsAreTold, native
  <1> QED
    BY <1>1, DeskInvHolds, PTL

(* A signal of a third party is marked as one, by the adapter itself, says *)
(* what a validated payload said, and brings all the payload's unknowns,   *)
(* contradictions, warnings and references to the kernel.                  *)
(* (external_signal.py, normalizer.py and base_adapter.py.)                *)
THEOREM ExternalMarked == Spec => []ExternalStaysExternal
  <1>1. ASSUME DeskInv, Evaluated, wiring # "external"
        PROVE  \A i \in DOMAIN outputs : outputs[i].source.system = "NATIVE"
    <2>1. PICK votes : outputs = NativeOutputs(votes)
      BY <1>1 DEF DeskInv, Made
    <2> QED
      BY <2>1, OutputDomain, OutputFields
  <1>2. ASSUME DeskInv, Evaluated, wiring = "external"
        PROVE  \A i \in DOMAIN outputs :
                 /\ outputs[i].source.system = "EXTERNAL"
                 /\ outputs[i].source.adapter = AdapterId
                 /\ \E p \in Payloads :
                      /\ IsValid(p)
                      /\ outputs[i].source.id = p.source_id
                      /\ outputs[i].source.organization = p.organization_id
                      /\ outputs[i].signal = p.signal
                      /\ outputs[i].confidence = p.confidence.percent
                      /\ p.unknowns \subseteq evidence.unknowns
                      /\ p.contradictions \subseteq evidence.contradictions
                      /\ p.risk_flags \subseteq evidence.risk_flags
                      /\ p.evidence_refs \subseteq evidence.evidence_refs
    <2>1. PICK n \in 0 .. MaxSignals :
            \E payloads \in [1 .. n -> Payloads] :
              /\ \A i \in 1 .. n : IsValid(payloads[i])
              /\ outputs = ExternalOutputs(payloads)
      BY <1>2 DEF DeskInv, Made
    <2>2. PICK payloads \in [1 .. n -> Payloads] :
            /\ \A i \in 1 .. n : IsValid(payloads[i])
            /\ outputs = ExternalOutputs(payloads)
      BY <2>1
    <2>3. evidence = Evidence(outputs)
      BY <1>2 DEF DeskInv, Made
    <2>4. DOMAIN outputs = 1 .. n
      BY <2>2 DEF ExternalOutputs
    <2>5. ASSUME NEW i \in DOMAIN outputs
          PROVE  /\ outputs[i].source = ExternalSource(FromRawPayload(payloads[i]), AdapterId)
                 /\ outputs[i].signal = payloads[i].signal
                 /\ outputs[i].confidence = payloads[i].confidence.percent
                 /\ outputs[i].unknowns = payloads[i].unknowns
                 /\ outputs[i].contradictions = payloads[i].contradictions
                 /\ outputs[i].risk_flags = payloads[i].risk_flags
                 /\ outputs[i].evidence_refs = payloads[i].evidence_refs
      BY <2>2, <2>4 DEF ExternalOutputs, NormalizeExternalSignal, FromRawPayload,
                        ToCanonicalAgentSignal
    <2>6. ASSUME NEW i \in DOMAIN outputs
          PROVE  /\ outputs[i].unknowns \subseteq evidence.unknowns
                 /\ outputs[i].contradictions \subseteq evidence.contradictions
                 /\ outputs[i].risk_flags \subseteq evidence.risk_flags
                 /\ outputs[i].evidence_refs \subseteq evidence.evidence_refs
      BY <2>3 DEF Evidence, Gathered
    <2>7. ASSUME NEW i \in DOMAIN outputs
          PROVE  /\ outputs[i].source.system = "EXTERNAL"
                 /\ outputs[i].source.adapter = AdapterId
                 /\ outputs[i].source.id = payloads[i].source_id
                 /\ outputs[i].source.organization = payloads[i].organization_id
                 /\ payloads[i] \in Payloads /\ IsValid(payloads[i])
      <3>1. payloads[i] \in Payloads /\ IsValid(payloads[i])
        BY <2>2, <2>4
      <3>2. outputs[i].source =
              [system |-> "EXTERNAL", id |-> payloads[i].source_id,
               adapter |-> AdapterId, organization |-> payloads[i].organization_id]
        BY <2>5 DEF FromRawPayload, ExternalSource
      <3> QED
        BY <3>1, <3>2
    <2> QED
      BY <2>5, <2>6, <2>7
  <1>3. DeskInv => ExternalStaysExternal
    BY <1>1, <1>2 DEF ExternalStaysExternal, DeskInv, Silent, Evaluated
  <1> QED
    BY <1>3, DeskInvHolds, PTL

------------------------------------------------------------------------------
(* The signals of a cycle are a sequence of records.                       *)
LEMMA OutputsAreRecords ==
  ASSUME DeskInv, Evaluated
  PROVE  \E n \in Nat :
           /\ outputs = [i \in 1 .. n |-> outputs[i]]
           /\ \A i \in 1 .. n :
                outputs[i] = [name |-> outputs[i].name, signal |-> outputs[i].signal,
                  confidence |-> outputs[i].confidence,
                  rationale |-> outputs[i].rationale, unknowns |-> outputs[i].unknowns,
                  contradictions |-> outputs[i].contradictions,
                  risk_flags |-> outputs[i].risk_flags,
                  evidence_refs |-> outputs[i].evidence_refs,
                  source |-> outputs[i].source]
  <1>1. CASE wiring # "external"
    <2>1. PICK votes : DOMAIN votes = 1 .. 17 /\ outputs = NativeOutputs(votes)
      BY <1>1, NativeVote, CalibratedDomain DEF DeskInv, Made
    <2> QED
      BY <2>1 DEF NativeOutputs, AgentVoteToAgentOutput, ToCanonicalAgentSignal
  <1>2. CASE wiring = "external"
    <2>1. PICK n \in 0 .. MaxSignals :
            \E payloads \in [1 .. n -> Payloads] : outputs = ExternalOutputs(payloads)
      BY <1>2 DEF DeskInv, Made
    <2>2. PICK payloads \in [1 .. n -> Payloads] : outputs = ExternalOutputs(payloads)
      BY <2>1
    <2>3. n \in Nat
      BY DeskAssumption
    <2>4. outputs = [i \in 1 .. n |-> outputs[i]]
      BY <2>2 DEF ExternalOutputs
    <2>5. ASSUME NEW i \in 1 .. n
          PROVE  \E v, source : outputs[i] = ToCanonicalAgentSignal(v, v.verdict, source)
      BY <2>2 DEF ExternalOutputs, NormalizeExternalSignal
    <2> QED
      BY <2>3, <2>4, <2>5 DEF ToCanonicalAgentSignal
  <1> QED
    BY <1>1, <1>2

LEMMA OppositeIsAnExchange ==
  ASSUME NEW a, NEW b
  PROVE  Opposite(a) = Opposite(b) <=> a = b
  BY DEF Opposite

(* The structural score is a function of the coherence matrix, which only  *)
(* compares the signals: exchanging the sides of all of them changes       *)
(* nothing.  (governance/bridge/local_signal.py.)                          *)
THEOREM ScoreBlind == Spec => []ScoreIsBlindToSide
  <1>1. DeskInv => ScoreIsBlindToSide
    <2> SUFFICES ASSUME DeskInv, Evaluated PROVE ScoreIsBlindToSide
      BY DEF ScoreIsBlindToSide
    <2> DEFINE swapped == [i \in DOMAIN outputs |->
                 [outputs[i] EXCEPT !.signal = Opposite(@)]]
    <2>1. PICK n \in Nat :
            /\ outputs = [i \in 1 .. n |-> outputs[i]]
            /\ \A i \in 1 .. n :
                 outputs[i] = [name |-> outputs[i].name, signal |-> outputs[i].signal,
                   confidence |-> outputs[i].confidence,
                   rationale |-> outputs[i].rationale, unknowns |-> outputs[i].unknowns,
                   contradictions |-> outputs[i].contradictions,
                   risk_flags |-> outputs[i].risk_flags,
                   evidence_refs |-> outputs[i].evidence_refs,
                   source |-> outputs[i].source]
      BY OutputsAreRecords
    <2>2. DOMAIN outputs = 1 .. n /\ DOMAIN swapped = 1 .. n
      BY <2>1
    <2>3. \A i \in 1 .. n : /\ swapped[i].signal = Opposite(outputs[i].signal)
                            /\ swapped[i].confidence = outputs[i].confidence
      BY <2>1, <2>2
    <2> HIDE DEF swapped
    <2>4. Coherence(swapped) = Coherence(outputs)
      <3>1. \A i, j \in 1 .. n :
              swapped[i].signal = swapped[j].signal <=> outputs[i].signal = outputs[j].signal
        BY <2>3, OppositeIsAnExchange
      <3> QED
        BY <2>2, <2>3, <3>1 DEF Coherence
    <2>5. swapped = <<>> <=> outputs = <<>>
      <3>1. outputs = <<>> <=> n = 0
        BY <2>1, <2>2
      <3>2. swapped = <<>> <=> n = 0
        BY <2>1, <2>2 DEF swapped
      <3> QED
        BY <3>1, <3>2
    <2>6. StructuralScore(swapped) = StructuralScore(outputs)
      BY <2>4, <2>5 DEF StructuralScore
    <2> QED
      BY <2>6 DEF ScoreIsBlindToSide, swapped
  <1> QED
    BY <1>1, DeskInvHolds, PTL

------------------------------------------------------------------------------
(* Whose weight is not above zero: of signals none of which has a          *)
(* confidence above zero.                                                  *)
LEMMA WeightIsANumber ==
  ASSUME NEW outs, IsFiniteSet(DOMAIN outs), NEW signal,
         \A i \in DOMAIN outs : outs[i].confidence \in Int
  PROVE  Weight(outs, signal) \in Int
  <1> DEFINE said == {i \in DOMAIN outs : outs[i].signal = signal}
             conf == [i \in DOMAIN outs |-> outs[i].confidence]
  <1>1. IsFiniteSet(said) /\ Numbers(conf, said)
    BY FS_Subset DEF Numbers
  <1> HIDE DEF said, conf
  <1>2. SumFunctionOnSet(conf, said) \in Int
    BY <1>1, SumRemove
  <1> QED
    BY <1>2 DEF Weight, said, conf

LEMMA WeightNeedsAVoice ==
  ASSUME NEW outs, IsFiniteSet(DOMAIN outs), NEW signal,
         \A i \in DOMAIN outs : outs[i].confidence \in Int,
         \A i \in DOMAIN outs : outs[i].signal = signal => outs[i].confidence <= 0
  PROVE  Weight(outs, signal) <= 0
  <1> DEFINE said == {i \in DOMAIN outs : outs[i].signal = signal}
             conf == [i \in DOMAIN outs |-> outs[i].confidence]
             none == {}
  <1>1. IsFiniteSet(said) /\ Numbers(conf, said)
    BY FS_Subset DEF Numbers
  <1>2. \A i \in said \ none : conf[i] <= 0
    OBVIOUS
  <1>3. /\ \A y \in none : conf[y] \in Nat
        /\ \A i \in said \cap none : conf[i] \in none /\ conf[i] <= conf[conf[i]]
        /\ \A i, j \in said \cap none : conf[i] = conf[j] => i = j
        /\ IsFiniteSet(none)
    BY FS_EmptySet
  <1> HIDE DEF said, conf, none
  <1>4. SumFunctionOnSet(conf, said) <= SumFunctionOnSet(conf, none)
    BY <1>1, <1>2, <1>3, SumWithin
  <1>5. SumFunctionOnSet(conf, none) = 0
    BY SumOfNone DEF none
  <1>6. SumFunctionOnSet(conf, said) \in Int
    BY <1>1, SumRemove
  <1> QED
    BY <1>4, <1>5, <1>6 DEF Weight, said, conf

(* The side that Aggregate takes has a weight above zero.                  *)
LEMMA SideHasWeight ==
  ASSUME NEW buy \in Int, NEW sell \in Int, NEW hold \in Int
  PROVE  LET side == Side(buy, sell, hold)
         IN /\ side \in {"BUY", "SELL", "HOLD"}
            /\ side = "BUY" => buy > 0
            /\ side = "SELL" => sell > 0
  <1>1. CASE buy + sell + hold <= 0
    BY <1>1 DEF Side
  <1>2. CASE buy + sell + hold > 0
    <2>1. CASE buy >= sell /\ buy >= hold
      <3>1. Side(buy, sell, hold) = "BUY"
        BY <1>2, <2>1 DEF Side
      <3> QED
        BY <1>2, <2>1, <3>1
    <2>2. CASE buy < sell /\ sell >= hold
      <3>1. Side(buy, sell, hold) = "SELL"
        BY <1>2, <2>2 DEF Side
      <3> QED
        BY <1>2, <2>2, <3>1
    <2>3. CASE ~ (buy >= sell /\ buy >= hold) /\ ~ (buy < sell /\ sell >= hold)
      BY <1>2, <2>3 DEF Side
    <2> QED
      BY <2>1, <2>2, <2>3
  <1> QED
    BY <1>1, <1>2

LEMMA SideHasAVoice ==
  ASSUME NEW outs, IsFiniteSet(DOMAIN outs),
         \A i \in DOMAIN outs : outs[i].confidence \in Int
  PROVE  LET side == Aggregate(outs).side
         IN /\ side \in {"BUY", "SELL", "HOLD"}
            /\ side # "HOLD" =>
                 \E i \in DOMAIN outs : outs[i].signal = side /\ outs[i].confidence > 0
            /\ Aggregate(outs).opposing = Opposing(outs, side)
  <1> DEFINE buy == Weight(outs, "BUY")
             sell == Weight(outs, "SELL")
             hold == Weight(outs, "HOLD")
             side == Side(buy, sell, hold)
  <1>1. buy \in Int /\ sell \in Int /\ hold \in Int
    BY WeightIsANumber
  <1>2. /\ buy > 0 => \E i \in DOMAIN outs :
             outs[i].signal = "BUY" /\ ~ (outs[i].confidence <= 0)
        /\ sell > 0 => \E i \in DOMAIN outs :
             outs[i].signal = "SELL" /\ ~ (outs[i].confidence <= 0)
    <2>1. CASE \A i \in DOMAIN outs : outs[i].signal = "BUY" => outs[i].confidence <= 0
      <3>1. buy <= 0
        BY <2>1, WeightNeedsAVoice
      <3> QED
        BY <1>1, <2>1, <3>1, WeightNeedsAVoice
    <2>2. CASE \A i \in DOMAIN outs : outs[i].signal = "SELL" => outs[i].confidence <= 0
      <3>1. sell <= 0
        BY <2>2, WeightNeedsAVoice
      <3> QED
        BY <1>1, <2>2, <3>1, WeightNeedsAVoice
    <2> HIDE DEF buy, sell
    <2> QED
      BY <2>1, <2>2
  <1>3. Aggregate(outs).side = side /\ Aggregate(outs).opposing = Opposing(outs, side)
    BY DEF Aggregate
  <1> HIDE DEF buy, sell, hold
  <1>4. /\ side \in {"BUY", "SELL", "HOLD"}
        /\ side = "BUY" => buy > 0
        /\ side = "SELL" => sell > 0
    BY <1>1, SideHasWeight
  <1> HIDE DEF side
  <1> QED
    BY <1>2, <1>3, <1>4

------------------------------------------------------------------------------
(* The least of a set of numbers that is not empty is one of them.         *)
LEMMA MinIsLeast ==
  ASSUME NEW S, S \subseteq Nat, S # {}
  PROVE  Min(S) \in S /\ \A y \in S : Min(S) <= y
  BY LeastNumber DEF Min

(* A finite family of numbers has a greatest one.                          *)
LEMMA GreatestReturn ==
  ASSUME NEW N \in Nat, N > 0, NEW r \in [1 .. N -> Nat]
  PROVE  \E i \in 1 .. N : \A j \in 1 .. N : r[j] <= r[i]
  <1> DEFINE places == 1 .. N
             Above(i) == {j \in places : r[j] > r[i]}
             C == {Above(i) : i \in places}
  <1>1. IsFiniteSet(places)
    BY FS_Interval
  <1>2. \E m \in C : \A z \in C : ~ (z \subseteq m /\ z # m)
    <2>1. C \subseteq SUBSET places
      OBVIOUS
    <2>2. Above(1) \in C
      OBVIOUS
    <2> HIDE DEF C, places, Above
    <2> QED
      BY <1>1, <2>1, <2>2, SmallestSet
  <1> HIDE DEF Above
  <1>3. PICK i \in places : \A k \in places :
          ~ (Above(k) \subseteq Above(i) /\ Above(k) # Above(i))
    <2>1. PICK m \in C : \A z \in C : ~ (z \subseteq m /\ z # m)
      BY <1>2
    <2>2. PICK i \in places : m = Above(i)
      BY <2>1
    <2>3. \A k \in places : Above(k) \in C
      OBVIOUS
    <2> HIDE DEF C
    <2> QED
      BY <2>1, <2>2, <2>3
  <1> USE DEF Above
  <1>4. ASSUME NEW j \in places, ~ (r[j] <= r[i]) PROVE FALSE
    <2>1. j \in Above(i) /\ j \notin Above(j)
      BY <1>4
    <2>2. Above(j) \subseteq Above(i)
      BY <1>4
    <2> QED
      BY <1>3, <2>1, <2>2
  <1> QED
    BY <1>3, <1>4

(* More than half of the returns do not exceed the threshold.              *)
LEMMA ThresholdIsReached ==
  ASSUME NEW N \in Nat, N > 0, NEW returns \in [1 .. N -> Nat], Len(returns) = N
  PROVE  Cardinality({i \in 1 .. N : returns[i] <= Threshold(returns)}) > N \div 2
  <1> DEFINE Upto(t) == {i \in 1 .. N : returns[i] <= t}
             S == {t \in Range(returns) : Cardinality(Upto(t)) > N \div 2}
  <1>1. PICK m \in 1 .. N : \A j \in 1 .. N : returns[j] <= returns[m]
    BY GreatestReturn
  <1>2. returns[m] \in S
    <2>1. Upto(returns[m]) = 1 .. N
      BY <1>1
    <2>2. Cardinality(1 .. N) = N
      <3>1. Cardinality(1 .. N) = IF 1 > N THEN 0 ELSE N - 1 + 1
        BY FS_Interval
      <3> QED
        BY <3>1
    <2>3. returns[m] \in Range(returns)
      BY DEF Range
    <2>4. Cardinality(Upto(returns[m])) > N \div 2
      <3> HIDE DEF Upto
      <3> QED
        BY <2>1, <2>2
    <2> HIDE DEF Upto
    <2> QED
      BY <2>3, <2>4
  <1>3. S \subseteq Nat
    BY DEF Range
  <1>4. Threshold(returns) = Min(S)
    BY DEF Threshold
  <1>5. Min(S) \in S
    <2> HIDE DEF S
    <2> QED
      BY <1>2, <1>3, MinIsLeast
  <1> QED
    BY <1>4, <1>5

(* A finite set parted in two counts as much as its parts together.        *)
LEMMA PartsAddUp ==
  ASSUME NEW U, NEW A, NEW B, IsFiniteSet(U), U = A \cup B, A \cap B = {}
  PROVE  /\ IsFiniteSet(A) /\ IsFiniteSet(B)
         /\ Cardinality(A) \in Nat /\ Cardinality(B) \in Nat
         /\ Cardinality(U) = Cardinality(A) + Cardinality(B)
  <1>1. A \in SUBSET U /\ B \in SUBSET U
    OBVIOUS
  <1>2. IsFiniteSet(A) /\ IsFiniteSet(B)
    BY <1>1, FS_Subset
  <1>3. Cardinality(A) \in Nat /\ Cardinality(B) \in Nat
    BY <1>2, FS_CardinalityType
  <1>4. Cardinality(A \cup B) =
          Cardinality(A) + Cardinality(B) - Cardinality(A \cap B)
    BY <1>2, FS_Union
  <1>5. Cardinality(A \cap B) = 0
    BY FS_EmptySet
  <1>6. Cardinality(U) = Cardinality(A) + Cardinality(B) - 0
    BY <1>4, <1>5
  <1> QED
    BY <1>2, <1>3, <1>6

(* The regimes of a history long enough: each of its returns is in one of  *)
(* the two, each of its transitions is from one to one, and those from the *)
(* agitated one are as many as its returns, but for the last return.       *)
LEMMA RegimesAddUp ==
  ASSUME NEW returns \in Seq(Nat), Len(returns) >= MIN_OBSERVATIONS_MARKOV
  PROVE  LET c == EstimateMarkov(returns).counts
             seen == EstimateMarkov(returns).observed
         IN /\ seen[0] + seen[1] = Len(returns)
            /\ c[0][0] + c[0][1] + c[1][0] + c[1][1] = Len(returns) + 3
            /\ 2 * seen[0] >= Len(returns)
            /\ c[1][0] + c[1][1] - 2 \in {seen[1] - 1, seen[1]}
            /\ seen[1] = 0 => c[1] = [r \in {0, 1} |-> 1]
  <1> DEFINE N == Len(returns)
             regime == [i \in DOMAIN returns |-> RegimeOf(returns[i], Threshold(returns))]
             In(r) == {i \in DOMAIN returns : regime[i] = r}
             From(a, b) == {i \in 2 .. N : regime[i - 1] = a /\ regime[i] = b}
             Leaving(a) == {i \in 2 .. N : regime[i - 1] = a}
             c == EstimateMarkov(returns).counts
             seen == EstimateMarkov(returns).observed
  <1>1. N \in Nat /\ N >= 30 /\ DOMAIN returns = 1 .. N /\ returns \in [1 .. N -> Nat]
    BY DEF MIN_OBSERVATIONS_MARKOV
  <1>2. /\ c = [a \in {0, 1} |-> [b \in {0, 1} |-> 1 + Cardinality(From(a, b))]]
        /\ seen = [r \in {0, 1} |-> Cardinality(In(r))]
    <2>1. EstimateMarkov(returns) =
            [sufficient |-> TRUE,
             counts |-> [a \in {0, 1} |-> [b \in {0, 1} |-> 1 + Cardinality(From(a, b))]],
             observed |-> [r \in {0, 1} |-> Cardinality(In(r))]]
      BY <1>1 DEF EstimateMarkov, MIN_OBSERVATIONS_MARKOV
    <2> HIDE DEF From, In
    <2> QED
      BY <2>1
  <1>3. \A i \in 1 .. N : regime[i] = 0 \/ regime[i] = 1
    BY <1>1 DEF RegimeOf
  <1>4. In(0) = {i \in 1 .. N : returns[i] <= Threshold(returns)}
    BY <1>1 DEF RegimeOf
  <1> HIDE DEF c, seen, regime, N
  <1>5. IsFiniteSet(1 .. N) /\ Cardinality(1 .. N) = N
    <2>1. Cardinality(1 .. N) = IF 1 > N THEN 0 ELSE N - 1 + 1
      BY <1>1, FS_Interval
    <2> QED
      BY <1>1, <2>1, FS_Interval
  <1>6. IsFiniteSet(2 .. N) /\ Cardinality(2 .. N) = N - 1
    <2>1. Cardinality(2 .. N) = IF 2 > N THEN 0 ELSE N - 2 + 1
      BY <1>1, FS_Interval
    <2> QED
      BY <1>1, <2>1, FS_Interval
  <1>7. /\ Cardinality(In(0)) + Cardinality(In(1)) = N
        /\ Cardinality(In(0)) \in Nat /\ Cardinality(In(1)) \in Nat
        /\ IsFiniteSet(In(1))
    <2>1. In(0) \cup In(1) = 1 .. N /\ In(0) \cap In(1) = {}
      BY <1>1, <1>3
    <2> DEFINE all == 1 .. N
               calm == In(0)
               agitated == In(1)
    <2>2. /\ IsFiniteSet(all) /\ Cardinality(all) = N
          /\ all = calm \cup agitated /\ calm \cap agitated = {}
      BY <1>5, <2>1
    <2> HIDE DEF In, all, calm, agitated
    <2>3. /\ IsFiniteSet(calm) /\ IsFiniteSet(agitated)
          /\ Cardinality(calm) \in Nat /\ Cardinality(agitated) \in Nat
          /\ Cardinality(all) = Cardinality(calm) + Cardinality(agitated)
      BY <2>2, PartsAddUp
    <2> QED
      BY <2>2, <2>3 DEF calm, agitated
  <1>8. ASSUME NEW a \in {0, 1}
        PROVE  /\ Cardinality(Leaving(a)) =
                    Cardinality(From(a, 0)) + Cardinality(From(a, 1))
               /\ Cardinality(From(a, 0)) \in Nat /\ Cardinality(From(a, 1)) \in Nat
    <2>1. From(a, 0) \cup From(a, 1) = Leaving(a) /\ From(a, 0) \cap From(a, 1) = {}
      BY <1>1, <1>3
    <2>2. IsFiniteSet(Leaving(a))
      BY <1>6, FS_Subset
    <2> HIDE DEF From, Leaving
    <2> QED
      BY <2>1, <2>2, PartsAddUp
  <1>9. Cardinality(Leaving(0)) + Cardinality(Leaving(1)) = N - 1
    <2>1. Leaving(0) \cup Leaving(1) = 2 .. N /\ Leaving(0) \cap Leaving(1) = {}
      BY <1>1, <1>3
    <2> HIDE DEF Leaving
    <2> QED
      BY <1>6, <2>1, PartsAddUp
  <1>10. Cardinality(Leaving(1)) = Cardinality(In(1) \ {N})
    <2> DEFINE shift == [i \in Leaving(1) |-> i - 1]
    <2>1. shift \in [Leaving(1) -> In(1) \ {N}]
      BY <1>1
    <2>2. \A i, j \in Leaving(1) : shift[i] = shift[j] => i = j
      BY <1>1
    <2>3. \A k \in In(1) \ {N} : \E i \in Leaving(1) : shift[i] = k
      <3> SUFFICES ASSUME NEW k \in In(1) \ {N}
                   PROVE  \E i \in Leaving(1) : shift[i] = k
        OBVIOUS
      <3>1. k + 1 \in Leaving(1) /\ shift[k + 1] = k
        BY <1>1
      <3> QED
        BY <3>1
    <2>4. IsFiniteSet(Leaving(1))
      BY <1>6, FS_Subset
    <2> HIDE DEF shift, In, Leaving
    <2>5. shift \in Bijection(Leaving(1), In(1) \ {N})
      BY <2>1, <2>2, <2>3 DEF Bijection, Injection, IsInjective, Surjection
    <2> QED
      BY <2>4, <2>5, FS_Bijection DEF ExistsBijection
  <1>11. Cardinality(In(1) \ {N}) \in {Cardinality(In(1)) - 1, Cardinality(In(1))}
    <2> HIDE DEF In
    <2> QED
      BY <1>7, FS_RemoveElement
  <1>12. Cardinality(In(0)) > N \div 2
    <2>1. N > 0 /\ Len(returns) = N
      BY <1>1 DEF N
    <2> HIDE DEF In
    <2> QED
      BY <1>1, <1>4, <2>1, ThresholdIsReached
  <1>13. Cardinality(In(1)) = 0 =>
           Cardinality(From(1, 0)) = 0 /\ Cardinality(From(1, 1)) = 0
    <2> SUFFICES ASSUME Cardinality(In(1)) = 0
                 PROVE  From(1, 0) = {} /\ From(1, 1) = {}
      BY FS_EmptySet
    <2>1. In(1) = {}
      <3> HIDE DEF In
      <3> QED
        BY <1>7, FS_EmptySet
    <2> QED
      BY <1>1, <2>1
  <1> HIDE DEF In, From, Leaving
  <1>14. seen[0] = Cardinality(In(0)) /\ seen[1] = Cardinality(In(1))
    BY <1>2
  <1>15. /\ c[0][0] = 1 + Cardinality(From(0, 0)) /\ c[0][1] = 1 + Cardinality(From(0, 1))
         /\ c[1][0] = 1 + Cardinality(From(1, 0)) /\ c[1][1] = 1 + Cardinality(From(1, 1))
    BY <1>2
  <1>16. seen[0] + seen[1] = N /\ 2 * seen[0] >= N
    BY <1>1, <1>7, <1>12, <1>14
  <1>17. c[0][0] + c[0][1] + c[1][0] + c[1][1] = N + 3
    BY <1>1, <1>8, <1>9, <1>15
  <1>18. c[1][0] + c[1][1] - 2 \in {seen[1] - 1, seen[1]}
    BY <1>7, <1>8, <1>10, <1>11, <1>14, <1>15
  <1>19. seen[1] = 0 => c[1] = [r \in {0, 1} |-> 1]
    <2> SUFFICES ASSUME seen[1] = 0 PROVE c[1] = [r \in {0, 1} |-> 1]
      OBVIOUS
    <2>1. Cardinality(From(1, 0)) = 0 /\ Cardinality(From(1, 1)) = 0
      BY <1>13, <1>14
    <2>2. c[1] = [b \in {0, 1} |-> 1 + Cardinality(From(1, b))]
      BY <1>2
    <2> QED
      BY <2>1, <2>2
  <1> QED
    BY <1>16, <1>17, <1>18, <1>19 DEF c, seen, N

------------------------------------------------------------------------------
(* What the pack says of itself and what was looked at, whatever the day:  *)
(* the types of the state and the conclusions about the calibrated roster  *)
(* need both, and neither depends on the signals.                          *)
PackInv ==
  /\ pack.returns \in Nat /\ pack.vol \in Nat
  /\ pack.vol > 0 => pack.returns >= MIN_OBSERVATIONS_VOLATILITY
  /\ pack = NoPack \/ (pack.symbol \in Symbols /\ pack.created \in 0 .. day)
  /\ RegimesCountEveryReturn

LookInv ==
  /\ wiring \in Wirings
  /\ day \in 0 .. MaxDay
  /\ looked # NotLooked =>
       \E symbol \in Symbols :
         \/ wiring = "external" /\ looked = <<[symbol |-> symbol]>>
         \/ /\ wiring # "external"
            /\ \E bars \in BarCounts, tape \in Tapes :
                 looked = <<StateFromSnapshot(symbol, bars, tape)>>

DataInv == PackInv /\ LookInv

LEMMA DataInvInit == Init => DataInv
  <1> SUFFICES ASSUME Init PROVE DataInv
    OBVIOUS
  <1>1. NoPack.models["markov_regime_matrix"] = "none" /\ NoPack.returns = 0 /\ NoPack.vol = 0
    BY DEF NoPack, Models
  <1>2. PackInv
    BY <1>1 DEF Init, PackInv, RegimesCountEveryReturn
  <1>3. LookInv
    BY DeskAssumption DEF Init, LookInv
  <1> QED
    BY <1>2, <1>3 DEF DataInv

(* The pack that any attempt makes.                                        *)
LEMMA PackBuilt ==
  ASSUME DataInv, NEW dataset, dataset.symbol \in Symbols, dataset.retrieved = day,
         NEW returns \in Seq(Nat), NEW daily \in Nat, Calibrate(dataset, returns, daily)
  PROVE  DataInv'
  <1> DEFINE built == BuildPack(dataset, returns, daily)
             vol == EstimateRealizedVolatility(returns, daily)
             markov == EstimateMarkov(returns)
  <1>1. pack' = built /\ UNCHANGED <<wiring, day, looked>>
    BY DEF Calibrate
  <1>2. /\ built.symbol = dataset.symbol /\ built.created = dataset.retrieved
        /\ built.vol = vol.vol /\ built.returns = Len(returns)
        /\ built.regimes = markov
        /\ built.models["markov_regime_matrix"] = Calibrated(markov.sufficient)
    BY DEF BuildPack, Models
  <1>3. /\ Len(returns) \in Nat /\ vol.vol \in Nat
        /\ vol.vol > 0 => Len(returns) >= MIN_OBSERVATIONS_VOLATILITY
    BY DEF EstimateRealizedVolatility, MIN_OBSERVATIONS_VOLATILITY
  <1>4. Calibrated(markov.sufficient) = "CALIBRATED" =>
          Len(returns) >= MIN_OBSERVATIONS_MARKOV
    BY DEF EstimateMarkov, Calibrated, MIN_OBSERVATIONS_MARKOV
  <1>5. Len(returns) >= MIN_OBSERVATIONS_MARKOV =>
          LET c == markov.counts
              seen == markov.observed
          IN /\ seen[0] + seen[1] = Len(returns)
             /\ c[0][0] + c[0][1] + c[1][0] + c[1][1] = Len(returns) + 3
             /\ 2 * seen[0] >= Len(returns)
             /\ c[1][0] + c[1][1] - 2 \in {seen[1] - 1, seen[1]}
             /\ seen[1] = 0 => c[1] = [r \in {0, 1} |-> 1]
    BY RegimesAddUp
  <1> HIDE DEF built, vol, markov
  <1>6. RegimesCountEveryReturn'
    BY <1>1, <1>2, <1>4, <1>5 DEF RegimesCountEveryReturn
  <1>7. day \in Nat /\ day \in 0 .. day
    BY DeskAssumption DEF DataInv, LookInv
  <1>8. PackInv'
    BY <1>1, <1>2, <1>3, <1>6, <1>7 DEF PackInv
  <1>9. LookInv'
    BY <1>1 DEF DataInv, LookInv
  <1> QED
    BY <1>8, <1>9 DEF DataInv

(* What forgets keeps the pack.                                            *)
LEMMA KeepsThePack ==
  ASSUME DataInv, pack' = pack, day' \in 0 .. MaxDay, day <= day'
  PROVE  PackInv'
  <1>1. RegimesCountEveryReturn'
    BY DEF DataInv, PackInv, RegimesCountEveryReturn
  <1>2. day \in Nat /\ day' \in Nat
    BY DeskAssumption DEF DataInv, LookInv
  <1> QED
    BY <1>1, <1>2 DEF DataInv, PackInv

LEMMA LogReturnsAreNumbers ==
  ASSUME NEW closes \in Nat, NEW word \in Words
  PROVE  LogReturns(closes, word) \in Seq(Nat)
  <1>1. word \in Seq(Nat) /\ Len(word) \in Nat /\ Len(word) > 0
    BY DeskAssumption
  <1> DEFINE n == IF closes = 0 THEN 0 ELSE closes - 1
  <1>2. n \in Nat
    OBVIOUS
  <1>3. ASSUME NEW i \in 1 .. n PROVE word[(i % Len(word)) + 1] \in Nat
    <2>1. (i % Len(word)) + 1 \in 1 .. Len(word)
      BY <1>1
    <2> QED
      BY <1>1, <2>1
  <1> HIDE DEF n
  <1>4. [i \in 1 .. n |-> word[(i % Len(word)) + 1]] \in Seq(Nat)
    BY <1>2, <1>3
  <1> QED
    BY <1>4 DEF LogReturns, n

LEMMA DataInvNext == DataInv /\ [Next]_vars => DataInv'
  <1> SUFFICES ASSUME DataInv, [Next]_vars PROVE DataInv'
    OBVIOUS
  <1>0. MaxDay \in Nat /\ day \in Nat /\ day <= MaxDay
    BY DeskAssumption DEF DataInv, LookInv
  <1>1. CASE NextCycle
    <2>1. PackInv'
      BY <1>0, <1>1, KeepsThePack DEF NextCycle
    <2>2. LookInv'
      BY <1>1 DEF NextCycle, Forget, DataInv, LookInv
    <2> QED
      BY <2>1, <2>2 DEF DataInv
  <1>2. CASE Pass
    <2>1. PackInv'
      BY <1>0, <1>2, KeepsThePack DEF Pass
    <2>2. LookInv'
      BY <1>0, <1>2 DEF Pass, Forget, DataInv, LookInv
    <2> QED
      BY <2>1, <2>2 DEF DataInv
  <1>3. ASSUME NEW symbol \in Symbols, NEW why, AttemptFails(symbol, why) PROVE DataInv'
    <2> DEFINE dataset == FailedDataset(symbol, day, why)
    <2>1. dataset.symbol = symbol /\ dataset.retrieved = day
      BY DEF FailedDataset, Dataset
    <2>2. Calibrate(dataset, <<>>, 0) /\ <<>> \in Seq(Nat) /\ 0 \in Nat
      BY <1>3 DEF AttemptFails
    <2> HIDE DEF dataset
    <2> QED
      BY <2>1, <2>2, PackBuilt
  <1>4. ASSUME NEW symbol \in Symbols, NEW bars \in DatasetSizes, NEW missing \in {0, 1},
               NEW word \in Words, NEW daily \in DailyVols,
               AttemptSucceeds(symbol, bars, bars - missing, word, daily)
        PROVE  DataInv'
    <2> DEFINE dataset == ReceivedDataset(symbol, day, bars, bars - missing)
               returns == LogReturns(bars - missing, word)
    <2>1. dataset.symbol = symbol /\ dataset.retrieved = day
      BY DEF ReceivedDataset, Dataset
    <2>2. bars - missing \in Nat /\ daily \in Nat
      BY DeskAssumption
    <2>3. returns \in Seq(Nat)
      BY <2>2, LogReturnsAreNumbers
    <2>4. Calibrate(dataset, returns, daily)
      BY <1>4 DEF AttemptSucceeds
    <2> HIDE DEF dataset, returns
    <2> QED
      BY <2>1, <2>2, <2>3, <2>4, PackBuilt
  <1>5. ASSUME NEW symbol \in Symbols, NEW bars \in BarCounts, NEW tape \in Tapes,
               NEW s, s = StateFromSnapshot(symbol, bars, tape),
               AnalyseNative(s) \/ AnalyseCalibrated(s)
        PROVE  DataInv'
    <2>1. /\ looked' = <<StateFromSnapshot(symbol, bars, tape)>>
          /\ wiring # "external" /\ UNCHANGED <<wiring, day, pack>>
      BY <1>5 DEF AnalyseNative, AnalyseCalibrated
    <2>2. PackInv'
      BY <1>0, <2>1, KeepsThePack
    <2>3. LookInv'
      BY <2>1 DEF DataInv, LookInv
    <2> QED
      BY <2>2, <2>3 DEF DataInv
  <1>6. ASSUME NEW symbol \in Symbols, NEW sent,
               AnalyseExternal(symbol, sent) \/ FetchRaises(symbol, sent)
        PROVE  DataInv'
    <2>1. /\ looked' = <<[symbol |-> symbol]>>
          /\ wiring = "external" /\ UNCHANGED <<wiring, day, pack>>
      BY <1>6 DEF AnalyseExternal, FetchRaises
    <2>2. PackInv'
      BY <1>0, <2>1, KeepsThePack
    <2>3. LookInv'
      BY <2>1 DEF DataInv, LookInv
    <2> QED
      BY <2>2, <2>3 DEF DataInv
  <1>7. CASE UNCHANGED vars
    <2>1. PackInv'
      BY <1>0, <1>7, KeepsThePack DEF vars
    <2>2. LookInv'
      BY <1>7 DEF vars, DataInv, LookInv
    <2> QED
      BY <2>1, <2>2 DEF DataInv
  <1> QED
    BY <1>1, <1>2, <1>3, <1>4, <1>5, <1>6, <1>7 DEF Next

LEMMA DataInvHolds == Spec => []DataInv
  BY DataInvInit, DataInvNext, PTL DEF Spec

------------------------------------------------------------------------------
Leanings == {"BUY", "SELL", "HOLD"}
Layers == {"OBSERVATION", "INTERPRETATION", "CONTRADICTION", "PROOF"}

LEMMA LeanTakesASide ==
  ASSUME NEW buy, NEW sell
  PROVE  Lean(buy, sell) \in Leanings
  BY DEF Lean, Leanings

(* What an agent tells the constructor of its vote.                        *)
LEMMA AgentsTell ==
  ASSUME NEW s, NEW i \in 1 .. 17
  PROVE  LET told == Evaluate(ROSTER_17[i], s)
         IN told.verdict \in Leanings \cup {Absent} /\ told.layer \in Layers
  <1> DEFINE Speaks(told) ==
               told.verdict \in Leanings \cup {Absent} /\ told.layer \in Layers
  <1> USE DEF Told, Leanings, Layers
  <1>1. Speaks(MarketDataAgent(s))
    BY LeanTakesASide DEF MarketDataAgent
  <1>2. Speaks(LiquidityAgent(s))
    BY LeanTakesASide DEF LiquidityAgent
  <1>3. Speaks(VolatilityAgent(s))
    BY LeanTakesASide DEF VolatilityAgent
  <1>4. Speaks(MacroAgent(s))
    BY LeanTakesASide DEF MacroAgent
  <1>5. Speaks(CorrelationAgent(s))
    BY LeanTakesASide DEF CorrelationAgent
  <1>6. Speaks(EventAgent(s))
    BY LeanTakesASide DEF EventAgent
  <1>7. Speaks(MomentumAgent(s))
    BY LeanTakesASide DEF MomentumAgent
  <1>8. Speaks(MeanReversionAgent(s))
    BY LeanTakesASide DEF MeanReversionAgent, NeedsMore
  <1>9. Speaks(BreakoutAgent(s))
    BY LeanTakesASide DEF BreakoutAgent, NeedsMore
  <1>10. Speaks(PatternAgent(s))
    BY LeanTakesASide DEF PatternAgent, NeedsMore
  <1>11. Speaks(SentimentAgent(s))
    BY LeanTakesASide DEF SentimentAgent
  <1>12. Speaks(PredictionAgent(s))
    BY LeanTakesASide DEF PredictionAgent
  <1>13. Speaks(PortfolioAgent(s))
    BY LeanTakesASide DEF PortfolioAgent
  <1>14. Speaks(ExecutionQualityAgent(s))
    BY LeanTakesASide DEF ExecutionQualityAgent
  <1>15. Speaks(RegimeShiftAgent(s))
    BY LeanTakesASide DEF RegimeShiftAgent
  <1>16. Speaks(PortfolioStressAgent(s))
    BY LeanTakesASide DEF PortfolioStressAgent
  <1>17. Speaks(ProofConsistencyAgent(s))
    BY LeanTakesASide DEF ProofConsistencyAgent
  <1> HIDE DEF Speaks
  <1>18. Speaks(Evaluate(ROSTER_17[i], s))
    BY <1>1, <1>2, <1>3, <1>4, <1>5, <1>6, <1>7, <1>8, <1>9, <1>10, <1>11, <1>12,
       <1>13, <1>14, <1>15, <1>16, <1>17 DEF Evaluate, ROSTER_17
  <1> QED
    BY <1>18 DEF Speaks

(* The native roster votes without confidence.                             *)
LEMMA NativeVoteIsMute ==
  ASSUME NEW s, NEW i \in 1 .. 17
  PROVE  /\ NativeVotes(s)[i].confidence = 0
         /\ NativeVotes(s)[i].verdict \in Leanings \cup Layers
         /\ NativeVotes(s)[i].name = ROSTER_17[i]
  <1> DEFINE told == Evaluate(ROSTER_17[i], s)
  <1>1. NativeVotes(s)[i] = AgentVote(ROSTER_17[i], told)
    BY NativeVote
  <1>2. TextOfDomain \notin DomainTexts
    BY DEF TextOfDomain, DomainTexts
  <1>3. told.verdict \in Leanings \cup {Absent} /\ told.layer \in Layers
    BY AgentsTell
  <1> HIDE DEF told
  <1>4. /\ AgentVote(ROSTER_17[i], told).confidence = 0
        /\ AgentVote(ROSTER_17[i], told).name = ROSTER_17[i]
        /\ AgentVote(ROSTER_17[i], told).verdict =
             IF told.verdict = Absent THEN told.layer ELSE told.verdict
    BY <1>2 DEF AgentVote
  <1> QED
    BY <1>1, <1>3, <1>4

(* A volatility in a snapshot is a number.                                 *)
Measured(s) == s.prices \in Nat /\ \A n \in {5, 20, 60} : s.tape.rv[n] \in Nat

(* With a pack, the volatility agent alone speaks up: if the history is    *)
(* too short for its own estimate, the pack is usable and has a volatility.*)
LEMMA VolatilitySpeaks ==
  ASSUME NEW v, v = [name |-> v.name, verdict |-> v.verdict, confidence |-> 0,
                     claim |-> v.claim, unknowns |-> v.unknowns,
                     contradictions |-> v.contradictions, risk_flags |-> v.risk_flags,
                     evidence_refs |-> v.evidence_refs],
         NEW s, Measured(s), NEW p, p.vol \in Nat, NEW today
  PROVE  LET c == CalibrationAwareVolatilityAgent(v, s, p, today)
         IN \/ c.confidence = 0 /\ c.verdict = v.verdict
            \/ /\ c.confidence \in Int /\ c.verdict \in Leanings
               /\ s.prices < 61 /\ p.vol > 0 /\ Usable(p, s.symbol, today)
  <1> DEFINE usable == Usable(p, s.symbol, today)
             noted == IF usable
                      THEN [v EXCEPT !.evidence_refs = @ \cup NoteFor("garch_1_1", p)]
                      ELSE v
             vol == CalibratedDailyVolatility(p)
             rv20 == OrElse(RealizedVolatility(s, 20), 0)
             high == rv20 * 100 > vol * 130
             lean == Lean(rv20 * 100 < vol * 85, high)
             strength == AtMost100(2 * Abs((rv20 * 100) \div vol - 100))
             c == CalibrationAwareVolatilityAgent(v, s, p, today)
  <1>1. noted = [name |-> v.name, verdict |-> v.verdict, confidence |-> 0,
                 claim |-> v.claim, unknowns |-> v.unknowns,
                 contradictions |-> v.contradictions, risk_flags |-> v.risk_flags,
                 evidence_refs |-> noted.evidence_refs]
    OBVIOUS
  <1>2. c = CASE ~ (s.prices < 61) -> noted
              [] s.prices < 61 /\ ~ usable ->
                   [noted EXCEPT !.unknowns = @ \cup Refusal(p, s.symbol, today)]
              [] s.prices < 61 /\ usable /\ vol = Unknown -> noted
              [] OTHER ->
                   [noted EXCEPT !.verdict = lean, !.confidence = strength,
                      !.claim = [by |-> "calibration", pack |-> p],
                      !.risk_flags = @ \cup FlagIf(high, "HIGH_VOLATILITY")]
    BY DEF CalibrationAwareVolatilityAgent
  <1>3. vol # Unknown => p.vol > 0 /\ vol = p.vol
    BY DEF CalibratedDailyVolatility
  <1>4. rv20 \in Int
    BY DEF OrElse, RealizedVolatility, Measured, Unknown
  <1>5. vol # Unknown => strength \in Int
    <2> SUFFICES ASSUME vol # Unknown PROVE strength \in Int
      OBVIOUS
    <2> HIDE DEF vol, rv20
    <2>1. (rv20 * 100) \div vol \in Int
      BY <1>3, <1>4
    <2> QED
      BY <2>1 DEF AtMost100, Abs
  <1>6. lean \in Leanings
    BY LeanTakesASide
  <1> HIDE DEF noted, vol, rv20, high, lean, strength, c, usable
  <1>7. CASE ~ (s.prices < 61) \/ (usable /\ vol = Unknown)
    <2>1. c = noted
      BY <1>2, <1>7
    <2> QED
      BY <1>1, <2>1 DEF c
  <1>8. CASE s.prices < 61 /\ ~ usable
    <2>1. c = [noted EXCEPT !.unknowns = @ \cup Refusal(p, s.symbol, today)]
      BY <1>2, <1>8
    <2>2. c.confidence = 0 /\ c.verdict = v.verdict
      BY <1>1, <2>1
    <2> QED
      BY <2>2 DEF c
  <1>9. CASE s.prices < 61 /\ usable /\ vol # Unknown
    <2>1. c = [noted EXCEPT !.verdict = lean, !.confidence = strength,
                 !.claim = [by |-> "calibration", pack |-> p],
                 !.risk_flags = @ \cup FlagIf(high, "HIGH_VOLATILITY")]
      BY <1>2, <1>9
    <2>2. c.confidence = strength /\ c.verdict = lean
      BY <1>1, <2>1
    <2> QED
      BY <1>3, <1>5, <1>6, <1>9, <2>2 DEF c, usable
  <1> QED
    BY <1>7, <1>8, <1>9

LEMMA CalibratedVoteSpeaks ==
  ASSUME NEW s, Measured(s), NEW p, p.vol \in Nat, NEW today, NEW i \in 1 .. 17
  PROVE  LET c == CalibratedVotes(s, p, today)[i]
         IN /\ c.name = ROSTER_17[i]
            /\ c.verdict \in Leanings \cup Layers
            /\ c.confidence \in Int
            /\ c.confidence # 0 =>
                 /\ i = 3 /\ s.prices < 61 /\ p.vol > 0
                 /\ Usable(p, s.symbol, today)
  <1> DEFINE v == NativeVotes(s)[i]
             c == CalibratedVotes(s, p, today)[i]
  <1>1. v = AgentVote(ROSTER_17[i], Evaluate(ROSTER_17[i], s))
    BY NativeVote
  <1>2. v.confidence = 0 /\ v.verdict \in Leanings \cup Layers /\ v.name = ROSTER_17[i]
    BY NativeVoteIsMute
  <1>3. v = [name |-> v.name, verdict |-> v.verdict, confidence |-> 0,
             claim |-> v.claim, unknowns |-> v.unknowns,
             contradictions |-> v.contradictions, risk_flags |-> v.risk_flags,
             evidence_refs |-> v.evidence_refs]
    <2> HIDE DEF v
    <2> QED
      BY <1>1, <1>2, VoteFields
  <1>4. /\ Kept(v, c)
        /\ <<c.verdict, c.confidence>> # <<v.verdict, v.confidence>> =>
             /\ i = 3
             /\ Usable(p, s.symbol, today)
             /\ c.claim = [by |-> "calibration", pack |-> p]
             /\ Reference("calibration_id", p) \in c.evidence_refs
    BY CalibratedVote
  <1>5. i = 3 => c = CalibrationAwareVolatilityAgent(v, s, p, today)
    BY RosterPlaces DEF CalibratedVotes
  <1> HIDE DEF v, c
  <1>6. c.name = ROSTER_17[i]
    BY <1>2, <1>4 DEF Kept
  <1>7. CASE i # 3
    BY <1>2, <1>4, <1>6, <1>7 DEF c
  <1>8. CASE i = 3
    <2>1. \/ c.confidence = 0 /\ c.verdict = v.verdict
          \/ /\ c.confidence \in Int /\ c.verdict \in Leanings
             /\ s.prices < 61 /\ p.vol > 0 /\ Usable(p, s.symbol, today)
      BY <1>3, <1>5, <1>8, VolatilitySpeaks
    <2> QED
      BY <1>2, <1>6, <1>8, <2>1 DEF c
  <1> QED
    BY <1>7, <1>8

LEMMA SeenIsMeasured ==
  ASSUME DataInv, looked # NotLooked
  PROVE  /\ Len(looked) = 1 /\ looked[1].symbol \in Symbols
         /\ wiring # "external" => Measured(Seen)
  <1>1. PICK symbol \in Symbols :
          \/ wiring = "external" /\ looked = <<[symbol |-> symbol]>>
          \/ /\ wiring # "external"
             /\ \E bars \in BarCounts, tape \in Tapes :
                  looked = <<StateFromSnapshot(symbol, bars, tape)>>
    BY DEF DataInv, LookInv
  <1>2. CASE wiring = "external" /\ looked = <<[symbol |-> symbol]>>
    BY <1>2
  <1>3. CASE wiring # "external" /\ \E bars \in BarCounts, tape \in Tapes :
               looked = <<StateFromSnapshot(symbol, bars, tape)>>
    <2>1. PICK bars \in BarCounts, tape \in Tapes :
            looked = <<StateFromSnapshot(symbol, bars, tape)>>
      BY <1>3
    <2> DEFINE s == StateFromSnapshot(symbol, bars, tape)
    <2>2. s.symbol = symbol /\ s.tape = tape /\ s.prices \in Nat
      BY DeskAssumption DEF StateFromSnapshot
    <2>3. Measured(s)
      BY <2>2, DeskAssumption DEF Measured
    <2> HIDE DEF s
    <2>4. looked[1] = s /\ Len(looked) = 1
      BY <2>1 DEF s
    <2> QED
      BY <2>2, <2>3, <2>4 DEF Seen
  <1> QED
    BY <1>1, <1>2, <1>3

(* What the signals of an analysis are, whoever sent them.                 *)
LEMMA OutputTypes ==
  ASSUME DeskInv, DataInv, Evaluated
  PROVE  /\ IsFiniteSet(DOMAIN outputs)
         /\ \A i \in DOMAIN outputs :
              /\ outputs[i].name \in Names
              /\ outputs[i].signal \in Signals
              /\ outputs[i].confidence \in Int
              /\ outputs[i].source.system \in {"NATIVE", "EXTERNAL"}
  <1>1. CASE wiring # "external"
    <2>1. PICK votes :
            /\ outputs = NativeOutputs(votes) /\ DOMAIN votes = 1 .. 17
            /\ \A i \in 1 .. 17 :
                 /\ votes[i].name = ROSTER_17[i]
                 /\ votes[i].verdict \in Leanings \cup Layers
                 /\ votes[i].confidence \in Int
      <3>1. CASE wiring = "native"
        <4>1. outputs = NativeOutputs(NativeVotes(Seen))
          BY <3>1 DEF DeskInv, Made
        <4>2. DOMAIN NativeVotes(Seen) = 1 .. 17
          BY NativeVote
        <4> QED
          BY <4>1, <4>2, NativeVoteIsMute
      <3>2. CASE wiring = "calibrated"
        <4>1. outputs = NativeOutputs(CalibratedVotes(Seen, pack, day))
          BY <3>2 DEF DeskInv, Made
        <4>2. DOMAIN CalibratedVotes(Seen, pack, day) = 1 .. 17
          BY CalibratedDomain
        <4>3. Measured(Seen) /\ pack.vol \in Nat
          BY <1>1, SeenIsMeasured DEF Evaluated, DataInv, PackInv
        <4> QED
          BY <4>1, <4>2, <4>3, CalibratedVoteSpeaks
      <3> QED
        BY <1>1, <3>1, <3>2 DEF DeskInv
    <2>2. DOMAIN outputs = 1 .. 17 /\ IsFiniteSet(1 .. 17)
      <3>1. DOMAIN outputs = 1 .. 17
        <4>1. DOMAIN NativeOutputs(votes) = DOMAIN votes
          BY OutputDomain
        <4> QED
          BY <2>1, <4>1
      <3>2. IsFiniteSet(1 .. 17)
        <4>1. \A a, b \in Int : IsFiniteSet(a .. b)
          BY FS_Interval
        <4>2. 1 \in Int /\ 17 \in Int
          OBVIOUS
        <4> QED
          BY <4>1, <4>2, Zenon
      <3> QED
        BY <3>1, <3>2
    <2>3. ASSUME NEW i \in 1 .. 17
          PROVE  /\ outputs[i].name = ROSTER_17[i]
                 /\ outputs[i].signal = votes[i].verdict
                 /\ outputs[i].confidence = votes[i].confidence
                 /\ outputs[i].source.system = "NATIVE"
      BY <2>1, OutputFields
    <2>4. \A i \in 1 .. 17 : ROSTER_17[i] \in Names
      BY RosterPlaces DEF Names, Agents, Range
    <2>5. Leanings \cup Layers \subseteq Signals
      BY DEF Leanings, Layers, Signals
    <2> QED
      BY <2>1, <2>2, <2>3, <2>4, <2>5
  <1>2. CASE wiring = "external"
    <2>1. PICK n \in 0 .. MaxSignals :
            \E payloads \in [1 .. n -> Payloads] : outputs = ExternalOutputs(payloads)
      BY <1>2 DEF DeskInv, Made
    <2>2. PICK payloads \in [1 .. n -> Payloads] : outputs = ExternalOutputs(payloads)
      BY <2>1
    <2>3. DOMAIN outputs = 1 .. n /\ IsFiniteSet(1 .. n)
      BY <2>2, DeskAssumption, FS_Interval DEF ExternalOutputs
    <2>4. ASSUME NEW i \in 1 .. n
          PROVE  /\ payloads[i] \in Payloads
                 /\ outputs[i].name = payloads[i].source_id
                 /\ outputs[i].signal = payloads[i].signal
                 /\ outputs[i].confidence = payloads[i].confidence.percent
                 /\ outputs[i].source.system = "EXTERNAL"
      BY <2>2 DEF ExternalOutputs, NormalizeExternalSignal, FromRawPayload,
                  ToCanonicalAgentSignal, ExternalSource
    <2>5. ASSUME NEW p \in Payloads
          PROVE  /\ p.source_id \in Names /\ p.signal \in Signals
                 /\ p.confidence.percent \in Int
      <3>1. p.source_id \in Names
        BY DEF Names
      <3>2. p.signal \in Signals
        BY DEF Signals
      <3>3. p.confidence.percent \in Int
        BY DeskAssumption
      <3> QED
        BY <3>1, <3>2, <3>3
    <2> QED
      BY <2>3, <2>4, <2>5
  <1> QED
    BY <1>1, <1>2

------------------------------------------------------------------------------
(* The types of the analysis: what a pack records, what was looked at and  *)
(* what every signal carries, a third party's included.                    *)
THEOREM AnalysisTypes == Spec => []TypeOK
  <1>1. DeskInv /\ DataInv => TypeOK
    <2> SUFFICES ASSUME DeskInv, DataInv PROVE TypeOK
      OBVIOUS
    <2>1. /\ wiring \in Wirings /\ day \in 0 .. MaxDay
          /\ pack = NoPack \/ (pack.symbol \in Symbols /\ pack.created \in 0 .. day)
          /\ pack.returns \in Nat /\ pack.vol \in Nat
          /\ raised \in BOOLEAN
      BY DEF DeskInv, DataInv, PackInv, LookInv
    <2>2. Len(looked) <= 1 /\ \A i \in DOMAIN looked : looked[i].symbol \in Symbols
      <3>1. CASE looked = NotLooked
        BY <3>1 DEF NotLooked
      <3>2. CASE looked # NotLooked
        <4>1. Len(looked) = 1 /\ looked[1].symbol \in Symbols /\ DOMAIN looked = 1 .. 1
          BY <3>2, SeenIsMeasured DEF DataInv, LookInv
        <4> QED
          BY <4>1
      <3> QED
        BY <3>1, <3>2
    <2>3. CASE ~ Evaluated
      <3>1. outputs = <<>> /\ consensus.side = "none"
        BY <2>3 DEF DeskInv, Evaluated, Silent, NoSignals, NoConsensus
      <3> QED
        BY <2>1, <2>2, <3>1 DEF TypeOK
    <2>4. CASE Evaluated
      <3>1. /\ IsFiniteSet(DOMAIN outputs)
            /\ \A i \in DOMAIN outputs :
                 /\ outputs[i].name \in Names
                 /\ outputs[i].signal \in Signals
                 /\ outputs[i].confidence \in Int
                 /\ outputs[i].source.system \in {"NATIVE", "EXTERNAL"}
        BY <2>4, OutputTypes
      <3>2. consensus = Aggregate(outputs)
        BY <2>4 DEF DeskInv, Made
      <3>3. consensus.side \in {"BUY", "SELL", "HOLD"}
        BY <3>1, <3>2, SideHasAVoice
      <3> QED
        BY <2>1, <2>2, <3>1, <3>3 DEF TypeOK
    <2> QED
      BY <2>3, <2>4
  <1> QED
    BY <1>1, DeskInvHolds, DataInvHolds, PTL

(* A side is only taken if a signal of that side has a confidence above    *)
(* zero, whatever a third party sends, and every signal of the other side  *)
(* stands in the opposing evidence.  (native/agents/aggregation.py.)       *)
THEOREM SidesHaveAVoice == Spec => []NoSideWithoutAVoice
  <1>1. DeskInv /\ DataInv => NoSideWithoutAVoice
    <2> SUFFICES ASSUME DeskInv, DataInv, Evaluated, consensus.side # "HOLD"
                 PROVE  NoSideWithoutAVoice
      BY DEF NoSideWithoutAVoice
    <2>1. IsFiniteSet(DOMAIN outputs) /\ \A i \in DOMAIN outputs : outputs[i].confidence \in Int
      BY OutputTypes
    <2>2. consensus = Aggregate(outputs)
      BY DEF DeskInv, Made
    <2>3. /\ \E i \in DOMAIN outputs :
               outputs[i].signal = consensus.side /\ outputs[i].confidence > 0
          /\ consensus.opposing = Opposing(outputs, consensus.side)
      BY <2>1, <2>2, SideHasAVoice
    <2>4. \A i \in DOMAIN outputs :
            outputs[i].signal \in {"BUY", "SELL"} \ {consensus.side} =>
              i \in Opposing(outputs, consensus.side)
      BY DEF Opposing
    <2> QED
      BY <2>3, <2>4 DEF NoSideWithoutAVoice
  <1> QED
    BY <1>1, DeskInvHolds, DataInvHolds, PTL

(* The native and the calibrated roster take a side only when the          *)
(* volatility agent speaks on a usable pack, because no other vote of      *)
(* theirs has a confidence.  (native/agents/contracts.py, where the        *)
(* constructor reads the text of the domain.)                              *)
THEOREM SidesAreCalibrated == Spec => []SidesNeedCalibration
  <1>1. DeskInv /\ DataInv => SidesNeedCalibration
    <2> SUFFICES ASSUME DeskInv, DataInv, Evaluated, wiring # "external",
                        consensus.side # "HOLD"
                 PROVE  SidesNeedCalibration
      BY DEF SidesNeedCalibration
    <2>1. IsFiniteSet(DOMAIN outputs) /\ \A i \in DOMAIN outputs : outputs[i].confidence \in Int
      BY OutputTypes
    <2>2. consensus = Aggregate(outputs)
      BY DEF DeskInv, Made
    <2>3. PICK i \in DOMAIN outputs :
            outputs[i].signal = consensus.side /\ outputs[i].confidence > 0
      BY <2>1, <2>2, SideHasAVoice
    <2>4. wiring # "native"
      <3> SUFFICES ASSUME wiring = "native" PROVE FALSE
        OBVIOUS
      <3>1. outputs = NativeOutputs(NativeVotes(Seen)) /\ DOMAIN NativeVotes(Seen) = 1 .. 17
        BY NativeVote DEF DeskInv, Made
      <3>2. i \in 1 .. 17
        BY <3>1, OutputDomain
      <3>3. outputs[i].confidence = NativeVotes(Seen)[i].confidence
        BY <3>1, <3>2, OutputFields
      <3>4. NativeVotes(Seen)[i].confidence = 0
        BY <3>2, NativeVoteIsMute
      <3> QED
        BY <2>3, <3>3, <3>4
    <2>5. wiring = "calibrated"
      BY <2>4 DEF DeskInv
    <2> DEFINE votes == CalibratedVotes(Seen, pack, day)
    <2>6. outputs = NativeOutputs(votes) /\ DOMAIN votes = 1 .. 17
      BY <2>5, CalibratedDomain DEF DeskInv, Made
    <2>7. Measured(Seen) /\ pack.vol \in Nat
      BY SeenIsMeasured DEF Evaluated, DataInv, PackInv
    <2>8. \A k \in 1 .. 17 :
            /\ votes[k].name = ROSTER_17[k]
            /\ votes[k].confidence \in Int
            /\ votes[k].confidence # 0 =>
                 /\ k = 3 /\ Seen.prices < 61 /\ pack.vol > 0
                 /\ Usable(pack, Seen.symbol, day)
      BY <2>7, CalibratedVoteSpeaks
    <2> HIDE DEF votes
    <2>9. i \in 1 .. 17 /\ outputs[i].confidence = votes[i].confidence
      BY <2>6, OutputDomain, OutputFields
    <2>10. /\ i = 3 /\ Seen.prices < 61 /\ pack.vol > 0
           /\ Usable(pack, Seen.symbol, day)
      BY <2>3, <2>8, <2>9
    <2>11. OutputOf("Volatility") = outputs[3]
      BY <2>6, <2>8, VolatilityOutput
    <2>12. pack.symbol = Seen.symbol
      BY <2>10, UsablePackIsOfTheSymbol
    <2>13. pack.returns >= 10
      BY <2>10 DEF DataInv, PackInv, MIN_OBSERVATIONS_VOLATILITY
    <2> QED
      BY <2>3, <2>5, <2>10, <2>11, <2>12, <2>13 DEF SidesNeedCalibration
  <1> QED
    BY <1>1, DeskInvHolds, DataInvHolds, PTL

------------------------------------------------------------------------------
(* Only the regime shift agent contradicts anything.                       *)
LEMMA WhoContradicts ==
  ASSUME NEW s, NEW i \in 1 .. 17, i # 15
  PROVE  Evaluate(ROSTER_17[i], s).contradictions = {}
  BY DEF ROSTER_17, Evaluate, Told, NeedsMore, MarketDataAgent, LiquidityAgent,
         VolatilityAgent, MacroAgent, CorrelationAgent, EventAgent, MomentumAgent,
         MeanReversionAgent, BreakoutAgent, PatternAgent, SentimentAgent,
         PredictionAgent, PortfolioAgent, ExecutionQualityAgent,
         PortfolioStressAgent, ProofConsistencyAgent

LEMMA RegimeShiftSays ==
  ASSUME NEW s
  PROVE  LET told == Evaluate("RegimeShift", s)
         IN /\ told.verdict \in {"SELL", "HOLD"}
            /\ told.verdict = "SELL" <=> "REGIME_SHIFT_DETECTED" \in told.contradictions
  BY DEF Evaluate, RegimeShiftAgent, Told, Lean, FlagIf

LEMMA ProofConsistencySays ==
  ASSUME NEW s, s.prices < 20
  PROVE  "SHORT_PRICE_HISTORY" \in Evaluate("ProofConsistency", s).unknowns
  BY DEF Evaluate, ProofConsistencyAgent, Told, FlagIf

(* Only the volatility agent warns of anything, and of a high volatility   *)
(* when the last 20 returns are wilder than the last 60.                   *)
LEMMA WhoWarns ==
  ASSUME NEW s, NEW i \in 1 .. 17, i # 3
  PROVE  Evaluate(ROSTER_17[i], s).risk_flags = {}
  BY DEF ROSTER_17, Evaluate, Told, NeedsMore, MarketDataAgent, LiquidityAgent,
         MacroAgent, CorrelationAgent, EventAgent, MomentumAgent,
         MeanReversionAgent, BreakoutAgent, PatternAgent, SentimentAgent,
         PredictionAgent, PortfolioAgent, ExecutionQualityAgent, RegimeShiftAgent,
         PortfolioStressAgent, ProofConsistencyAgent

LEMMA VolatilityWarns ==
  ASSUME NEW s, Measured(s)
  PROVE  "HIGH_VOLATILITY" \in Evaluate("Volatility", s).risk_flags <=>
           /\ s.prices >= 61 /\ s.tape.rv[60] > 0
           /\ s.tape.rv[20] * 100 > s.tape.rv[60] * 130
  <1> DEFINE rv20 == OrElse(RealizedVolatility(s, 20), 0)
             rv60 == OrElse(OrElse(RealizedVolatility(s, 60), rv20), 1)
             high == rv20 * 100 > rv60 * 130
  <1>1. Evaluate("Volatility", s).risk_flags = FlagIf(high, "HIGH_VOLATILITY")
    BY DEF Evaluate, VolatilityAgent, Told
  <1>2. s.tape.rv[20] \in Nat /\ s.tape.rv[60] \in Nat /\ s.prices \in Int
    BY DEF Measured
  <1>3. high <=> /\ s.prices >= 61 /\ s.tape.rv[60] > 0
                 /\ s.tape.rv[20] * 100 > s.tape.rv[60] * 130
    BY <1>2 DEF OrElse, RealizedVolatility, Unknown
  <1> HIDE DEF high
  <1> QED
    BY <1>1, <1>3 DEF FlagIf

(* What the naive path leaves out of a snapshot is what the kernel reads   *)
(* about it; a short history, a shift of regime and a high volatility are  *)
(* never missing.                                                          *)
(* (ir_payload.py beside naive_path.py.)                                   *)
THEOREM EvidenceCarried == Spec => []EvidenceReachesTheKernel
  <1>1. DeskInv /\ DataInv => EvidenceReachesTheKernel
    <2> SUFFICES ASSUME DeskInv, DataInv, Evaluated, wiring = "native"
                 PROVE  EvidenceReachesTheKernel
      BY DEF EvidenceReachesTheKernel
    <2> DEFINE votes == NativeVotes(Seen)
               told(i) == Evaluate(ROSTER_17[i], Seen)
    <2>1. outputs = NativeOutputs(votes) /\ evidence = Evidence(outputs)
      BY DEF DeskInv, Made
    <2>2. DOMAIN votes = 1 .. 17 /\ DOMAIN outputs = 1 .. 17
      BY <2>1, NativeVote, OutputDomain
    <2>3. ASSUME NEW i \in 1 .. 17
          PROVE  /\ outputs[i].name = ROSTER_17[i]
                 /\ outputs[i].signal = votes[i].verdict
                 /\ outputs[i].unknowns = votes[i].unknowns
                 /\ outputs[i].contradictions = votes[i].contradictions
                 /\ outputs[i].risk_flags = votes[i].risk_flags
                 /\ votes[i].unknowns = told(i).unknowns
                 /\ votes[i].contradictions = told(i).contradictions
                 /\ votes[i].risk_flags = told(i).risk_flags
                 /\ told(i).verdict # Absent => votes[i].verdict = told(i).verdict
      <3>1. votes[i] = AgentVote(ROSTER_17[i], told(i))
        BY NativeVote
      <3>2. /\ votes[i].name = ROSTER_17[i]
            /\ votes[i].unknowns = told(i).unknowns
            /\ votes[i].contradictions = told(i).contradictions
            /\ votes[i].risk_flags = told(i).risk_flags
            /\ told(i).verdict # Absent => votes[i].verdict = told(i).verdict
        BY <3>1, VoteFields
      <3>3. /\ outputs[i].name = votes[i].name
            /\ outputs[i].signal = votes[i].verdict
            /\ outputs[i].unknowns = votes[i].unknowns
            /\ outputs[i].contradictions = votes[i].contradictions
            /\ outputs[i].risk_flags = votes[i].risk_flags
        BY <2>1, <2>2, OutputFields
      <3> QED
        BY <3>2, <3>3
    <2> HIDE DEF votes, told
    <2>4. /\ evidence.unknowns = UNION {votes[i].unknowns : i \in 1 .. 17}
          /\ evidence.contradictions = UNION {votes[i].contradictions : i \in 1 .. 17}
          /\ evidence.risk_flags = UNION {votes[i].risk_flags : i \in 1 .. 17}
      BY <2>1, <2>2, <2>3 DEF Evidence, Gathered
    <2>5. /\ NaivePath(Seen).ignored_unknowns = UNION {votes[i].unknowns : i \in 1 .. 17}
          /\ NaivePath(Seen).ignored_contradictions =
               UNION {votes[i].contradictions : i \in 1 .. 17}
          /\ NaivePath(Seen).ignored_risk_flags = UNION {votes[i].risk_flags : i \in 1 .. 17}
      BY <2>2 DEF NaivePath, NaiveCounterfactual, Gathered, votes
    <2>6. Seen.prices < 20 => "SHORT_PRICE_HISTORY" \in evidence.unknowns
      <3>1. Seen.prices < 20 => "SHORT_PRICE_HISTORY" \in votes[17].unknowns
        BY <2>3, RosterPlaces, ProofConsistencySays DEF told
      <3> QED
        BY <2>4, <3>1
    <2>7. OutputOf("RegimeShift") = outputs[15]
      <3>1. outputs[15] \in Range(outputs) /\ outputs[15].name = "RegimeShift"
        BY <2>2, <2>3, RosterPlaces DEF Range
      <3>2. \A o \in Range(outputs) : o.name = "RegimeShift" => o = outputs[15]
        BY <2>2, <2>3, RosterPlaces DEF Range
      <3> QED
        BY <3>1, <3>2 DEF OutputOf
    <2>8. outputs[15].signal = "SELL" <=>
            "REGIME_SHIFT_DETECTED" \in votes[15].contradictions
      BY <2>3, RosterPlaces, RegimeShiftSays DEF told, Absent
    <2>9. \A i \in 1 .. 17 : i # 15 => votes[i].contradictions = {}
      BY <2>3, WhoContradicts DEF told
    <2>10. OutputOf("RegimeShift").signal = "SELL" <=>
             "REGIME_SHIFT_DETECTED" \in evidence.contradictions
      BY <2>4, <2>7, <2>8, <2>9
    <2>11. "HIGH_VOLATILITY" \in votes[3].risk_flags <=>
             /\ Seen.prices >= 61 /\ Seen.tape.rv[60] > 0
             /\ Seen.tape.rv[20] * 100 > Seen.tape.rv[60] * 130
      <3>1. Measured(Seen)
        BY SeenIsMeasured DEF Evaluated
      <3> QED
        BY <2>3, <3>1, RosterPlaces, VolatilityWarns DEF told
    <2>12. \A i \in 1 .. 17 : i # 3 => votes[i].risk_flags = {}
      BY <2>3, WhoWarns DEF told
    <2>13. "HIGH_VOLATILITY" \in evidence.risk_flags <=>
             "HIGH_VOLATILITY" \in votes[3].risk_flags
      BY <2>4, <2>12
    <2> QED
      BY <2>4, <2>5, <2>6, <2>10, <2>11, <2>13 DEF EvidenceReachesTheKernel
  <1> QED
    BY <1>1, DeskInvHolds, DataInvHolds, PTL

------------------------------------------------------------------------------
(* The regime matrix of a calibrated pack accounts for every return and    *)
(* every transition of its dataset.  (domain/calibration_estimation.py,    *)
(* estimate_markov_regime_matrix.)                                         *)
THEOREM RegimesAreComplete == Spec => []RegimesCountEveryReturn
  <1>1. DataInv => RegimesCountEveryReturn
    BY DEF DataInv, PackInv
  <1> QED
    BY <1>1, DataInvHolds, PTL
==============================================================================
