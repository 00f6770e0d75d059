--------------------------- MODULE ExternalStack ----------------------------
(***************************************************************************)
(* The external way into the analysis: a raw payload of a third party is   *)
(* validated (external/contracts/external_signal.py), then normalised      *)
(* (external/normalization/normalizer.py) by the adapter that fetched it   *)
(* (external/adapters/base_adapter.py).                                    *)
(*                                                                         *)
(* A text of a payload may be missing or empty.  A confidence is any       *)
(* number, in percent, or no number at all; the two infinities and the     *)
(* not-a-number that float() reads as well are left out.  The categories,  *)
(* the event and the time the payload may carry are left out too.          *)
(***************************************************************************)
EXTENDS NativeRoster

CONSTANTS
  AdapterId,      \* the adapter's own identifier
  Organization    \* the organisation it speaks for

Missing == "missing"
Empty == ""
NotANumber == [number |-> FALSE, percent |-> 0]
Number(p) == [number |-> TRUE, percent |-> p]

REQUIRED_FIELDS == {"source_id", "organization_id", "signal", "rationale"}

(* from_raw_payload raises InvalidExternalSignal for any other payload. *)
IsValid(payload) ==
  /\ \A f \in REQUIRED_FIELDS : payload[f] \notin {Missing, Empty}
  /\ payload.confidence.number

(* Plausible bug: what contradicts the signal is dropped.                  *)
FromRawPayloadUncontradicted(payload) ==
  [name |-> payload.source_id, organization |-> payload.organization_id,
   verdict |-> payload.signal, confidence |-> payload.confidence.percent,
   claim |-> Claim(payload.source_id), unknowns |-> payload.unknowns,
   contradictions |-> {}, risk_flags |-> payload.risk_flags,
   evidence_refs |-> payload.evidence_refs]

(* Plausible bug: who speaks is read from the payload's own adapter_id.    *)
FromRawPayloadAsAdapter(payload) ==
  [name |-> payload.adapter_id, organization |-> payload.organization_id,
   verdict |-> payload.signal, confidence |-> payload.confidence.percent,
   claim |-> Claim(payload.adapter_id), unknowns |-> payload.unknowns,
   contradictions |-> payload.contradictions, risk_flags |-> payload.risk_flags,
   evidence_refs |-> payload.evidence_refs]

(* The signal stays as it came: no list of known ones, no bounds on the    *)
(* confidence; a list the payload does not have is empty.                  *)
FromRawPayload(payload) ==
  [name |-> payload.source_id, organization |-> payload.organization_id,
   verdict |-> payload.signal, confidence |-> payload.confidence.percent,
   claim |-> Claim(payload.source_id), unknowns |-> payload.unknowns,
   contradictions |-> payload.contradictions, risk_flags |-> payload.risk_flags,
   evidence_refs |-> payload.evidence_refs]

ExternalSourceTrusted(signal, adapter) == NativeSource(signal.name)
ExternalSource(signal, adapter) ==
  [system |-> "EXTERNAL", id |-> signal.name, adapter |-> adapter,
   organization |-> signal.organization]

(* The adapter's identifier is its own, never the one the payload claims. *)
NormalizeExternalSignal(signal, adapter) ==
  ToCanonicalAgentSignal(signal, signal.verdict, ExternalSource(signal, adapter))

(* example_adapter.py: the fixed payload of the example stack. *)
ExamplePayload ==
  [source_id |-> "brother_strategy_07", organization_id |-> Organization,
   adapter_id |-> AdapterId, signal |-> "BUY", rationale |-> "example",
   confidence |-> Number(62), unknowns |-> {"stack_externe_non_auditee"},
   contradictions |-> {}, risk_flags |-> {"aucune_verification_independante"},
   evidence_refs |-> {}]

(* What analyse makes of the signals an adapter returns, each of which     *)
(* from_raw_payload let through.                                           *)
ExternalOutputs(payloads) ==
  [i \in DOMAIN payloads |->
     NormalizeExternalSignal(FromRawPayload(payloads[i]), AdapterId)]
==============================================================================
