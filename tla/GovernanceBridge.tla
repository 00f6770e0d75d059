--------------------------- MODULE GovernanceBridge --------------------------
(***************************************************************************)
(* From the kernel's answer to an authority:                               *)
(* governance/bridge/kx108_client.py (RealKX108Client) and                 *)
(* governance/bridge/governance_bridge.py (KX108GovernanceBridge).         *)
(*                                                                         *)
(* An answer either never comes (no connection, HTTP error, timeout, not a *)
(* JSON object: the client raises) or is an object in which the kernel     *)
(* wrote a word, or nothing, under "verdict" and under "x108_gate".        *)
(***************************************************************************)

KernelWords == {"ACT", "ALLOW", "HOLD", "BLOCK"}

(* "other" stands for any other value, of any type; "absent" for no key. *)
Fields == KernelWords \cup {"other", "absent"}

Unreachable == [verdict |-> "unreachable", gate |-> "unreachable"]
Answers == [verdict : Fields, gate : Fields]
Replies == Answers \cup {Unreachable}

(* The kernel's own meaning of its answer: the word under "verdict", or,   *)
(* for a kernel that writes none, the word under "x108_gate".              *)
KernelSaysAct(reply) ==
  \/ reply.verdict \in {"ACT", "ALLOW"}
  \/ reply.verdict = "absent" /\ reply.gate \in {"ACT", "ALLOW"}

(* The client copies x108_gate into "verdict" when there is none.          *)
NormalizedPreferringGate(reply) ==
  IF reply.gate \in KernelWords THEN reply.gate ELSE reply.verdict

Normalized(reply) ==
  IF reply.verdict = "absent" /\ reply.gate \in KernelWords
  THEN reply.gate ELSE reply.verdict

(* The bridge: whatever is not one of the four words is HOLD.              *)
VerdictFailingOpen(reply) ==
  IF Normalized(reply) \in {"HOLD", "BLOCK"} THEN Normalized(reply) ELSE "ACT"

Verdict(reply) ==
  IF Normalized(reply) \in {"ACT", "ALLOW"} THEN "ACT"
  ELSE IF Normalized(reply) = "BLOCK" THEN "BLOCK"
  ELSE "HOLD"
==============================================================================
