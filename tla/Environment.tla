----------------------------- MODULE Environment -----------------------------
(***************************************************************************)
(* What the components of the governed cycle share: the identities of the  *)
(* cycles and the faults their surroundings may inject.                    *)
(*                                                                         *)
(* Every cycle draws a fresh uuid, so cycle identities and the decision    *)
(* identities derived from them never repeat, not even across a restart:   *)
(* both are numbered 1, 2, ... in the order in which they are drawn.       *)
(***************************************************************************)
EXTENDS Naturals

CONSTANTS
  MaxCycles,  \* number of cycles requested from the engine (the bound)
  Faults      \* the faults that may happen in this instance

FaultKinds == {
  "crash",          \* the process dies between two steps and may be restarted
  "power",          \* the machine dies: file data never synced may be lost
  "ledger_io",      \* a ledger append raises, before or after its line is out
  "ledger_torn",    \* a ledger append raises half-way through its line
  "receipt_io",     \* the receipt file cannot be read or opened for a while
  "receipt_torn",   \* a receipt append raises half-way through its line
  "receipt_fsync",  \* a receipt line is out, then flush or fsync raises
  "lost_reply",     \* the answer to a POST is lost or unusable
  "early_end",      \* the answer to a POST announces an end yet to come
  "planner",        \* an injected PlannerPort returns a plan it should not
  "replay"          \* an injected AuthorityPort reuses a decision_id
}

ASSUME EnvironmentAssumption ==
  /\ MaxCycles \in Nat
  /\ Faults \subseteq FaultKinds

Cycles == 1 .. MaxCycles

(* client_order_ids: one for each decision_id the engine draws at random.  *)
Ids == Cycles

(* decision_ids: the random ones, and those of abstentions, which are only *)
(* the cycle's rank since the engine was built ("d000001-abstain").        *)
AbstentionId(count) == MaxCycles + count
DecisionIds == 1 .. 2 * MaxCycles
==============================================================================
