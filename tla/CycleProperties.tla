--------------------------- MODULE CycleProperties ---------------------------
(***************************************************************************)
(* What the governed cycle of CycleEngine must guarantee.  Each property   *)
(* names, in its comment, the faults under which it is claimed.            *)
(***************************************************************************)
EXTENDS CycleEngine

Steps == {
  "down", "idle", "observe", "decide", "plan", "barrier", "preflight", "guard",
  "intent", "submit", "await", "log", "prove" }

Outcomes == {
  "none", "ERROR", "RAISED", "NOT_APPLICABLE", "PROVEN",
  "ABSTENTION_PROOF_INCOMPLETE", "EXECUTION_SUCCEEDED_PROOF_INCOMPLETE" }

Reasons == {"none", "authority", "proof", "duplicate", "intent", "broker"}

Results ==
  [submitted : BOOLEAN, status : OrderStatuses \cup {"none"}, why : Reasons]

(* The types of everything the engine, its files and its broker hold. *)
TypeOK ==
  /\ pc \in Steps
  /\ cycle \in 0 .. MaxCycles
  /\ count \in 0 .. cycle
  /\ last \in {Genesis} \cup Cycles
  /\ obs \in ObservationSpace
  /\ decision \in [id : {0} \cup DecisionIds, auth : Authorities]
  /\ proposal \in [action : ActionKinds, sized : BOOLEAN]
  /\ plan \in [action : ActionKinds \cup {"none"}, auth : Authorities]
  /\ result \in Results
  /\ granted \subseteq Cycles \X Ids
  /\ contacts \subseteq Cycles \X Ids
  /\ outcome \in [Cycles -> Outcomes]
  /\ TypeOKLedger /\ TypeOKStore /\ TypeOKBroker

------------------------------------------------------------------------------
(***************************************************************************)
(* No request for an order ever leaves in a cycle in which the kernel did  *)
(* not itself answer ACT for that very decision: not after an unusable     *)
(* answer, not for a plan the planner should not have made, not after a    *)
(* crash.  Claimed under every fault.                                      *)
(***************************************************************************)
NoOrderWithoutAct == contacts \subseteq granted

(***************************************************************************)
(* A decision is sent to the broker by at most one cycle, even when the    *)
(* same decision_id comes back, before or after a crash, and whatever the  *)
(* ledger's writes did.  Claimed with a ledger, under every fault but the  *)
(* loss of the machine.                                                    *)
(***************************************************************************)
AtMostOneSubmission ==
  \A x, y \in contacts : x[2] = y[2] => x = y

(***************************************************************************)
(* The first thing the ledger says of an order that was sent is the        *)
(* intention of sending it: the line was there before the request left, so *)
(* a crash while waiting leaves a trace.  Claimed with a ledger, under     *)
(* every fault but the loss of the machine.                                *)
(***************************************************************************)
IntendedFirst(id) ==
  \E i \in EventsOf(id) :
    /\ ledger[i] = Intent(id)
    /\ \A j \in EventsOf(id) : i <= j

IntentComesFirst == \A x \in contacts : IntendedFirst(x[2])

(***************************************************************************)
(* An order the broker holds, or may still come to hold, is among those    *)
(* the ledger calls non-terminal, so that whoever restarts the process     *)
(* looks after it: also when the result's line could not be written, and   *)
(* when a later cycle was refused for the same decision.  Claimed with a   *)
(* ledger that can be read, when the broker's answers arrive, announce no  *)
(* end that is yet to come, and the machine is not lost.                   *)
(***************************************************************************)
OpenOrdersVisible ==
  LedgerReadable =>
    \A x \in contacts : orders[x[2]] \in Live => x[2] \in NonTerminal

(***************************************************************************)
(* How a cycle returned is never a lie about the order or its proof: when  *)
(* the order is in the broker's books the outcome is not an abstention or  *)
(* an error, PROVEN means that the cycle's receipt is in the store, an     *)
(* execution without proof means that the order is or was in the books     *)
(* (where the broker may have rejected it: a 200 answer is an execution    *)
(* under any word, an HTTP error never is), and a cycle that ends in an    *)
(* error sent nothing.  Claimed when the broker's answers arrive.          *)
(***************************************************************************)
Executed(c) == \E id \in Ids : <<c, id>> \in contacts /\ orders[id] \in Booked
Contacted(c) == \E id \in Ids : <<c, id>> \in contacts

HonestOutcome ==
  \A c \in Cycles :
    /\ Executed(c) =>
         outcome[c] \notin {"ABSTENTION_PROOF_INCOMPLETE", "ERROR", "RAISED"}
    /\ outcome[c] = "PROVEN" => Recorded(c)
    /\ outcome[c] = "EXECUTION_SUCCEEDED_PROOF_INCOMPLETE" => Executed(c)
    /\ outcome[c] \in {"ERROR", "RAISED"} => ~Contacted(c)

(***************************************************************************)
(* A stored receipt claims an execution (touched_the_market) exactly when  *)
(* an order of its cycle entered the broker's books, be it to be rejected  *)
(* there.  Claimed when the broker's answers arrive.                       *)
(***************************************************************************)
ReceiptsTellTheTruth ==
  \A i \in 1 .. Len(receipts) :
    receipts[i] # TornReceipt =>
      (receipts[i].executed <=> Executed(receipts[i].cycle))

(***************************************************************************)
(* Failed writes, crashes and restarts never break the chain: every line   *)
(* that is whole names the line before it, no cycle comes twice, and       *)
(* nothing was ever written after a torn line.  Claimed under every fault  *)
(* but a flush or fsync that raises once the line is out.                  *)
(***************************************************************************)
ChainIntact ==
  /\ \A i \in 1 .. Len(receipts) :
       receipts[i] = TornReceipt \/ Linked(i)
  /\ \A i, j \in 1 .. Len(receipts) :
       receipts[i].cycle = receipts[j].cycle => i = j
  /\ \A i \in 1 .. Len(receipts) - 1 : receipts[i] # TornReceipt

------------------------------------------------------------------------------
(***************************************************************************)
(* Under PROOF_REQUIRED no request leaves while the receipt store cannot   *)
(* be read: a file found torn by the preflight stops the cycle, and no     *)
(* step between the preflight and the submission tears it.  A store that   *)
(* goes bad by another hand in between is not modelled.  Claimed under     *)
(* every fault.                                                            *)
(***************************************************************************)
NoContactWithoutProofStore ==
  [][contacts' # contacts /\ ProofRequired => StoreReadable]_vars

(***************************************************************************)
(* An order leaves only on an observation of the account and of the market *)
(* that supports an irreversible action, for the proposed action and its   *)
(* size: the planner is the only barrier that looks at the observation,    *)
(* which is made once in a cycle.  Claimed for the reference planner.      *)
(***************************************************************************)
OrderOnSoundState ==
  [][contacts' # contacts =>
       /\ obs.portfolio = "open" /\ obs.snapshot = "good"
       /\ obs.quality \in IF Mode = "SIM" THEN DataQualities \ {"MISSING"}
                          ELSE {"LIVE", "DELAYED"}
       /\ proposal.sized /\ plan.action = proposal.action]_vars

(***************************************************************************)
(* The engine, its ledger and its broker implement GovernedSubmission, the *)
(* ledger's intention lines being what was intended.  Claimed with a       *)
(* ledger, under every fault but the loss of the machine.                  *)
(***************************************************************************)
Intended ==
  {id \in Ids : \E i \in 1 .. Len(ledger) : ledger[i] = Intent(id)}

Abstract == INSTANCE GovernedSubmission WITH
  Orders <- Ids,
  granted <- {x[2] : x \in granted},
  intended <- Intended,
  sent <- {x[2] : x \in contacts}

ImplementsGovernedSubmission == Abstract!Spec

------------------------------------------------------------------------------
(***************************************************************************)
(* Every cycle that begins ends, by returning, by raising or with its      *)
(* process: no step waits for ever, not even for the broker.               *)
(***************************************************************************)
CycleReturns == pc \notin {"idle", "down"} ~> pc \in {"idle", "down"}

------------------------------------------------------------------------------
(***************************************************************************)
(* What the repository says of itself and the code does not do.            *)
(***************************************************************************)

(* execution/binder/proof_policy.py, of ABSTENTION_PROOF_INCOMPLETE: the    *)
(* cycle touched no market, no external side effect is at stake.           *)
AbstentionHasNoEffect ==
  \A c \in Cycles :
    outcome[c] = "ABSTENTION_PROOF_INCOMPLETE" => ~Executed(c)
==============================================================================
