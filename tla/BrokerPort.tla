------------------------------ MODULE BrokerPort -----------------------------
(***************************************************************************)
(* The broker and the adapter in front of it:                              *)
(* market/adapters/alpaca/alpaca_broker.py and alpaca_client.py.  The      *)
(* broker's own side is external: only what the adapter depends on is      *)
(* here, namely that a POST travels, is accepted, refused or lost, and     *)
(* that an accepted order goes on living by itself.                        *)
(***************************************************************************)
EXTENDS Environment, AlpacaStatus

VARIABLE orders  \* client_order_id -> what has become of its order

(* "refused" is answered by an HTTP error and never enters the broker's     *)
(* books; "rejected" enters them and is rejected there.                     *)
OrderStates == {
  "none", "travelling", "lost", "refused", "rejected", "open", "partial", "filled",
  "canceled" }

(* The states in which the broker holds, or may come to hold, the order.   *)
Live == {"travelling", "open", "partial"}

(* The states of an order the broker has, or has had, in its books.        *)
Booked == {"open", "partial", "filled", "canceled", "rejected"}

Post(id) == orders' = [orders EXCEPT ![id] = "travelling"]

Moves == {
  <<"travelling", "open">>, <<"travelling", "refused">>, <<"travelling", "lost">>,
  <<"travelling", "rejected">>, <<"open", "rejected">>,
  <<"open", "partial">>, <<"open", "filled">>, <<"open", "canceled">>,
  <<"partial", "filled">>, <<"partial", "canceled">> }

BrokerMoves(id) ==
  \E to \in OrderStates :
    /\ <<orders[id], to>> \in Moves
    /\ orders' = [orders EXCEPT ![id] = to]

------------------------------------------------------------------------------
(* An ExecutionResult, and the reason it gives when nothing was submitted. *)
Result(submitted, status, why) ==
  [submitted |-> submitted, status |-> status, why |-> why]

NotSubmitted(why) == Result(FALSE, "PENDING_SUBMIT", why)

(***************************************************************************)
(* The words a broker may use for an order in its books.  Some announce,   *)
(* of an order that is still at work, an end that has not come: the order  *)
(* is to be cancelled, is done for the day, is stopped at a guaranteed     *)
(* price ("stopped" stands for suspended too).                             *)
(***************************************************************************)
EarlyWords == {"pending_cancel", "done_for_day", "stopped"}

Words(state) ==
  (CASE state = "open" -> {"new", "held", "pending_replace"}
     [] state = "partial" -> {"partially_filled", "pending_replace"}
     [] state = "filled" -> {"filled", "calculated"}
     [] state = "canceled" -> {"canceled", "expired", "replaced"}
     [] state = "rejected" -> {"rejected"})
  \cup IF state \in {"open", "partial"} /\ "early_end" \in Faults
       THEN EarlyWords ELSE {}

(***************************************************************************)
(* AlpacaBroker.submit once the answer is in: an HTTP error becomes a      *)
(* result that is not submitted and REJECTED, and any other answer one     *)
(* that is submitted, whatever _status makes of the order's state.         *)
(***************************************************************************)
SubmitAnswers(state) ==
  IF state = "refused" THEN {Result(FALSE, "REJECTED", "broker")}
  ELSE {Result(TRUE, Status(word), "none") : word \in Words(state)}

(***************************************************************************)
(* The same once the answer is not coming or cannot be used: a timeout, a  *)
(* broken connection and a body that is not JSON are AlpacaAPIErrors; a    *)
(* JSON body that is not an object makes _execution_from raise, which the  *)
(* engine turns into a result that is not submitted.                       *)
(***************************************************************************)
Unanswered ==
  {Result(FALSE, "REJECTED", "broker"), NotSubmitted("broker")}

InitBroker == orders = [id \in Ids |-> "none"]

TypeOKBroker == orders \in [Ids -> OrderStates]
==============================================================================
