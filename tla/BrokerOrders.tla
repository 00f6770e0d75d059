---------------------------- MODULE BrokerOrders ----------------------------
(***************************************************************************)
(* What the broker says of an order, told in its own words: AlpacaStatus   *)
(* has the names AlpacaBroker gives them.  The life of an order at the     *)
(* broker is external.  Orders are numbered by the cycles that submitted   *)
(* them.                                                                   *)
(***************************************************************************)
EXTENDS Naturals, AlpacaStatus

CONSTANTS
  MaxCalls,  \* number of calls the interface makes (the bound)
  Faults     \* the faults that may happen in this instance

FaultKinds == {
  "engine",       \* run_cycle raises
  "observation",  \* run_cycle cannot observe and returns an error
  "poll",         \* a poll raises something else than BrokerUnavailable
  "unavailable",  \* the broker cannot be reached for a status
  "misread",      \* a transport error whose text contains "404"
  "early",        \* the broker announces an end that has not come yet
  "lost_reply",   \* the answer to a POST is lost, the order lives on
  "unnamed",      \* the answer to a POST has no id
  "memory"        \* the memory raises, and may be left with a torn record
}

ASSUME BrokerOrdersAssumption ==
  /\ MaxCalls \in Nat
  /\ Faults \subseteq FaultKinds

Orders == 1 .. MaxCalls

VARIABLE raw  \* order -> its status in the broker's own words, or "none"

RawStatuses == {
  "none", "new", "partially_filled", "done_for_day", "pending_cancel",
  "filled", "canceled", "rejected", "expired" }

(* The broker's words after which nothing more happens to the order. *)
Over == {"filled", "canceled", "rejected", "expired"}

(* Those that announce an end which is yet to come. *)
Announcing == {"done_for_day", "pending_cancel"}

RawMoves ==
  {"new", "partially_filled"} \X (Over \cup {"partially_filled"})
    \cup IF "early" \in Faults
         THEN ({"new", "partially_filled"} \X Announcing)
              \cup (Announcing \X {"filled", "canceled"})
         ELSE {}

(* What the answer to a POST may say of an order that is in the books. *)
AnsweredWords ==
  RawStatuses \ ({"none"} \cup IF "early" \in Faults THEN {} ELSE Announcing)

BrokerMoves(o) ==
  \E to \in RawStatuses \ {raw[o]} :
    /\ <<raw[o], to>> \in RawMoves
    /\ raw' = [raw EXCEPT ![o] = to]

------------------------------------------------------------------------------
InitOrders == raw = [o \in Orders |-> "none"]

TypeOKOrders == raw \in [Orders -> RawStatuses]
==============================================================================
