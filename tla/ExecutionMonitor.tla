-------------------------- MODULE ExecutionMonitor --------------------------
(***************************************************************************)
(* The orders that execution/binder/monitor.py follows: track, and the     *)
(* step of poll that asks the broker about one order.  What poll makes of  *)
(* the positions is in PositionReviews.                                    *)
(***************************************************************************)
EXTENDS BrokerOrders

VARIABLE tracked  \* order -> last known status, or "untracked"

Tracked == {o \in Orders : tracked[o] # "untracked"}

(* track: an execution that was not submitted, or whose answer bore no id, *)
(* is not followed.                                                        *)
Track(o, submitted, named, status) ==
  tracked' = IF submitted /\ named THEN [tracked EXCEPT ![o] = status] ELSE tracked

Untrack(o) == tracked' = [tracked EXCEPT ![o] = "untracked"]

(* order_status raises BrokerUnavailable: the loop goes on. *)
StatusUnavailable(o) == "unavailable" \in Faults /\ UNCHANGED tracked

(* order_status returns None: it does so for every error whose text holds  *)
(* "404" or "not found", and a transport error quotes the URL, which holds *)
(* the order's identifier.                                                 *)
StatusUnknown(o) == "misread" \in Faults /\ Untrack(o)

StatusKnown(o) ==
  LET now == Status(raw[o])
  IN tracked' = [tracked EXCEPT
       ![o] = IF now \in TerminalStatuses THEN "untracked" ELSE now]

InitMonitor == tracked = [o \in Orders |-> "untracked"]

TypeOKMonitor == tracked \in [Orders -> OrderStatuses \cup {"untracked"}]
==============================================================================
