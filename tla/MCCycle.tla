------------------------------- MODULE MCCycle -------------------------------
(* Small instances of CycleProperties for TLC. *)
EXTENDS CycleProperties

View(snapshot, portfolio, quality) ==
  [snapshot |-> snapshot, portfolio |-> portfolio, quality |-> quality]

Sound == View("good", "open", "LIVE")

(* The observation that supports an order, and all that differ from it in  *)
(* one component: 12 of the 90.                                            *)
MCObservations ==
  {View(s, "open", "LIVE") : s \in Snapshots}
    \cup {View("good", p, "LIVE") : p \in Portfolios}
    \cup {View("good", "open", q) : q \in DataQualities}

(* Nothing to look at, and a state that supports an order: for the         *)
(* instances with many faults.                                             *)
MCFewObservations == {View("none", "unknown", "MISSING"), Sound}

(* An order, an irreversible action that has no side, and a reversible one. *)
MCActions == {"BUY", "CANCEL_ORDER", "WAIT"}
==============================================================================
