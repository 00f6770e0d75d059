---------------------------- MODULE BusProperties ----------------------------
(* What RuntimeBus is checked for. *)
EXTENDS RuntimeBus

InStep == {"run", "track", "poll", "memory", "history"}
Stages == InStep \cup {"idle", "wait", "reply"}

(***************************************************************************)
(* Every variable keeps its type; among them the history its bounded       *)
(* length, and the cycle count its bound by the calls.                     *)
(***************************************************************************)
TypeOK ==
  /\ lock \in Threads \cup {Free}
  /\ calls \in 0 .. MaxCalls
  /\ pc \in [Threads -> Stages]
  /\ op \in [Threads -> CommandKinds \cup {"none"}]
  /\ mine \in [Threads -> 0 .. MaxCalls]
  /\ outcome \in [Threads -> Outcomes]
  /\ todo \in [Threads -> SUBSET Orders]
  /\ report \in [Threads -> SUBSET Orders]
  /\ running \in BOOLEAN
  /\ count \in 0 .. MaxCalls
  /\ shown \in 0 .. MaxCalls
  /\ error \in {"none", "cycle", "memory"}
  /\ monitoring \in Reports
  /\ hist \in Seq(Orders) /\ Len(hist) <= HistorySize
  /\ remembered \subseteq Orders /\ intact \in BOOLEAN
  /\ followed \subseteq Orders /\ published \subseteq Orders
  /\ TypeOKOrders /\ TypeOKMonitor

------------------------------------------------------------------------------
(***************************************************************************)
(* Two redraws at once never run two cycles at once, nor a poll beside a   *)
(* cycle: the promise of the bus's docstring.                              *)
(***************************************************************************)
OneAtATime ==
  \A s, t \in Threads : pc[s] \in InStep /\ pc[t] \in InStep => s = t

(***************************************************************************)
(* A cycle that a mere redraw started runs only while the runtime is       *)
(* started: a STOP is never overtaken by a tick that had tested _running   *)
(* before it, and never falls into the middle of a tick's cycle.           *)
(***************************************************************************)
TickCycleOnlyWhileRunning ==
  \A t \in Threads : op[t] = "TICK" /\ pc[t] \in InStep => running

(***************************************************************************)
(* What a call answers belongs together: the history is in order and does  *)
(* not run ahead of the last outcome, nor that of the cycle count, and a   *)
(* step answers with its own cycle, whatever other threads asked and       *)
(* whatever raised before.                                                 *)
(***************************************************************************)
AnswersHangTogether ==
  \A t \in Threads : pc[t] = "reply" =>
    /\ \A i, j \in 1 .. Len(hist) : i < j => hist[i] < hist[j]
    /\ \A i \in 1 .. Len(hist) : hist[i] <= shown
    /\ shown <= count
    /\ mine[t] # 0 =>
         /\ mine[t] = shown /\ shown = count
         /\ hist # <<>> /\ hist[Len(hist)] = mine[t]

(***************************************************************************)
(* An order that the broker holds and has not ended is followed, or about  *)
(* to be, through STOP, RESET, unreachable brokers and steps that raise:   *)
(* whatever other threads ask, no order is at work unseen.  Claimed when   *)
(* the answer to its submission came ("lost_reply") and bore an id         *)
(* ("unnamed"), the broker's words mean what they say ("early") and no     *)
(* error is read as "unknown order" ("misread"): in each of these cases    *)
(* the bus leaves an open order alone.                                     *)
(***************************************************************************)
AboutToBeTracked(o) == \E t \in Threads : pc[t] = "track" /\ mine[t] = o

OpenOrdersFollowed ==
  HasMonitor =>
    \A o \in Orders :
      raw[o] \notin Over \cup {"none"} => o \in Tracked \/ AboutToBeTracked(o)

(***************************************************************************)
(* The end of an order that is followed no more has been in a report that  *)
(* the bus kept, or is in the report being made: no order vanishes from    *)
(* the monitor without its end being told.  Claimed without "misread" and  *)
(* without exceptions of poll, which lose the report they interrupt.       *)
(***************************************************************************)
EndsAreTold ==
  \A o \in followed \ Tracked :
    o \in published \/ \E t \in Threads : pc[t] = "poll" /\ o \in report[t]

(***************************************************************************)
(* The ends that a step reports are in the memory when it answers, or its  *)
(* answer bears an error, or it shows a memory that cannot be read back    *)
(* (integrity_ok, from verify_integrity): a memory that is whole has them. *)
(* (A MONITOR command writes no memory, and the end of an order that it    *)
(* finds is never written.)                                                *)
(***************************************************************************)
StepsRemember ==
  \A t \in Threads :
    pc[t] = "reply" /\ mine[t] # 0 /\ HasMonitor /\ HasMemory =>
      monitoring.ended \subseteq remembered \/ error # "none" \/ ~intact

------------------------------------------------------------------------------
(***************************************************************************)
(* Every call comes back, with an answer or an exception: no exception     *)
(* leaves the lock behind and no thread waits for ever.  The calls are     *)
(* finitely many here; nothing in the code is fair between threads that    *)
(* call without end.                                                       *)
(***************************************************************************)
CallsReturn == \A t \in Threads : pc[t] # "idle" ~> pc[t] = "idle"

------------------------------------------------------------------------------
(***************************************************************************)
(* What the repository says of itself and the code does not do.            *)
(***************************************************************************)

(* domain/ports/broker.py, of order_status: None means that the broker does *)
(* not know the order.  An order the monitor gives up is not open.         *)
GivenUpOrdersAreUnknown ==
  \A o \in followed \ Tracked : raw[o] \notin {"new", "partially_filled"}
==============================================================================
