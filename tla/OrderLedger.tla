----------------------------- MODULE OrderLedger -----------------------------
(***************************************************************************)
(* The append-only JSONL order ledger: domain/order_ledger.py and          *)
(* execution/binder/order_ledger_jsonl.py.                                 *)
(*                                                                         *)
(* The file is the sequence of its lines.  A line is an event of an order, *)
(* reduced to the order it is about and its type, or the remains of a      *)
(* write that stopped half-way.  append opens, writes and closes the file  *)
(* and never calls fsync, so synced counts the lines the operating system  *)
(* has written back on its own.                                            *)
(***************************************************************************)
EXTENDS Environment, AlpacaStatus, Sequences

VARIABLES
  ledger,  \* the lines of the file, oldest first
  synced   \* how many of them would survive the loss of the machine

ledgerVars == <<ledger, synced>>

EventTypes == {
  "SUBMISSION_INTENT_RECORDED", "SUBMITTED", "ACKNOWLEDGED", "PARTIAL",
  "FILLED", "REJECTED", "CANCELLED", "UNKNOWN" }

Terminal == {"FILLED", "REJECTED", "CANCELLED"}

Event(id, type) == [id |-> id, type |-> type]
TornLine == [id |-> 0, type |-> "TORN"]
Lines == [id : Ids, type : EventTypes] \cup {TornLine}

(***************************************************************************)
(* event_type_from_order_status: what the ledger says of a result.         *)
(***************************************************************************)
EventTypeIgnoringSubmitted(status, submitted) ==
  CASE status = "ACCEPTED" -> "ACKNOWLEDGED"
    [] status \in {"REJECTED", "EXPIRED"} -> "REJECTED"
    [] status = "FILLED" -> "FILLED"
    [] status = "CANCELED" -> "CANCELLED"
    [] OTHER -> "REJECTED"

EventTypeCopyingStatus(status, submitted) == status

EventType(status, submitted) ==
  IF ~submitted
  THEN IF status = "REJECTED" THEN "REJECTED" ELSE "UNKNOWN"
  ELSE CASE status = "ACCEPTED" -> "ACKNOWLEDGED"
         [] status = "PARTIALLY_FILLED" -> "PARTIAL"
         [] status = "FILLED" -> "FILLED"
         [] status = "CANCELED" -> "CANCELLED"
         [] status \in {"REJECTED", "EXPIRED"} -> "REJECTED"
         [] status = "PENDING_SUBMIT" -> "SUBMITTED"
         [] OTHER -> "UNKNOWN"

------------------------------------------------------------------------------
(***************************************************************************)
(* Reading.  _read_all parses every line and raises on the first bad one,  *)
(* so a torn line makes every later reading and append raise.              *)
(***************************************************************************)
LedgerReadable == \A i \in 1 .. Len(ledger) : ledger[i] # TornLine

EventsOf(id) == {i \in 1 .. Len(ledger) : ledger[i].id = id}

LatestType(id) ==
  ledger[CHOOSE i \in EventsOf(id) : \A j \in EventsOf(id) : j <= i].type

(* submission_blocker: any event at all of this order blocks it. *)
BlockedIfActive(id) == EventsOf(id) # {} /\ LatestType(id) \notin Terminal
Blocked(id) == EventsOf(id) # {}

(* non_terminal: the orders a restarted operator still has to look after. *)
NonTerminal == {id \in Ids : EventsOf(id) # {} /\ LatestType(id) \notin Terminal}

------------------------------------------------------------------------------
(***************************************************************************)
(* Writing.  append returns after the line is out, or raises: because the  *)
(* file is unreadable or the event is already there (nothing written),     *)
(* half-way through the line, or when closing the file after the write.    *)
(***************************************************************************)
AppendReturns(e) ==
  /\ LedgerReadable
  /\ ledger' = Append(ledger, e)
  /\ UNCHANGED synced

AppendRaises(e) ==
  /\ \/ /\ ~LedgerReadable \/ "ledger_io" \in Faults
        /\ UNCHANGED ledger
     \/ /\ LedgerReadable /\ "ledger_torn" \in Faults
        /\ ledger' = Append(ledger, TornLine)
     \/ /\ LedgerReadable /\ "ledger_io" \in Faults
        /\ ledger' = Append(ledger, e)
  /\ UNCHANGED synced

(* The operating system writes the file back in its own time. *)
Writeback ==
  /\ "power" \in Faults
  /\ synced < Len(ledger)
  /\ synced' = Len(ledger)
  /\ UNCHANGED ledger

(* Losing the machine keeps what was written back and any part of the rest. *)
LosePower ==
  \E kept \in synced .. Len(ledger) :
    /\ ledger' = SubSeq(ledger, 1, kept)
    /\ synced' = kept

InitLedger == ledger = <<>> /\ synced = 0

TypeOKLedger ==
  /\ ledger \in Seq(Lines)
  /\ synced \in 0 .. Len(ledger)
==============================================================================
