----------------------------- MODULE ReceiptStore ----------------------------
(***************************************************************************)
(* The append-only JSONL store of cycle receipts and its verifier:         *)
(* proof/receipts/receipt_store.py and receipt_verify.py.                  *)
(*                                                                         *)
(* A receipt's hash covers its cycle_id, which is never drawn twice, and   *)
(* SHA-256 is taken to be injective: a receipt is identified by its hash,  *)
(* and the model writes the cycle's number for it.  Of the contents it     *)
(* keeps the decision_id and whether the result claims a submission.       *)
(***************************************************************************)
EXTENDS Environment, Sequences

VARIABLE receipts  \* the lines of the file, oldest first

Genesis == 0

Receipt(cycle, decision, prev, executed) ==
  [cycle |-> cycle, decision |-> decision, prev |-> prev, executed |-> executed]

TornReceipt == Receipt(0, 0, Genesis, FALSE)

Receipts ==
  [cycle : Cycles, decision : DecisionIds, prev : {Genesis} \cup Cycles,
   executed : BOOLEAN]

(* _read_raw_lines raises on a torn line, and so do all its callers. *)
StoreReadable == \A i \in 1 .. Len(receipts) : receipts[i] # TornReceipt

LastHash ==
  IF receipts = <<>> THEN Genesis ELSE receipts[Len(receipts)].cycle

Recorded(cycle) == \E i \in 1 .. Len(receipts) : receipts[i].cycle = cycle

(***************************************************************************)
(* record reads the file, refuses a cycle_id it already holds, appends one *)
(* line, flushes and calls fsync.  It never compares the receipt's         *)
(* previous_receipt_hash with the last line.                               *)
(***************************************************************************)
RecordReturns(r) ==
  /\ StoreReadable
  /\ ~Recorded(r.cycle)
  /\ receipts' = Append(receipts, r)

RecordRaises(r) ==
  \/ /\ ~StoreReadable \/ Recorded(r.cycle) \/ "receipt_io" \in Faults
     /\ UNCHANGED receipts
  \/ /\ StoreReadable /\ "receipt_torn" \in Faults
     /\ receipts' = Append(receipts, TornReceipt)
  \/ /\ StoreReadable /\ "receipt_fsync" \in Faults
     /\ receipts' = Append(receipts, r)

(***************************************************************************)
(* verify_store: the hashes match by construction here, what is left is    *)
(* that every line parses, no cycle_id comes twice and every line names    *)
(* the hash of the line before it.                                         *)
(***************************************************************************)
Linked(i) ==
  receipts[i].prev = IF i = 1 THEN Genesis ELSE receipts[i - 1].cycle

VerifyStore ==
  IF ~StoreReadable THEN "CORRUPTED"
  ELSE IF receipts = <<>> THEN "EMPTY"
  ELSE IF /\ \A i \in 1 .. Len(receipts) : Linked(i)
          /\ \A i, j \in 1 .. Len(receipts) :
               receipts[i].cycle = receipts[j].cycle => i = j
       THEN "VALID" ELSE "CORRUPTED"

InitStore == receipts = <<>>

TypeOKStore == receipts \in Seq(Receipts \cup {TornReceipt})
==============================================================================
