----------------------------- MODULE ReceiptChain ----------------------------
(***************************************************************************)
(* What stands in a file of receipts, line by line, and what is read back  *)
(* from it: proof/receipts/receipt_store.py (the line format and the       *)
(* lookups), receipt_chain.py (the simulation kept as evidence),           *)
(* receipt_verify.py (the verifier) and replay.py (the two replays).       *)
(*                                                                         *)
(* ReceiptStore, the store as the engine alone sees it, identifies a       *)
(* receipt with its hash.  Here a line holds both, because a file can be   *)
(* damaged: the hash that was stored and the contents it was taken of may  *)
(* stop agreeing.                                                          *)
(*                                                                         *)
(* A hash is taken of some keys of a receipt, not of all of them.  The     *)
(* model writes "receipt" for what is hashed (_HASHABLE_KEYS, the previous *)
(* hash and the extensions among them), and SHA-256 is taken to be         *)
(* injective, so the hash of those contents is written as the contents.    *)
(* The keys that are stored and not hashed (touched_the_market,            *)
(* recorded_at and the receipt's three copies of its own hash) stand       *)
(* beside it in the line; touched_the_market, which the replay shows,      *)
(* stands for the five.                                                    *)
(***************************************************************************)
EXTENDS Naturals, Sequences, SequencesExt

Genesis == [cycle |-> 0]

(***************************************************************************)
(* The block f7_simulation of a receipt.  The digest is taken of the path  *)
(* alone, its steps and returns, and a path does not depend on all the     *)
(* parameters: without a jump, jump_mu and jump_sigma do not act, nor does *)
(* the seed beyond its 32 bits.  So a parameter set has a part that acts,  *)
(* one number for each path, and a part that is idle.  Different paths     *)
(* have different digests, numbers out of the paths' way.                  *)
(***************************************************************************)
Params(acting, idle) == [acting |-> acting, idle |-> idle]

Path(params) == params.acting

Digest(path) == 100 + path

build_simulation_extension(kind, params) ==
  [kind |-> kind, params |-> params, output_digest |-> Digest(Path(params))]

NoExtension == [kind |-> "none", params |-> Params(0, 0), output_digest |-> 0]

Receipt(cycle, authority, executed, prev, extension) ==
  [cycle |-> cycle, authority |-> authority, executed |-> executed,
   previous_receipt_hash |-> prev, extension |-> extension]

(* decision_hash, and compute_stored_hash of the receipt once serialised.  *)
Hash(receipt) == receipt

Line(receipt) ==
  [receipt |-> receipt, touched_the_market |-> receipt.executed,
   stored_hash |-> Hash(receipt)]

TornLine ==
  [receipt |-> Genesis, touched_the_market |-> FALSE, stored_hash |-> Genesis]

(* _read_raw_lines raises on a line it cannot parse, and so do its callers.*)
Readable(lines) == ~Contains(lines, TornLine)

last_hash(lines) == IF lines = <<>> THEN Genesis ELSE Last(lines).stored_hash

Has(lines, cycle) == \E i \in DOMAIN lines : lines[i].receipt.cycle = cycle

(* find_by_cycle_id: the first line of this cycle, all that is stored.     *)
find_by_cycle_id(lines, cycle) ==
  lines[SelectInSeq(lines, LAMBDA line : line.receipt.cycle = cycle)]

(***************************************************************************)
(* verify_store.  The version of a receipt is part of what is hashed: a    *)
(* line whose version is not the known one is a line whose contents        *)
(* changed.  Nothing looks at what is stored and not hashed.               *)
(***************************************************************************)
Unaltered(line) == line.stored_hash = Hash(line.receipt)

FollowsTheLineBefore(lines, i) ==
  lines[i].receipt.previous_receipt_hash = last_hash(SubSeq(lines, 1, i - 1))

FirstOfItsCycle(lines, i) ==
  ~Has(SubSeq(lines, 1, i - 1), lines[i].receipt.cycle)

(* Plausible bug: the hashes are compared and the links are not.           *)
VerifyStoreWithoutLinks(lines) ==
  IF lines = <<>> THEN "EMPTY"
  ELSE IF /\ Readable(lines)
          /\ \A i \in DOMAIN lines :
               Unaltered(lines[i]) /\ FirstOfItsCycle(lines, i)
       THEN "VALID" ELSE "CORRUPTED"

verify_store(lines) ==
  IF lines = <<>> THEN "EMPTY"
  ELSE IF /\ Readable(lines)
          /\ \A i \in DOMAIN lines :
               /\ FirstOfItsCycle(lines, i)
               /\ Unaltered(lines[i])
               /\ FollowsTheLineBefore(lines, i)
       THEN "VALID" ELSE "CORRUPTED"

(***************************************************************************)
(* replay_deterministic runs the stored parameters again and compares the  *)
(* digests.  It believes the line it finds: no hash is checked.            *)
(***************************************************************************)
SIMULATION_KIND_TRADING_WORLD == "trading_world"

(* Plausible bug: the digest kept in the receipt stands for the replayed.  *)
ReplayOfTheDigest(lines, cycle) ==
  IF ~Has(lines, cycle) THEN "NOT_REPLAYABLE"
  ELSE IF find_by_cycle_id(lines, cycle).receipt.extension.kind
            # SIMULATION_KIND_TRADING_WORLD
       THEN "NOT_REPLAYABLE" ELSE "MATCH"

replay_deterministic(lines, cycle) ==
  LET extension == find_by_cycle_id(lines, cycle).receipt.extension
      replayed == build_simulation_extension(extension.kind, extension.params)
  IN IF ~Has(lines, cycle) THEN "NOT_REPLAYABLE"
     ELSE IF extension.kind # SIMULATION_KIND_TRADING_WORLD
          THEN "NOT_REPLAYABLE"
     ELSE IF extension.output_digest = replayed.output_digest
          THEN "MATCH" ELSE "DIVERGENCE"
==============================================================================
