-------------------------- MODULE CockpitProperties --------------------------
(* What the cockpit, its file and its views promise. *)
EXTENDS Cockpit

Readings == {"nothing", "partly", "cycle", "replay", "refused", "error"}

(* The variables keep their types: every line chains to the hash of a line *)
(* that was written, and no cycle_id is drawn twice.                       *)
TypeOK ==
  /\ drawn \in 0 .. MaxCycles /\ damaged \in 0 .. MaxDamage
  /\ \A w \in written :
       /\ w.line.receipt.cycle \in 1 .. drawn
       /\ w.line.receipt.authority \in {"ACT", "HOLD", "BLOCK"}
       /\ HeadOf(w.before) \in {Genesis} \cup {v.line.stored_hash : v \in written}
  /\ \A v, w \in written :
       v.line.receipt.cycle = w.line.receipt.cycle => v = w
  /\ kept \subseteq 1 .. drawn
  /\ \A p \in Scripts :
       /\ pc[p] \in {"idle", "built", "ran", "returned", "verified"}
       /\ page[p] \in {"none", "cockpit", "comparison"}
       /\ engine[p].spec \in SCENARIOS
       /\ view[p].shows \in Readings

(* Two lines that agree on what is hashed, and on the hash.                *)
SaysTheSame(line, other) ==
  line.receipt = other.receipt /\ line.stored_hash = other.stored_hash

(* Every line says what was written, and stands right after the lines its  *)
(* engine had read when it was built.                                      *)
AsWritten ==
  \A i \in DOMAIN lines : \E w \in written :
    SaysTheSame(lines[i], w.line) /\ w.before = SubSeq(StoredHashes, 1, i - 1)

(* Every engine that wrote a line had read a file that was as written.     *)
ReadAsWritten ==
  \A w \in written : \A k \in DOMAIN w.before : \E v \in written :
    v.line.stored_hash = w.before[k] /\ v.before = SubSeq(w.before, 1, k - 1)

Forked == \E v, w \in written : v # w /\ v.before = w.before

(* run_scenario builds an engine for every run and takes no lock: a file   *)
(* nobody damaged and whose lines all parse is called corrupted if, and    *)
(* only if, two engines had read the same file before they recorded.       *)
OnlyForksCorrupt ==
  damaged = 0 /\ Readable(lines) =>
    (verify_store(lines) = "CORRUPTED" <=> Forked)

(* ReceiptChainVerifier.verify_store: a file that is as it was written is  *)
(* never called corrupted, whatever was lost at its end; in a file that    *)
(* verifies every line says, in all that is hashed, what was written, and  *)
(* follows the line its engine chained to; and if no engine was misled by  *)
(* a damage or a fork when it read the file, all of it is so: a change to  *)
(* what is hashed, a lost, repeated or misplaced line, a torn write, are   *)
(* all found.  On a file nobody damaged it finds the forks, and nothing    *)
(* else.  What is stored and not hashed it does not protect.               *)
VerdictIsRight ==
  /\ AsWritten => verify_store(lines) # "CORRUPTED"
  /\ verify_store(lines) # "CORRUPTED" =>
       \A i \in DOMAIN lines : \E w \in written :
         /\ SaysTheSame(lines[i], w.line)
         /\ HeadOf(w.before) = HeadOf(SubSeq(StoredHashes, 1, i - 1))
  /\ verify_store(lines) # "CORRUPTED" /\ ReadAsWritten => AsWritten
  /\ OnlyForksCorrupt

(* presenter.build_cockpit_view, whose sections read the file at several   *)
(* moments: on a file nobody damaged, what it shows as persisted is the    *)
(* line of this very cycle's receipt, evidence included, the replay finds  *)
(* it again, and a receipt it does not find was never called proven -      *)
(* though the engine that ran the cycle did not itself record it.          *)
ViewsTellTheTruth ==
  \A p \in Scripts : damaged = 0 /\ view[p].shows = "cycle" =>
    /\ view[p].persisted => view[p].raw = Line(view[p].outcome.receipt)
    /\ ~view[p].persisted => view[p].outcome.proof # "PROVEN"
    /\ view[p].audit = view[p].raw

(* ReplayEngine.replay_deterministic, which checks no hash: on a file that *)
(* verifies, a cycle that carries a simulation replays to a match; and on  *)
(* any file a match means that the stored parameters still give the path   *)
(* the cycle was written with - not that they are the parameters it was    *)
(* written with: one that does not act on the path may have changed.       *)
ReplayAgreesWithTheChain ==
  \A cycle \in Cycles :
    LET verdict == replay_deterministic(lines, cycle)
        samePath(x) == \E w \in written :
          /\ w.line.receipt.cycle = cycle
          /\ w.line.receipt.extension.kind = x.kind
          /\ Path(w.line.receipt.extension.params) = Path(x.params)
    IN Readable(lines) /\ Has(lines, cycle) =>
         LET x == find_by_cycle_id(lines, cycle).receipt.extension
             simulated == x.kind = SIMULATION_KIND_TRADING_WORLD
         IN
         /\ verify_store(lines) = "VALID" /\ simulated => verdict = "MATCH"
         /\ verdict = "MATCH" => simulated /\ samePath(x)
==============================================================================
