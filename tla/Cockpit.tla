------------------------------- MODULE Cockpit -------------------------------
(***************************************************************************)
(* The cockpit: scenarios that each build an engine over one shared file   *)
(* of receipts, run a cycle, and show what came out of it.                 *)
(*   apps/cockpit/scenarios.py     the catalogue, run_scenario, the proof  *)
(*                                 that defers its record                  *)
(*   apps/cockpit/demo_doubles.py  the market, broker, strategy and sizing *)
(*   apps/cockpit/presenter.py     the views                               *)
(*   apps/cockpit/app.py           the page: what is run, shown, replayed  *)
(*   apps/naive_vs_governed/       the page that compares two paths        *)
(*                                                                         *)
(* A session of the browser has one file.  Streamlit runs the page as a    *)
(* script, anew at every click, and stops the script it replaces only when *)
(* that one next calls Streamlit, which run_scenario and the views do not  *)
(* do: two clicks make two scripts work on the file at once.  Nothing      *)
(* keeps them apart: no lock is taken, and an engine reads the hash it     *)
(* chains to once, when it is built.                                       *)
(*                                                                         *)
(* Of the cycle, which CycleEngine models, this module keeps what the      *)
(* doubles leave open: the verdict the fixture is told to give, whether    *)
(* the planner refuses the account, whether submit raises.                 *)
(***************************************************************************)
EXTENDS ReceiptChain, FiniteSets

CONSTANTS
  Scripts,    \* the runs of the page that may be under way at once
  Offered,    \* keys of the scenarios that are chosen in this instance
  MaxCycles,  \* the bound on the cycles run
  MaxDamage,  \* the bound on the times the file is damaged from outside
  Failures    \* of a record: "io": it raises; "torn": and leaves half its
              \* line; "fsync": and leaves all of it

ASSUME CockpitAssumption ==
  /\ IsFiniteSet(Scripts)
  /\ MaxCycles \in Nat
  /\ MaxDamage \in Nat
  /\ Failures \subseteq {"io", "torn", "fsync"}

Spec(key, mode, verdict, blocked, fails, attach) ==
  [key |-> key, mode |-> mode, verdict |-> verdict, trading_blocked |-> blocked,
   submit_fails |-> fails, attach_simulation |-> attach]

SCENARIOS == {
  Spec("native_act_paper_success", "native", "ACT", FALSE, FALSE, TRUE),
  Spec("native_hold", "native", "HOLD", FALSE, FALSE, FALSE),
  Spec("native_block", "native", "BLOCK", FALSE, FALSE, FALSE),
  Spec("act_binder_refuses", "native", "ACT", TRUE, FALSE, FALSE),
  Spec("broker_failure", "native", "ACT", FALSE, TRUE, FALSE),
  Spec("external_act", "external", "ACT", FALSE, FALSE, TRUE),
  Spec("external_block", "external", "BLOCK", FALSE, FALSE, FALSE) }

scenario_by_key(key) == CHOOSE s \in SCENARIOS : s.key = key

(* The letters of the comparison; E builds no engine.                      *)
Comparisons == [
  A |-> "native_act_paper_success", B |-> "native_hold", C |-> "native_block",
  D |-> "act_binder_refuses", F |-> "broker_failure", G |-> "external_act"]

TRADING_PARAMS == Params(1, 1)

ASSUME OfferedAssumption == Offered \subseteq {s.key : s \in SCENARIOS}

VARIABLES
  lines,    \* the file of receipts
  drawn,    \* how many cycle_ids were drawn
  damaged,  \* how often the file was damaged
  written,  \* history: the whole lines records wrote, and the hashes that
            \* stood in the file when the engine that wrote it read its head
  pc,       \* per script: what run_scenario or the page does next
  page,     \* the page whose script runs: "cockpit", "comparison", "none"
  engine,   \* the engine that is run: its scenario, and the hashes of the file
            \* when it was built, of which it keeps the last
  outcome,  \* the CycleOutcome
  view,     \* what the script shows
  kept      \* cycle_history of the session: the cycles that may be replayed

sessionVars == <<pc, page, engine, outcome, view, kept>>
fileVars == <<lines, damaged, written>>
vars == <<lines, drawn, damaged, written, sessionVars>>

Cycles == 1 .. MaxCycles

NoOutcome == [receipt |-> Receipt(0, "none", FALSE, Genesis, NoExtension),
              permitted |-> FALSE, attempted |-> FALSE, proof |-> "none"]

NoEngine == [spec |-> scenario_by_key("native_hold"), head |-> <<>>]

Blank == [shows |-> "nothing"]

(* Plausible bug: the head is the hash of what the last line now holds.    *)
RecomputedHashes == [i \in DOMAIN lines |-> Hash(lines[i].receipt)]

StoredHashes == [i \in DOMAIN lines |-> lines[i].stored_hash]

HeadOf(hashes) == IF hashes = <<>> THEN Genesis ELSE Last(hashes)

------------------------------------------------------------------------------
(* ReceiptStore.record *)

Accepts(receipt) == Readable(lines) /\ ~Has(lines, receipt.cycle)

Writes(receipt, before) ==
  /\ lines' = Append(lines, Line(receipt))
  /\ written' = written \cup {[line |-> Line(receipt), before |-> before]}

RecordReturns(receipt, before) == Accepts(receipt) /\ Writes(receipt, before)

(* flush and fsync may raise when the line is out.                         *)
RecordRaises(receipt, before) ==
  \/ /\ ~Accepts(receipt) \/ "io" \in Failures
     /\ UNCHANGED <<lines, written>>
  \/ /\ Accepts(receipt) /\ "torn" \in Failures
     /\ lines' = Append(lines, TornLine)
     /\ UNCHANGED written
  \/ /\ Accepts(receipt) /\ "fsync" \in Failures
     /\ Writes(receipt, before)

------------------------------------------------------------------------------
(* run_scenario: a new engine for every scenario, and the cycle it runs.   *)

RaisesInThePage(p) ==
  /\ pc' = [pc EXCEPT ![p] = "idle"]
  /\ page' = [page EXCEPT ![p] = "none"]
  /\ engine' = [engine EXCEPT ![p] = NoEngine]
  /\ outcome' = [outcome EXCEPT ![p] = NoOutcome]
  /\ view' = [view EXCEPT ![p] = [shows |-> "error"]]

(* The engine reads the last hash of the store when it is built.           *)
BuildEngine(p, key, on) ==
  /\ pc[p] = "idle" /\ key \in Offered
  /\ drawn + Cardinality({q \in Scripts : pc[q] = "built"}) < MaxCycles
  /\ IF Readable(lines)
     THEN /\ pc' = [pc EXCEPT ![p] = "built"]
          /\ page' = [page EXCEPT ![p] = on]
          /\ engine' = [engine EXCEPT ![p] =
               [spec |-> scenario_by_key(key), head |-> StoredHashes]]
          /\ view' = [view EXCEPT ![p] = Blank]
          /\ UNCHANGED outcome
     ELSE RaisesInThePage(p)
  /\ UNCHANGED <<fileVars, drawn, kept>>

(* A button of the cockpit; the comparison runs its scenario every time    *)
(* the page is drawn.                                                      *)
PressRun(p) == \E key \in Offered : BuildEngine(p, key, "cockpit")
DrawComparison(p) ==
  \E letter \in DOMAIN Comparisons :
    BuildEngine(p, Comparisons[letter], "comparison")

(* Letter E: require_paper_mode refuses before anything is built.          *)
DrawLiveRejection(p) ==
  /\ pc[p] = "idle"
  /\ view' = [view EXCEPT ![p] = [shows |-> "refused"]]
  /\ UNCHANGED <<fileVars, drawn, pc, page, engine, outcome, kept>>

Permitted(s) == s.verdict = "ACT" /\ ~s.trading_blocked

Outcome(s, receipt, proof) ==
  [receipt |-> receipt, permitted |-> Permitted(s),
   attempted |-> Permitted(s), proof |-> proof]

ReceiptOf(p, cycle) ==
  Receipt(cycle, engine[p].spec.verdict, Permitted(engine[p].spec) /\ ~engine[p].spec.submit_fails,
          HeadOf(engine[p].head), NoExtension)

Incomplete(receipt) ==
  IF receipt.executed THEN "EXECUTION_SUCCEEDED_PROOF_INCOMPLETE"
  ELSE "ABSTENTION_PROOF_INCOMPLETE"

(* run_scenario returns the outcome; its engine is gone.                   *)
Returns(p, result) ==
  /\ pc' = [pc EXCEPT ![p] = "returned"]
  /\ engine' = [engine EXCEPT ![p] = NoEngine]
  /\ outcome' = [outcome EXCEPT ![p] = result]

(* _DeferredSimulationProof.record returns the receipt and keeps nothing:  *)
(* to the engine the receipt is proven.                                    *)
RunCycleDeferred(p) ==
  /\ pc[p] = "built" /\ engine[p].spec.attach_simulation
  /\ pc' = [pc EXCEPT ![p] = "ran"]
  /\ outcome' = [outcome EXCEPT ![p] =
       Outcome(engine[p].spec, ReceiptOf(p, drawn + 1), "PROVEN")]
  /\ drawn' = drawn + 1
  /\ UNCHANGED <<fileVars, page, engine, view, kept>>

RunCycle(p) ==
  LET receipt == ReceiptOf(p, drawn + 1) IN
  /\ pc[p] = "built" /\ ~engine[p].spec.attach_simulation
  /\ \/ /\ RecordReturns(receipt, engine[p].head)
        /\ Returns(p, Outcome(engine[p].spec, receipt, "PROVEN"))
     \/ /\ RecordRaises(receipt, engine[p].head)
        /\ Returns(p, Outcome(engine[p].spec, receipt, Incomplete(receipt)))
  /\ drawn' = drawn + 1
  /\ UNCHANGED <<damaged, page, view, kept>>

Attached(p) ==
  [outcome[p].receipt EXCEPT !.extension =
     build_simulation_extension(SIMULATION_KIND_TRADING_WORLD, TRADING_PARAMS)]

(* Plausible bug: the evidence is attached and the receipt never recorded. *)
AttachWithoutRecord(p) ==
  /\ pc[p] = "ran"
  /\ Returns(p, Outcome(engine[p].spec, Attached(p), "PROVEN"))
  /\ UNCHANGED <<fileVars, drawn, page, view, kept>>

(* Back in run_scenario: the simulation goes into the receipt, and only    *)
(* then is it recorded.  What record raises, run_scenario raises: the page *)
(* gets no outcome of a cycle whose order may be out.                      *)
AttachSimulation(p) ==
  /\ pc[p] = "ran"
  /\ \/ /\ RecordReturns(Attached(p), engine[p].head)
        /\ Returns(p, Outcome(engine[p].spec, Attached(p), "PROVEN"))
        /\ UNCHANGED <<page, view>>
     \/ RecordRaises(Attached(p), engine[p].head) /\ RaisesInThePage(p)
  /\ UNCHANGED <<damaged, drawn, kept>>

------------------------------------------------------------------------------
(* build_cockpit_view: eleven sections, two of which read the file anew.   *)

(* _section_receipt looks the cycle up, then has the file verified; the    *)
(* two readings are one here, nothing is said that joins them.             *)
SectionReceipt(p) ==
  LET cycle == outcome[p].receipt.cycle
      found == Has(lines, cycle)
  IN
  /\ pc[p] = "returned"
  /\ IF Readable(lines)
     THEN /\ pc' = [pc EXCEPT ![p] = "verified"]
          /\ view' = [view EXCEPT ![p] =
               [shows |-> "partly", outcome |-> outcome[p], persisted |-> found,
                raw |-> IF found THEN find_by_cycle_id(lines, cycle) ELSE Genesis,
                chain_integrity |-> verify_store(lines), audit |-> Genesis]]
          /\ UNCHANGED <<page, engine, outcome>>
     ELSE RaisesInThePage(p)
  /\ UNCHANGED <<fileVars, drawn, kept>>

(* _section_replay reads it once more; the cockpit, and it alone, then     *)
(* offers the cycle to be replayed.                                        *)
SectionReplay(p) ==
  LET cycle == outcome[p].receipt.cycle IN
  /\ pc[p] = "verified"
  /\ IF Readable(lines)
     THEN /\ pc' = [pc EXCEPT ![p] = "idle"]
          /\ page' = [page EXCEPT ![p] = "none"]
          /\ view' = [view EXCEPT ![p].shows = "cycle",
               ![p].audit = IF Has(lines, cycle)
                            THEN find_by_cycle_id(lines, cycle) ELSE Genesis]
          /\ outcome' = [outcome EXCEPT ![p] = NoOutcome]
          /\ kept' = IF page[p] = "cockpit" THEN kept \cup {cycle} ELSE kept
          /\ UNCHANGED engine
     ELSE RaisesInThePage(p) /\ UNCHANGED kept
  /\ UNCHANGED <<fileVars, drawn>>

(* build_replay_view of a cycle this session has shown.                    *)
Replay(p) ==
  /\ pc[p] = "idle"
  /\ \E cycle \in kept :
       view' = [view EXCEPT ![p] =
         IF Readable(lines)
         THEN [shows |-> "replay", cycle |-> cycle, found |-> Has(lines, cycle),
               verdict |-> replay_deterministic(lines, cycle)]
         ELSE [shows |-> "error"]]
  /\ UNCHANGED <<fileVars, drawn, pc, page, engine, outcome, kept>>

(* The page was drawn anew, or left, while this script worked: it stops    *)
(* before it shows anything, and its cycle is not offered to be replayed.  *)
Superseded(p) ==
  /\ pc[p] = "verified" /\ Readable(lines)
  /\ pc' = [pc EXCEPT ![p] = "idle"]
  /\ page' = [page EXCEPT ![p] = "none"]
  /\ view' = [view EXCEPT ![p] = Blank]
  /\ outcome' = [outcome EXCEPT ![p] = NoOutcome]
  /\ UNCHANGED <<fileVars, drawn, engine, kept>>

------------------------------------------------------------------------------
(* The damages the verifier was written for: a line whose contents change, *)
(* hashed or not, a line that is lost, lines out of order, a line that is  *)
(* there twice.  Of a simulation the parameters change, not the digest.    *)
Altered(line) == {
  [line EXCEPT !.receipt.authority = IF @ = "ACT" THEN "HOLD" ELSE "ACT"],
  [line EXCEPT !.touched_the_market = ~@] }

Resimulated(line) == {
  [line EXCEPT !.receipt.extension.params.acting = @ + 1],
  [line EXCEPT !.receipt.extension.params.idle = @ + 1] }

DamagedForms ==
  LET n == Len(lines)
      whole == {i \in 1 .. n : lines[i] # TornLine}
      simulated == {i \in whole : lines[i].receipt.extension.kind # "none"}
  IN (UNION {{[lines EXCEPT ![i] = line] : line \in Altered(lines[i])} : i \in whole})
     \cup (UNION {{[lines EXCEPT ![i] = line] : line \in Resimulated(lines[i])} :
                  i \in simulated})
     \cup {RemoveAt(lines, i) : i \in 1 .. n}
     \cup {[lines EXCEPT ![i] = lines[i + 1], ![i + 1] = lines[i]] : i \in 1 .. n - 1}
     \cup {Append(lines, lines[i]) : i \in 1 .. n}

Damage ==
  /\ damaged < MaxDamage
  /\ lines' \in DamagedForms
  /\ damaged' = damaged + 1
  /\ UNCHANGED <<drawn, written, sessionVars>>

Init ==
  /\ lines = <<>> /\ drawn = 0 /\ damaged = 0 /\ written = {}
  /\ pc = [p \in Scripts |-> "idle"]
  /\ page = [p \in Scripts |-> "none"]
  /\ engine = [p \in Scripts |-> NoEngine]
  /\ outcome = [p \in Scripts |-> NoOutcome]
  /\ view = [p \in Scripts |-> Blank]
  /\ kept = {}

Next ==
  \/ \E p \in Scripts :
       \/ PressRun(p) \/ DrawComparison(p) \/ DrawLiveRejection(p)
       \/ RunCycleDeferred(p) \/ RunCycle(p) \/ AttachSimulation(p)
       \/ SectionReceipt(p) \/ SectionReplay(p)
       \/ Superseded(p) \/ Replay(p)
  \/ Damage

CockpitSpec == Init /\ [][Next]_vars
==============================================================================
