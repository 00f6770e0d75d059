# Verification of Obsidia Trading

Obsidia Trading is a governed trading runtime in Python. A *cycle* observes a
market and an account, lets agents propose an action, asks an external kernel
(KX-108, "X-108" in the code) for authority, plans an order, contacts a broker
behind several barriers, and writes a receipt that chains to the one before it.
This directory holds TLA+ modules of that system, TLC configurations that check
them on small instances, and TLAPS proofs about them.

* [1. The system](#1-the-system) - the inventory
* [2. The modules](#2-the-modules) - what models what, and how
* [3. The runs](#3-the-runs) - what TLC checks, within which bounds
* [4. The proofs](#4-the-proofs)
* [5. Where the code and its documentation disagree](#5-where-the-code-and-its-documentation-disagree)
* [6. What is not modelled](#6-what-is-not-modelled)
* [7. Plan](#7-plan)

`PROJECT.json` maps every definition to the lines it translates, every property
to the mutation of the code it catches, and lists the hazards.

## 1. The system

All paths are relative to `src/`. "Hard" names the behaviours that tests reach
with difficulty; "correct when" says what the component owes the others.

### Decision cycle engine - `execution/binder/engine.py`, `proof_policy.py`, `contracts.py`

* State: `_cycle_count`, `_last_receipt_hash` (pointer to the last receipt),
  the ports it was built with, and the local variables of one `run_cycle`.
* Operations: `__init__` (reads `last_hash()` of the proof port), `run_cycle` =
  `_observe`, `_discover`, `_select_symbol`, agents and aggregation, proposal
  and sizing, `authority.authorize`, `_plan`, `_execute` (barrier, proof
  preflight, idempotence guard, intention, `broker.submit`, result line),
  `_prove`; `_abstain` when there is nothing to look at.
* Interactions: synchronous calls on every port below. One cycle at a time in a
  process (the runtime bus holds a lock), several processes or sessions over the
  same files.
* Hard: a death of the process between two calls; a port that raises before or
  after its effect; a pointer in memory that must name the last line of a file;
  a test of the proof store several steps before the order that relies on it.
* Correct when: no order leaves without an ACT of the kernel, an order leaves at
  most once and after its intention, what is said of a cycle (outcome, receipt,
  ledger) is true, the chain never breaks, a cycle ends.

### Order ledger - `domain/order_ledger.py`, `execution/binder/order_ledger_jsonl.py`

* State: an append-only JSONL file of order events. Operations: `append`,
  `events`, `submission_blocker`, `latest`, `non_terminal`, `verify_integrity`,
  and `restore_order_ledger` at start. Every one reads and parses the whole file.
* Hard: a write that raises before, half-way through, or after its line; no
  `fsync`; an unreadable file in the middle of a cycle.
* Correct when: it names every order that may be open, and blocks a second
  submission of the same `client_order_id`.

### Receipt store and verifier - `proof/receipts/receipt_store.py`, `receipt_verify.py`, `domain/receipt.py`

* State: an append-only JSONL file of receipts, each naming the hash of the one
  before it. Operations: `record`, `read`, `history`, `last_hash`,
  `verify_store`. `record` flushes and calls `fsync`.
* Hard: an exception after the line is out; two writers that read the same last
  hash; lines removed at the end of the file; keys that are stored but not
  hashed.
* Correct when: every line names its predecessor, no cycle comes twice, and a
  receipt says what its cycle did.

### Governance bridge and kernel client - `governance/bridge/`

* No state. `RealKX108Client.evaluate` posts the payload and normalises the
  answer; `KX108GovernanceBridge.authorize` maps it to ACT, HOLD or BLOCK;
  `local_signal.py` and `ir_payload.py` compute scores that never change it.
* Hard: every way in which an answer can be missing or odd must not become ACT.

### Planner - `execution/binder/planner.py`, `domain/orders.py`, `domain/state.py`

* No state. From a proposal and an observed state to an `ExecutionPlan`, or
  nothing; the plan carries the decision's authority and is checked again by the
  engine and by the broker adapter.

### Broker, market, news - `market/adapters/alpaca/`, `domain/ports/`

* State: none of their own; the broker holds the orders. Operations: `submit`,
  `order_status`, `cancel`, `close_position`, `portfolio`, `snapshot`, `latest`.
  All HTTP with a timeout.
* Hard: an answer lost after the order was taken, or without the order's id; a
  status that announces an end which is yet to come; an order whose status the
  broker does not return.

### Runtime bus - `execution/binder/bus.py`

* State: `_running`, `_last_outcome`, `_last_monitoring`, `_last_error`,
  `_history` (a bounded queue), a re-entrant lock, the engine, the monitor, the
  memory. Operations: `send` (STEP, START, STOP, RESET, MONITOR), `tick`, and
  the reads `snapshot`, `last_outcome`, `running`, which take no lock.
* Hard: several interface threads; a read in the middle of a step; an exception
  of the engine, the monitor or the memory in the middle of a step.
* Correct when: one cycle at a time, no cycle from a tick after STOP, what is
  shown is a state the runtime was in.

### Execution monitor - `execution/binder/monitor.py`

* State: `_tracked`, broker order id to its last known status. Operations:
  `track`, `poll` (order statuses, then a review of every position, then
  proposals made from the reviews).
* Hard: an order forgotten while the broker holds it; statuses that come back
  late; nothing reads the proposals.

### Experience memory - `domain/memory.py`, `domain/ports/memory.py`

* State: an append-only JSONL file. The bus writes three or four records per
  cycle, keyed by `memory_id`.
* Hard: a record that fails among several; a file that can no longer be read,
  whose ValueError the bus passes over in silence.

### Portfolio and its readings - `domain/portfolio.py`, `domain/market.py`, `market/adapters/alpaca/`

* No state. Payloads of the provider become snapshots, an account, positions,
  open orders; a portfolio is read in three calls with nothing to hold them
  together, while the orders move.
* Hard: a fill between two of the calls; a value that is missing and must not
  become zero.
* Correct when: nothing is counted twice, and what is not known stays unknown.

### Calibration - `domain/calibration*.py`, `market/adapters/alpaca/real_dataset_attempt.py`

* A pack estimated from real closes, or the reason why there is none. Agents
  ask `check_compatibility` before they consult it.
* Hard: a regime that no return falls in; a pack of another symbol, without a
  volatility, or older than the day.

### Native agents, adapter, aggregation - `native/agents/`

* Seventeen agents, each a function of a snapshot and of the history available;
  the adapter turns their votes into signals, the aggregation into one side.
* Hard: histories on each side of the indicators' lengths; two agents replaced
  by calibrated ones that must change nothing else; ties.

### External stacks - `external/`

* A third party's payloads are validated, normalised, stamped with where they
  come from and aggregated like native signals.
* Hard: signals nobody knows and confidences of any sign.

### Cockpit and comparison - `apps/cockpit/`, `apps/naive_vs_governed/`

* `scenarios.py` builds an engine per scenario over the session's receipt store;
  `app.py` gives every session a store of its own. With
  `_DeferredSimulationProof` the engine's `record` does nothing: the caller
  attaches the simulation to the receipt and records it afterwards.
  `presenter.py` builds eleven sections, two of which read the store.
* Hard: an engine that reads the last hash when it is built and records later,
  beside another one; a receipt that is called proven before it is stored; a
  page that puts together what it read at several moments.

### Replay and verifier - `proof/receipts/replay.py`, `receipt_chain.py`, `receipt_verify.py`

* The simulation kept in a receipt is run again and its digest compared;
  `verify_store` reads the whole file.
* Hard: a file that was changed, lost lines, or repeats some.

### Simulation, sealing - `simulation/`, `scripts/compute_seal.py`

* Pure computation: seeded random processes, bootstrap, hashes of files.

## 2. The modules

```
AlpacaStatus           the broker's words for an order, and their reading
Environment            who the cycles are, which faults may happen
  OrderLedger          the JSONL ledger
  ReceiptStore         the JSONL receipts and verify_store
  BrokerPort           the broker's orders and the adapter's results
GovernanceBridge       a kernel answer -> ACT, HOLD, BLOCK
    CycleEngine        run_cycle, composed with the five above
      CycleProperties  the properties
        MCCycle              small instances
        CycleEngine_proofs   theorems
          CycleTruth_proofs    theorems about outcomes, receipts and orders in sight
GovernedSubmission     abstract specification, implemented by CycleEngine
(OrderLedger, BrokerPort and BrokerOrders extend AlpacaStatus)

BrokerOrders           the life of an order at the broker, in its own words
  ExecutionMonitor     track and the order half of poll
    RuntimeBus         send, tick and their steps, for several threads
      BusProperties    the properties
        MCBus                small instances
        RuntimeBus_proofs    theorems
          BusAnswers_proofs    theorems about answers, memory and reports

NativeRoster           the seventeen agents, their votes, the aggregation
Calibration            the attempt, the pack, compatibility, the two agents
ExternalStack          validation and normalisation of foreign payloads
  AnalysisDesk         wirings, packs and days: a snapshot -> a side, evidence
    AnalysisProperties   the properties
      MCAnalysis             a small instance
      AnalysisDesk_proofs    theorems

Portfolio              derived amounts, risk metrics, actions and sides
  AlpacaReadings       payloads -> snapshot, account, position, order
    TradeProposals       selection of a symbol and a strategy, size, plan
      PositionReviews      reviews, triggers, proposals from reviews
        TradeDesk            run_cycle and poll between the provider's calls
          DeskProperties       the properties
            MCDesk                 a small instance
            TradeDesk_proofs       theorems

ReceiptChain           lines of a file, verify_store, lookups, replays
  Cockpit              scenarios, deferred record, views, damage
    CockpitProperties    the properties
      MCCockpit              a small instance
      Cockpit_proofs         theorems

LeastAndSums           lemmas on least elements and sums, for the proofs
```

**CycleEngine** composes the components by conjunction: a step of `run_cycle`
that calls a port is one action that conjoins the engine's change with the
component's operator (`AppendReturns`, `RecordRaises`, `Post`...). `pc` names
the step about to be taken; between two steps the process may die, the broker
may move an order on and the operating system may write files back. Code that
reads and writes nothing outside the engine is merged into the neighbouring
step. The variables and the code:

| variable | code |
| --- | --- |
| `cycle` | how many `cycle_id`s were ever drawn; the current one |
| `count` | `_cycle_count`, which restarts at 0 with the process |
| `last` | `_last_receipt_hash` |
| `obs`, `decision`, `proposal`, `plan`, `result` | `state`, `decision`, `proposal`, `plan`, `execution` of `run_cycle` |
| `ledger`, `synced` | the lines of the ledger file; how many would survive the loss of the machine |
| `receipts` | the lines of the receipt file |
| `orders` | what the broker knows (external) |
| `granted`, `contacts`, `outcome` | history: the kernel's ACTs, the requests that left, how each cycle returned |

Abstractions, all of data: a `cycle_id` contains a fresh uuid, so cycles are
numbered and a receipt's hash, taken to be injective, is its cycle's number. A
`decision_id` of an ordinary cycle is random and numbered likewise; that of an
abstention is `d<cycle_count>-abstain` in the code and is therefore
`AbstentionId(count)`, which repeats after a restart. A `client_order_id` is
derived from the decision, so the two are the same number. What is observed is
reduced to the portfolio's state, the snapshot's state and the data quality,
the only things the planner's conditions read. A ledger line keeps its order
and type, a receipt its cycle, decision, predecessor and whether its result says
"submitted".

Faults are members of the constant `Faults`, so that each run says which of them
it allows. `replay` (a decision that comes back) is what the idempotence guard
is for; `tests/integration/test_paper_execution_pipeline.py:298-328` exercises
it with an `AuthorityPort` that returns a constant `decision_id`. It is not
combined with an engine without ledger or with the loss of the machine, because
there only the broker's own check of `client_order_id` stands in the way, and
the broker is external. A torn line is torn in its middle: the line that is
whole but for its newline is left for later (hazard list).

**BrokerPort** answers a submission as `submit` does: an HTTP error is a result
that is not submitted, and any other answer one that is, whatever `_status` makes
of the order's state. So an order that the broker enters in its books and rejects
there is an execution for the outcome, the ledger's event and the receipt, and
`HonestOutcome` and `ReceiptsTellTheTruth` are stated of orders in the books
(`Booked`). With the fault `early_end` the word may announce an end
(`pending_cancel`, `done_for_day`, `stopped`) while the order is at work.

**RuntimeBus** models the interface's threads. A call waits for `_lock`, enters,
goes through the stages of `_step` (the cycle, `track`, one question to the
broker after the other in `poll`, the memory, the history) and answers; any of
the stages that calls a port may raise, which leaves the call and frees the
lock. `run_cycle` is one step here, with the outcomes that the bus tells apart:
an error, an abstention, a refusal, a submission, the latter with the status and
the identifier that its answer bore, or did not (`unnamed`); after a lost answer
(`lost_reply`) the cycle comes back refused and its order lives on. `_running`, `_last_error`,
`_last_monitoring`, `_history`, the engine's `cycle_count` and the monitor's
`_tracked` are variables (`running`, `error`, `monitoring`, `hist`, `count`,
`tracked`); `shown` is the cycle of `_last_outcome`, `remembered` the orders
whose end is in a record of the memory, `intact` whether the memory can be read
back (a failed append may leave it torn, after which every append raises the
ValueError that `_append_memory` passes over), `followed` and `published` are
history.
An order bears the number of the cycle that submitted it. `raw` is the broker's
own word for the order and `Status` what `_status` makes of it. Reads that take
no lock change nothing and are left out.

**AnalysisDesk** is what a cycle does between a snapshot and the kernel. `wiring`
is what the composition root injected (native agents, calibrated ones, an
external stack), `looked` the snapshot in hand, `pack` and `day` the calibration
that was loaded and how old it may be, `outputs`, `consensus`, `evidence` the
signals, the aggregate and the block sent to the kernel. The prices of a history
are replaced by a *tape*: the value each indicator would have if the history
were long enough; whether it is long enough is computed, with the code's
lengths. Integers stand for floats (per cent and per mille). `raised` is an
adapter that raised on a payload. `base_adapter.py` loops over whatever sequence
of valid signals its adapter returns, so there may be several; the one adapter of
the tree validates a single payload inside `fetch_signals`, and an invalid one
leaves the analysis by an exception (`FetchRaises`). A payload keeps its unknowns,
contradictions, flags and references; `float()` also reads nan and inf, which are
left out.

**TradeDesk** takes the cycle and the poll apart at the calls to the provider:
`state` is the observation, `reading` the blocks of a portfolio read so far,
`choice` what discovery and strategy returned, `plan` the order to come, `sent`
and `filled` the broker's side of it, `report` the monitor's. Orders move between
any two calls. It extends `ExecutionMonitor`, so that `track` and `order_status`
are the same operators as the bus's. One cycle's observation is stamped with the
number of the cycle.

**Cockpit** has several *scripts* over one file. A session of the browser has a
file of its own (`app.py:25-26`), so the concurrency is that of one session:
Streamlit runs the page anew at each click, and the run it replaces goes on until
it next calls Streamlit, which `run_scenario` and `build_cockpit_view` do not.
This is Streamlit's behaviour and external; `Superseded` is the point where the
replaced run stops. `engine[p].head` is the list of hashes that stood in the file
when the engine was built, of which the engine keeps the last; the rest is there
for the properties. A line holds the receipt and the stored hash apart, because
`Damage` makes them disagree. "Receipt" is what `_HASHABLE_KEYS` names, the
previous hash and the extensions included; its hash is written as those contents,
SHA-256 being taken to be injective. The five keys that are stored and not hashed
are represented by `touched_the_market`, which stands beside the receipt and which
a damage may change as well. A simulation's digest is taken of its path, and the
path is a function of the part of the parameters that acts on it: `jump_mu` and
`jump_sigma` are idle in a path without a jump, and so are the seed's bits beyond
32. `Params(acting, idle)` keeps the two apart, and a damage may change either. A
record fails before its line is out, in the middle of it, or after it (flush and
fsync). `written` is history.

**GovernedSubmission** says what the cycle promises whatever its components do:
orders are granted, then intended, then sent, each at most once. Its variables
are projections of `granted`, of the ledger's intention lines and of `contacts`.

## 3. The runs

The runs of the cycle are instances of `MCCycle`. Two cycles are enough for a decision to
come back after a crash, for a receipt to have a predecessor and for an
abstention to repeat its identifier. Deadlock is not checked: an engine whose `MaxCycles`
cycles are done has nothing left to do.

| run | allows | shows |
| --- | --- | --- |
| `core` | crashes, ledger and receipt failures and torn lines, a miswired planner, replayed decisions | types; `OpenOrdersVisible`, `HonestOutcome`, `ReceiptsTellTheTruth`, `ChainIntact` |
| `storm` | the faults of `core`, answers that announce an end, lost answers and fsync failures | `NoOrderWithoutAct`, `AtMostOneSubmission`, `IntentComesFirst`, `NoContactWithoutProofStore`, `ImplementsGovernedSubmission` |
| `reference` | reference planner, the observation that supports an order and all that differ from it in one component (12 of 90), lost answers, the loss of the machine; fair | `OrderOnSoundState`, `CycleReturns` |
| `in_memory` | the engine with its defaults: BEST_EFFORT, no proof, no ledger, SIM; every observation of `reference`, crashes, a miswired planner, answers that announce an end | `NoOrderWithoutAct`, `HonestOutcome` |
| `bus_threads` | two threads, three calls of every kind, exceptions of the engine, cycles that cannot observe, an unreachable broker, a memory that fails and may be torn | `OneAtATime`, `TickCycleOnlyWhileRunning`, `AnswersHangTogether`, `OpenOrdersFollowed`, `EndsAreTold`, `StepsRemember` |
| `bus_returns` | two threads, two calls, exceptions of the engine and of polls, lost and unnamed answers, misread errors, announced ends; fair | `CallsReturn` |
| `analysis` | every wiring, five tapes, seven history lengths around the indicators' lengths, packs of every status and symbol, two external signals of any kind | `SidesNeedCalibration`, `NoSideWithoutAVoice`, `CalibrationIsTraceable`, `RefusalsAreTold`, `EvidenceReachesTheKernel`, `ExternalStaysExternal`, `ScoreIsBlindToSide`, `RegimesCountEveryReturn` |
| `desk` | two cycles or polls, orders that move between any two calls, a provider out of reach, missing figures | `NothingCountedTwice`, `ChoiceIgnoresOrder`, `ProposalsFitThePosition`, `ReviewsIgnoreTheOwnOrder` |
| `cockpit` | two scripts over one file, three cycles, records that fail, tear or raise after their line, one damage | `VerdictIsRight`, `ViewsTellTheTruth`, `ReplayAgreesWithTheChain` |
| `doc_*` | one or two faults | a statement of the documentation that the code does not keep, see 5 |

The runs of the bus are instances of `MCBus`, a call being what their bound
counts. Three calls are enough for an order to be submitted by one, to be missed
by the poll of a second and to be found ended by a third, for a START, a STOP and
a tick to meet, and for the history of length two to drop a line. The threads are
symmetric, except where liveness is checked.

`analysis` needs no bound on time but one change of day, which is enough for a
pack to be old: nothing but the pack and the day outlives a cycle. Its histories
take both sides of every length the indicators ask for (5, 20, 21, 61), its
datasets both sides of what the estimates ask for (10 and 30 returns). `desk`
holds a long and a short position, so that every formula meets both signs, and
its discovery also returns a symbol that nobody follows; its
second call lets an order of the first be followed, filled in part and found
ended while the second reads the portfolio. `cockpit` has a scenario that defers
its record and one that does not, whose cycles fork when two scripts overlap;
three lines are what a line with a neighbour on each side needs, and one damage
is what separates a verdict about a damage from one about two that undo each
other. In these three runs deadlock is checked.

The observation is one value made once in a cycle, and the planner's conditions
read each of its three components by themselves; a planner that dropped one of
them would already be seen on the observations that differ in that one. The
largest runs have 2.9 million distinct states (`bus_threads`), 2.3
(`storm`) and 2.2 (`cockpit`); each ends within three minutes.

What a property does not cover is said where it is stated: `HonestOutcome`,
`ReceiptsTellTheTruth` and `OpenOrdersVisible` are claimed when the broker's
answers arrive, because a lost answer is reported as "not submitted" (finding
`doc_lost_reply`). The first two hold whatever word the answer bears (`in_memory`
checks it of `HonestOutcome`, their theorems say it of both), `OpenOrdersVisible`
when none announces an end that is yet to come.
`NoContactWithoutProofStore` says that the preflight is not passed over, not that
the store stays good: another hand that tears it in between is not modelled.
`ReviewsIgnoreTheOwnOrder` states the portfolio that the reviews rest on, as it
is in the code, and `ChoiceIgnoresOrder` speaks of the symbol and of the
strategy, not of the opportunity attached to the proposal, which is the first of
the symbol (`engine.py:314`). `ChainIntact` is claimed unless flush or fsync raises once
the line is out (see 5). `VerdictIsRight` says of any file,
however damaged, that it is not called corrupted while it is as it was written,
and that when it verifies each of its lines says, in all that is hashed, what was
written, and stands behind a line with the hash its engine chained to; what is
not hashed may have changed (see 5). That such a file is *all* as it was written
is claimed if every engine had read a file that was (`ReadAsWritten`): after a
fork the loss of one branch leaves a chain that verifies, and so may two damages
between which an engine read the file. Its last part,
`OnlyForksCorrupt`, says that a file nobody damaged is called corrupted exactly
when two engines had read the same file before they recorded.
The properties about the ledger are claimed without the
loss of the machine: the ledger is never synced, and a run of `AtMostOneSubmission`
with that fault would only show that. `OpenOrdersFollowed` speaks of every order
that the broker holds, and is claimed when its submission was answered, with an
identifier, when no error is read as an unknown order (finding
`doc_unknown_order`) and when the broker's words for an end are not ahead of the
end: in each of these four cases the bus leaves an open order alone (see 5).
`EndsAreTold` is claimed when no error is read as an unknown order and `poll`
does not raise, since the exception takes the report with it. `StepsRemember`
excuses an answer that bears an error and a memory that can no longer be read,
which `snapshot` shows as `integrity_ok`. `ReplayAgreesWithTheChain` says that a
match is the path the cycle was written with, not its parameters. "Expired" in
`doc_expired_pack` means of an earlier day, a coarse reading of a greatest age.

**Fairness.** `FairSpec` is `WF_vars(Step)`: while the process lives the running
cycle takes its next step. `run_cycle` is one synchronous call with no loop on a
condition, and the HTTP client gives up at its timeout (`alpaca_client.py`), so
some step is always enabled in the running cycle: with `lost_reply` allowed,
`ReplyLost` is. Nothing is assumed of the broker, of the start of cycles, of
crashes or of restarts.

`FairSpec` of the bus is `WF_vars(Work(t))` for every thread: a call that can go
on does. Weak fairness of a thread that waits for the lock is enough here
because the calls are finitely many, so that the lock is free for good in the
end; the code has no fairness between threads that call without end, and none
is claimed.

## 4. The proofs

`RuntimeBus_proofs` proves, for every finite set of threads and every number of
calls:

| theorem | from | along |
| --- | --- | --- |
| `BusRunsOneAtATime`: `[]OneAtATime` | nothing more | `BusInv`: whoever is past "wait" holds the lock |
| `StopHoldsTicks`: `[]TickCycleOnlyWhileRunning` | nothing more | `BusInv`: STOP and RESET need the lock, so they meet no cycle |
| `OpenOrdersStayFollowed`: `[]OpenOrdersFollowed` | no lost or unnamed answer, no misread error, no announced end | `FollowInv`: an open order is followed, or its own thread is about to track it under the lock; an order is new while its cycle runs, so its submission touches no order that is followed; `CountInv` (cycles and waiting calls never exceed the calls made) keeps the orders in their range |

`BusAnswers_proofs` continues it, for the same constants:

| theorem | from | along |
| --- | --- | --- |
| `BusTypeCorrect`: `[]TypeOK` | nothing more | `TypeInv`: the number a thread works on is the engine's count, because the lock lets one work |
| `AnswersAgree`: `[]AnswersHangTogether` | nothing more | `HangInv` says, stage by stage of a step, which of count, last outcome and history has been brought up to date; `AppendedInOrder` is the lemma on the bounded history |
| `EndsRemembered`: `[]StepsRemember` | nothing more | `MemoryInv`: a cycle that failed has set the error before the memory's turn, and after it the ends of the report are in the memory, or the error tells, or the memory is no longer intact |
| `EndsTold`: `[]EndsAreTold` | no misread error, no exception of `poll` | the property itself, which is inductive on top of the first invariant |

`CycleEngine_proofs` proves, for every number of cycles, wiring, observation
set and fault set within the assumptions named in the theorem:

| theorem | from | along |
| --- | --- | --- |
| `TypeCorrect`: `[]TypeOK` | nothing more | `TypeInv` = `TypeOK` and `Placed` (in every step of a decided cycle the decision is one of the ids that can be sent, and `plan` is there when it is used) |
| `GovernedContacts`: `[]NoOrderWithoutAct` | nothing more | `ActInv`: a decision that authorises was granted in this cycle |
| `SubmittedOnce`: `[]AtMostOneSubmission` | a ledger, no loss of the machine | `SubmissionInv`: what was sent has its intention first in the ledger; from the guard to the request the order in hand has not been sent |
| `IntendedBeforeSent`: `[]IntentComesFirst` | the same | `SubmissionInv` |
| `ChainHolds`: `[]ChainIntact` | no fsync failure | `ChainInv`: while the process lives and the file can be read, the pointer is the hash of the last line |
| `CycleImplements`: `ImplementsGovernedSubmission` | a ledger, no loss of the machine | `ActInv` and `SubmissionInv`, one step per action |

`CycleTruth_proofs` continues it, for the same constants:

| theorem | from | along |
| --- | --- | --- |
| `OutcomesHonest`: `[]HonestOutcome`; `ReceiptsHonest`: `[]ReceiptsTellTheTruth` | `AnswersArrive`: no answer of the broker is lost, and a decision is sent once (no replay, or a ledger and no loss of the machine) | `TruthInv`: a cycle that returned or has a receipt left only settled orders, `AnswersMeanBooked`: a submitted result, under any word, is of an order in the books; `Fresh`: no later cycle sends one of them again, by `OwnInv` or by `SubmissionInv` |
| `OrdersStayVisible`: `[]OpenOrdersVisible` | a ledger, no loss of the machine or of an answer, no announced end | `SightInv`: the last line about an order that may be filled ends nothing, nor does the result about to be logged |
| `ContactsNeedTheStore`: `NoContactWithoutProofStore` | nothing more | `StoreInv`: between the preflight and the request nothing writes a receipt |
| `OrdersRestOnSoundState`: `OrderOnSoundState` | the reference planner | `SoundInv`: from the plan to the request nothing touches the observation or the proposal |

`AnalysisDesk_proofs` proves, for every set of wirings, snapshots, tapes, packs
and payloads (volatilities are natural numbers, confidences integers):

| theorem | along |
| --- | --- |
| `CalibrationTraced`: `[]CalibrationIsTraceable` | what each of the two calibrated agents keeps of the native vote (`Kept`), and that the fifteen others are untouched |
| `RefusalsTold`: `[]RefusalsAreTold` | a pack of another symbol or without real data is not `Usable`, hence both agents return the native vote with an unknown |
| `ExternalMarked`: `[]ExternalStaysExternal` | `normalize` stamps every signal and carries what its payload said; the evidence is a union over all of them |
| `EvidenceCarried`: `[]EvidenceReachesTheKernel` | which agent says what, one lemma per agent that matters; only the volatility agent warns of `HIGH_VOLATILITY` |
| `ScoreBlind`: `[]ScoreIsBlindToSide` | the coherence matrix only compares signals, and `Opposite` is injective |
| `SidesHaveAVoice`: `[]NoSideWithoutAVoice` | `SideHasAVoice`: the side that `Aggregate` takes has a weight above zero, and a sum above zero has a term above zero (`SumWithin`) |
| `SidesAreCalibrated`: `[]SidesNeedCalibration` | `NativeVoteIsMute`: no native vote has a confidence; `CalibratedVoteSpeaks`: the third alone may have one, on a usable pack with a volatility; so the voice the side needs is its |
| `RegimesAreComplete`: `[]RegimesCountEveryReturn` | `RegimesAddUp`: returns and transitions are parted in disjoint finite sets, the transitions out of a regime are its returns shifted by one, and `ThresholdIsReached`: more than half of the returns do not exceed the median |
| `AnalysisTypes`: `[]TypeOK` | `AgentsTell`, agent by agent, and `OutputTypes` for all three wirings |

They rest on two invariants. `DeskInv`: whenever a snapshot has been evaluated,
the signals, the aggregate and the evidence are what the operators make of the
snapshot, the pack and the day that still stand; it holds because a new pack and
a new day forget the outputs, and it turns the properties into facts about
operators. `DataInv`: a pack with a volatility was estimated from ten returns or
more, its regimes add up, and what was looked at is a snapshot of a symbol with
figures that are numbers. The properties say nothing of the pack's sample or of
the tape, so they could not carry themselves. For the proofs a weight is a sum
over a set and the threshold of the regimes the least return that more than half
do not exceed, which is `sorted(...)[n // 2]` without the sorting.

`Cockpit_proofs` proves, for every finite set of scripts and all bounds on
cycles and damages:

| theorem | along |
| --- | --- |
| `CockpitTypes`: `[]TypeOK` | directly from `CockpitInv` |
| `VerdictsAreRight`: `[]VerdictIsRight` | a line that parses keeps the stored hash of a line some record wrote, so a line that verifies agrees with that line in all that is hashed; by least index, all that stands before it is what its engine read |
| `ForksAloneCorrupt`: `[]OnlyForksCorrupt` | two lines behind the same prefix cannot both chain; without any, the place of a line is the length of what its engine had read, plus one |
| `ViewsAreRight`: `[]ViewsTellTheTruth` | no other script appends under the number of this cycle, so what the sections read of it, at several moments, is one line or none |
| `ReplaysAgree`: `[]ReplayAgreesWithTheChain` | a damage may change the parameters of a simulation but keeps its digest, and another path has another digest |

`CockpitInv` has two parts. `FileInv` says where the lines come from: whatever
the damages, a line that parses keeps hash, cycle, kind and digest of a line
some record wrote, and on a file nobody damaged the lines are those records
wrote, each behind all that its engine had read. `ScriptInv` says what a script
knows of the one line it may write. No property is inductive alone: a view is
right because of what the file held when its first section was read, and a
verdict because of what the engines had read when they were built. The number of
cycles drawn plus the engines built never exceeds `MaxCycles`, which is what
keeps the numbers of cycles apart.

`TradeDesk_proofs` proves, for every number of calls, finite set of symbols,
readings and answers of the ports (which are records of the code's types):

| theorem | along |
| --- | --- |
| `DeskTypes`: `[]TypeOK` | directly from `DeskInv` |
| `FillsAreCountedOnce`: `[]NothingCountedTwice` | between the reading of the positions and that of the orders each position stays within what is held and what is done (`WithinWhatIsDone`); a sum over orders that only grow is monotone (`SumWithin`) |
| `ChoicesIgnoreOrder`: `[]ChoiceIgnoresOrder` | the order on keys is transitive and total on distinct keys, so the first of a sequence is the least of its members |
| `ProposalsFit`: `[]ProposalsFitThePosition` | a portfolio has one position a symbol, none of zero, so a review has one position and a proposal one review |
| `ReviewsPrecedeTheOrder`: `[]ReviewsIgnoreTheOwnOrder` | the portfolio of a cycle was read before its order went out (`WithoutOwnOrder`), and the report of the poll that follows names that portfolio |

`DeskInv` has five parts: `OrdersInv` (nothing is filled of an order that was not
sent, only sent orders are followed), `FlowInv` (which call finds what; while a
cycle works its own order is not out), `ChoiceInv`, `PortfolioInv` (how far what
was read may stand from the broker's book) and `ReportInv` (what the report was
derived from). `NothingCountedTwice` speaks of a portfolio that is complete, and
is broken by the reading before it if nothing is known of the positions read so
far; `ReviewsIgnoreTheOwnOrder` needs both the moment of the reading and that no
poll replaces it.

`LeastAndSums` holds the lemmas that these three modules share. Where an
induction would be natural (a sum over a finite set, the least of a set of
numbers, a set of least size) they take a least counterexample, which
`WFMin` of the library provides.

Proving corrected the model four times. `VerdictIsRight` was false once a
file could be damaged twice; the forms of a damaged line were read with the
wrong precedence of `UNION`; a symbol that was discovered but is not followed
was looked up among the snapshots, where the code finds none and abstains; and
no assumption said that symbols and scripts are finitely many.

The invariants of the cycle are needed because none of its properties is inductive:
`AtMostOneSubmission` says nothing of the line in the ledger that makes the
guard refuse, and `ChainIntact` nothing of the pointer in memory.

Every invariant and action property that a passing run checks is proved.
Only model-checked: `CycleReturns` and `CallsReturn`, which are liveness under
fairness and out of the prover's reach. What the proofs assume of the constants
is named where the constants are declared, and TLC evaluates it in the runs of
that module; what a theorem assumes of the faults besides is in its table.

## 5. Where the code and its documentation disagree

Three are runs that TLC ends with a counterexample; `PROJECT.json` quotes the
lines.

1. `doc_lost_reply`: a submission whose answer is lost and whose receipt cannot
   be written is reported as `ABSTENTION_PROOF_INCOMPLETE`, "this cycle touched
   no market", while the broker took the order.
2. `doc_unknown_order`: `order_status` takes every error whose text holds "404"
   for an order that the broker does not know, and the text of a transport error
   quotes the order's identifier; the monitor then drops an open order.
3. `doc_expired_pack`: no agent gives `check_compatibility` a greatest age, so a
   pack of any age is consulted, though they promise one that has not expired.

The others have no run: no property of this project depends on them, or the
trace is a single step.

* Receipts. `fsync` that raises leaves the line in the file and the pointer
  behind it: the next receipt forks the chain. `receipt_verify.py:107`,
  `domain/receipt.py:165-166` and `F10_HISTORICAL_REGRESSION_MATRIX.md:52` speak
  of truncation as detected; the loss of the last lines is not, and after a fork
  neither is the loss of one branch. The hash of a line covers `_HASHABLE_KEYS`
  only (`receipt_store.py:41-55`), so that a changed `touched_the_market` (which
  the replay shows), `recorded_at`, `decision_hash`, `integrity_hash` or
  `receipt_hash` verifies, though `receipt_store.py:17-20` says that the stored
  hash reveals the modification of a receipt. `verify_chain`, over receipts in memory,
  does not see an alteration of the last one. `replay_deterministic` checks no
  hash. A write that stops just before its newline, in the receipts or in the
  ledger, glues the next line to it; the modules tear a line in its middle.
* Cycle. An abstention's `decision_id` is built from `cycle_count`, which starts
  again with the process, so it repeats. `run_cycle` "never raises", but an
  unreadable ledger makes it raise, and so does a STOP candidate without a stop
  price (`domain/orders.py:67`). `PRE_EXECUTION_PROOF_FAILURE` is documented and
  never produced. The planner takes no notice of open orders.
* Ledger. Its docstring calls it durable; it is never synced.
* Observation. The fingerprint (`domain/state.py:112-130`) keeps the instants at
  which positions were read, so equal states have different fingerprints.
* Broker. `_status` reads `pending_cancel` as CANCELED, `done_for_day` as FILLED,
  `stopped` and `suspended` as REJECTED: all of them ends, for the monitor and for
  the ledger, of orders that may still be filled. A 200 answer is a submission
  under any word, so an order that the broker rejects in its books is an execution
  for the outcome and the receipt.
* Bus and monitor. An order whose submission got no answer, or one without an
  identifier (`alpaca_broker.py:200`, `monitor.py:177`), is never followed. A
  ValueError of the memory, which a corrupted record raises, loses a record with
  no error (`bus.py:288-289`). Tracked orders are lost with the process and nothing tracks
  them again (`monitor.py:171`). The end of an order found in a cycle whose
  observation failed is not written to the memory (`bus.py:204`). `snapshot`,
  `last_outcome` and `running` take no lock (`bus.py:146`). A review of a
  position may propose to close it without a snapshot, and CLOSE and REDUCE
  always mean SELL, so that a short position would grow.
* Agents. `tests/unit/test_native_roster.py:38-39` asserts that an agent's
  signal is BUY, SELL or HOLD; agents also answer OBSERVATION, INTERPRETATION,
  CONTRADICTION and PROOF (`native/agents/domains/trading_agents.py:85,95,109`), and the constructor of
  a vote (`contracts.py:95`) gives the native ones a confidence of zero, which
  is what `SidesNeedCalibration` rests on.
* Comparison. Drawing `naive_vs_governed_view.py:36` runs a governed cycle and
  writes its receipt, with no button pressed, each time the page is drawn;
  `bus.py:9-15` says an interface never starts a cycle by redrawing itself.

## 6. What is not modelled

* `simulation/` and the likelihood of the GARCH fit: seeded floating-point
  processes without interaction; a path is a function of the parameters that act on it.
* The values of the indicators, statistics, prices with decimals, HTTP bodies'
  formatting: floating point and layout, which no property is about. Whether an
  indicator can be computed is modelled.
* `legacy_indicators.py` and the news port: text and figures that only reach the
  kernel's payload.
* `cancel` and `close_position` of the broker adapter: nothing calls them.
* The memory's store: only its port is in the tree; the bus's writes to it and
  their failures are in `RuntimeBus`.
* `scripts/compute_seal.py`, and the layout of the pages.
* The liveness of anything but one cycle and one call: nothing in the code runs
  cycles by itself.

## 7. Plan

What a next step would add, in this order:

1. A restart of the bus: the orders that the ledger knows and the monitor does
   not follow any more.
2. The line that stops just before its newline, in both stores.
3. `TradeDesk` with the ledger and the receipts of `CycleEngine`: one module
   from the first reading to the receipt.
