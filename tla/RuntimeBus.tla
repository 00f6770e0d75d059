----------------------------- MODULE RuntimeBus -----------------------------
(***************************************************************************)
(* execution/binder/bus.py: what interface threads may ask of the engine,  *)
(* composed with the execution monitor and the experience memory.          *)
(*                                                                         *)
(* send and tick hold the bus's lock from Enter to Reply, or until what    *)
(* they called raises.  run_cycle is one step here (CycleEngine has its    *)
(* own); the order of a cycle that submits one bears the cycle's number.   *)
(***************************************************************************)
EXTENDS ExecutionMonitor, Sequences, FiniteSets

CONSTANTS
  Threads,      \* the interface's threads
  Free,         \* no thread
  Commands,     \* what they may ask in this instance
  HistorySize,  \* history_size
  HasMonitor,   \* whether a monitor was injected
  HasMemory     \* whether a memory was injected

CommandKinds == {"STEP", "START", "STOP", "RESET", "MONITOR", "TICK"}

ASSUME BusAssumption ==
  /\ Free \notin Threads
  /\ IsFiniteSet(Threads)
  /\ Commands \subseteq CommandKinds
  /\ HistorySize \in Nat \ {0}
  /\ HasMonitor \in BOOLEAN
  /\ HasMemory \in BOOLEAN

VARIABLES
  lock,        \* the thread that holds _lock, or Free
  calls,       \* calls made so far
  pc,          \* thread -> where its call has come to
  op,          \* thread -> what it asked
  mine,        \* thread -> the cycle it runs, or 0
  outcome,     \* thread -> the CycleOutcome of that cycle
  todo,        \* thread -> the orders its poll has still to ask about
  report,      \* thread -> the orders its poll found ended
  running,     \* _running
  count,       \* the engine's cycle_count
  shown,       \* the cycle of _last_outcome, or 0
  error,       \* _last_error: "none", "cycle" or "memory"
  monitoring,  \* _last_monitoring
  hist,        \* _history, as the numbers of its cycles
  remembered,  \* orders whose end is in a record of the memory
  intact       \* whether every record of the memory can be read back

(* History: what no component stores, but the properties speak of. *)
VARIABLES
  followed,  \* orders that were ever tracked
  published  \* orders whose end was in a report that the bus kept

locals == <<pc, op, mine, outcome, todo, report>>
kept == <<running, count, shown, error, monitoring, hist, remembered, intact>>
busHistory == <<followed, published>>
vars == <<lock, calls, locals, kept, raw, tracked, busHistory>>

------------------------------------------------------------------------------
OutcomeKinds == {"error", "abstained", "refused", "submitted"}

(* A CycleOutcome, named when its execution bears a broker_order_id. *)
NoOutcome == [kind |-> "none", status |-> "UNKNOWN", named |-> FALSE]
Outcomes ==
  [kind : OutcomeKinds, status : OrderStatuses, named : BOOLEAN] \cup {NoOutcome}

Submitted(x) == x.kind = "submitted"

(* _write_memory returns at once when the cycle made no decision. *)
Decided(x) == x.kind # "error"

Report(by, ended) == [by |-> by, ended |-> ended, present |-> TRUE]
NoReport == [by |-> 0, ended |-> {}, present |-> FALSE]
Reports == [by : 0 .. MaxCalls, ended : SUBSET Orders, present : BOOLEAN]

------------------------------------------------------------------------------
Goes(t, from, to) == pc[t] = from /\ pc' = [pc EXCEPT ![t] = to]

Call(t, what) ==
  /\ calls < MaxCalls
  /\ calls' = calls + 1
  /\ Goes(t, "idle", "wait")
  /\ op' = [op EXCEPT ![t] = what]
  /\ UNCHANGED <<lock, mine, outcome, todo, report, kept, raw, tracked, busHistory>>

LocksUnlessTick(t) ==
  IF op[t] = "TICK" THEN lock' = t ELSE lock = Free /\ lock' = t

(* with self._lock *)
Locks(t) == lock = Free /\ lock' = t

StartsCycle(t) == op[t] \in {"STEP", "START"} \/ (op[t] = "TICK" /\ running)

EnterCycle(t) ==
  /\ Goes(t, "wait", "run")
  /\ Locks(t)
  /\ StartsCycle(t)
  /\ running' = (running \/ op[t] = "START")
  /\ count' = count + 1
  /\ mine' = [mine EXCEPT ![t] = count + 1]
  /\ UNCHANGED <<calls, op, outcome, todo, report, shown, error, monitoring,
                 hist, remembered, intact, raw, tracked, busHistory>>

TickWhileStopped(t) ==
  /\ Goes(t, "wait", "reply")
  /\ Locks(t)
  /\ op[t] = "TICK" /\ ~running
  /\ UNCHANGED <<calls, op, mine, outcome, todo, report, kept, raw, tracked, busHistory>>

Stop(t) ==
  /\ Goes(t, "wait", "reply")
  /\ Locks(t)
  /\ op[t] = "STOP"
  /\ running' = FALSE
  /\ UNCHANGED <<calls, op, mine, outcome, todo, report, count, shown, error,
                 monitoring, hist, remembered, intact, raw, tracked,
                 busHistory>>

ResetKeepingHistory(t) ==
  /\ Goes(t, "wait", "reply")
  /\ Locks(t)
  /\ op[t] = "RESET"
  /\ running' = FALSE
  /\ shown' = 0
  /\ monitoring' = NoReport
  /\ error' = "none"
  /\ UNCHANGED <<calls, op, mine, outcome, todo, report, count, hist,
                 remembered, intact, raw, tracked, busHistory>>

ResetForgettingOrders(t) ==
  /\ Goes(t, "wait", "reply")
  /\ Locks(t)
  /\ op[t] = "RESET"
  /\ running' = FALSE
  /\ shown' = 0
  /\ monitoring' = NoReport
  /\ error' = "none"
  /\ hist' = <<>>
  /\ tracked' = [o \in Orders |-> "untracked"]
  /\ UNCHANGED <<calls, op, mine, outcome, todo, report, count, remembered,
                 intact, raw, busHistory>>

(* _reset: the engine's cycle_count and the monitor are left alone. *)
Reset(t) ==
  /\ Goes(t, "wait", "reply")
  /\ Locks(t)
  /\ op[t] = "RESET"
  /\ running' = FALSE
  /\ shown' = 0
  /\ monitoring' = NoReport
  /\ error' = "none"
  /\ hist' = <<>>
  /\ UNCHANGED <<calls, op, mine, outcome, todo, report, count, remembered,
                 intact, raw, tracked, busHistory>>

Monitor(t) ==
  /\ Goes(t, "wait", IF HasMonitor THEN "poll" ELSE "reply")
  /\ Locks(t)
  /\ op[t] = "MONITOR"
  /\ todo' = [todo EXCEPT ![t] = Tracked]
  /\ UNCHANGED <<calls, op, mine, outcome, report, kept, raw, tracked, busHistory>>

------------------------------------------------------------------------------
(* _step.  An exception leaves send or tick, and the lock with it.         *)
Raises(t) ==
  /\ pc' = [pc EXCEPT ![t] = "idle"]
  /\ op' = [op EXCEPT ![t] = "none"]
  /\ mine' = [mine EXCEPT ![t] = 0]
  /\ outcome' = [outcome EXCEPT ![t] = NoOutcome]
  /\ todo' = [todo EXCEPT ![t] = {}]
  /\ report' = [report EXCEPT ![t] = {}]

RunRaisesKeepingLock(t) ==
  /\ pc[t] = "run"
  /\ "engine" \in Faults
  /\ Raises(t)
  /\ UNCHANGED <<lock, calls, kept, raw, tracked, busHistory>>

(* run_cycle raises, which it does only before anything is sent (HonestOutcome *)
(* of CycleProperties).                                                    *)
RunRaises(t) ==
  /\ pc[t] = "run"
  /\ "engine" \in Faults
  /\ Raises(t)
  /\ lock' = Free
  /\ UNCHANGED <<calls, kept, raw, tracked, busHistory>>

AfterRun == IF HasMonitor THEN "track" ELSE "memory"

(* run_cycle returns.  The answer to a POST says how the order stands; when *)
(* it is lost the cycle comes back refused and the order lives on.         *)
RunReturns(t) ==
  /\ Goes(t, "run", AfterRun)
  /\ \/ /\ \E kind \in OutcomeKinds \ {"submitted"} :
             /\ kind = "error" => "observation" \in Faults
             /\ outcome' = [outcome EXCEPT ![t] = [NoOutcome EXCEPT !.kind = kind]]
        /\ UNCHANGED raw
     \/ \E word \in AnsweredWords :
          /\ raw' = [raw EXCEPT ![mine[t]] = word]
          /\ \/ \E named \in BOOLEAN :
                  /\ named \/ "unnamed" \in Faults
                  /\ outcome' = [outcome EXCEPT
                       ![t] = [kind |-> "submitted", status |-> Status(word),
                               named |-> named]]
             \/ /\ "lost_reply" \in Faults
                /\ outcome' = [outcome EXCEPT
                     ![t] = [NoOutcome EXCEPT !.kind = "refused"]]
  /\ shown' = mine[t]
  /\ error' = IF outcome'[t].kind = "error" THEN "cycle" ELSE "none"
  /\ UNCHANGED <<lock, calls, op, mine, todo, report, running, count,
                 monitoring, hist, remembered, intact, tracked, busHistory>>

(* self._monitor.track(outcome.execution), then poll copies what it tracks *)
TrackOrder(t) ==
  /\ Goes(t, "track", "poll")
  /\ Track(mine[t], Submitted(outcome[t]), outcome[t].named, outcome[t].status)
  /\ todo' = [todo EXCEPT ![t] = Tracked']
  /\ followed' = followed \cup (Tracked' \ Tracked)
  /\ UNCHANGED <<lock, calls, op, mine, outcome, report, kept, raw, published>>

------------------------------------------------------------------------------
(* poll, one order after the other in the order of their submission *)
Asks(t, o) ==
  /\ pc[t] = "poll"
  /\ o \in todo[t]
  /\ \A p \in todo[t] : o <= p
  /\ todo' = [todo EXCEPT ![t] = @ \ {o}]

PollAnswered(t) ==
  /\ \E o \in Orders :
       /\ Asks(t, o)
       /\ StatusKnown(o)
       /\ report' = [report EXCEPT
            ![t] = IF Status(raw[o]) \in TerminalStatuses THEN @ \cup {o} ELSE @]
  /\ UNCHANGED <<lock, calls, pc, op, mine, outcome, kept, raw, busHistory>>

PollUnanswered(t) ==
  /\ \E o \in Orders : Asks(t, o) /\ (StatusUnavailable(o) \/ StatusUnknown(o))
  /\ UNCHANGED <<lock, calls, pc, op, mine, outcome, report, kept, raw, busHistory>>

PollRaises(t) ==
  /\ pc[t] = "poll"
  /\ "poll" \in Faults
  /\ Raises(t)
  /\ lock' = Free
  /\ UNCHANGED <<calls, kept, raw, tracked, busHistory>>

PollEndsOnlyInStep(t) ==
  /\ pc[t] = "poll" /\ todo[t] = {}
  /\ pc' = [pc EXCEPT ![t] = IF mine[t] = 0 THEN "reply" ELSE "memory"]
  /\ monitoring' = IF mine[t] = 0 THEN monitoring ELSE Report(mine[t], report[t])
  /\ published' = IF mine[t] = 0 THEN published ELSE published \cup report[t]
  /\ report' = [report EXCEPT ![t] = {}]
  /\ UNCHANGED <<lock, calls, op, mine, outcome, todo, running, count, shown,
                 error, hist, remembered, intact, raw, tracked, followed>>

PollEnds(t) ==
  /\ pc[t] = "poll" /\ todo[t] = {}
  /\ pc' = [pc EXCEPT ![t] = IF mine[t] = 0 THEN "reply" ELSE "memory"]
  /\ monitoring' = Report(mine[t], report[t])
  /\ published' = published \cup report[t]
  /\ report' = [report EXCEPT ![t] = {}]
  /\ UNCHANGED <<lock, calls, op, mine, outcome, todo, running, count, shown,
                 error, hist, remembered, intact, raw, tracked, followed>>

------------------------------------------------------------------------------
WriteMemoryOfSubmissions(t) ==
  /\ Goes(t, "memory", "history")
  /\ HasMemory
  /\ remembered' = IF Submitted(outcome[t])
                   THEN remembered \cup monitoring.ended ELSE remembered
  /\ UNCHANGED <<lock, calls, op, mine, outcome, todo, report, running, count, shown,
                 error, monitoring, hist, intact, raw, tracked, busHistory>>

(***************************************************************************)
(* Of the records of a cycle only the one of its report matters here.  It  *)
(* is written, or it or another of them raises, which the answer says; a   *)
(* ValueError is taken for a duplicate and leaves no trace.  Keys are      *)
(* fresh, so that only a memory with a record that cannot be read back     *)
(* raises one.                                                             *)
(***************************************************************************)
WriteMemory(t) ==
  /\ Goes(t, "memory", "history")
  /\ HasMemory
  /\ \/ /\ ~Decided(outcome[t])
        /\ UNCHANGED <<remembered, intact, error>>
     \/ /\ Decided(outcome[t]) /\ intact
        /\ remembered' = remembered \cup monitoring.ended
        /\ UNCHANGED <<intact, error>>
     \/ /\ Decided(outcome[t]) /\ "memory" \in Faults /\ intact
        /\ remembered' \in {remembered, remembered \cup monitoring.ended}
        /\ intact' \in BOOLEAN
        /\ error' = "memory"
     \/ /\ Decided(outcome[t]) /\ ~intact
        /\ UNCHANGED <<remembered, intact, error>>
  /\ UNCHANGED <<lock, calls, op, mine, outcome, todo, report, running, count,
                 shown, monitoring, hist, raw, tracked, busHistory>>

NoMemory(t) ==
  /\ Goes(t, "memory", "history")
  /\ ~HasMemory
  /\ UNCHANGED <<lock, calls, op, mine, outcome, todo, report, kept, raw,
                 tracked, busHistory>>

(* A deque of bounded length drops its oldest line. *)
AppendedUnbounded(line) == Append(hist, line)
Appended(line) ==
  Append(IF Len(hist) < HistorySize THEN hist ELSE Tail(hist), line)

WriteHistory(t) ==
  /\ Goes(t, "history", "reply")
  /\ hist' = Appended(mine[t])
  /\ UNCHANGED <<lock, calls, op, mine, outcome, todo, report, running, count,
                 shown, error, monitoring, remembered, intact, raw, tracked,
                 busHistory>>

(* return self.snapshot(), still under the lock *)
Reply(t) ==
  /\ pc[t] = "reply"
  /\ Raises(t)
  /\ lock' = Free
  /\ UNCHANGED <<calls, kept, raw, tracked, busHistory>>

Broker ==
  /\ \E o \in Orders : BrokerMoves(o)
  /\ UNCHANGED <<lock, calls, locals, kept, tracked, busHistory>>

------------------------------------------------------------------------------
Init ==
  /\ lock = Free
  /\ calls = 0
  /\ pc = [t \in Threads |-> "idle"]
  /\ op = [t \in Threads |-> "none"]
  /\ mine = [t \in Threads |-> 0]
  /\ outcome = [t \in Threads |-> NoOutcome]
  /\ todo = [t \in Threads |-> {}]
  /\ report = [t \in Threads |-> {}]
  /\ running = FALSE
  /\ count = 0
  /\ shown = 0
  /\ error = "none"
  /\ monitoring = NoReport
  /\ hist = <<>>
  /\ remembered = {}
  /\ intact \in BOOLEAN /\ (intact \/ "memory" \in Faults)
  /\ followed = {}
  /\ published = {}
  /\ InitOrders
  /\ InitMonitor

Work(t) ==
  \/ EnterCycle(t) \/ TickWhileStopped(t) \/ Stop(t) \/ Reset(t) \/ Monitor(t)
  \/ RunRaises(t) \/ RunReturns(t) \/ TrackOrder(t)
  \/ PollAnswered(t) \/ PollUnanswered(t) \/ PollRaises(t) \/ PollEnds(t)
  \/ WriteMemory(t) \/ NoMemory(t) \/ WriteHistory(t) \/ Reply(t)

Next ==
  \/ \E t \in Threads, what \in Commands : Call(t, what)
  \/ \E t \in Threads : Work(t)
  \/ Broker

Spec == Init /\ [][Next]_vars

(* A call goes on while its thread runs: everything it calls is            *)
(* synchronous and the HTTP client gives up at its timeout.                *)
FairSpec == Spec /\ \A t \in Threads : WF_vars(Work(t))
==============================================================================
