---- MODULE WorkflowRun ----
(***************************************************************************)
(* Recoverable runs on one Core (apps/local-core/src/ir2-workflow-runtime, *)
(* the run tables of packages/persistence-sqlite): every transition of the *)
(* engine is committed in one transaction with the outbox rows it needs,   *)
(* the assistance tasks it creates and the rows it acknowledges; a drain   *)
(* loop hands a snapshot of the pending rows to providers, one after the   *)
(* other, and fires timers; assistance tasks wake the run they block.      *)
(*                                                                         *)
(* The revisions of runs and checkpoints are left out: the runtime reads   *)
(* them and commits in one piece of synchronous code, which nothing on the *)
(* thread can interleave.  The task's revision stays: it is read before    *)
(* the caller waits.                                                       *)
(***************************************************************************)
EXTENDS Integers, AssistanceTask

CONSTANTS
    Plan, Entry, ItemCounts,   \* see WorkflowEngine
    Run,         \* runs
    MaxId,       \* bound on the ids of calls and tasks
    Event,       \* what the environment may do: see the actions that name it
    AiOutcome,   \* how a submission by an AI owner may wake a run
    MaxCrashes   \* bound on the crashes of Core

INSTANCE WorkflowEngine

ASSUME RunAssumption ==
    /\ Event \subseteq {"cancel", "withheld", "leaseLost"}
    /\ AiOutcome \subseteq {"resolved", "escalated"}
    /\ MaxCrashes \in Nat /\ MaxId \in Nat
    /\ Task = 1..MaxId
    /\ Admitted

VARIABLES
    engine,    \* the checkpoint of each run, None before it is created
    lastId,    \* the last id given out
    outbox,    \* the rows of engine_outbox that are not acknowledged
    inbox,     \* the calls whose result is in engine_inbox
    done,      \* the external ids the engine has completed
    drain,     \* the pass of drainOnce and the call it awaits
    crashes    \* history: how often Core crashed

runVars == <<engine, lastId, outbox, inbox, done, drain>>
vars == <<runVars, taskVars, crashes>>

NoDrain == [busy |-> FALSE, rows |-> {}, at |-> None]

Init ==
    /\ engine = [r \in Run |-> None]
    /\ lastId = 0
    /\ outbox = {} /\ inbox = {} /\ done = {}
    /\ drain = NoDrain
    /\ crashes = 0
    /\ AssistanceInit

Live(r) == engine[r] # None /\ engine[r].status \notin Settled

Active(r) == IF Live(r) THEN engine[r].active.id ELSE None

WaitsForCall(r, row) ==
    /\ Live(r)
    /\ engine[r].status = "waiting_runtime"
    /\ engine[r].active = [id |-> row.id, attempt |-> row.attempt]

WaitsForTask(r, t) ==
    /\ Live(r)
    /\ engine[r].status = "waiting_assistance"
    /\ engine[r].active.id = t

----
(* One transaction: the checkpoint, the rows of its effects, the rows it        *)
(* acknowledges.  The tasks are written by the action.                          *)

Row(kind, r, f) ==
    [kind |-> kind, id |-> f.id, run |-> r,
     attempt |-> IF kind = "invoke" THEN f.attempt ELSE 0,
     wait |-> CASE kind = "invoke" -> f.wait [] kind = "timer" -> f.left [] OTHER -> 0,
     left |-> IF kind = "invoke" THEN f.left ELSE 0]

\* Mutant: the deadline of a task is not written to the outbox.
RowsWithoutTimers(r, effects) ==
    {Row("invoke", r, f) : f \in {g \in effects : g.kind = "invoke"}} \cup
    {Row("request", r, f) : f \in {g \in effects : g.kind = "task"}}

RowsOf(r, effects) ==
    {Row("invoke", r, f) : f \in {g \in effects : g.kind = "invoke"}} \cup
    {Row("request", r, f) : f \in {g \in effects : g.kind = "task"}} \cup
    {Row("timer", r, f) : f \in {g \in effects : g.kind = "task" /\ g.blocking}}

Rows(kinds, id) == {row \in outbox : row.kind \in kinds /\ row.id = id}

\* The tasks after a transition: the new ones, over the table given.
WithTasks(table, effects) ==
    [t \in Task |->
        IF \E f \in effects : f.kind = "task" /\ f.id = t
        THEN LET f == CHOOSE g \in effects : g.kind = "task" /\ g.id = t
             IN  NewTask(f.human, f.blocking, f.left)
        ELSE table[t]]

\* Ids run out at MaxId.
CommitTransition(r, x, acknowledged) ==
    /\ x.n <= MaxId + 1
    /\ engine' = [engine EXCEPT ![r] = x.e]
    /\ lastId' = x.n - 1
    /\ outbox' = (outbox \ acknowledged) \cup RowsOf(r, x.effects)

\* The rows of a task that ends: its request and its deadline.
TaskRows(t) == Rows({"request", "timer"}, t)

\* The request of run r ends with task t, whose record is ended.
WakeRun(r, x, t, ended) ==
    /\ CommitTransition(r, x, TaskRows(t))
    /\ done' = done \cup {t}
    /\ task' = [WithTasks(task, x.effects) EXCEPT ![t] = ended]

tasksAside == <<request, call, known, granted, resolver, applied>>

----
(* The control API: start, cancel. *)

\* Ids are given out in order: the runs of a model are started in any order.
StartRun(r) ==
    /\ engine[r] = None
    /\ \E x \in Start(lastId + 1) :
          /\ CommitTransition(r, x, {})
          /\ task' = WithTasks(task, x.effects)
    /\ UNCHANGED <<inbox, done, drain, crashes, tasksAside>>

\* Mutant: cancelling leaves the row of the call the run waits for.
CancelCallKeepingRow(r) ==
    /\ engine[r].status = "waiting_runtime"
    /\ engine' = [engine EXCEPT ![r] = Cancelled(@)]
    /\ done' = done \cup {Active(r)}
    /\ UNCHANGED <<outbox, lastId, task>>

\* The run waits for a call: the row is acknowledged; the provider is told, but
\* nothing depends on it.
CancelCall(r) ==
    /\ engine[r].status = "waiting_runtime"
    /\ engine' = [engine EXCEPT ![r] = Cancelled(@)]
    /\ done' = done \cup {Active(r)}
    /\ outbox' = outbox \ Rows({"invoke"}, Active(r))
    /\ UNCHANGED <<lastId, task>>

\* Mutant: cancelling hands the task back to the queue.
CancelTaskReleasing(r) ==
    /\ engine[r].status = "waiting_assistance"
    /\ task[Active(r)].status \in Open
    /\ WakeRun(r, Transition(Cancelled(engine[r]), lastId + 1), Active(r),
               Released(task[Active(r)]))

\* The run waits for a task: both end together, unless the task is final already.
CancelTask(r) ==
    /\ engine[r].status = "waiting_assistance"
    /\ task[Active(r)].status \in Open
    /\ WakeRun(r, Transition(Cancelled(engine[r]), lastId + 1), Active(r),
               Terminated(task[Active(r)], "cancelled"))

Cancel(r) ==
    /\ "cancel" \in Event
    /\ Live(r)
    /\ CancelCall(r) \/ CancelTask(r)
    /\ UNCHANGED <<inbox, drain, crashes, tasksAside>>

----
(* drainOnce, single-flight.  Ids stand for the order rows were created in.    *)

Drainable == {row \in outbox : row.kind \in {"invoke", "timer"}}

BeginDrain ==
    /\ ~drain.busy
    /\ Drainable # {}
    /\ drain' = [busy |-> TRUE, at |-> None, rows |-> Drainable]
    /\ UNCHANGED <<engine, lastId, outbox, inbox, done, taskVars, crashes>>

AtRow == drain.busy /\ drain.at = None /\ drain.rows # {}

FirstRow == CHOOSE row \in drain.rows : \A other \in drain.rows : row.id <= other.id

\* Ends the first row of the pass, or hands it to the provider the pass waits for.
Passes(awaited) == drain' = [drain EXCEPT !.rows = @ \ {FirstRow}, !.at = awaited]

EndDrain ==
    /\ drain.busy /\ drain.at = None /\ drain.rows = {}
    /\ drain' = NoDrain
    /\ UNCHANGED <<engine, lastId, outbox, inbox, done, taskVars, crashes>>

\* acceptRuntimeResult: a result for the call the run waits for is applied with
\* its inbox row; any other result changes nothing, and leaves its row alone.
Accept(row, outcome) ==
    IF WaitsForCall(row.run, row) /\ row.id \notin inbox
    THEN \E x \in AcceptOutcome(engine[row.run], lastId + 1, outcome) :
            /\ CommitTransition(row.run, x, Rows({"invoke"}, row.id))
            /\ done' = done \cup {row.id}
            /\ inbox' = inbox \cup {row.id}
            /\ task' = WithTasks(task, x.effects)
    ELSE UNCHANGED <<engine, lastId, outbox, inbox, done, task>>

TimedOut == [status |-> "timed_out", retryable |-> FALSE]

\* A row that is not due is left for a later pass; so is a call the run's external
\* domain lease does not allow.
SkipRow ==
    /\ AtRow
    /\ LET row == FirstRow IN
       \/ row.wait > 0
       \/ "withheld" \in Event /\ row.kind = "invoke" /\ row.left > 0
    /\ Passes(None)
    /\ UNCHANGED <<engine, lastId, outbox, inbox, done, taskVars, crashes>>

\* A call whose deadline is over is not handed to its provider any more.
ExpireRow ==
    /\ AtRow
    /\ LET row == FirstRow IN
       /\ row.kind = "invoke" /\ row.wait = 0 /\ row.left = 0
       /\ Accept(row, TimedOut)
    /\ Passes(None)
    /\ UNCHANGED <<crashes, tasksAside>>

\* Mutant: the deadline is not looked at before the call is handed over.
DispatchAnyTime ==
    /\ AtRow
    /\ LET row == FirstRow IN
       /\ row.kind = "invoke" /\ row.wait = 0
       /\ Passes(row)
    /\ UNCHANGED <<engine, lastId, outbox, inbox, done, taskVars, crashes>>

\* The call is handed to its provider, and the pass waits for it.
Dispatch ==
    /\ AtRow
    /\ LET row == FirstRow IN
       /\ row.kind = "invoke" /\ row.wait = 0 /\ row.left > 0
       /\ Passes(row)
    /\ UNCHANGED <<engine, lastId, outbox, inbox, done, taskVars, crashes>>

\* The provider answers, throws (a failure that may be retried) or is aborted at
\* the deadline; input or output that does not fit its schema fails for good.
\* A provider that answers after the deadline is still believed.
Answer ==
    /\ drain.at # None
    /\ \E outcome \in CallOutcome : Accept(drain.at, outcome)
    /\ drain' = [drain EXCEPT !.at = None]
    /\ UNCHANGED <<crashes, tasksAside>>

\* acceptTimerFire: the deadline of the task the run waits for ends both.
FireTimer ==
    /\ AtRow
    /\ LET row == FirstRow
           t   == row.id
       IN
       /\ row.kind = "timer" /\ row.wait = 0
       /\ IF WaitsForTask(row.run, t) /\ task[t].status \in Open
          THEN \E x \in AcceptAssistance(engine[row.run], lastId + 1, "expired") :
                  WakeRun(row.run, x, t, Terminated(task[t], "expired"))
          ELSE UNCHANGED <<engine, lastId, outbox, done, task>>
    /\ Passes(None)
    /\ UNCHANGED <<inbox, crashes, tasksAside>>

\* The external domain lease of a run is lost while it waits for a call: the call
\* ends uncertain under an inbox row of its own.
LoseLease(r) ==
    /\ "leaseLost" \in Event
    /\ Live(r) /\ engine[r].status = "waiting_runtime"
    /\ \E x \in AcceptOutcome(engine[r], lastId + 1,
                              [status |-> "uncertain", retryable |-> FALSE]) :
          /\ CommitTransition(r, x, Rows({"invoke"}, Active(r)))
          /\ done' = done \cup {Active(r)}
          /\ task' = WithTasks(task, x.effects)
    /\ UNCHANGED <<inbox, drain, crashes, tasksAside>>

----
(* Requests about tasks.  A submission commits the task together with the run   *)
(* it blocks, or alone when the task is detached from its run.                  *)

RunOf(t) == CHOOSE r \in Run : \E row \in Rows({"request"}, t) : row.run = r

SubmitOutcome(q) == IF q.worker \in Human THEN {"resolved"} ELSE AiOutcome

SubmitBlocking(c) ==
    LET t == CallRequest(c).task
        r == RunOf(t)
    IN
    /\ Commits(c) /\ CallRequest(c).op = "submit" /\ task[t].blocking
    /\ IF ~WaitsForTask(r, t)
       THEN Ends(c) /\ UNCHANGED <<task, engine, lastId, done, outbox, request, known,
                                  granted, resolver, applied>>
       ELSE /\ Record(c)
            /\ \E status \in SubmitOutcome(CallRequest(c)) :
               \E x \in AcceptAssistance(engine[r], lastId + 1, status) :
                  WakeRun(r, x, t, Result(c))

SubmitDetached(c) ==
    LET t == CallRequest(c).task IN
    /\ CallRequest(c).op = "submit" /\ ~task[t].blocking
    /\ Rows({"request"}, t) # {}
    /\ Commit(c)
    /\ outbox' = outbox \ Rows({"request"}, t)
    /\ UNCHANGED <<engine, lastId, done>>

CommitOther(c) ==
    /\ CallRequest(c).op # "submit"
    /\ Commit(c)
    /\ UNCHANGED <<engine, lastId, done, outbox>>

Requested(c) ==
    /\ RequestSteps(c)
    /\ UNCHANGED <<runVars, crashes>>

Committed(c) ==
    /\ At(c, "read")
    /\ SubmitBlocking(c) \/ SubmitDetached(c) \/ CommitOther(c)
    /\ UNCHANGED <<inbox, drain, crashes>>

----
(* Time and crashes. *)

Aged(row) == [row EXCEPT !.wait = Down(@), !.left = Down(@)]

AgedFrames(stack) == [i \in DOMAIN stack |-> [stack[i] EXCEPT !.left = @ - 1]]

Pressing ==
    \/ \E row \in outbox : row.wait > 0 \/ row.left > 0
    \/ \E t \in Task : task[t].lease > 0 \/ task[t].left > 0
    \/ drain.at # None /\ drain.at.left > 0

Tick ==
    /\ Pressing
    /\ TasksAge
    /\ engine' = [r \in Run |->
                    IF Live(r)
                    THEN [engine[r] EXCEPT !.stack = AgedFrames(@)]
                    ELSE engine[r]]
    /\ outbox' = {Aged(row) : row \in outbox}
    /\ drain' = [drain EXCEPT !.rows = {Aged(row) : row \in @},
                              !.at = IF @ = None THEN None ELSE Aged(@)]
    /\ UNCHANGED <<lastId, inbox, done, crashes>>

\* Core crashes and starts again: the pass and the calls in progress are lost,
\* the tables stay.
Crash ==
    /\ crashes < MaxCrashes
    /\ crashes' = crashes + 1
    /\ drain' = NoDrain
    /\ CallsLost
    /\ UNCHANGED <<engine, lastId, outbox, inbox, done>>

DrainSteps == BeginDrain \/ SkipRow \/ ExpireRow \/ Dispatch \/ FireTimer \/ EndDrain

CallSteps(c) ==
    \/ (Look(c) \/ Get(c) \/ Refuse(c)) /\ UNCHANGED <<runVars, crashes>>
    \/ Committed(c)

Next ==
    \/ \E r \in Run : StartRun(r) \/ Cancel(r) \/ LoseLease(r)
    \/ DrainSteps
    \/ Answer
    \/ \E c \in Call : Requested(c) \/ Committed(c)
    \/ Tick
    \/ Crash

Spec == Init /\ [][Next]_vars

\* The drain loop is called every 500 ms, the provider it awaits observes the abort
\* signal of its deadline, calls run to their end, and time passes between them.
Fairness ==
    /\ WF_vars(DrainSteps \/ Answer)
    /\ \A c \in Call : WF_vars(CallSteps(c))
    /\ SF_vars(Tick)

FairSpec == Spec /\ Fairness

----
Frame ==
    [step : DOMAIN Plan, count : Nat, index : Nat, left : Int,
     succeeded : Nat, failed : Nat, unresolved : Nat]

EngineState ==
    [status : Settled \cup {"waiting_runtime", "waiting_assistance"},
     cursor : DOMAIN Plan \cup {None}, stack : Seq(Frame),
     active : [id : Task, attempt : Nat] \cup {None},
     out : [total : Nat, succeeded : Nat, failed : Nat, unresolved : Nat,
            by : {"completed", "stopped"}] \cup {None},
     steps : Nat]

\* None stands for a run without a checkpoint.
ASSUME NoneAssumption == None \notin EngineState

OutboxRow ==
    [kind : {"invoke", "request", "timer"}, id : Task, run : Run, attempt : Nat,
     wait : Nat, left : Nat]

\* The types of the runs' tables and of the drain loop; a committed checkpoint is
\* never in the middle of its steps, and has not taken more of them than the bound
\* its plan was admitted with.
TypeOK ==
    /\ \A r \in Run :
           engine[r] # None => /\ engine[r] \in EngineState
                               /\ engine[r].steps <= ExecutionCost
    /\ lastId \in 0..MaxId
    /\ outbox \subseteq OutboxRow
    /\ inbox \subseteq Task /\ done \subseteq Task
    /\ drain.busy \in BOOLEAN
    /\ drain.rows \subseteq OutboxRow
    /\ drain.at = None \/ drain.at \in OutboxRow
    /\ AssistanceTypeOK

\* Whatever a run waits for will come to it: a call has its row in the outbox and
\* no other call of the run has one, a task is open and has its deadline in the
\* outbox; a run that ended leaves neither a call nor a deadline behind, and a blocking
\* task is open exactly while its run waits for it.  A crash anywhere between two
\* transactions cannot strand a run or wake a dead one.
WaitsAreBacked ==
    /\ \A t \in Task : task[t].blocking =>
          (task[t].status \in Open <=> \E r \in Run : Active(r) = t)
    /\ \A r \in Run :
           LET mine(kind) == {row \in outbox : row.run = r /\ row.kind = kind} IN
           CASE ~Live(r) -> mine("invoke") = {} /\ mine("timer") = {}
             [] Live(r) /\ engine[r].status = "waiting_runtime" ->
                   /\ \E row \in mine("invoke") : mine("invoke") = {row} /\ WaitsForCall(r, row)
                   /\ mine("timer") = {}
             [] OTHER ->
                   /\ mine("invoke") = {}
                   /\ \E row \in mine("timer") :
                         /\ mine("timer") = {row} /\ row.id = Active(r)
                         /\ task[row.id].status \in Open
                         /\ row.wait = task[row.id].left
                         /\ \E q \in mine("request") : q.id = row.id

\* Every item of a foreach is accounted for once: the items before the current
\* one have ended in exactly one way, through retries, nested waits, deadlines,
\* crashes and repeated answers; a foreach that is completed sums up one outcome for
\* every item, one that stops never more than it had items.
ItemsAccounted ==
    \A r \in Run : engine[r] # None =>
        /\ \A i \in Frames(engine[r]) :
              LET f == engine[r].stack[i] IN
              /\ f.succeeded + f.failed + f.unresolved = f.index
              /\ f.index < f.count
        /\ engine[r].out # None =>
              LET f == engine[r].out IN
              /\ f.succeeded + f.failed + f.unresolved <= f.total
              /\ f.by = "completed" => f.succeeded + f.failed + f.unresolved = f.total

\* An attempt fits the durations of the foreaches around it: its deadline is not
\* later than any of theirs, and a retry that has to wait starts before its own
\* deadline, so that it is never scheduled only to expire.
AttemptsFit ==
    \A row \in outbox : row.kind = "invoke" =>
        /\ \A i \in Frames(engine[row.run]) :
              row.left <= NotNegative(engine[row.run].stack[i].left)
        /\ row.wait > 0 => row.wait < row.left

\* A call that its run still waits for is handed to a provider only before its
\* deadline, and so before the end of every foreach around it.
DispatchedInTime ==
    [][(drain.at = None /\ drain'.at # None) =>
          /\ drain'.at.left > 0
          /\ WaitsForCall(drain'.at.run, drain'.at) =>
                \A i \in Frames(engine[drain'.at.run]) :
                    engine[drain'.at.run].stack[i].left > 0]_vars

\* The runs implement the ledger: each call and each task is consumed once, by
\* the run that waits for it, and an ended run stays ended.
Ledger == INSTANCE RunLedger WITH
    Id <- Task,
    standing <- [r \in Run |-> IF engine[r] = None THEN "new"
                               ELSE IF Live(r) THEN "open" ELSE engine[r].status],
    waitsFor <- [r \in Run |-> Active(r)],
    consumed <- done

ImplementsLedger == Ledger!Ledger

\* Every run ends: calls are answered or run into their deadlines, blocking tasks
\* are answered or expire, and retries, items and crashes are finite.
EveryRunEnds == \A r \in Run : [](Live(r) => <>(~Live(r)))
====
