---- MODULE WorkflowEngine ----
(***************************************************************************)
(* The deterministic workflow engine (packages/engine): pure transitions   *)
(* on the serialised state of one run.  A transition is driven until the   *)
(* run waits for a call or for assistance, or ends.                        *)
(*                                                                         *)
(* A plan is a function from step keys to steps; Plan[s].in is the foreach *)
(* whose body holds s, None at the top.  Values are abstracted: a decision *)
(* may take any branch, a list has any of ItemCounts many items or is not  *)
(* a valid list, and an output is the summary of a foreach or None.        *)
(*                                                                         *)
(* Deadlines are counted down.  A frame's left is the time to the end of   *)
(* its maxDurationMs, negative when it is over.                            *)
(***************************************************************************)
EXTENDS Integers, Sequences, FiniteSetsExt

CONSTANTS
    Plan,        \* the steps of the workflow
    Entry,       \* its first step
    ItemCounts,  \* how many items a foreach may find
    None

Settled == {"succeeded", "rejected", "failed", "cancelled", "uncertain"}

\* A state of the engine; steps counts the steps executed.  The fencing token of
\* a call starts at 1 with its first attempt and grows with it: attempt is both.
FirstState ==
    [status |-> "running", cursor |-> Entry, stack |-> << >>, active |-> None,
     out |-> None, steps |-> 0]

\* A transition under way: the state, the next unused id and the effects so far.
Transition(e, n) == [e |-> e, n |-> n, effects |-> {}]

\* The run goes on at step s, inside the given foreaches, with an output before it.
Onward(x, s, stack, out) ==
    [x EXCEPT !.e = [@ EXCEPT !.status = "running", !.active = None, !.cursor = s,
                              !.stack = stack, !.out = out]]

Goto(x, s) == Onward(x, s, x.e.stack, x.e.out)

Frames(e) == DOMAIN e.stack

FrameLefts(e) == {e.stack[i].left : i \in Frames(e)}

EarliestFrame(e) ==
    CHOOSE i \in Frames(e) :
        /\ e.stack[i].left = Min(FrameLefts(e))
        /\ \A j \in Frames(e) : e.stack[j].left = e.stack[i].left => i <= j

NotNegative(n) == IF n > 0 THEN n ELSE 0

\* Mutant: only the timeout of the attempt itself counts.
OwnTimeout(e, s, delay) == NotNegative(delay + s.timeout)

\* The deadline of an attempt: its own timeout, or an enclosing foreach's end.
AttemptLeft(e, s, delay) == NotNegative(Min({delay + s.timeout} \cup FrameLefts(e)))

\* One effect more, under the next id.
Emit(x, f) == [x EXCEPT !.n = @ + 1, !.effects = @ \cup {f}]

\* The run waits for the effect it emitted under id.
WaitFor(x, status, id, attempt) ==
    [x EXCEPT !.e = [@ EXCEPT !.status = status,
                              !.active = [id |-> id, attempt |-> attempt]]]

Schedule(x, attempt, delay) ==
    LET left == AttemptLeft(x.e, Plan[x.e.cursor], delay)
        f    == [kind |-> "invoke", id |-> x.n, attempt |-> attempt, wait |-> delay,
                 left |-> left]
    IN  WaitFor(Emit(x, f), "waiting_runtime", x.n, attempt)

Await(x) ==
    LET s == Plan[x.e.cursor]
        y == Emit(x, [kind |-> "task", id |-> x.n, human |-> s.human,
                      blocking |-> s.blocking, left |-> s.deadline])
    IN  IF s.blocking THEN WaitFor(y, "waiting_assistance", x.n, 1) ELSE Goto(y, s.next)

Settle(x, status) ==
    [x EXCEPT !.e.status = status, !.e.cursor = None, !.e.active = None]

----
(* A foreach keeps a frame: the item it is at and how the earlier ones ended. *)

NewFrame(key, count) ==
    [step |-> key, count |-> count, index |-> 0, left |-> Plan[key].duration,
     succeeded |-> 0, failed |-> 0, unresolved |-> 0]

\* History: a summary also tells the way its foreach was left.
Summary(frame, way) ==
    [total |-> frame.count, succeeded |-> frame.succeeded, failed |-> frame.failed,
     unresolved |-> frame.unresolved, by |-> way]

Route(s, way) == IF way = "completed" THEN s.completed ELSE s.stopped

\* Leave the i-th foreach by one of its routes, with the summary of its frame.
Leave(x, i, way, frame) ==
    Onward(x, Route(Plan[frame.step], way), SubSeq(x.e.stack, 1, i - 1),
           Summary(frame, way))

\* Leave a foreach by one of its routes without having entered it.
PassForeach(x, count, way) ==
    LET key == x.e.cursor
    IN  Onward(x, Route(Plan[key], way), x.e.stack, Summary(NewFrame(key, count), way))

\* Mutant: a list of any length is entered.
EnterForeachUnlimited(x, count) ==
    LET key == x.e.cursor IN
    IF count = 0
    THEN PassForeach(x, count, "completed")
    ELSE Onward(x, Plan[key].entry, Append(x.e.stack, NewFrame(key, count)), None)

\* The ways out of a step that finds its list.
EnterForeach(x, count) ==
    LET key == x.e.cursor
        s   == Plan[key]
    IN
    IF count > s.maxItems
    THEN PassForeach(x, count, "stopped")
    ELSE IF count = 0
    THEN PassForeach(x, count, "completed")
    ELSE Onward(x, s.entry, Append(x.e.stack, NewFrame(key, count)), None)

\* Mutant: the next item starts from the frame as it was before this one ended.
EndItemForgotten(x, status) ==
    LET i       == Len(x.e.stack)
        counted == [x.e.stack[i] EXCEPT ![status] = @ + 1]
        s       == Plan[counted.step]
    IN  IF (status = "failed" /\ s.stopOnError) \/ counted.left <= 0
        THEN Leave(x, i, "stopped", counted)
        ELSE IF counted.index + 1 < counted.count
        THEN Onward(x, s.entry,
                    [x.e.stack EXCEPT ![i] = [@ EXCEPT !.index = @ + 1]], None)
        ELSE Leave(x, i, "completed", counted)

\* The item of the innermost foreach ends.
EndItem(x, status) ==
    LET i       == Len(x.e.stack)
        counted == [x.e.stack[i] EXCEPT ![status] = @ + 1]
        s       == Plan[counted.step]
    IN  IF (status = "failed" /\ s.stopOnError) \/ counted.left <= 0
        THEN Leave(x, i, "stopped", counted)
        ELSE IF counted.index + 1 < counted.count
        THEN Onward(x, s.entry,
                    [x.e.stack EXCEPT ![i] = [counted EXCEPT !.index = @ + 1]], None)
        ELSE Leave(x, i, "completed", counted)

\* The foreach that is over first stops, without the item it was at.
StopForeach(x) ==
    LET i == EarliestFrame(x.e) IN Leave(x, i, "stopped", x.e.stack[i])

----
(* The bound the plan's validation computes before a run may start.           *)

Targets(s) ==
    CASE s.kind = "call"     -> {s.routes[r] : r \in DOMAIN s.routes}
      [] s.kind = "decision" -> s.targets
      [] s.kind = "foreach"  -> {s.completed, s.stopped}
      [] s.kind = "wait"     -> IF s.blocking THEN {s.routes[r] : r \in DOMAIN s.routes}
                                              ELSE {s.next}
      [] s.kind = "terminal" -> {}

CostOf[key \in DOMAIN Plan] ==
    LET s    == Plan[key]
        body == IF s.kind = "foreach" THEN s.maxItems * CostOf[s.entry] ELSE 0
    IN  1 + body + Max({0} \cup {CostOf[t] : t \in Targets(s)})

ExecutionCost == CostOf[Entry]

----
(* drive: execute steps until the run waits or ends.  Its loop is cut at the   *)
(* bound its plan was admitted with.                                           *)

Running(x) == x.e.status = "running"

\* One step: the transitions it can come to, over the values left open.
Step(x0) ==
    LET x == [x0 EXCEPT !.e.steps = @ + 1]
        s == Plan[x.e.cursor]
    IN
    CASE s.kind = "call"     -> {Schedule(x, 1, 0)}
      [] s.kind = "decision" -> {Goto(x, t) : t \in s.targets}
      [] s.kind = "foreach"  -> {Settle(x, "failed"), PassForeach(x, 0, "stopped")} \cup
                                {EnterForeach(x, n) : n \in ItemCounts}
      [] s.kind = "wait"     -> {Await(x)}
      [] s.kind = "terminal" ->
            IF x.e.stack = << >> \/ s.status \in {"rejected", "uncertain"}
            THEN {Settle(x, s.status)}
            ELSE {EndItem(x, s.status)}

Round(X) == UNION {IF Running(x) THEN Step(x) ELSE {x} : x \in X}

Drive(x) ==
    LET after[n \in Nat] == IF n = 0 THEN {x} ELSE Round(after[n - 1])
    IN  after[ExecutionCost]

Start(n) == Drive(Transition(FirstState, n))

----
(* What the engine accepts while it waits. *)

CallOutcome ==
    [status : {"succeeded", "rejected", "uncertain"}, retryable : {FALSE}] \cup
    [status : {"failed", "timed_out", "cancelled"}, retryable : BOOLEAN]

Retries(e, outcome) ==
    LET s == Plan[e.cursor] IN
    /\ outcome.retryable
    /\ outcome.status \in s.retryable
    /\ e.active.attempt < s.attempts

\* The retry would start when an enclosing foreach is over.
TooLate(e, delay) == e.stack # << >> /\ delay >= Min(FrameLefts(e))

\* Mutant: the retry keeps the id of the call that failed.
RetriedUnderOldId(x, delay) ==
    IF TooLate(x.e, delay)
    THEN Drive(StopForeach(x))
    ELSE {Schedule([x EXCEPT !.n = x.e.active.id], x.e.active.attempt + 1, delay)}

Retried(x, delay) ==
    IF TooLate(x.e, delay)
    THEN Drive(StopForeach(x))
    ELSE {Schedule(x, x.e.active.attempt + 1, delay)}

AcceptOutcome(e, n, outcome) ==
    LET x == Transition(e, n)
        s == Plan[e.cursor]
    IN  IF Retries(e, outcome)
        THEN UNION {Retried(x, delay) : delay \in s.delays}
        ELSE Drive(Onward(x, s.routes[outcome.status], e.stack,
                          IF outcome.status = "succeeded" THEN None ELSE e.out))

AcceptAssistance(e, n, status) ==
    Drive(Onward(Transition(e, n), Plan[e.cursor].routes[status], e.stack, None))

Cancelled(e) == Settle(Transition(e, 0), "cancelled").e

----
(* What a plan must be to be admitted (validateExecutionPlan): its steps lead to *)
(* steps of their own block, its limits are positive, and it has no cycle, so    *)
(* that the cost of a step exceeds that of every step it leads to.               *)

CallStatus == {"succeeded", "failed", "timed_out", "cancelled", "rejected", "uncertain"}

WaitStatus == {"resolved", "escalated", "expired"}

Body(s) == IF s.kind = "foreach" THEN s.maxItems * CostOf[s.entry] ELSE 0

FitsKind(key, s) ==
    CASE s.kind = "call"     -> /\ CallStatus \subseteq DOMAIN s.routes
                                /\ s.attempts \in Nat /\ s.timeout \in Nat \ {0}
                                /\ s.delays \subseteq Nat
      [] s.kind = "decision" -> TRUE
      [] s.kind = "foreach"  -> /\ s.entry \in DOMAIN Plan /\ Plan[s.entry].in = key
                                /\ s.maxItems \in Nat /\ s.duration \in Nat
      [] s.kind = "wait"     -> /\ s.human \in BOOLEAN /\ s.blocking \in BOOLEAN
                                /\ s.deadline \in Nat
                                /\ s.blocking => WaitStatus \subseteq DOMAIN s.routes
      [] s.kind = "terminal" ->
            \/ s.status \in {"succeeded", "failed", "rejected", "uncertain"}
            \/ s.status = "unresolved" /\ s.in # None
            \/ s.status = "cancelled" /\ s.in = None

FitsPlan(key, s) ==
    /\ s.kind \in {"call", "decision", "foreach", "wait", "terminal"}
    /\ FitsKind(key, s)
    /\ CostOf[key] \in Nat /\ CostOf[key] >= 1 + Body(s)
    /\ \A t \in Targets(s) :
          /\ t \in DOMAIN Plan /\ Plan[t].in = s.in
          /\ CostOf[key] >= 1 + Body(s) + CostOf[t]

Admitted ==
    /\ Entry \in DOMAIN Plan /\ Plan[Entry].in = None
    /\ None \notin DOMAIN Plan
    /\ ItemCounts \subseteq Nat
    /\ \A key \in DOMAIN Plan : FitsPlan(key, Plan[key])
====
