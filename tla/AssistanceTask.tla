---- MODULE AssistanceTask ----
(***************************************************************************)
(* Assistance tasks: the work a run hands to a person or to an AI reviewer *)
(* (packages/assistance-core, persistence-task-queue.ts).  A task is       *)
(* leased: a claim takes the next fencing token, every later request       *)
(* proves it, and an expired lease can be claimed by somebody else while   *)
(* its owner still works.  A request names its own id, reads the task,     *)
(* waits, and commits by compare-and-set on the revision it read; the same *)
(* request may be sent again, also while its first call is in progress.    *)
(*                                                                         *)
(* Time is counted down: left is the time to the task's deadline, lease    *)
(* the time to the expiry of its lease.                                    *)
(***************************************************************************)
EXTENDS Naturals, Sequences, FiniteSets

CONSTANTS
    Task,           \* task ids
    Worker,         \* owners of leases
    Human,          \* the workers that are people
    Call,           \* calls Core can have in progress at once
    MaxRequests,    \* bound on the requests workers send
    LeaseDuration,  \* the lease duration workers ask for
    None

Ops == {"claim", "start", "heartbeat", "release", "submit"}

ASSUME AssistanceAssumption ==
    /\ Human \subseteq Worker
    /\ MaxRequests \in Nat
    /\ LeaseDuration \in Nat \ {0}
    /\ None \notin Nat
    /\ None \notin Worker
    /\ None \notin Ops

VARIABLES
    task,      \* the table assistance_tasks
    request,   \* the requests sent so far, with what assistance_task_request_results holds
    call,      \* the calls in progress on Core's thread
    known,     \* the token each worker last received for each task
    granted,   \* history: the owners of each task's claims, in order
    resolver,  \* history: who completed each task, with which token
    applied    \* history: how often each request changed its task

taskVars == <<task, request, call, known, granted, resolver, applied>>

Leased   == {"claimed", "processing"}
Open     == {"queued"} \cup Leased
Final    == {"completed", "expired", "cancelled"}
Requests == 1..MaxRequests

NoTask == [status |-> "none", human |-> FALSE, blocking |-> FALSE, rev |-> 0,
           counter |-> 0, owner |-> None, lease |-> 0, left |-> 0]

NoRequest == [op |-> None, worker |-> None, task |-> None, token |-> 0, recorded |-> None]

AssistanceInit ==
    /\ task = [t \in Task |-> NoTask]
    /\ request = [k \in Requests |-> NoRequest]
    /\ call = [c \in Call |-> None]
    /\ known = [w \in Worker |-> [t \in Task |-> 0]]
    /\ granted = [t \in Task |-> << >>]
    /\ resolver = [t \in Task |-> [worker |-> None, token |-> 0]]
    /\ applied = [k \in Requests |-> 0]

----
(* The engine's transitions create and terminate tasks; they do not ask for a  *)
(* lease.                                                                      *)

NewTask(human, blocking, deadline) ==
    [NoTask EXCEPT !.status = "queued", !.human = human, !.blocking = blocking,
                   !.left = deadline]

Released(s) == [s EXCEPT !.status = "queued", !.rev = @ + 1, !.owner = None, !.lease = 0]

\* Nobody looks at the deadline of a final task.
Terminated(s, status) ==
    [s EXCEPT !.status = status, !.rev = @ + 1, !.owner = None, !.lease = 0, !.left = 0]

----
(* What a request does to the task it read. *)

Smaller(a, b) == IF a < b THEN a ELSE b

Claimable(s, w) ==
    /\ s.status \in Open
    /\ w \in Human \/ ~s.human
    /\ s.left > 0
    /\ s.status = "queued" \/ s.lease = 0

\* The proof of a lease names its owner and its token, and holds until the lease
\* or the task's deadline is over.
ValidLease(s, q) ==
    /\ s.status \in Leased
    /\ q.token = s.counter
    /\ q.worker = s.owner
    /\ s.lease > 0
    /\ s.left > 0

Legal(q, s) ==
    CASE q.op = "claim" -> Claimable(s, q.worker)
      [] q.op = "start" -> ValidLease(s, q) /\ s.status = "claimed"
      [] OTHER          -> ValidLease(s, q)

\* Mutant: a claim that keeps the token of the lease it replaces.
ClaimedWithOldToken(s, w) ==
    [s EXCEPT !.status = "claimed", !.rev = @ + 1, !.owner = w,
              !.counter = IF @ = 0 THEN 1 ELSE @,
              !.lease = Smaller(LeaseDuration, s.left)]

Claimed(s, w) ==
    [s EXCEPT !.status = "claimed", !.rev = @ + 1, !.counter = @ + 1, !.owner = w,
              !.lease = Smaller(LeaseDuration, s.left)]

After(q, s) ==
    CASE q.op = "claim"     -> Claimed(s, q.worker)
      [] q.op = "start"     -> [s EXCEPT !.status = "processing", !.rev = @ + 1]
      [] q.op = "heartbeat" -> [s EXCEPT !.rev = @ + 1,
                                         !.lease = Smaller(LeaseDuration, s.left)]
      [] q.op = "release"   -> Released(s)
      [] q.op = "submit"    -> Terminated(s, "completed")

----
(* Requests.  A worker proves the token it last received. *)

Sent == {k \in Requests : request[k].op # None}

Idle(c) == call[c] = None

Begins(c, k) ==
    call' = [call EXCEPT ![c] = [request |-> k, stage |-> "sent", seen |-> NoTask]]

Issue(c, k, w, t, op) ==
    /\ Idle(c) /\ k \notin Sent
    /\ k = 1 \/ k - 1 \in Sent
    /\ op = "claim" \/ known[w][t] > 0
    /\ request' = [request EXCEPT ![k] =
                     [op |-> op, worker |-> w, task |-> t,
                      token |-> IF op = "claim" THEN 0 ELSE known[w][t],
                      recorded |-> None]]
    /\ Begins(c, k)
    /\ UNCHANGED <<task, known, granted, resolver, applied>>

\* The same request again, with the same id: its answer was lost or is late.
Retry(c, k) ==
    /\ Idle(c) /\ k \in Sent
    /\ Begins(c, k)
    /\ UNCHANGED <<task, request, known, granted, resolver, applied>>

Ends(c) == call' = [call EXCEPT ![c] = None]

\* The answer carries the task as recorded for the request; it may get lost.
Replies(q, token) ==
    \/ /\ q.op = "claim"
       /\ known' = [known EXCEPT ![q.worker][q.task] = token]
    \/ UNCHANGED known

CallRequest(c) == request[call[c].request]

\* Mutant: the result of a request is not looked up.
NeverRecorded(c) == FALSE

\* assistance_task_request_results holds the request's result.
Recorded(c) == CallRequest(c).recorded # None

At(c, stage) == ~Idle(c) /\ call[c].stage = stage

\* A request that is known is answered from its record.
Look(c) ==
    /\ At(c, "sent")
    /\ IF Recorded(c)
       THEN Ends(c) /\ Replies(CallRequest(c), CallRequest(c).recorded)
       ELSE call' = [call EXCEPT ![c].stage = "new"] /\ UNCHANGED known
    /\ UNCHANGED <<task, request, granted, resolver, applied>>

\* The task is read, and what becomes of it is worked out from what was read.
Get(c) ==
    /\ At(c, "new")
    /\ LET s == task[CallRequest(c).task] IN
       IF s.status # "none" /\ Legal(CallRequest(c), s)
       THEN call' = [call EXCEPT ![c].stage = "read", ![c].seen = s]
       ELSE Ends(c)
    /\ UNCHANGED <<task, request, known, granted, resolver, applied>>

\* Mutant: the revision is not compared.
AlwaysFresh(c) == TRUE

\* The revision that was read is still the task's.
Fresh(c) == task[CallRequest(c).task].rev = call[c].seen.rev

Commits(c) == At(c, "read") /\ ~Recorded(c) /\ Fresh(c)

Result(c) == After(CallRequest(c), call[c].seen)

\* The compare-and-set looks for the result again, then compares the revision.
\* A duplicate, or a request that lost the race.
Refuse(c) ==
    /\ At(c, "read") /\ ~Commits(c)
    /\ Ends(c)
    /\ IF Recorded(c) THEN Replies(CallRequest(c), CallRequest(c).recorded)
                      ELSE UNCHANGED known
    /\ UNCHANGED <<task, request, granted, resolver, applied>>

\* The result of the request is recorded in the transaction that changes its task.
Record(c) ==
    LET k == call[c].request
        q == CallRequest(c)
    IN
    /\ request' = [request EXCEPT ![k].recorded = Result(c).counter]
    /\ applied' = [applied EXCEPT ![k] = @ + 1]
    /\ granted' = [granted EXCEPT ![q.task] =
                     IF q.op = "claim" THEN Append(@, q.worker) ELSE @]
    /\ resolver' = [resolver EXCEPT ![q.task] =
                      IF q.op = "submit" THEN [worker |-> q.worker, token |-> q.token]
                                         ELSE @]
    /\ Replies(q, Result(c).counter)
    /\ Ends(c)

Commit(c) ==
    /\ Commits(c)
    /\ task' = [task EXCEPT ![CallRequest(c).task] = Result(c)]
    /\ Record(c)

----
(* Calls only hop between microtasks of one thread: timers, and with them the  *)
(* passing of time, wait until no call is in progress.                         *)

Down(n) == IF n > 0 THEN n - 1 ELSE 0

CallsDone == \A c \in Call : Idle(c)

TasksAge ==
    /\ CallsDone
    /\ task' = [t \in Task |-> [task[t] EXCEPT !.lease = Down(@), !.left = Down(@)]]
    /\ UNCHANGED <<request, call, known, granted, resolver, applied>>

\* A crash of Core loses the calls in progress and keeps both tables.
CallsLost ==
    /\ call' = [c \in Call |-> None]
    /\ UNCHANGED <<task, request, known, granted, resolver, applied>>

----
(* The tasks on their own: the engine's transactions may create and terminate  *)
(* tasks at any time, also in the transaction that completes another task.     *)

RequestSteps(c) ==
    \/ \E k \in Requests, w \in Worker, t \in Task, op \in Ops : Issue(c, k, w, t, op)
    \/ \E k \in Requests : Retry(c, k)
    \/ Look(c)
    \/ Get(c)
    \/ Refuse(c)

EngineWrites(s, new) ==
    \/ new = s
    \/ /\ s.status = "none"
       /\ new.human \in BOOLEAN /\ new.blocking \in BOOLEAN /\ new.left \in Nat
       /\ new = NewTask(new.human, new.blocking, new.left)
    \/ /\ s.status \in Open
       /\ \E status \in {"expired", "cancelled"} : new = Terminated(s, status)

EngineTransaction ==
    /\ task' = [t \in Task |-> task'[t]]
    /\ \A t \in Task : EngineWrites(task[t], task'[t])
    /\ UNCHANGED <<request, call, known, granted, resolver, applied>>

CommitTransaction(c) ==
    /\ Commits(c)
    /\ task' = [t \in Task |-> task'[t]]
    /\ LET answered == CallRequest(c).task IN
       /\ task'[answered] = Result(c)
       /\ \A t \in Task \ {answered} : EngineWrites(task[t], task'[t])
    /\ Record(c)

AssistanceNext ==
    \/ EngineTransaction
    \/ \E c \in Call : RequestSteps(c) \/ CommitTransaction(c)
    \/ TasksAge
    \/ CallsLost

AssistanceSpec == AssistanceInit /\ [][AssistanceNext]_taskVars

----
TaskRecord ==
    [status : {"none"} \cup Open \cup Final, human : BOOLEAN, blocking : BOOLEAN,
     rev : Nat, counter : Nat, owner : Worker \cup {None}, lease : Nat, left : Nat]

RequestRecord ==
    [op : Ops \cup {None}, worker : Worker \cup {None}, task : Task \cup {None},
     token : Nat, recorded : Nat \cup {None}]

\* The types of the task tables, of the calls in progress and of the histories.
AssistanceTypeOK ==
    /\ task \in [Task -> TaskRecord]
    /\ request \in [Requests -> RequestRecord]
    /\ call \in [Call -> [request : Requests, stage : {"sent", "new", "read"},
                         seen : TaskRecord] \cup {None}]
    /\ known \in [Worker -> [Task -> Nat]]
    /\ granted \in [Task -> Seq(Worker)]
    /\ resolver \in [Task -> [worker : Worker \cup {None}, token : Nat]]
    /\ applied \in [Requests -> Nat]

\* A task is answered by the owner of its newest claim and by nobody else: an
\* owner whose lease expired and was claimed by another worker cannot complete
\* the task, however late its submission commits (validateLease).
FencedAnswer ==
    \A t \in Task : task[t].status = "completed" =>
        /\ resolver[t].token = Len(granted[t])
        /\ resolver[t].token > 0
        /\ resolver[t].worker = granted[t][resolver[t].token]

\* A request takes effect at most once, however often its worker sends it again,
\* also when two calls of the same request are in progress at once.
AppliedOnce == \A k \in Requests : applied[k] <= 1

\* A lease is taken over only when it is over: while it lasts, another worker
\* becomes the owner only after the owner released the task, whatever the order
\* in which their requests read and commit (claimAssistanceTask and the revision).
NoTakeover ==
    [][\A t \in Task :
          (/\ task[t].status \in Leased
           /\ task[t].lease > 0
           /\ task'[t].status \in Leased)
          => task'[t].owner = task[t].owner /\ task'[t].counter = task[t].counter]_taskVars
====
