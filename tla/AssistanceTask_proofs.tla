---- MODULE AssistanceTask_proofs ----
(***************************************************************************)
(* Theorems about AssistanceTask, for all tasks, workers, calls, bounds on *)
(* the requests and lease durations.                                       *)
(***************************************************************************)
EXTENDS AssistanceTask, TLAPS

(* The inductive invariant: the counter of a task numbers its claims, the      *)
(* owner of a lease made the last of them, and a call that read a task either  *)
(* still has it before it or will see that its revision has passed.            *)

Answered(t) ==
    task[t].status = "completed" =>
        /\ resolver[t].token = Len(granted[t])
        /\ resolver[t].token > 0
        /\ resolver[t].worker = granted[t][resolver[t].token]

TaskGood(t) ==
    /\ task[t].counter = Len(granted[t])
    /\ task[t].status = "none" => task[t].counter = 0
    /\ task[t].status \in Leased =>
          task[t].counter > 0 /\ task[t].owner = granted[t][task[t].counter]
    /\ Answered(t)

RequestGood(k) ==
    /\ applied[k] = IF request[k].recorded = None THEN 0 ELSE 1
    /\ k \in Sent => request[k].worker \in Worker /\ request[k].task \in Task
    /\ k \notin Sent => request[k].recorded = None

SeenGood(q, s) ==
    /\ Legal(q, s)
    /\ s.status # "none"
    /\ task[q.task].status # "none"
    /\ s.rev <= task[q.task].rev
    /\ s.rev = task[q.task].rev => s = task[q.task]

CallGood(c) ==
    ~Idle(c) =>
        /\ call[c].request \in Sent
        /\ call[c].stage = "read" => SeenGood(CallRequest(c), call[c].seen)

IInv ==
    /\ AssistanceTypeOK
    /\ \A t \in Task : TaskGood(t)
    /\ \A k \in Requests : RequestGood(k)
    /\ \A c \in Call : CallGood(c)

----
(* What the helpers return. *)

LEMMA SmallerNat == \A a, b \in Nat : Smaller(a, b) \in Nat
  BY DEF Smaller

LEMMA NoTaskType == NoTask \in TaskRecord
  BY DEF NoTask, TaskRecord, Open, Leased, Final

LEMMA StatusValues ==
  /\ Leased = {"claimed", "processing"}
  /\ \A status \in {"queued", "claimed", "processing", "completed", "expired", "cancelled"} :
        status \in {"none"} \cup Open \cup Final
  BY DEF Leased, Open, Final

\* What a legal request makes of a task: the next revision, never a task that does
\* not exist, and a new token only with a claim.
LEMMA AfterRecord ==
  ASSUME NEW s \in TaskRecord, NEW q \in RequestRecord,
         q.op \in Ops, q.worker \in Worker, Legal(q, s)
  PROVE  /\ After(q, s) \in TaskRecord
         /\ After(q, s).rev = s.rev + 1
         /\ After(q, s).status # "none"
         /\ After(q, s).counter = IF q.op = "claim" THEN s.counter + 1 ELSE s.counter
         /\ After(q, s).status \in Leased =>
               IF q.op = "claim" THEN After(q, s).owner = q.worker
                                 ELSE s.status \in Leased /\ After(q, s).owner = s.owner
         /\ After(q, s).status = "completed" <=> q.op = "submit"
<1> DEFINE n == Smaller(LeaseDuration, s.left)
<1>a. s.rev \in Nat /\ s.counter \in Nat /\ s.left \in Nat
  BY DEF TaskRecord
<1>b. n \in Nat
  BY <1>a, AssistanceAssumption, SmallerNat
<1>1. n \in Nat /\ s.rev + 1 \in Nat /\ s.counter + 1 \in Nat
  BY <1>a, <1>b
<1> HIDE DEF n
<1>2. CASE q.op = "claim"
  <2>1. After(q, s) = [s EXCEPT !.status = "claimed", !.rev = s.rev + 1,
                                !.counter = s.counter + 1, !.owner = q.worker, !.lease = n]
    BY <1>2 DEF After, Claimed, n
  <2>2. After(q, s) \in TaskRecord
    BY <1>1, <2>1, StatusValues DEF TaskRecord
  <2> QED BY <1>2, <2>1, <2>2, StatusValues DEF TaskRecord
<1>3. CASE q.op # "claim"
  <2>1. s.status \in Leased
    BY <1>3 DEF Legal, ValidLease
  <2>2. CASE q.op = "start"
    <3>1. After(q, s) = [s EXCEPT !.status = "processing", !.rev = s.rev + 1]
      BY <2>2 DEF After
    <3>2. After(q, s) \in TaskRecord
      BY <1>1, <3>1, StatusValues DEF TaskRecord
    <3> QED BY <2>1, <2>2, <3>1, <3>2, StatusValues DEF TaskRecord
  <2>3. CASE q.op = "heartbeat"
    <3>1. After(q, s) = [s EXCEPT !.rev = s.rev + 1, !.lease = n]
      BY <2>3 DEF After, n
    <3>2. After(q, s) \in TaskRecord
      BY <1>1, <3>1 DEF TaskRecord
    <3> QED BY <2>1, <2>3, <3>1, <3>2, StatusValues DEF TaskRecord
  <2>4. CASE q.op = "release"
    <3>1. After(q, s) = [s EXCEPT !.status = "queued", !.rev = s.rev + 1,
                                  !.owner = None, !.lease = 0]
      BY <2>4 DEF After, Released
    <3>2. After(q, s) \in TaskRecord
      BY <1>1, <3>1, StatusValues, None \in Worker \cup {None}, 0 \in Nat DEF TaskRecord
    <3> QED BY <2>1, <2>4, <3>1, <3>2, StatusValues DEF TaskRecord
  <2>5. CASE q.op = "submit"
    <3>1. After(q, s) = [s EXCEPT !.status = "completed", !.rev = s.rev + 1,
                                  !.owner = None, !.lease = 0, !.left = 0]
      BY <2>5 DEF After, Terminated
    <3>2. After(q, s) \in TaskRecord
      BY <1>1, <3>1, StatusValues, None \in Worker \cup {None}, 0 \in Nat DEF TaskRecord
    <3> QED BY <2>1, <2>5, <3>1, <3>2, StatusValues DEF TaskRecord
  <2> QED BY <1>3, <2>2, <2>3, <2>4, <2>5 DEF Ops
<1> QED BY <1>2, <1>3

\* What the engine's transactions make of a task.
LEMMA EngineWritesRecord ==
  ASSUME NEW s \in TaskRecord, NEW new, EngineWrites(s, new)
  PROVE  /\ new \in TaskRecord
         /\ new = s \/ s.status = "none" \/ new.rev = s.rev + 1
         /\ new.status = "none" => new = s
         /\ new.counter = s.counter \/ (s.status = "none" /\ new.counter = 0)
         /\ new.status \in Leased \cup {"completed"} => new = s
<1>1. CASE new = s
  BY <1>1
<1>2. CASE s.status = "none" /\ new = NewTask(new.human, new.blocking, new.left)
           /\ new.human \in BOOLEAN /\ new.blocking \in BOOLEAN /\ new.left \in Nat
  <2>1. new = [NoTask EXCEPT !.status = "queued", !.human = new.human,
                             !.blocking = new.blocking, !.left = new.left]
    BY <1>2 DEF NewTask
  <2>2. new \in TaskRecord
    BY <1>2, <2>1, NoTaskType, StatusValues DEF TaskRecord
  <2> QED BY <1>2, <2>1, <2>2, NoTaskType, StatusValues DEF NoTask, TaskRecord
<1>3. CASE s.status \in Open /\ \E status \in {"expired", "cancelled"} :
                                  new = Terminated(s, status)
  <2>1. PICK status \in {"expired", "cancelled"} :
           new = [s EXCEPT !.status = status, !.rev = s.rev + 1,
                           !.owner = None, !.lease = 0, !.left = 0]
    BY <1>3 DEF Terminated
  <2>2. s.rev + 1 \in Nat
    BY DEF TaskRecord
  <2>3. new \in TaskRecord
    BY <2>1, <2>2, StatusValues, None \in Worker \cup {None}, 0 \in Nat DEF TaskRecord
  <2> QED BY <1>3, <2>3, <2>1, <2>2, StatusValues DEF TaskRecord
<1> QED BY <1>1, <1>2, <1>3 DEF EngineWrites

\* Legality does not depend on whether the request is recorded.
LEMMA LegalTerms ==
  ASSUME NEW q, NEW p, NEW s, q.op = p.op, q.worker = p.worker, q.token = p.token,
         Legal(q, s)
  PROVE  Legal(p, s)
  BY DEF Legal, ValidLease

\* What a call read stays good while its task stays as it was or moves on.
LEMMA SeenKept ==
  ASSUME NEW q, NEW s, SeenGood(q, s), q.task \in Task,
         s.rev \in Nat, task[q.task].rev \in Nat,
         task'[q.task] = task[q.task]
           \/ (task'[q.task].rev = task[q.task].rev + 1 /\ task'[q.task].status # "none")
  PROVE  SeenGood(q, s)'
  BY DEF SeenGood

----
(* The initial state and the steps. *)

LEMMA InitIInv == AssistanceInit => IInv
<1> SUFFICES ASSUME AssistanceInit PROVE IInv
  OBVIOUS
<1>1. AssistanceTypeOK
  <2>1. NoRequest \in RequestRecord
    BY DEF NoRequest, RequestRecord
  <2> QED BY <2>1, NoTaskType DEF AssistanceInit, AssistanceTypeOK
<1>2. \A t \in Task : TaskGood(t)
  BY DEF AssistanceInit, NoTask, TaskGood, Answered, Leased
<1>3. \A k \in Requests : RequestGood(k)
  BY DEF AssistanceInit, NoRequest, RequestGood, Sent
<1>4. \A c \in Call : CallGood(c)
  BY DEF AssistanceInit, CallGood, Idle
<1> QED BY <1>1, <1>2, <1>3, <1>4 DEF IInv

\* What IInv says of a call in progress.
LEMMA CallFacts ==
  ASSUME IInv, NEW c \in Call, ~Idle(c)
  PROVE  /\ call[c].request \in Sent /\ Sent \subseteq Requests
         /\ CallRequest(c) \in RequestRecord
         /\ CallRequest(c).op \in Ops
         /\ CallRequest(c).worker \in Worker
         /\ CallRequest(c).task \in Task
         /\ CallRequest(c).token \in Nat
         /\ call[c].seen \in TaskRecord
<1>1. call[c].request \in Sent /\ Sent \subseteq Requests /\ call[c].seen \in TaskRecord
  BY DEF IInv, CallGood, Sent, AssistanceTypeOK, Idle
<1>2. CallRequest(c) \in RequestRecord
  BY <1>1 DEF IInv, AssistanceTypeOK, CallRequest
<1> QED BY <1>1, <1>2 DEF IInv, RequestGood, Sent, CallRequest, RequestRecord

\* A step that leaves the tables and the histories alone, and leaves every call as
\* it was, ended, or at an earlier stage than read.
LEMMA CallsOnly ==
  ASSUME IInv, UNCHANGED <<task, request, granted, resolver, applied>>,
         AssistanceTypeOK',
         \A c \in Call : call'[c] = call[c] \/ call'[c] = None
                         \/ (call'[c].request \in Sent /\ call'[c].stage # "read")
  PROVE  IInv'
<1>1. \A t \in Task : TaskGood(t)'
  BY DEF IInv, TaskGood, Answered
<1>2. \A k \in Requests : RequestGood(k)'
  BY DEF IInv, RequestGood, Sent
<1>3. ASSUME NEW c \in Call PROVE CallGood(c)'
  <2>1. Sent' = Sent
    BY DEF Sent
  <2>2. CASE call'[c] = call[c]
    BY <2>1, <2>2 DEF IInv, CallGood, Idle, CallRequest, SeenGood
  <2>3. CASE call'[c] = None
    BY <2>3 DEF CallGood, Idle
  <2>4. CASE call'[c].request \in Sent /\ call'[c].stage # "read"
    BY <2>1, <2>4 DEF CallGood
  <2> QED BY <2>2, <2>3, <2>4
<1> QED BY <1>1, <1>2, <1>3 DEF IInv

LEMMA ReplyType ==
  ASSUME IInv, NEW c \in Call, ~Idle(c), NEW token \in Nat,
         Replies(CallRequest(c), token)
  PROVE  known' \in [Worker -> [Task -> Nat]]
<1> DEFINE q == CallRequest(c)
<1>1. q.worker \in Worker /\ q.task \in Task
  BY CallFacts
<1>2. known \in [Worker -> [Task -> Nat]]
  BY DEF IInv, AssistanceTypeOK
<1> HIDE DEF q
<1>3. known' = known \/ known' = [known EXCEPT ![q.worker][q.task] = token]
  BY DEF Replies, q
<1> QED BY <1>1, <1>2, <1>3

LEMMA IssueStep ==
  ASSUME IInv, NEW c \in Call, NEW k \in Requests, NEW w \in Worker, NEW t \in Task,
         NEW op \in Ops, Issue(c, k, w, t, op)
  PROVE  IInv'
<1> DEFINE q == [op |-> op, worker |-> w, task |-> t,
                 token |-> IF op = "claim" THEN 0 ELSE known[w][t], recorded |-> None]
<1>1. q \in RequestRecord
  BY DEF IInv, AssistanceTypeOK, RequestRecord
<1>2. request' = [request EXCEPT ![k] = q]
  BY DEF Issue
<1>3. Sent' = Sent \cup {k}
  BY <1>2, AssistanceAssumption DEF Sent, IInv, AssistanceTypeOK
<1>4. AssistanceTypeOK'
  <2>1. call' \in [Call -> [request : Requests, stage : {"sent", "new", "read"},
                            seen : TaskRecord] \cup {None}]
    BY NoTaskType DEF Issue, Begins, IInv, AssistanceTypeOK
  <2>2. request' \in [Requests -> RequestRecord]
    BY <1>1, <1>2 DEF IInv, AssistanceTypeOK
  <2> QED BY <2>1, <2>2 DEF Issue, IInv, AssistanceTypeOK
<1>5. ASSUME NEW u \in Task PROVE TaskGood(u)'
  BY DEF Issue, IInv, TaskGood, Answered
<1>6. ASSUME NEW j \in Requests PROVE RequestGood(j)'
  <2>1. CASE j = k
    <3>1. request'[k] = q /\ applied'[k] = applied[k]
      BY <1>2 DEF Issue, IInv, AssistanceTypeOK
    <3>2. applied[k] = 0
      BY DEF Issue, IInv, RequestGood
    <3> QED BY <1>3, <2>1, <3>1, <3>2 DEF RequestGood
  <2>2. CASE j # k
    BY <1>2, <1>3, <2>2 DEF Issue, IInv, RequestGood, AssistanceTypeOK
  <2> QED BY <2>1, <2>2
<1>7. ASSUME NEW d \in Call PROVE CallGood(d)'
  <2>1. CASE d = c
    BY <1>3, <2>1 DEF Issue, Begins, CallGood, IInv, AssistanceTypeOK
  <2>2. CASE d # c
    <3>1. call'[d] = call[d]
      BY <2>2 DEF Issue, Begins, IInv, AssistanceTypeOK
    <3>2. CASE Idle(d)
      BY <3>1, <3>2 DEF CallGood, Idle
    <3>3. CASE ~Idle(d)
      <4>1. request'[call[d].request] = request[call[d].request]
        BY <1>2, <3>3, CallFacts DEF Issue, IInv, AssistanceTypeOK
      <4>2. CallRequest(d)' = CallRequest(d)
        BY <3>1, <4>1 DEF CallRequest
      <4> QED BY <1>3, <3>1, <3>3, <4>2 DEF Issue, IInv, CallGood, SeenGood
    <3> QED BY <3>2, <3>3
  <2> QED BY <2>1, <2>2
<1> QED BY <1>4, <1>5, <1>6, <1>7 DEF IInv

LEMMA RetryStep ==
  ASSUME IInv, NEW c \in Call, NEW k \in Requests, Retry(c, k)
  PROVE  IInv'
<1>1. AssistanceTypeOK'
  BY NoTaskType DEF Retry, Begins, IInv, AssistanceTypeOK
<1>2. \A d \in Call : call'[d] = call[d]
                      \/ (call'[d].request \in Sent /\ call'[d].stage # "read")
  BY DEF Retry, Begins, IInv, AssistanceTypeOK
<1> QED BY <1>1, <1>2, CallsOnly DEF Retry

LEMMA LookStep ==
  ASSUME IInv, NEW c \in Call, Look(c)
  PROVE  IInv'
<1>0. ~Idle(c)
  BY DEF Look, At
<1>1. CASE Recorded(c)
  <2>1. CallRequest(c).recorded \in Nat
    BY <1>0, <1>1, CallFacts DEF Recorded, RequestRecord
  <2>2. known' \in [Worker -> [Task -> Nat]]
    BY <1>0, <1>1, <2>1, ReplyType DEF Look
  <2>3. AssistanceTypeOK'
    BY <1>1, <2>2 DEF Look, Ends, IInv, AssistanceTypeOK
  <2>4. \A d \in Call : call'[d] = call[d] \/ call'[d] = None
    BY <1>1 DEF Look, Ends, IInv, AssistanceTypeOK
  <2> QED BY <2>3, <2>4, CallsOnly DEF Look
<1>2. CASE ~Recorded(c)
  <2> DEFINE new == [call[c] EXCEPT !.stage = "new"]
  <2>1. call' = [call EXCEPT ![c] = new]
    BY <1>2 DEF Look
  <2>2. call[c] \in [request : Requests, stage : {"sent", "new", "read"},
                     seen : TaskRecord]
    BY <1>0 DEF IInv, AssistanceTypeOK, Idle
  <2>3. /\ new \in [request : Requests, stage : {"sent", "new", "read"}, seen : TaskRecord]
        /\ new.stage # "read" /\ new.request = call[c].request
    BY <2>2
  <2> HIDE DEF new
  <2>4. AssistanceTypeOK'
    BY <1>2, <2>1, <2>3 DEF Look, IInv, AssistanceTypeOK
  <2>5. \A d \in Call : call'[d] = call[d]
                        \/ (call'[d].request \in Sent /\ call'[d].stage # "read")
    BY <1>0, <2>1, <2>3, CallFacts DEF IInv, AssistanceTypeOK
  <2> QED BY <2>4, <2>5, CallsOnly, <1>2 DEF Look
<1> QED BY <1>1, <1>2

LEMMA RefuseStep ==
  ASSUME IInv, NEW c \in Call, Refuse(c)
  PROVE  IInv'
<1>0. ~Idle(c)
  BY DEF Refuse, At
<1>1. known' \in [Worker -> [Task -> Nat]]
  <2>1. CASE Recorded(c)
    <3>1. CallRequest(c).recorded \in Nat
      BY <1>0, <2>1, CallFacts DEF Recorded, RequestRecord
    <3> QED BY <1>0, <2>1, <3>1, ReplyType DEF Refuse
  <2>2. CASE ~Recorded(c)
    BY <2>2 DEF Refuse, IInv, AssistanceTypeOK
  <2> QED BY <2>1, <2>2
<1>2. AssistanceTypeOK'
  BY <1>1 DEF Refuse, Ends, IInv, AssistanceTypeOK
<1>3. \A d \in Call : call'[d] = call[d] \/ call'[d] = None
  BY DEF Refuse, Ends, IInv, AssistanceTypeOK
<1> QED BY <1>2, <1>3, CallsOnly DEF Refuse

LEMMA GetStep ==
  ASSUME IInv, NEW c \in Call, Get(c)
  PROVE  IInv'
<1> DEFINE q == CallRequest(c)
           s == task[q.task]
           new == [call[c] EXCEPT !.stage = "read", !.seen = s]
<1>0. ~Idle(c) /\ q.task \in Task /\ s \in TaskRecord
  BY CallFacts DEF Get, At, IInv, AssistanceTypeOK
<1>1. CASE s.status # "none" /\ Legal(q, s)
  <2>1. call' = [call EXCEPT ![c] = new]
    BY <1>1 DEF Get
  <2>2. call[c] \in [request : Requests, stage : {"sent", "new", "read"},
                     seen : TaskRecord]
    BY <1>0 DEF IInv, AssistanceTypeOK, Idle
  <2>3. /\ new \in [request : Requests, stage : {"sent", "new", "read"}, seen : TaskRecord]
        /\ new.request = call[c].request /\ new.seen = s
    BY <1>0, <2>2
  <2>4. SeenGood(q, s)
    BY <1>0, <1>1 DEF SeenGood, TaskRecord
  <2> HIDE DEF new
  <2>5. AssistanceTypeOK'
    BY <2>1, <2>3 DEF Get, IInv, AssistanceTypeOK
  <2>6. ASSUME NEW d \in Call PROVE CallGood(d)'
    <3>1. Sent' = Sent /\ UNCHANGED <<task, request>>
      BY DEF Get, Sent
    <3>2. CASE d # c
      <4>1. call'[d] = call[d]
        BY <2>1, <3>2 DEF IInv, AssistanceTypeOK
      <4> QED BY <3>1, <4>1 DEF IInv, CallGood, Idle, CallRequest, SeenGood
    <3>3. CASE d = c
      <4>1. call'[c] = new
        BY <2>1 DEF IInv, AssistanceTypeOK
      <4>2. CallRequest(c)' = q
        BY <2>3, <3>1, <4>1 DEF CallRequest
      <4>3. call[c].request \in Sent
        BY <1>0, CallFacts
      <4>4. PICK p, r : p = q /\ r = s
        OBVIOUS
      <4>5. SeenGood(p, r)'
        BY <2>4, <3>1, <4>4 DEF SeenGood
      <4>6. CallRequest(c)' = p /\ call'[c].seen = r /\ call'[c].request \in Sent'
        BY <2>3, <3>1, <4>1, <4>2, <4>3, <4>4
      <4> HIDE DEF q, s
      <4> QED BY <3>3, <4>5, <4>6 DEF CallGood
    <3> QED BY <3>2, <3>3
  <2>7. \A t \in Task : TaskGood(t)'
    BY DEF Get, IInv, TaskGood, Answered
  <2>8. \A k \in Requests : RequestGood(k)'
    BY DEF Get, IInv, RequestGood, Sent
  <2> QED BY <2>5, <2>6, <2>7, <2>8 DEF IInv
<1>2. CASE ~(s.status # "none" /\ Legal(q, s))
  <2>1. call' = [call EXCEPT ![c] = None]
    BY <1>2 DEF Get, Ends
  <2>2. AssistanceTypeOK'
    BY <2>1 DEF Get, IInv, AssistanceTypeOK
  <2>3. \A d \in Call : call'[d] = call[d] \/ call'[d] = None
    BY <2>1 DEF IInv, AssistanceTypeOK
  <2> QED BY <2>2, <2>3, CallsOnly DEF Get
<1> QED BY <1>1, <1>2

LEMMA EngineStep ==
  ASSUME IInv, EngineTransaction
  PROVE  IInv'
<1>1. ASSUME NEW t \in Task
      PROVE  /\ task'[t] \in TaskRecord
             /\ task'[t] = task[t] \/ task[t].status = "none" \/ task'[t].rev = task[t].rev + 1
             /\ task'[t].status = "none" => task'[t] = task[t]
             /\ task'[t].counter = task[t].counter
                  \/ (task[t].status = "none" /\ task'[t].counter = 0)
             /\ task'[t].status \in Leased \cup {"completed"} => task'[t] = task[t]
  BY EngineWritesRecord DEF EngineTransaction, IInv, AssistanceTypeOK
<1>2. AssistanceTypeOK'
  <2>1. task' \in [Task -> TaskRecord]
    BY <1>1 DEF EngineTransaction
  <2> QED BY <2>1 DEF EngineTransaction, IInv, AssistanceTypeOK
<1>3. ASSUME NEW t \in Task PROVE TaskGood(t)'
  <2>1. TaskGood(t) /\ UNCHANGED <<granted, resolver>>
    BY DEF IInv, EngineTransaction
  <2>2. task'[t].counter = task[t].counter
    BY <1>1, <2>1 DEF TaskGood
  <2> QED BY <1>1, <2>1, <2>2 DEF TaskGood, Answered
<1>4. \A k \in Requests : RequestGood(k)'
  BY DEF EngineTransaction, IInv, RequestGood, Sent
<1>5. ASSUME NEW c \in Call PROVE CallGood(c)'
  <2>1. UNCHANGED <<request, call>> /\ Sent' = Sent
    BY DEF EngineTransaction, Sent
  <2>2. CASE ~Idle(c) /\ call[c].stage = "read"
    <3>0. PICK q, s : q = CallRequest(c) /\ s = call[c].seen
      OBVIOUS
    <3>1. SeenGood(q, s) /\ q.task \in Task /\ s \in TaskRecord
      BY <2>2, <3>0, CallFacts DEF IInv, CallGood
    <3>2. task[q.task].status # "none"
      BY <3>1 DEF SeenGood
    <3>3. task'[q.task] = task[q.task]
          \/ (task'[q.task].rev = task[q.task].rev + 1 /\ task'[q.task].status # "none")
      BY <1>1, <3>1, <3>2
    <3>4. s.rev \in Nat /\ task[q.task].rev \in Nat
      BY <3>1 DEF IInv, AssistanceTypeOK, TaskRecord
    <3>5. SeenGood(q, s)'
      BY <3>1, <3>3, <3>4, SeenKept
    <3>6. CallRequest(c)' = q /\ call'[c] = call[c] /\ call[c].seen = s
      BY <2>1, <3>0 DEF CallRequest
    <3> QED BY <2>1, <2>2, <3>5, <3>6 DEF IInv, CallGood
  <2>3. CASE ~(~Idle(c) /\ call[c].stage = "read")
    BY <2>1, <2>3 DEF IInv, CallGood, Idle
  <2> QED BY <2>2, <2>3
<1> QED BY <1>2, <1>3, <1>4, <1>5 DEF IInv

LEMMA AgeStep ==
  ASSUME IInv, TasksAge
  PROVE  IInv'
<1>1. ASSUME NEW n \in Nat PROVE Down(n) \in Nat
  BY DEF Down
<1>2. ASSUME NEW t \in Task
      PROVE  /\ task'[t] \in TaskRecord
             /\ task'[t].status = task[t].status
             /\ task'[t].counter = task[t].counter
             /\ task'[t].owner = task[t].owner
  <2>1. task[t] \in TaskRecord
    BY DEF IInv, AssistanceTypeOK
  <2>2. task'[t] = [task[t] EXCEPT !.lease = Down(task[t].lease), !.left = Down(task[t].left)]
    BY DEF TasksAge
  <2>3. Down(task[t].lease) \in Nat /\ Down(task[t].left) \in Nat
    BY <1>1, <2>1 DEF TaskRecord
  <2> QED BY <2>1, <2>2, <2>3 DEF TaskRecord
<1>3. AssistanceTypeOK'
  <2>1. task' \in [Task -> TaskRecord]
    BY <1>2 DEF TasksAge
  <2> QED BY <2>1 DEF TasksAge, IInv, AssistanceTypeOK
<1>4. \A t \in Task : TaskGood(t)'
  BY <1>2 DEF TasksAge, IInv, TaskGood, Answered
<1>5. \A k \in Requests : RequestGood(k)'
  BY DEF TasksAge, IInv, RequestGood, Sent
<1>6. \A c \in Call : CallGood(c)'
  BY DEF TasksAge, CallsDone, Idle, CallGood
<1> QED BY <1>3, <1>4, <1>5, <1>6 DEF IInv

LEMMA LostStep ==
  ASSUME IInv, CallsLost
  PROVE  IInv'
<1>1. AssistanceTypeOK' /\ \A c \in Call : call'[c] = None
  BY DEF CallsLost, IInv, AssistanceTypeOK
<1> QED BY <1>1, CallsOnly DEF CallsLost

----
(* The transaction that answers a request. *)

\* What a call that commits works on: the task as it is, and a new record of it.
LEMMA CommitFacts ==
  ASSUME IInv, NEW c \in Call, Commits(c)
  PROVE  /\ ~Idle(c) /\ call[c].request \in Sent /\ Sent \subseteq Requests
         /\ CallRequest(c).recorded = None
         /\ call[c].seen = task[CallRequest(c).task]
         /\ Legal(CallRequest(c), task[CallRequest(c).task])
         /\ task[CallRequest(c).task].status # "none"
<1>1. ~Idle(c) /\ call[c].stage = "read"
  BY DEF Commits, At
<1>2. SeenGood(CallRequest(c), call[c].seen) /\ call[c].request \in Sent
  BY <1>1 DEF IInv, CallGood
<1>3. call[c].seen = task[CallRequest(c).task]
  BY <1>2 DEF SeenGood, Commits, Fresh
<1> QED BY <1>1, <1>2, <1>3 DEF SeenGood, Commits, Recorded, Sent

LEMMA CommitStep ==
  ASSUME IInv, NEW c \in Call, CommitTransaction(c)
  PROVE  IInv'
<1>0. PICK k, q, s, r : k = call[c].request /\ q = CallRequest(c)
                        /\ s = task[q.task] /\ r = After(q, s)
  OBVIOUS
<1>1. /\ q \in RequestRecord /\ q.op \in Ops /\ q.worker \in Worker
      /\ q.task \in Task /\ q.token \in Nat
  BY <1>0, CommitFacts, CallFacts DEF CommitTransaction
<1>2. /\ ~Idle(c) /\ k \in Sent /\ k \in Requests /\ q = request[k]
      /\ q.recorded = None /\ Legal(q, s) /\ s.status # "none"
  BY <1>0, CommitFacts DEF CommitTransaction, CallRequest
<1>3. Result(c) = r
  BY <1>0, CommitFacts DEF CommitTransaction, Result
<1>4. s \in TaskRecord
  BY <1>0, <1>1 DEF IInv, AssistanceTypeOK
<1>5. /\ r \in TaskRecord /\ r.rev = s.rev + 1 /\ r.status # "none"
      /\ r.counter = IF q.op = "claim" THEN s.counter + 1 ELSE s.counter
      /\ r.status \in Leased =>
            IF q.op = "claim" THEN r.owner = q.worker
                              ELSE s.status \in Leased /\ r.owner = s.owner
      /\ r.status = "completed" <=> q.op = "submit"
  BY <1>0, <1>1, <1>2, <1>4, AfterRecord
<1>6. task'[q.task] = r
  BY <1>0, <1>3 DEF CommitTransaction
<1>7. ASSUME NEW t \in Task \ {q.task}
      PROVE  /\ task'[t] \in TaskRecord
             /\ task'[t] = task[t] \/ task[t].status = "none" \/ task'[t].rev = task[t].rev + 1
             /\ task'[t].status = "none" => task'[t] = task[t]
             /\ task'[t].counter = task[t].counter
                  \/ (task[t].status = "none" /\ task'[t].counter = 0)
             /\ task'[t].status \in Leased \cup {"completed"} => task'[t] = task[t]
  BY <1>0, EngineWritesRecord DEF CommitTransaction, IInv, AssistanceTypeOK
<1>8. /\ request' = [request EXCEPT ![k].recorded = r.counter]
      /\ applied' = [applied EXCEPT ![k] = @ + 1]
      /\ granted' = [granted EXCEPT ![q.task] =
                       IF q.op = "claim" THEN Append(@, q.worker) ELSE @]
      /\ resolver' = [resolver EXCEPT ![q.task] =
                        IF q.op = "submit" THEN [worker |-> q.worker, token |-> q.token]
                                           ELSE @]
      /\ Replies(q, r.counter)
      /\ call' = [call EXCEPT ![c] = None]
  BY <1>0, <1>3 DEF CommitTransaction, Record, Ends
<1>9. r.counter \in Nat /\ r.counter # None
  BY <1>5, AssistanceAssumption DEF TaskRecord
<1>10. /\ request' \in [Requests -> RequestRecord] /\ Sent' = Sent
       /\ \A j \in Requests : /\ request'[j].op = request[j].op
                              /\ request'[j].worker = request[j].worker
                              /\ request'[j].task = request[j].task
                              /\ request'[j].token = request[j].token
                              /\ j # k => request'[j] = request[j]
       /\ request'[k].recorded = r.counter
  <2> DEFINE p == [q EXCEPT !.recorded = r.counter]
  <2>1. request' = [request EXCEPT ![k] = p]
    BY <1>2, <1>8
  <2>2. /\ p \in RequestRecord /\ p.op = q.op /\ p.worker = q.worker
        /\ p.task = q.task /\ p.token = q.token /\ p.recorded = r.counter
    BY <1>1, <1>9 DEF RequestRecord
  <2>3. request \in [Requests -> RequestRecord]
    BY DEF IInv, AssistanceTypeOK
  <2> HIDE DEF p
  <2> QED BY <1>2, <2>1, <2>2, <2>3 DEF Sent
<1>11. AssistanceTypeOK'
  <2>1. task' \in [Task -> TaskRecord]
    BY <1>1, <1>5, <1>6, <1>7 DEF CommitTransaction
  <2>2. call' \in [Call -> [request : Requests, stage : {"sent", "new", "read"},
                            seen : TaskRecord] \cup {None}]
    BY <1>8 DEF IInv, AssistanceTypeOK
  <2>3. known' \in [Worker -> [Task -> Nat]]
    BY <1>0, <1>2, <1>8, <1>9, ReplyType
  <2>4. granted' \in [Task -> Seq(Worker)]
    BY <1>1, <1>8 DEF IInv, AssistanceTypeOK
  <2>5. resolver' \in [Task -> [worker : Worker \cup {None}, token : Nat]]
    BY <1>1, <1>8 DEF IInv, AssistanceTypeOK
  <2>6. applied' \in [Requests -> Nat]
    BY <1>2, <1>8 DEF IInv, AssistanceTypeOK
  <2> QED BY <1>10, <2>1, <2>2, <2>3, <2>4, <2>5, <2>6 DEF AssistanceTypeOK
<1>12. ASSUME NEW t \in Task PROVE TaskGood(t)'
  <2>0. TaskGood(t) /\ granted[t] \in Seq(Worker) /\ task[t] \in TaskRecord
    BY DEF IInv, AssistanceTypeOK
  <2>1. CASE t # q.task
    <3>1. granted'[t] = granted[t] /\ resolver'[t] = resolver[t]
      BY <1>8, <2>1 DEF IInv, AssistanceTypeOK
    <3>2. task'[t].counter = task[t].counter
      BY <1>7, <2>0, <2>1 DEF TaskGood
    <3> QED BY <1>7, <2>0, <2>1, <3>1, <3>2 DEF TaskGood, Answered
  <2>2. CASE t = q.task
    <3>0. s = task[t] /\ s.counter = Len(granted[t]) /\ task'[t] = r
      BY <1>0, <1>6, <2>0, <2>2 DEF TaskGood
    <3>1. CASE q.op = "claim"
      <4>1. granted'[t] = Append(granted[t], q.worker)
        BY <1>8, <2>2, <3>1 DEF IInv, AssistanceTypeOK
      <4>2. Len(granted'[t]) = Len(granted[t]) + 1 /\ Len(granted[t]) \in Nat
            /\ granted'[t][Len(granted[t]) + 1] = q.worker
        BY <1>1, <2>0, <4>1
      <4> QED BY <1>5, <3>0, <3>1, <4>2 DEF TaskGood, Answered
    <3>2. CASE q.op = "submit"
      <4>1. /\ granted'[t] = granted[t]
            /\ resolver'[t] = [worker |-> q.worker, token |-> q.token]
        BY <1>8, <2>2, <3>2 DEF IInv, AssistanceTypeOK
      <4>2. /\ q.token = s.counter /\ q.worker = s.owner /\ s.status \in Leased
            /\ s.counter > 0 /\ s.owner = granted[t][s.counter]
        BY <1>2, <2>0, <3>0, <3>2 DEF Legal, ValidLease, TaskGood
      <4> QED BY <1>5, <3>0, <3>2, <4>1, <4>2 DEF TaskGood, Answered, Leased
    <3>3. CASE q.op \notin {"claim", "submit"}
      <4>1. granted'[t] = granted[t]
        BY <1>8, <2>2, <3>3 DEF IInv, AssistanceTypeOK
      <4> QED BY <1>5, <2>0, <3>0, <3>3, <4>1 DEF TaskGood, Answered
    <3> QED BY <3>1, <3>2, <3>3
  <2> QED BY <2>1, <2>2
<1>13. ASSUME NEW j \in Requests PROVE RequestGood(j)'
  <2>1. CASE j = k
    <3>1. applied[k] = 0 /\ k \in Sent'
      BY <1>2, <1>10 DEF IInv, RequestGood
    <3>2. applied'[k] = 1
      BY <1>2, <1>8, <3>1 DEF IInv, AssistanceTypeOK
    <3> QED BY <1>1, <1>2, <1>9, <1>10, <2>1, <3>1, <3>2 DEF RequestGood
  <2>2. CASE j # k
    BY <1>8, <1>10, <2>2 DEF IInv, RequestGood, AssistanceTypeOK
  <2> QED BY <2>1, <2>2
<1>14. ASSUME NEW d \in Call PROVE CallGood(d)'
  <2>1. CASE d = c
    BY <1>8, <2>1 DEF IInv, AssistanceTypeOK, CallGood, Idle
  <2>2. CASE d # c /\ Idle(d)
    BY <1>8, <2>2 DEF IInv, AssistanceTypeOK, CallGood, Idle
  <2>3. CASE d # c /\ ~Idle(d)
    <3>1. call'[d] = call[d] /\ call[d].request \in Sent /\ call[d].request \in Requests
      BY <1>8, <2>3, CallFacts DEF IInv, AssistanceTypeOK
    <3>2. CASE call[d].stage = "read"
      <4>1. PICK p, seen, j : p = CallRequest(d) /\ seen = call[d].seen /\ j = call[d].request
        OBVIOUS
      <4>2. SeenGood(p, seen) /\ p.task \in Task /\ seen \in TaskRecord
        BY <2>3, <3>2, <4>1, CallFacts DEF IInv, CallGood
      <4>3. task[p.task].status # "none"
        BY <4>2 DEF SeenGood
      <4>4. task'[p.task] = task[p.task]
            \/ (task'[p.task].rev = task[p.task].rev + 1 /\ task'[p.task].status # "none")
        <5>1. CASE p.task = q.task
          BY <1>0, <1>5, <1>6, <5>1
        <5>2. CASE p.task # q.task
          BY <1>7, <4>2, <4>3, <5>2
        <5> QED BY <5>1, <5>2
      <4>5. seen.rev \in Nat /\ task[p.task].rev \in Nat
        BY <4>2 DEF IInv, AssistanceTypeOK, TaskRecord
      <4>6. SeenGood(p, seen)'
        BY <4>2, <4>4, <4>5, SeenKept
      <4>7. PICK new : new = request'[j]
        OBVIOUS
      <4>8. new.op = p.op /\ new.worker = p.worker /\ new.token = p.token /\ new.task = p.task
        BY <1>10, <3>1, <4>1, <4>7 DEF CallRequest
      <4>9. SeenGood(new, seen)'
        <5>1. Legal(new, seen)
          BY <4>2, <4>8, LegalTerms DEF SeenGood
        <5> QED BY <4>6, <4>8, <5>1 DEF SeenGood
      <4>10. CallRequest(d)' = new /\ call'[d].seen = seen
        BY <3>1, <4>1, <4>7 DEF CallRequest
      <4> QED BY <1>10, <3>1, <4>9, <4>10 DEF CallGood
    <3>3. CASE call[d].stage # "read"
      BY <1>10, <3>1, <3>3 DEF CallGood
    <3> QED BY <3>2, <3>3
  <2> QED BY <2>1, <2>2, <2>3
<1> QED BY <1>11, <1>12, <1>13, <1>14 DEF IInv

----
(* The theorems. *)

LEMMA NextIInv == IInv /\ [AssistanceNext]_taskVars => IInv'
<1> SUFFICES ASSUME IInv, [AssistanceNext]_taskVars PROVE IInv'
  OBVIOUS
<1>1. CASE EngineTransaction
  BY <1>1, EngineStep
<1>2. CASE \E c \in Call : RequestSteps(c)
  BY <1>2, IssueStep, RetryStep, LookStep, GetStep, RefuseStep DEF RequestSteps
<1>3. CASE \E c \in Call : CommitTransaction(c)
  BY <1>3, CommitStep
<1>4. CASE TasksAge
  BY <1>4, AgeStep
<1>5. CASE CallsLost
  BY <1>5, LostStep
<1>6. CASE UNCHANGED taskVars
  <2>1. AssistanceTypeOK'
    BY <1>6 DEF IInv, AssistanceTypeOK, taskVars
  <2> QED BY <1>6, <2>1, CallsOnly DEF taskVars
<1> QED BY <1>1, <1>2, <1>3, <1>4, <1>5, <1>6 DEF AssistanceNext

LEMMA Invariance == AssistanceSpec => []IInv
  BY InitIInv, NextIInv, PTL DEF AssistanceSpec

\* The tables, the calls and the histories keep their types.
THEOREM TypeCorrect == AssistanceSpec => []AssistanceTypeOK
<1>1. IInv => AssistanceTypeOK
  BY DEF IInv
<1> QED BY <1>1, Invariance, PTL

\* Only the owner of a task's newest claim ever completes it.
THEOREM AnswersAreFenced == AssistanceSpec => []FencedAnswer
<1>1. IInv => FencedAnswer
  BY DEF IInv, TaskGood, Answered, FencedAnswer
<1> QED BY <1>1, Invariance, PTL

\* A request changes its task at most once, however often it is sent.
THEOREM RequestsApplyOnce == AssistanceSpec => []AppliedOnce
<1>1. IInv => AppliedOnce
  BY DEF IInv, RequestGood, AppliedOnce
<1> QED BY <1>1, Invariance, PTL

\* A lease that lasts is not taken over, by a claim that read the task before it
\* either.
THEOREM LeasesAreNotTakenOver == AssistanceSpec => NoTakeover
<1> DEFINE Held(t) == task[t].status \in Leased /\ task[t].lease > 0
                      /\ task'[t].status \in Leased
           Keeps(t) == task'[t].owner = task[t].owner /\ task'[t].counter = task[t].counter
<1>1. ASSUME IInv, [AssistanceNext]_taskVars, NEW t \in Task, Held(t)
      PROVE  Keeps(t)
  <2>1. CASE EngineTransaction
    BY <1>1, <2>1, EngineWritesRecord DEF EngineTransaction, IInv, AssistanceTypeOK
  <2>2. CASE \E c \in Call : RequestSteps(c)
    BY <2>2 DEF RequestSteps, Issue, Retry, Look, Get, Refuse
  <2>3. ASSUME NEW c \in Call, CommitTransaction(c) PROVE Keeps(t)
    <3>0. PICK q, s : q = CallRequest(c) /\ s = task[q.task]
      OBVIOUS
    <3>1. Legal(q, s) /\ Result(c) = After(q, s)
      BY <1>1, <2>3, <3>0, CommitFacts DEF CommitTransaction, Result
    <3>2. q \in RequestRecord /\ q.op \in Ops /\ q.worker \in Worker /\ q.task \in Task
      BY <1>1, <2>3, <3>0, CommitFacts, CallFacts DEF CommitTransaction
    <3>3. CASE t = q.task
      <4>1. s \in TaskRecord /\ s = task[t] /\ task'[t] = After(q, s)
        BY <1>1, <2>3, <3>0, <3>1, <3>3 DEF CommitTransaction, IInv, AssistanceTypeOK
      <4>2. q.op # "claim"
        BY <1>1, <3>1, <4>1 DEF Legal, Claimable, TaskRecord, Leased
      <4> QED BY <1>1, <3>1, <3>2, <4>1, <4>2, AfterRecord
    <3>4. CASE t # q.task
      BY <1>1, <2>3, <3>0, <3>4, EngineWritesRecord
      DEF CommitTransaction, IInv, AssistanceTypeOK
    <3> QED BY <3>3, <3>4
  <2>4. CASE TasksAge
    BY <1>1, <2>4 DEF TasksAge, IInv, AssistanceTypeOK, TaskRecord
  <2>5. CASE UNCHANGED task
    BY <2>5
  <2> QED BY <1>1, <2>1, <2>2, <2>3, <2>4, <2>5 DEF AssistanceNext, CallsLost, taskVars
<1>2. IInv /\ [AssistanceNext]_taskVars =>
        [\A t \in Task :
            (/\ task[t].status \in Leased
             /\ task[t].lease > 0
             /\ task'[t].status \in Leased)
            => task'[t].owner = task[t].owner /\ task'[t].counter = task[t].counter]_taskVars
  BY <1>1
<1>3. AssistanceSpec => [][AssistanceNext]_taskVars
  BY DEF AssistanceSpec
<1> QED BY <1>2, <1>3, Invariance, PTL DEF NoTakeover
====
