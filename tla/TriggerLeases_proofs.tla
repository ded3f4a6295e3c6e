---- MODULE TriggerLeases_proofs ----
(***************************************************************************)
(* Theorems about TriggerLeases, for every set of occurrences, triggers,   *)
(* keys and browsers, every missed-run policy, lease duration, event set   *)
(* and number of crashes.                                                  *)
(***************************************************************************)
EXTENDS TriggerLeases, TLAPS

(* The inductive invariant.  A tick works on a list it read when it began, and *)
(* on one occurrence in several transactions: what the earlier ones committed  *)
(* still holds when the next one runs.                                         *)

\* What the loop has yet to start can still be started.
StillWaits(o) == pass = "start" /\ o \in todo => occ[o] \in Waiting

\* What the transactions before the next one have committed.
Committed(o) ==
    cur = o /\ step # "none" =>
        /\ o \notin todo
        /\ step \in {"start", "browser", "yield", "attempt"} => occ[o] \in Waiting
        /\ step = "tokens" => attempt[o] = "pending" /\ occ[o] = "running"
        /\ step \in {"run", "block"} =>
              attempt[o] = "running" /\ occ[o] = "running" /\ run[o] = None
        /\ step = "finish" =>
              /\ ~Active(o)
              /\ o \in External /\ run[o] # None => ext[o].state = "released"

\* An occurrence that waits has no attempt, an attempt without tokens no run.
InOrder(o) ==
    /\ occ[o] \in Waiting \cup {"absent"} => attempt[o] = "none"
    /\ attempt[o] \in {"none", "pending"} => run[o] = None

\* The three properties, for one occurrence.
Supervised(o) == Active(o) => attempt[o] = "running" /\ occ[o] = "running"
Truthful(o) ==
    attempt[o] = "terminal" =>
        IF run[o] = None THEN occ[o] \in {"failed", "blocked"}
        ELSE Ended(o) /\ occ[o] = RunOutcome(o)
GivenBack(o) ==
    o \in External /\ attempt[o] = "terminal" /\ run[o] # None =>
        ext[o].state = "released"

\* A call that may bind a record was made for one that is not released.
CallsForLiveRecord ==
    call # None /\ call.kind \in {"acquire", "verify", "renew"} =>
        call.seen[1] # "released"

\* A pass at rest has nothing left to do.
TaskInOrder ==
    /\ cur = None => step = "none"
    /\ pass \in {"idle", "materialise"} => cur = None /\ todo = {}

\* All of it, for one occurrence.
Good(o) ==
    /\ StillWaits(o)
    /\ Committed(o)
    /\ InOrder(o)
    /\ Supervised(o)
    /\ Truthful(o)
    /\ GivenBack(o)

LeasesInv ==
    /\ \A o \in Occurrence : Good(o)
    /\ TaskInOrder
    /\ CallsForLiveRecord

----
(* Types. *)

LEMMA InitTyped == Init => TypeOK
<1> SUFFICES ASSUME Init PROVE TypeOK
  OBVIOUS
<1>1. StoreTypeOK
  BY StoreAssumption DEF Init, StoreInit, StoreTypeOK, NoRequest, ExtRecord, ExtState
<1>2. LeaseTypeOK
  BY StoreAssumption DEF Init, LeaseInit, LeaseTypeOK
<1>3. TaskTypeOK
  BY DEF Init, TaskInit, TaskTypeOK, Pass, Step
<1> QED
  BY <1>1, <1>2, <1>3 DEF Init, TypeOK

LEMMA LessTyped ==
    ASSUME NEW m \in Nat, NEW n \in 0 .. m
    PROVE  Less(n) \in 0 .. m
BY DEF Less

LEMMA DeferTyped ==
    ASSUME StoreTypeOK, NEW o \in Occurrence, DeferOccurrence(o)
    PROVE  /\ occ' \in [Occurrence -> {"absent", "running"} \cup Waiting \cup Outcome]
           /\ due' \subseteq Occurrence
BY DEF DeferOccurrence, StoreTypeOK, Waiting

LEMMA MarkTyped ==
    ASSUME StoreTypeOK, LeaseTypeOK, NEW o \in Occurrence, NEW late \in BOOLEAN,
           MarkReconciliationRequired(o, late)
    PROVE  ext' \in [Occurrence -> ExtRecord] /\ verified' \subseteq Occurrence
<1>1. ext[o] \in ExtRecord
  BY DEF StoreTypeOK
<1>2. [ext[o] EXCEPT !.state = "reconciliation", !.late = late] \in ExtRecord
  BY <1>1 DEF ExtRecord, ExtState
<1> QED
  BY <1>1, <1>2 DEF MarkReconciliationRequired, StoreTypeOK, LeaseTypeOK, ExtRecord, ExtState

LEMMA BindTyped ==
    ASSUME StoreTypeOK, LeaseTypeOK, NEW o \in Occurrence, call # None, Bind(o)
    PROVE  ext' \in [Occurrence -> ExtRecord] /\ verified' \subseteq Occurrence
<1>1. ext[o] \in ExtRecord /\ call \in CallRecord
  BY DEF StoreTypeOK, LeaseTypeOK
<1>2. Window(call.granted, call.age) \in 0 .. RemoteTtl
  BY <1>1, StoreAssumption DEF CallRecord, Window
<1> QED
  BY <1>1, <1>2, StoreAssumption
  DEF Bind, StoreTypeOK, LeaseTypeOK, ExtRecord, ExtState, CallRecord

LEMMA ReleaseLocalTyped ==
    ASSUME StoreTypeOK, LeaseTypeOK, NEW o \in Occurrence, ReleaseLocal(o)
    PROVE  /\ occ' \in [Occurrence -> {"absent", "running"} \cup Waiting \cup Outcome]
           /\ due' \subseteq Occurrence
           /\ ext' \in [Occurrence -> ExtRecord]
           /\ verified' \subseteq Occurrence
<1>1. CASE UNCHANGED <<ext, verified, occ, due>>
  BY <1>1 DEF StoreTypeOK, LeaseTypeOK
<1>2. CASE ~UNCHANGED <<ext, verified, occ, due>>
  <2>1. /\ ext' = [ext EXCEPT ![o].state = "released"]
        /\ verified' = verified \ {o}
        /\ DeferOccurrence(o) \/ UNCHANGED <<occ, due>>
    BY <1>2 DEF ReleaseLocal
  <2>2. ext' \in [Occurrence -> ExtRecord]
    BY <2>1 DEF StoreTypeOK, ExtRecord, ExtState
  <2> QED
    BY <2>1, <2>2, DeferTyped DEF StoreTypeOK, LeaseTypeOK
<1> QED
  BY <1>1, <1>2

(* The coordinator and the service. *)

LEMMA SendTyped ==
    ASSUME StoreTypeOK, LeaseTypeOK, NEW o \in Occurrence, NEW kind \in CallKind, Send(kind, o)
    PROVE  StoreTypeOK' /\ LeaseTypeOK'
<1>1. ext[o] \in ExtRecord
  BY DEF StoreTypeOK
<1>2. call' \in CallRecord
  BY <1>1, StoreAssumption DEF Send, CallRecord, Answer, Revision, ExtRecord
<1> QED
  BY <1>2 DEF Send, storeVars, StoreTypeOK, LeaseTypeOK

LEMMA SendsTyped ==
    ASSUME StoreTypeOK, LeaseTypeOK, NEW o \in Occurrence, Sends(o)
    PROVE  StoreTypeOK' /\ LeaseTypeOK'
<1>1. CASE ExpiredBeforeRenewal(o)
  <2>1. ext' \in [Occurrence -> ExtRecord] /\ verified' \subseteq Occurrence
    BY <1>1, MarkTyped DEF ExpiredBeforeRenewal
  <2> QED
    BY <1>1, <2>1 DEF ExpiredBeforeRenewal, StoreTypeOK, LeaseTypeOK
<1>2. CASE \E kind \in CallKind : Send(kind, o)
  BY <1>2, SendTyped
<1> QED
  BY <1>1, <1>2
  DEF Sends, Acquire, VerifyBound, Release, RenewIfDue, Reconcile, CallKind

LEMMA AnsweredTyped ==
    ASSUME LeaseTypeOK, call # None, NEW answer \in Answer, NEW n \in 0 .. RemoteTtl,
           Answered(answer, n)
    PROVE  call' \in CallRecord
BY DEF Answered, LeaseTypeOK, CallRecord

LEMMA AnswerStatusTyped ==
    ASSUME LeaseTypeOK, call # None, AnswerStatus
    PROVE  call' \in CallRecord
<1>1. remote.left \in 0 .. RemoteTtl /\ 0 \in 0 .. RemoteTtl
  BY StoreAssumption DEF LeaseTypeOK
<1> QED
  BY <1>1, AnsweredTyped DEF AnswerStatus, Answer

LEMMA ServeTyped ==
    ASSUME StoreTypeOK, LeaseTypeOK, Serve
    PROVE  StoreTypeOK' /\ LeaseTypeOK'
<1>1. call # None /\ call \in CallRecord /\ UNCHANGED storeVars /\ UNCHANGED verified
  BY DEF Serve, ServeAcquire, ServeRenew, ServeRelease, ServeRead, Sent, LeaseTypeOK
<1>2. 0 \in 0 .. RemoteTtl /\ RemoteTtl \in 0 .. RemoteTtl
  BY StoreAssumption
<1>3. call' \in CallRecord
  BY <1>1, <1>2, AnsweredTyped, AnswerStatusTyped
  DEF Serve, ServeAcquire, ServeRenew, ServeRelease, ServeRead, Answer
<1>4. remote' \in [holder : Occurrence \cup {None, Outsider}, left : 0..RemoteTtl]
  BY <1>1, <1>2
  DEF Serve, ServeAcquire, ServeRenew, ServeRelease, ServeRead, LeaseTypeOK, CallRecord
<1>5. known' \subseteq Occurrence
  BY <1>1 DEF Serve, ServeAcquire, ServeRenew, ServeRelease, ServeRead, LeaseTypeOK, CallRecord
<1> QED
  BY <1>1, <1>3, <1>4, <1>5 DEF storeVars, StoreTypeOK, LeaseTypeOK

\* What handling an answer may do to the records.
LEMMA RecordsTyped ==
    ASSUME StoreTypeOK, LeaseTypeOK, UNCHANGED <<attempt, run, lease, remote, known>>,
           call' \in CallRecord \cup {None}, NEW o \in Occurrence, call # None,
           \/ UNCHANGED <<ext, verified, occ, due>>
           \/ ReleaseLocal(o)
           \/ UNCHANGED <<occ, due>> /\ Bind(o)
           \/ UNCHANGED <<occ, due>> /\ \E late \in BOOLEAN : MarkReconciliationRequired(o, late)
    PROVE  StoreTypeOK' /\ LeaseTypeOK'
<1>1. CASE UNCHANGED <<ext, verified, occ, due>>
  BY <1>1 DEF StoreTypeOK, LeaseTypeOK
<1>2. CASE ReleaseLocal(o)
  BY <1>2, ReleaseLocalTyped DEF StoreTypeOK, LeaseTypeOK
<1>3. CASE UNCHANGED <<occ, due>> /\ Bind(o)
  BY <1>3, BindTyped DEF StoreTypeOK, LeaseTypeOK
<1>4. CASE UNCHANGED <<occ, due>> /\ \E late \in BOOLEAN : MarkReconciliationRequired(o, late)
  BY <1>4, MarkTyped DEF StoreTypeOK, LeaseTypeOK
<1> QED
  BY <1>1, <1>2, <1>3, <1>4

LEMMA AnswersTyped ==
    ASSUME StoreTypeOK, LeaseTypeOK, NEW o \in Occurrence,
           Answers(o) \/ AnswerLost(o) \/ Refused(o)
    PROVE  StoreTypeOK' /\ LeaseTypeOK'
<1>1. ShouldRelease(o) \in BOOLEAN /\ (call.kind = "release") \in BOOLEAN
  <2>1. Ended(o) \in BOOLEAN /\ (attempt[o] = "terminal") \in BOOLEAN
    BY DEF Ended
  <2>2. ShouldRelease(o) = Ended(o) \/ ShouldRelease(o) = (attempt[o] = "terminal")
    BY DEF ShouldRelease
  <2> QED
    BY <2>1, <2>2
<1>2. CASE Clear(o)
  <2>1. call \in CallRecord /\ 0 \in 0 .. RemoteTtl
    BY <1>2, StoreAssumption DEF Clear, LeaseTypeOK
  <2>2. call' \in CallRecord
    BY <1>2, <2>1 DEF Clear, CallRecord, CallKind, Answer
  <2> QED
    BY <1>2, <2>2 DEF Clear, storeVars, StoreTypeOK, LeaseTypeOK
<1>3. CASE ~Clear(o)
  <2>1. call # None /\ call' = None /\ UNCHANGED <<attempt, run, lease, remote, known>>
    BY <1>3
    DEF Answers, AnswerLost, Refused, Got, AcquireGranted, AcquireInactive, AcquireBusy, Verified,
        NotVerified, RenewGranted, RenewLost, ReleaseConfirmed, ReleaseLost, NothingToClear,
        Cleared, NotCleared
  <2>2. \/ UNCHANGED <<ext, verified, occ, due>>
        \/ ReleaseLocal(o)
        \/ UNCHANGED <<occ, due>> /\ Bind(o)
        \/ UNCHANGED <<occ, due>> /\ \E late \in BOOLEAN : MarkReconciliationRequired(o, late)
    BY <1>1, <1>3
    DEF Answers, AnswerLost, Refused, AcquireGranted, AcquireInactive, AcquireBusy, Verified,
        NotVerified, RenewGranted, RenewLost, ReleaseConfirmed, ReleaseLost, NothingToClear,
        Cleared, NotCleared
  <2> QED
    BY <2>1, <2>2, RecordsTyped
<1> QED
  BY <1>2, <1>3

LEMMA DomainTyped ==
    ASSUME StoreTypeOK, LeaseTypeOK, NEW o \in Occurrence,
           OperatorReconciles(o) \/ WriteUncertain(o)
    PROVE  StoreTypeOK' /\ LeaseTypeOK'
<1>1. ext' \in [Occurrence -> ExtRecord]
  BY DEF OperatorReconciles, WriteUncertain, StoreTypeOK, ExtRecord, ExtState
<1>2. run' \in [Occurrence -> {None} \cup ActiveRun \cup EndedRun]
  BY DEF OperatorReconciles, WriteUncertain, StoreTypeOK, EndedRun
<1> QED
  BY <1>1, <1>2 DEF OperatorReconciles, WriteUncertain, leaseVars, StoreTypeOK, LeaseTypeOK

(* The runtime. *)

LEMMA SetLeftTyped ==
    ASSUME StoreTypeOK, NEW o \in Occurrence, NEW S, NEW n \in 0 .. LeaseTtl
    PROVE  SetLeft(o, S, n) \in [Resource -> [owner : Occurrence \cup {None, Outsider},
                                              left : 0..LeaseTtl]]
BY DEF SetLeft, StoreTypeOK

LEMMA AcquiredTyped ==
    ASSUME StoreTypeOK, NEW o \in Occurrence \cup {Outsider}, NEW r
    PROVE  Acquired(o, r) \in [Resource -> [owner : Occurrence \cup {None, Outsider},
                                            left : 0..LeaseTtl]]
<1>1. [owner |-> o, left |-> LeaseTtl] \in
          [owner : Occurrence \cup {None, Outsider}, left : 0..LeaseTtl]
  BY StoreAssumption
<1> QED
  BY <1>1 DEF Acquired, StoreTypeOK

LEMMA SweepTyped ==
    ASSUME StoreTypeOK, Sweep
    PROVE  lease' \in [Resource -> [owner : Occurrence \cup {None, Outsider},
                                    left : 0..LeaseTtl]]
BY StoreAssumption DEF Sweep, Holds, StoreTypeOK

LEMMA RenewTyped ==
    ASSUME StoreTypeOK, NEW o \in Occurrence, FindOrRenewLeases(o)
    PROVE  lease' \in [Resource -> [owner : Occurrence \cup {None, Outsider},
                                    left : 0..LeaseTtl]]
<1>1. LeaseTtl \in 0 .. LeaseTtl
  BY StoreAssumption
<1> QED
  BY <1>1, SetLeftTyped DEF FindOrRenewLeases, Renewed, StoreTypeOK

LEMMA ReleaseTyped ==
    ASSUME StoreTypeOK, NEW o \in Occurrence, NEW S
    PROVE  Released(o, S) \in [Resource -> [owner : Occurrence \cup {None, Outsider},
                                            left : 0..LeaseTtl]]
BY SetLeftTyped, StoreAssumption DEF Released

\* Every way a step may leave the pass.
LEMMA TaskTyped ==
    ASSUME TaskTypeOK, NEW o \in Occurrence,
           \/ \E next \in Step : Then(o, next) \/ Take(o, next)
           \/ Done \/ LeaveAlone(o)
    PROVE  TaskTypeOK'
BY DEF TaskTypeOK, Then, Take, Done, LeaveAlone, Step

LEMMA ReconcileTaskTyped ==
    ASSUME TaskTypeOK, NEW o \in Occurrence, ReconcileSteps(o)
    PROVE  TaskTypeOK'
<1>1. \/ \E next \in Step : Then(o, next) \/ Take(o, next)
      \/ Done \/ LeaveAlone(o)
  BY DEF ReconcileSteps, ReconcileLostExternal, ReconcileLostControl, ReconcileEnded,
     ReconcileFenced, ReconcileRunning, MarkUncertain, FinishAttempt, ReleaseLeases, Step
<1> QED
  BY <1>1, TaskTyped

LEMMA ReconcileStoreTyped ==
    ASSUME StoreTypeOK, LeaseTypeOK, NEW o \in Occurrence, Committed(o), ReconcileSteps(o)
    PROVE  StoreTypeOK' /\ LeaseTypeOK'
<1>1. CASE ReconcileLostExternal(o)
  BY <1>1, RenewTyped, MarkTyped DEF ReconcileLostExternal, StoreTypeOK, LeaseTypeOK
<1>2. CASE ReconcileLostControl(o) \/ ReconcileEnded(o) \/ ReconcileFenced(o) \/ ReconcileRunning(o)
  <2>1. FindOrRenewLeases(o) /\ UNCHANGED <<occ, due, attempt, ext, leaseVars>>
    BY <1>2 DEF ReconcileLostControl, ReconcileEnded, ReconcileFenced, ReconcileRunning
  <2>2. run' = run \/ run' = [run EXCEPT ![o] = "cancelled"]
    BY <1>2 DEF ReconcileLostControl, ReconcileEnded, ReconcileFenced, ReconcileRunning
  <2> QED
    BY <2>1, <2>2, RenewTyped DEF leaseVars, StoreTypeOK, LeaseTypeOK, EndedRun
<1>3. CASE MarkUncertain(o)
  BY <1>3 DEF MarkUncertain, leaseVars, StoreTypeOK, LeaseTypeOK, EndedRun
<1>4. CASE FinishAttempt(o)
  <2>1. run[o] # None => Ended(o)
    BY <1>4 DEF FinishAttempt, At, Committed, Active, Ended, StoreTypeOK
  <2>2. run[o] # None => RunOutcome(o) \in Outcome
    BY <2>1 DEF RunOutcome, Ended, EndedRun, Outcome
  <2> QED
    BY <1>4, <2>2
    DEF FinishAttempt, FinishTriggerAttempt, rest, leaseVars, StoreTypeOK, LeaseTypeOK, Outcome
<1>5. CASE ReleaseLeases(o)
  BY <1>5, ReleaseTyped DEF ReleaseLeases, leaseVars, StoreTypeOK, LeaseTypeOK
<1> QED
  BY <1>1, <1>2, <1>3, <1>4, <1>5 DEF ReconcileSteps

LEMMA StartTaskTyped ==
    ASSUME TaskTypeOK, NEW o \in Occurrence, StartSteps(o) \/ CreateRunFails(o)
    PROVE  TaskTypeOK'
<1>1. CASE RequestConflict(o)
  BY <1>1 DEF RequestConflict, TaskTypeOK, Pass, Step
<1>2. CASE ~RequestConflict(o)
  <2>1. \/ \E next \in Step : Then(o, next) \/ Take(o, next)
        \/ Done \/ LeaveAlone(o)
    BY <1>2
    DEF StartSteps, StartNext, Request, NotYet, TriggerBusy, AcquireTriggerLease, BrowserBusy,
        Yield, AcquireBrowserLease, GiveWay, CreateTriggerAttempt, StoreTokens, CreateRun,
        CreateRunFails, BlockAttempt, Step
  <2> QED
    BY <2>1, TaskTyped
<1> QED
  BY <1>1, <1>2

LEMMA GiveWayTyped ==
    ASSUME StoreTypeOK, LeaseTypeOK, NEW o \in Occurrence, GiveWay(o),
           lease' \in [Resource -> [owner : Occurrence \cup {None, Outsider},
                                    left : 0..LeaseTtl]]
    PROVE  StoreTypeOK' /\ LeaseTypeOK'
<1>1. CASE o \in External
  BY <1>1, MarkTyped DEF GiveWay, StoreTypeOK, LeaseTypeOK
<1>2. CASE o \notin External
  BY <1>2, DeferTyped DEF GiveWay, StoreTypeOK, LeaseTypeOK
<1> QED
  BY <1>1, <1>2

LEMMA StartStoreTyped ==
    ASSUME StoreTypeOK, LeaseTypeOK, NEW o \in Occurrence, StartSteps(o) \/ CreateRunFails(o)
    PROVE  StoreTypeOK' /\ LeaseTypeOK'
<1>1. CASE StartNext(o) \/ RequestConflict(o) \/ NotYet(o)
  BY <1>1 DEF StartNext, RequestConflict, NotYet, storeVars, leaseVars, StoreTypeOK, LeaseTypeOK
<1>2. CASE Request(o)
  <2>1. [NoRequest EXCEPT !.state = "acquiring"] \in ExtRecord
    <3>1. 0 \in 0 .. RemoteTtl
      BY StoreAssumption
    <3>2. NoRequest \in ExtRecord
      BY <3>1 DEF NoRequest, ExtRecord, ExtState
    <3> QED
      BY <3>2 DEF ExtRecord, ExtState
  <2>2. ext' \in [Occurrence -> ExtRecord] /\ known' \subseteq Occurrence
    BY <1>2, <2>1 DEF Request, BeginAcquisition, StoreTypeOK, LeaseTypeOK
  <2> QED
    BY <1>2, <2>2 DEF Request, StoreTypeOK, LeaseTypeOK
<1>3. CASE TriggerBusy(o) \/ Yield(o)
  BY <1>3, GiveWayTyped DEF TriggerBusy, Yield, StoreTypeOK
<1>4. CASE AcquireTriggerLease(o) \/ AcquireBrowserLease(o) \/ BrowserBusy(o)
  <2>1. \/ \E r : lease' = Acquired(o, r)
        \/ \E S : lease' = Released(o, S)
    BY <1>4 DEF AcquireTriggerLease, AcquireBrowserLease, BrowserBusy
  <2>2. UNCHANGED <<occ, attempt, ext, rest>>
    BY <1>4 DEF AcquireTriggerLease, AcquireBrowserLease, BrowserBusy
  <2> QED
    BY <2>1, <2>2, AcquiredTyped, ReleaseTyped DEF rest, leaseVars, StoreTypeOK, LeaseTypeOK
<1>5. CASE CreateTriggerAttempt(o) \/ StoreTokens(o) \/ BlockAttempt(o)
  BY <1>5
  DEF CreateTriggerAttempt, StoreTokens, BlockAttempt, FinishTriggerAttempt, rest, leaseVars,
      StoreTypeOK, LeaseTypeOK, Outcome
<1>6. CASE CreateRun(o)
  <2>1. ext' \in [Occurrence -> ExtRecord]
    BY <1>6 DEF CreateRun, StoreTypeOK, ExtRecord
  <2>2. run' \in [Occurrence -> {None} \cup ActiveRun \cup EndedRun]
    BY <1>6 DEF CreateRun, StoreTypeOK, ActiveRun
  <2> QED
    BY <1>6, <2>1, <2>2 DEF CreateRun, leaseVars, StoreTypeOK, LeaseTypeOK
<1>7. CASE CreateRunFails(o)
  <2>1. ext' \in [Occurrence -> ExtRecord] /\ verified' \subseteq Occurrence
    BY <1>7, MarkTyped DEF CreateRunFails, StoreTypeOK, LeaseTypeOK
  <2> QED
    BY <1>7, <2>1 DEF CreateRunFails, StoreTypeOK, LeaseTypeOK
<1> QED
  BY <1>1, <1>2, <1>3, <1>4, <1>5, <1>6, <1>7 DEF StartSteps

LEMMA PassTyped ==
    ASSUME StoreTypeOK, LeaseTypeOK, TaskTypeOK,
           \/ Tick \/ Reconciled \/ EndPass
           \/ \E o \in Occurrence : Fire(o)
           \/ \E new \in SUBSET Occurrence : \E kept : Materialise(new, kept)
    PROVE  StoreTypeOK' /\ LeaseTypeOK' /\ TaskTypeOK'
<1>1. CASE Tick \/ Reconciled
  BY <1>1, SweepTyped DEF Tick, Reconciled, leaseVars, StoreTypeOK, LeaseTypeOK, TaskTypeOK, Pass
<1>2. CASE EndPass
  BY <1>2 DEF EndPass, storeVars, leaseVars, StoreTypeOK, LeaseTypeOK, TaskTypeOK, Pass
<1>3. CASE \E o \in Occurrence : Fire(o)
  BY <1>3 DEF Fire, leaseVars, StoreTypeOK, LeaseTypeOK, TaskTypeOK, Pass, Step, Waiting
<1>4. CASE \E new \in SUBSET Occurrence : \E kept : Materialise(new, kept)
  <2>1. occ' \in [Occurrence -> {"absent", "running"} \cup Waiting \cup Outcome]
    <3> PICK new, kept : Materialise(new, kept)
      BY <1>4
    <3>1. \A o \in Occurrence : occ'[o] \in {"missed", "pending", occ[o]}
      BY DEF Materialise
    <3> QED
      BY <3>1 DEF Materialise, StoreTypeOK, Waiting, Outcome
  <2> QED
    BY <1>4, <2>1 DEF Materialise, leaseVars, StoreTypeOK, LeaseTypeOK, TaskTypeOK, Pass
<1> QED
  BY <1>1, <1>2, <1>3, <1>4

(* The runs, time, other owners, crashes. *)

LEMMA RunsTyped ==
    ASSUME StoreTypeOK, LeaseTypeOK, NEW o \in Occurrence,
           NEW status \in ActiveRun \cup EndedRun, RunChanges(o, status)
    PROVE  StoreTypeOK' /\ LeaseTypeOK'
BY DEF RunChanges, leaseVars, StoreTypeOK, LeaseTypeOK

LEMMA ElapseTyped ==
    ASSUME StoreTypeOK, LeaseTypeOK, Elapse
    PROVE  StoreTypeOK' /\ LeaseTypeOK'
<1>1. lease' \in [Resource -> [owner : Occurrence \cup {None, Outsider}, left : 0..LeaseTtl]]
  BY LessTyped, StoreAssumption DEF Elapse, StoreTypeOK
<1>2. ext' \in [Occurrence -> ExtRecord]
  BY LessTyped, StoreAssumption DEF Elapse, LeasesAge, StoreTypeOK, ExtRecord
<1>3. remote' \in [holder : Occurrence \cup {None, Outsider}, left : 0..RemoteTtl]
  BY LessTyped, StoreAssumption DEF Elapse, LeasesAge, LeaseTypeOK
<1>4. call' \in CallRecord \cup {None}
  <2>1. CASE call = None
    BY <2>1 DEF Elapse, LeasesAge
  <2>2. CASE call # None
    <3>1. call \in CallRecord /\ call.age \in 0 .. RemoteTtl
      BY <2>2 DEF LeaseTypeOK, CallRecord
    <3>2. (IF call.age < RemoteTtl THEN call.age + 1 ELSE call.age) \in 0 .. RemoteTtl
      BY <3>1, StoreAssumption
    <3> QED
      BY <2>2, <3>1, <3>2 DEF Elapse, LeasesAge, CallRecord
  <2> QED
    BY <2>1, <2>2
<1> QED
  BY <1>1, <1>2, <1>3, <1>4 DEF Elapse, StoreTypeOK, LeaseTypeOK

LEMMA EnvironmentTyped ==
    ASSUME StoreTypeOK, LeaseTypeOK, Environment,
           ~\E o \in Occurrence : Fires(o) \/ FailsToStart(o)
    PROVE  StoreTypeOK' /\ LeaseTypeOK'
<1>1. ASSUME NEW o \in Occurrence, LosesAnswer(o) \/ GetsRefusal(o)
      PROVE  StoreTypeOK' /\ LeaseTypeOK'
  BY <1>1, AnswersTyped DEF LosesAnswer, GetsRefusal
<1>2. ASSUME NEW o \in Occurrence,
             \/ Dispatches(o) \/ CallReturns(o) \/ Calls(o)
             \/ \E status \in Endings : Ends(o, status)
      PROVE  StoreTypeOK' /\ LeaseTypeOK'
  <2>1. \E status \in ActiveRun \cup EndedRun : RunChanges(o, status)
    BY <1>2, LeasesAssumption DEF Dispatches, CallReturns, Calls, Ends, ActiveRun
  <2> QED
    BY <2>1, RunsTyped
<1>3. ASSUME NEW o \in Occurrence, DoubtsWrite(o) \/ Resolves(o)
      PROVE  StoreTypeOK' /\ LeaseTypeOK'
  BY <1>3, DomainTyped DEF DoubtsWrite, Resolves
<1>4. ASSUME NEW o \in Occurrence, DeferralEnds(o)
      PROVE  StoreTypeOK' /\ LeaseTypeOK'
  BY <1>4 DEF DeferralEnds, leaseVars, StoreTypeOK, LeaseTypeOK
<1>5. ASSUME NEW o \in Occurrence, Borrows(o)
      PROVE  StoreTypeOK' /\ LeaseTypeOK'
  BY <1>5, AcquiredTyped DEF Borrows, leaseVars, StoreTypeOK, LeaseTypeOK
<1>6. CASE OthersUseDomain
  BY <1>6, StoreAssumption
  DEF OthersUseDomain, OutsiderTakes, OutsiderReleases, storeVars, StoreTypeOK, LeaseTypeOK
<1>7. CASE Crash
  <2>1. run' \in [Occurrence -> {None} \cup ActiveRun \cup EndedRun]
    BY <1>7 DEF Crash, StoreTypeOK, ActiveRun
  <2> QED
    BY <1>7, <2>1 DEF Crash, CoordinatorRestart, StoreTypeOK, LeaseTypeOK
<1> QED
  BY <1>1, <1>2, <1>3, <1>4, <1>5, <1>6, <1>7, ElapseTyped DEF Environment

LEMMA NextTyped ==
    ASSUME TypeOK, LeasesInv, [Next]_vars
    PROVE  TypeOK'
<1> USE DEF TypeOK
<1>1. CASE UNCHANGED vars
  BY <1>1
  DEF vars, storeVars, leaseVars, taskVars, StoreTypeOK, LeaseTypeOK, TaskTypeOK
<1>2. ASSUME NEW o \in Occurrence, Reconciles(o)
      PROVE  TypeOK'
  BY <1>2, ReconcileStoreTyped, ReconcileTaskTyped DEF Reconciles, LeasesInv, Good
<1>3. ASSUME NEW o \in Occurrence, Starts(o) \/ FailsToStart(o)
      PROVE  TypeOK'
  BY <1>3, StartStoreTyped, StartTaskTyped DEF Starts, FailsToStart
<1>4. CASE \/ Ticks \/ Sweeps \/ EndsPass
           \/ \E o \in Occurrence : Fires(o)
           \/ \E new \in SUBSET Occurrence : \E kept : Materialises(new, kept)
  BY <1>4, PassTyped DEF Ticks, Sweeps, EndsPass, Fires, Materialises
<1>5. ASSUME NEW o \in Occurrence, Coordinates(o)
      PROVE  TypeOK'
  BY <1>5, SendsTyped, AnswersTyped
  DEF Coordinates, SendsCall, GetsAnswer, frame, taskVars, TaskTypeOK
<1>6. CASE Serves
  BY <1>6, ServeTyped DEF Serves, frame, taskVars, TaskTypeOK
<1>7. CASE Environment /\ ~\E o \in Occurrence : Fires(o) \/ FailsToStart(o)
  <2>1. TaskTypeOK' /\ crashes' \in Nat
    BY <1>7
    DEF Environment, LosesAnswer, GetsRefusal, Dispatches, CallReturns, Calls, Ends, RunChanges,
        DoubtsWrite, Resolves, DeferralEnds, Borrows, OthersUseDomain, Elapse, Crash,
        TaskRestart, frame, taskVars, TaskTypeOK, Pass, Step
  <2> QED
    BY <1>7, <2>1, EnvironmentTyped
<1> QED
  BY <1>1, <1>2, <1>3, <1>4, <1>5, <1>6, <1>7 DEF Next, CoreStep

----
(* Safety. *)

LEMMA InitInOrder == Init => LeasesInv
BY StoreAssumption
   DEF Init, StoreInit, LeaseInit, TaskInit, LeasesInv, Good, StillWaits, Committed, InOrder,
       Supervised, Active, Truthful, GivenBack, TaskInOrder, CallsForLiveRecord

\* A step that changes neither attempts nor runs nor the pass, defers only what
\* waits and brings back no record of an attempt.
LEMMA RecordsInOrder ==
    ASSUME LeasesInv, CallsForLiveRecord', UNCHANGED <<attempt, run, taskVars>>,
           \A o \in Occurrence :
               occ'[o] = occ[o] \/ (occ[o] \in Waiting /\ occ'[o] \in Waiting),
           \A o \in Occurrence : ext[o].state = "released" => ext'[o].state = "released"
    PROVE  LeasesInv'
<1>1. ASSUME NEW o \in Occurrence PROVE Good(o)'
  <2> Good(o)
    BY DEF LeasesInv
  <2> "running" \notin Waiting /\ "absent" \notin Waiting /\ Outcome \cap Waiting = {}
    BY DEF Waiting, Outcome
  <2>1. StillWaits(o)' /\ InOrder(o)' /\ Supervised(o)' /\ GivenBack(o)'
    BY DEF Good, taskVars, StillWaits, InOrder, Supervised, Active, GivenBack
  <2>2. Committed(o)'
    BY DEF Good, taskVars, Committed, Active
  <2>3. Truthful(o)'
    BY DEF Good, Truthful, Ended, EndedRun, RunOutcome, Waiting
  <2> QED
    BY <2>1, <2>2, <2>3 DEF Good
<1>2. TaskInOrder'
  BY DEF LeasesInv, TaskInOrder, taskVars
<1> QED
  BY <1>1, <1>2 DEF LeasesInv

\* A run that is under way goes on or ends.
LEMMA RunsInOrder ==
    ASSUME TypeOK, LeasesInv, CallsForLiveRecord', UNCHANGED <<occ, attempt, taskVars>>,
           \A o \in Occurrence : ext[o].state = "released" => ext'[o].state = "released",
           \A o \in Occurrence :
               run'[o] = run[o] \/ (Active(o) /\ run'[o] \in ActiveRun \cup EndedRun)
    PROVE  LeasesInv'
<1>1. ASSUME NEW o \in Occurrence PROVE Good(o)'
  <2> Good(o)
    BY DEF LeasesInv
  <2>1. CASE run'[o] = run[o]
    BY <2>1 DEF Good, taskVars, StillWaits, Committed, InOrder, Supervised, Active, Truthful,
                Ended, RunOutcome, GivenBack
  <2>2. CASE Active(o) /\ run'[o] \in ActiveRun \cup EndedRun
    <3>1. attempt[o] = "running" /\ occ[o] = "running" /\ run[o] # None
      BY <2>2, StoreAssumption DEF Good, Supervised, Active
    <3> QED
      BY <2>2, <3>1 DEF Good, taskVars, StillWaits, Committed, InOrder, Supervised, Active,
                    Truthful, GivenBack, Waiting
  <2> QED
    BY <2>1, <2>2
<1>2. TaskInOrder'
  BY DEF LeasesInv, TaskInOrder, taskVars
<1> QED
  BY <1>1, <1>2 DEF LeasesInv

\* A step of the pass that concerns one occurrence.
LEMMA OneInOrder ==
    ASSUME LeasesInv, NEW o \in Occurrence, Good(o)', TaskInOrder', call' = call,
           pass' = pass, todo' \subseteq todo, cur' = o \/ step' = "none",
           \A p \in Occurrence \ {o} :
               /\ occ'[p] = occ[p] /\ attempt'[p] = attempt[p]
               /\ run'[p] = run[p] /\ ext'[p] = ext[p]
    PROVE  LeasesInv'
<1>1. ASSUME NEW p \in Occurrence \ {o} PROVE Good(p)'
  BY DEF LeasesInv, Good, StillWaits, Committed, InOrder, Supervised, Active, Truthful, Ended,
         RunOutcome, GivenBack
<1> QED
  BY <1>1 DEF LeasesInv, CallsForLiveRecord

\* What a pass may go on to.
LEMMA PassInOrder ==
    ASSUME LeasesInv, NEW o \in Occurrence,
           \/ \E next \in Step : Then(o, next) /\ (\E here \in Step \ {"none"} : At(o, here))
           \/ \E next \in Step, loop \in {"reconcile", "start"} : Visit(loop, o) /\ Take(o, next)
           \/ Done /\ (\E here \in Step \ {"none"} : At(o, here))
           \/ LeaveAlone(o) /\ Visit("reconcile", o)
    PROVE  /\ TaskInOrder' /\ pass' = pass /\ todo' \subseteq todo
           /\ cur' = o \/ step' = "none"
BY StoreAssumption
   DEF LeasesInv, TaskInOrder, Then, At, Visit, First, Take, Done, LeaveAlone

(* The coordinator, the service and what others do to the records. *)

LEMMA SendsInOrder ==
    ASSUME TypeOK, LeasesInv, NEW o \in Occurrence, SendsCall(o)
    PROVE  LeasesInv'
<1>1. UNCHANGED <<occ, attempt, run, taskVars>>
  BY DEF SendsCall, Sends, Acquire, VerifyBound, Release, RenewIfDue, Reconcile, Send,
         ExpiredBeforeRenewal, frame, storeVars
<1>2. CASE ExpiredBeforeRenewal(o)
  <2>1. \A p \in Occurrence : ext[p].state = "released" => ext'[p].state = "released"
    BY <1>2 DEF ExpiredBeforeRenewal, MarkReconciliationRequired, Markable, TypeOK, StoreTypeOK
  <2>2. CallsForLiveRecord'
    BY <1>2 DEF ExpiredBeforeRenewal, LeasesInv, CallsForLiveRecord
  <2> QED
    BY <1>1, <2>1, <2>2, RecordsInOrder
<1>3. CASE ~ExpiredBeforeRenewal(o)
  <2>1. ext' = ext
    BY <1>3 DEF SendsCall, Sends, Acquire, VerifyBound, Release, RenewIfDue, Reconcile, Send, storeVars
  <2>2. CallsForLiveRecord'
    BY <1>3
    DEF SendsCall, Sends, Acquire, VerifyBound, Release, RenewIfDue, Reconcile, Send,
        CallsForLiveRecord, Revision
  <2> QED
    BY <1>1, <2>1, <2>2, RecordsInOrder
<1> QED
  BY <1>2, <1>3

LEMMA ServesInOrder ==
    ASSUME TypeOK, LeasesInv, Serves
    PROVE  LeasesInv'
<1>1. UNCHANGED <<storeVars, taskVars>>
  BY DEF Serves, Serve, ServeAcquire, ServeRenew, ServeRelease, ServeRead, frame
<1>2. call \in CallRecord /\ call # None
  BY DEF Serves, Serve, ServeAcquire, ServeRenew, ServeRelease, ServeRead, Sent, TypeOK, LeaseTypeOK
<1>3. \E answer, n : Answered(answer, n)
  BY DEF Serves, Serve, ServeAcquire, ServeRenew, ServeRelease, ServeRead, AnswerStatus
<1>4. CallsForLiveRecord'
  BY <1>2, <1>3 DEF Answered, LeasesInv, CallsForLiveRecord, CallRecord
<1> QED
  BY <1>1, <1>4, RecordsInOrder DEF storeVars

LEMMA AnswersInOrder ==
    ASSUME TypeOK, LeasesInv, NEW o \in Occurrence,
           GetsAnswer(o) \/ LosesAnswer(o) \/ GetsRefusal(o)
    PROVE  LeasesInv'
<1>1. UNCHANGED <<attempt, run, taskVars>> /\ call # None
  BY DEF GetsAnswer, LosesAnswer, GetsRefusal, Answers, AnswerLost, Refused, Got, AcquireGranted,
         AcquireInactive, AcquireBusy, Verified, NotVerified, RenewGranted, RenewLost,
         ReleaseConfirmed, ReleaseLost, NothingToClear, Clear, Cleared, NotCleared, frame, storeVars
<1>2. CallsForLiveRecord'
  <2>1. CASE Clear(o)
    <3>1. call \in CallRecord
      BY <2>1 DEF Clear, TypeOK, LeaseTypeOK
    <3> QED
      BY <2>1, <3>1 DEF Clear, CallsForLiveRecord, CallRecord
  <2>2. CASE ~Clear(o)
    <3>1. call' = None
      BY <2>2
      DEF GetsAnswer, LosesAnswer, GetsRefusal, Answers, AnswerLost, Refused, Got, AcquireGranted,
          AcquireInactive, AcquireBusy, Verified, NotVerified, RenewGranted, RenewLost,
          ReleaseConfirmed, ReleaseLost, NothingToClear, Cleared, NotCleared
    <3> QED
      BY <3>1 DEF CallsForLiveRecord
  <2> QED
    BY <2>1, <2>2
<1>3. \/ UNCHANGED <<ext, occ>>
      \/ ReleaseLocal(o)
      \/ UNCHANGED occ /\ Bind(o) /\ Unchanged(o) /\ call.kind \in {"acquire", "verify", "renew"}
      \/ UNCHANGED occ /\ \E late : MarkReconciliationRequired(o, late)
  BY DEF GetsAnswer, LosesAnswer, GetsRefusal, Answers, AnswerLost, Refused, Got, AcquireGranted,
         AcquireInactive, AcquireBusy, Verified, NotVerified, RenewGranted, RenewLost,
         ReleaseConfirmed, ReleaseLost, NothingToClear, Clear, Cleared, NotCleared, storeVars
<1>4. \A p \in Occurrence : ext[p].state = "released" => ext'[p].state = "released"
  <2>1. CASE UNCHANGED <<ext, occ>>
    BY <2>1
  <2>2. CASE ReleaseLocal(o)
    BY <2>2 DEF ReleaseLocal, TypeOK, StoreTypeOK, ExtRecord
  <2>3. CASE Bind(o) /\ Unchanged(o) /\ call.kind \in {"acquire", "verify", "renew"}
    <3>1. ext[o].state # "released"
      BY <1>1, <2>3 DEF Unchanged, Revision, LeasesInv, CallsForLiveRecord
    <3> QED
      BY <2>3, <3>1 DEF Bind, TypeOK, StoreTypeOK
  <2>4. CASE \E late : MarkReconciliationRequired(o, late)
    BY <2>4 DEF MarkReconciliationRequired, Markable, TypeOK, StoreTypeOK
  <2> QED
    BY <1>3, <2>1, <2>2, <2>3, <2>4
<1>5. \A p \in Occurrence : occ'[p] = occ[p] \/ (occ[p] \in Waiting /\ occ'[p] \in Waiting)
  BY <1>3 DEF ReleaseLocal, DeferOccurrence, Waiting, TypeOK, StoreTypeOK
<1> QED
  BY <1>1, <1>2, <1>4, <1>5, RecordsInOrder

(* The rest of the environment. *)

LEMMA RunStepsInOrder ==
    ASSUME TypeOK, LeasesInv, NEW o \in Occurrence,
           \/ Dispatches(o) \/ CallReturns(o) \/ Calls(o)
           \/ \E status \in Endings : Ends(o, status)
           \/ DoubtsWrite(o)
    PROVE  LeasesInv'
<1>1. UNCHANGED <<occ, attempt, taskVars, call>>
  BY DEF Dispatches, CallReturns, Calls, Ends, RunChanges, DoubtsWrite, WriteUncertain, frame, leaseVars
<1>2. \A p \in Occurrence : ext[p].state = "released" => ext'[p].state = "released"
  BY DEF Dispatches, CallReturns, Calls, Ends, RunChanges, DoubtsWrite, WriteUncertain, TypeOK, StoreTypeOK
<1>3. Active(o) /\ \E status \in ActiveRun \cup EndedRun : run' = [run EXCEPT ![o] = status]
  BY LeasesAssumption
  DEF Dispatches, CallReturns, Calls, Ends, RunChanges, DoubtsWrite, WriteUncertain, Active,
      ActiveRun, EndedRun
<1>4. \A p \in Occurrence :
          run'[p] = run[p] \/ (Active(p) /\ run'[p] \in ActiveRun \cup EndedRun)
  BY <1>3 DEF TypeOK, StoreTypeOK
<1>5. CallsForLiveRecord'
  BY <1>1 DEF LeasesInv, CallsForLiveRecord
<1> QED
  BY <1>1, <1>2, <1>4, <1>5, RunsInOrder

LEMMA OthersInOrder ==
    ASSUME TypeOK, LeasesInv,
           \/ \E o \in Occurrence : Resolves(o) \/ DeferralEnds(o) \/ Borrows(o)
           \/ OthersUseDomain \/ Elapse
    PROVE  LeasesInv'
<1>1. UNCHANGED <<occ, attempt, run, taskVars>>
  BY DEF Resolves, OperatorReconciles, DeferralEnds, Borrows, OthersUseDomain, OutsiderTakes,
         OutsiderReleases, Elapse, frame, storeVars
<1>2. \A p \in Occurrence : ext[p].state = "released" => ext'[p].state = "released"
  <2>1. CASE Elapse
    BY <2>1 DEF Elapse, LeasesAge, TypeOK, StoreTypeOK, ExtRecord
  <2>2. CASE \E o \in Occurrence : Resolves(o)
    BY <2>2 DEF Resolves, OperatorReconciles, TypeOK, StoreTypeOK
  <2>3. CASE (\E o \in Occurrence : DeferralEnds(o) \/ Borrows(o)) \/ OthersUseDomain
    BY <2>3 DEF DeferralEnds, Borrows, OthersUseDomain, OutsiderTakes, OutsiderReleases, storeVars
  <2> QED
    BY <2>1, <2>2, <2>3
<1>3. CallsForLiveRecord'
  <2>1. CASE Elapse
    <3>1. CASE call = None
      BY <2>1, <3>1 DEF Elapse, LeasesAge, CallsForLiveRecord
    <3>2. CASE call # None
      BY <2>1, <3>2
      DEF Elapse, LeasesAge, LeasesInv, CallsForLiveRecord, TypeOK, LeaseTypeOK, CallRecord
    <3> QED
      BY <3>1, <3>2
  <2>2. CASE ~Elapse
    BY <2>2
    DEF Resolves, OperatorReconciles, DeferralEnds, Borrows, OthersUseDomain, OutsiderTakes,
        OutsiderReleases, leaseVars, LeasesInv, CallsForLiveRecord
  <2> QED
    BY <2>1, <2>2
<1> QED
  BY <1>1, <1>2, <1>3, RecordsInOrder

LEMMA CrashInOrder ==
    ASSUME TypeOK, LeasesInv, Crash
    PROVE  LeasesInv'
<1>1. ASSUME NEW o \in Occurrence PROVE Good(o)'
  <2>1. Good(o) /\ step' = "none" /\ pass' = "idle" /\ UNCHANGED <<occ, attempt, ext>>
    BY <1>1 DEF Crash, TaskRestart, LeasesInv
  <2>2. run'[o] = run[o] \/ (run[o] = "acting" /\ run'[o] = "ready")
    BY <1>1 DEF Crash
  <2>3. StillWaits(o)' /\ Committed(o)'
    BY <2>1 DEF StillWaits, Committed
  <2>4. CASE run'[o] = run[o]
    BY <2>1, <2>3, <2>4
    DEF Good, InOrder, Supervised, Active, Truthful, Ended, RunOutcome, GivenBack
  <2>5. CASE run[o] = "acting" /\ run'[o] = "ready"
    <3>1. attempt[o] = "running" /\ occ[o] = "running"
      BY <2>1, <2>5 DEF Good, Supervised, Active, ActiveRun
    <3> QED
      BY <2>1, <2>3, <2>5, <3>1
      DEF Good, InOrder, Supervised, Truthful, GivenBack, Waiting
  <2> QED
    BY <2>2, <2>4, <2>5
<1> QED
  BY <1>1 DEF Crash, TaskRestart, CoordinatorRestart, LeasesInv, TaskInOrder, CallsForLiveRecord

(* The runtime's own steps. *)

LEMMA MarkInOrder ==
    ASSUME TypeOK, NEW o \in Occurrence, MarkReconciliationRequired(o, FALSE)
    PROVE  /\ \A p \in Occurrence \ {o} : ext'[p] = ext[p]
           /\ ext[o].state = "released" => ext'[o].state = "released"
BY DEF MarkReconciliationRequired, Markable, TypeOK, StoreTypeOK

\* Reconciling an active attempt, up to the end of the attempt.
LEMMA ReconcilesInOrder ==
    ASSUME TypeOK, LeasesInv, NEW o \in Occurrence, ReconcileSteps(o)
    PROVE  LeasesInv'
<1> USE DEF Good, InOrder, Supervised, Truthful, GivenBack
<1> Good(o) /\ run[o] \in {None} \cup ActiveRun \cup EndedRun
  BY DEF LeasesInv, TypeOK, StoreTypeOK
<1>1. CASE ReconcileLostExternal(o)
  <2>1. TaskInOrder' /\ pass' = pass /\ todo' \subseteq todo /\ cur' = o
    BY <1>1, PassInOrder DEF ReconcileLostExternal, Step, Take
  <2>2. StillWaits(o)' /\ Committed(o)'
    BY <1>1 DEF ReconcileLostExternal, Visit, Take, StillWaits, Committed
  <2>3. Good(o)'
    BY <1>1, <2>2, MarkInOrder DEF ReconcileLostExternal, Active, Ended, RunOutcome
  <2> QED
    BY <1>1, <2>1, <2>3, OneInOrder, MarkInOrder DEF ReconcileLostExternal
<1>2. CASE ReconcileLostControl(o)
  <2>1. TaskInOrder' /\ pass' = pass /\ todo' \subseteq todo /\ cur' = o
    BY <1>2, PassInOrder DEF ReconcileLostControl, Step, Take
  <2>2. ~Active(o)' /\ (run'[o] = run[o] \/ Active(o))
    BY <1>2 DEF ReconcileLostControl, Active, ActiveRun, TypeOK, StoreTypeOK
  <2>3. StillWaits(o)' /\ Committed(o)'
    BY <1>2, <2>2 DEF ReconcileLostControl, Visit, Take, StillWaits, Committed
  <2>4. Good(o)'
    <3>1. CASE run'[o] = run[o]
      BY <1>2, <2>2, <2>3, <3>1 DEF ReconcileLostControl, Active, Ended, RunOutcome
    <3>2. CASE Active(o)
      BY <1>2, <2>2, <2>3, <3>2 DEF ReconcileLostControl, Waiting
    <3> QED
      BY <2>2, <3>1, <3>2
  <2> QED
    BY <1>2, <2>1, <2>4, OneInOrder DEF ReconcileLostControl, leaseVars, TypeOK, StoreTypeOK
<1>3. CASE ReconcileEnded(o)
  <2>1. TaskInOrder' /\ pass' = pass /\ todo' \subseteq todo /\ cur' = o
    BY <1>3, PassInOrder DEF ReconcileEnded, Step, Take
  <2>2. ~Active(o) /\ (o \in External /\ run[o] # None => ext[o].state = "released")
    BY <1>3, StoreAssumption DEF ReconcileEnded, Finishable, Active, Ended, ActiveRun, EndedRun
  <2>3. StillWaits(o)' /\ Committed(o)'
    BY <1>3, <2>2 DEF ReconcileEnded, Visit, Take, StillWaits, Committed, Active
  <2>4. Good(o)'
    BY <1>3, <2>3 DEF ReconcileEnded, Active, Ended, RunOutcome
  <2> QED
    BY <1>3, <2>1, <2>4, OneInOrder DEF ReconcileEnded, leaseVars
<1>4. CASE ReconcileFenced(o) \/ ReconcileRunning(o)
  <2>1. TaskInOrder' /\ pass' = pass /\ todo' \subseteq todo /\ (cur' = o \/ step' = "none")
    <3>1. CASE ReconcileFenced(o)
      BY <3>1, PassInOrder DEF ReconcileFenced, Step
    <3>2. CASE ReconcileRunning(o)
      BY <3>2, PassInOrder DEF ReconcileRunning
    <3> QED
      BY <1>4, <3>1, <3>2
  <2>2. /\ o \notin todo' /\ step' \in {"fence", "none"}
        /\ UNCHANGED <<occ, attempt, run, ext, call>>
    BY <1>4
    DEF ReconcileFenced, ReconcileRunning, Visit, Take, LeaveAlone, leaseVars, LeasesInv, TaskInOrder
  <2>3. Good(o)'
    BY <2>2 DEF StillWaits, Committed, Active, Ended, RunOutcome
  <2> QED
    BY <2>1, <2>2, <2>3, OneInOrder
<1>5. CASE MarkUncertain(o)
  <2>1. TaskInOrder' /\ pass' = pass /\ todo' \subseteq todo /\ (cur' = o \/ step' = "none")
    BY <1>5, PassInOrder DEF MarkUncertain, Step, At
  <2>2. o \notin todo /\ todo' = todo /\ step' \in {"unlease", "none"}
    BY <1>5 DEF MarkUncertain, At, Committed, Then, Done
  <2>3. run'[o] = run[o] \/ (Active(o) /\ run'[o] = "uncertain")
    BY <1>5 DEF MarkUncertain, Active, ActiveRun, TypeOK, StoreTypeOK
  <2>4. Good(o)'
    <3>1. CASE run'[o] = run[o]
      BY <1>5, <2>2, <3>1 DEF MarkUncertain, StillWaits, Committed, Active, Ended, RunOutcome
    <3>2. CASE Active(o) /\ run'[o] = "uncertain"
      BY <1>5, <2>2, <3>2
      DEF MarkUncertain, StillWaits, Committed, Active, ActiveRun, Waiting
    <3> QED
      BY <2>3, <3>1, <3>2
  <2> QED
    BY <1>5, <2>1, <2>4, OneInOrder DEF MarkUncertain, leaseVars, TypeOK, StoreTypeOK
<1>6. CASE FinishAttempt(o)
  <2>1. TaskInOrder' /\ pass' = pass /\ todo' \subseteq todo /\ cur' = o
    BY <1>6, PassInOrder DEF FinishAttempt, Step, Then
  <2>2. /\ o \notin todo /\ ~Active(o)
        /\ o \in External /\ run[o] # None => ext[o].state = "released"
    BY <1>6 DEF FinishAttempt, At, Committed
  <2>3. /\ attempt'[o] = "terminal" /\ UNCHANGED <<run, ext, todo, pass>>
        /\ IF run[o] = None THEN occ'[o] \in {"failed", "blocked"}
           ELSE Ended(o) /\ occ'[o] = RunOutcome(o)
    BY <1>6, <2>2
    DEF FinishAttempt, FinishTriggerAttempt, Then, rest, TypeOK, StoreTypeOK, Active, Ended
  <2>4. occ'[o] \notin Waiting \cup {"absent"} /\ step' = "unlease"
    BY <1>6, <2>3 DEF FinishAttempt, Then, RunOutcome, Ended, EndedRun, Waiting
  <2>5. StillWaits(o)' /\ Committed(o)'
    BY <2>2, <2>3, <2>4 DEF StillWaits, Committed
  <2>6. Good(o)'
    BY <2>2, <2>3, <2>4, <2>5 DEF Active, Ended, RunOutcome
  <2> QED
    BY <1>6, <2>1, <2>6, OneInOrder
    DEF FinishAttempt, FinishTriggerAttempt, rest, leaseVars, TypeOK, StoreTypeOK
<1>7. CASE ReleaseLeases(o)
  <2>1. TaskInOrder' /\ pass' = pass /\ todo' \subseteq todo /\ step' = "none"
    BY <1>7, PassInOrder DEF ReleaseLeases, Step, Done, At
  <2>2. Good(o)'
    BY <1>7
    DEF ReleaseLeases, At, Done, StillWaits, Committed, Active, Ended, RunOutcome
  <2> QED
    BY <1>7, <2>1, <2>2, OneInOrder DEF ReleaseLeases, leaseVars
<1> QED
  BY <1>1, <1>2, <1>3, <1>4, <1>5, <1>6, <1>7 DEF ReconcileSteps

\* A step of a start that leaves attempt and run as they are.
LEMMA StartsWaiting ==
    ASSUME TypeOK, LeasesInv, NEW o \in Occurrence,
           \/ StartNext(o) \/ Request(o) \/ NotYet(o)
           \/ TriggerBusy(o) \/ AcquireTriggerLease(o)
           \/ BrowserBusy(o) \/ Yield(o) \/ AcquireBrowserLease(o)
    PROVE  LeasesInv'
<1> USE DEF StartNext, Request, NotYet, TriggerBusy, AcquireTriggerLease, BrowserBusy, Yield,
            AcquireBrowserLease, GiveWay
<1> Good(o)
  BY DEF LeasesInv
<1>1. occ[o] \in Waiting /\ attempt[o] = "none" /\ run[o] = None
  BY DEF Visit, First, At, Good, StillWaits, Committed, InOrder
<1>2. o \notin todo' /\ step' \in {"none", "start", "browser", "yield", "attempt"}
  BY DEF Visit, First, At, Take, Then, Done, Good, Committed
<1>3. TaskInOrder' /\ pass' = pass /\ todo' \subseteq todo /\ (cur' = o \/ step' = "none")
  BY PassInOrder DEF Step, At
<1>4. UNCHANGED <<attempt, run, call>>
  BY DEF storeVars, leaseVars, rest
<1>5. /\ \A p \in Occurrence \ {o} : ext'[p] = ext[p] /\ occ'[p] = occ[p]
      /\ occ'[o] \in Waiting
  BY <1>1, MarkInOrder
  DEF storeVars, leaseVars, rest, BeginAcquisition, DeferOccurrence, Waiting, TypeOK, StoreTypeOK
<1>6. Good(o)'
  BY <1>1, <1>2, <1>4, <1>5, StoreAssumption
  DEF Good, StillWaits, Committed, InOrder, Supervised, Active, Truthful, GivenBack, Waiting
<1> QED
  BY <1>3, <1>4, <1>5, <1>6, OneInOrder

\* From the attempt's transaction on.
LEMMA StartsAttempt ==
    ASSUME TypeOK, LeasesInv, NEW o \in Occurrence,
           \/ CreateTriggerAttempt(o) \/ StoreTokens(o) \/ CreateRun(o)
           \/ CreateRunFails(o) \/ BlockAttempt(o)
    PROVE  LeasesInv'
<1> USE DEF Good, InOrder, Supervised, Truthful, GivenBack
<1> Good(o)
  BY DEF LeasesInv
<1>1. CASE CreateTriggerAttempt(o)
  <2>1. TaskInOrder' /\ pass' = pass /\ todo' \subseteq todo /\ cur' = o
    BY <1>1, PassInOrder DEF CreateTriggerAttempt, Step, Then
  <2>2. o \notin todo /\ run[o] = None
    BY <1>1 DEF CreateTriggerAttempt, At, Committed
  <2>3. /\ attempt'[o] = "pending" /\ occ'[o] = "running"
        /\ UNCHANGED <<run, ext, todo>> /\ step' = "tokens"
    BY <1>1 DEF CreateTriggerAttempt, Then, TypeOK, StoreTypeOK
  <2>4. Good(o)'
    BY <2>2, <2>3, StoreAssumption DEF StillWaits, Committed, Active, Waiting
  <2> QED
    BY <1>1, <2>1, <2>4, OneInOrder DEF CreateTriggerAttempt, leaseVars, TypeOK, StoreTypeOK
<1>2. CASE StoreTokens(o)
  <2>1. TaskInOrder' /\ pass' = pass /\ todo' \subseteq todo /\ cur' = o
    BY <1>2, PassInOrder DEF StoreTokens, Step, Then
  <2>2. o \notin todo /\ run[o] = None /\ occ[o] = "running"
    BY <1>2 DEF StoreTokens, At, Committed
  <2>3. attempt'[o] = "running" /\ UNCHANGED <<occ, run, ext, todo>> /\ step' = "run"
    BY <1>2 DEF StoreTokens, Then, rest, TypeOK, StoreTypeOK
  <2>4. Good(o)'
    BY <2>2, <2>3, StoreAssumption DEF StillWaits, Committed, Active, Waiting
  <2> QED
    BY <1>2, <2>1, <2>4, OneInOrder DEF StoreTokens, rest, leaseVars, TypeOK, StoreTypeOK
<1>3. CASE CreateRun(o)
  <2>1. TaskInOrder' /\ pass' = pass /\ todo' \subseteq todo /\ step' = "none"
    BY <1>3, PassInOrder DEF CreateRun, Step, Done, At
  <2>2. o \notin todo /\ attempt[o] = "running" /\ occ[o] = "running"
    BY <1>3 DEF CreateRun, At, Committed
  <2>3. run'[o] = "ready" /\ UNCHANGED <<occ, attempt, todo>>
    BY <1>3 DEF CreateRun, Done, TypeOK, StoreTypeOK
  <2>4. Good(o)'
    BY <2>1, <2>2, <2>3 DEF StillWaits, Committed, Waiting
  <2>5. \A p \in Occurrence \ {o} : ext'[p] = ext[p]
    BY <1>3 DEF CreateRun, TypeOK, StoreTypeOK
  <2> QED
    BY <1>3, <2>1, <2>4, <2>5, OneInOrder DEF CreateRun, leaseVars, TypeOK, StoreTypeOK
<1>4. CASE CreateRunFails(o)
  <2>1. TaskInOrder' /\ pass' = pass /\ todo' \subseteq todo /\ (cur' = o \/ step' = "none")
    BY <1>4, PassInOrder DEF CreateRunFails, Step, At
  <2>2. /\ o \notin todo /\ attempt[o] = "running" /\ occ[o] = "running" /\ run[o] = None
        /\ step' \in {"none", "block"}
    BY <1>4 DEF CreateRunFails, At, Committed, Then, Done
  <2>3. UNCHANGED <<occ, attempt, run, call>> /\ \A p \in Occurrence \ {o} : ext'[p] = ext[p]
    BY <1>4, MarkInOrder DEF CreateRunFails
  <2>4. Good(o)'
    BY <2>1, <2>2, <2>3, StoreAssumption DEF StillWaits, Committed, Active, Waiting
  <2> QED
    BY <2>1, <2>3, <2>4, OneInOrder
<1>5. CASE BlockAttempt(o)
  <2>1. TaskInOrder' /\ pass' = pass /\ todo' \subseteq todo /\ cur' = o
    BY <1>5, PassInOrder DEF BlockAttempt, Step, Then
  <2>2. o \notin todo /\ run[o] = None
    BY <1>5 DEF BlockAttempt, At, Committed
  <2>3. /\ attempt'[o] = "terminal" /\ occ'[o] = "blocked"
        /\ UNCHANGED <<run, ext, todo>> /\ step' = "unlease"
    BY <1>5 DEF BlockAttempt, FinishTriggerAttempt, Then, rest, TypeOK, StoreTypeOK
  <2>4. Good(o)'
    BY <2>2, <2>3, StoreAssumption DEF StillWaits, Committed, Active, Waiting
  <2> QED
    BY <1>5, <2>1, <2>4, OneInOrder
    DEF BlockAttempt, FinishTriggerAttempt, rest, leaseVars, TypeOK, StoreTypeOK
<1> QED
  BY <1>1, <1>2, <1>3, <1>4, <1>5

\* A step that ends a pass or begins a loop, with nothing under way.
LEMMA LoopInOrder ==
    ASSUME LeasesInv, call' = call, UNCHANGED <<occ, attempt, run, ext>>,
           step' = "none", pass' # "start",
           pass' \in {"idle", "materialise"} => cur' = None /\ todo' = {}
    PROVE  LeasesInv'
<1>1. ASSUME NEW p \in Occurrence PROVE Good(p)'
  BY DEF LeasesInv, Good, StillWaits, Committed, InOrder, Supervised, Active, Truthful, Ended,
         RunOutcome, GivenBack
<1> QED
  BY <1>1 DEF LeasesInv, TaskInOrder, CallsForLiveRecord

LEMMA LoopsInOrder ==
    ASSUME LeasesInv, Tick \/ Reconciled \/ EndPass \/ \E o \in Occurrence : RequestConflict(o)
    PROVE  LeasesInv'
<1>1. call' = call /\ UNCHANGED <<occ, attempt, run, ext>> /\ step' = "none" /\ pass' # "start"
  BY DEF Tick, Reconciled, EndPass, RequestConflict, storeVars, leaseVars, NoTask, LeasesInv, TaskInOrder
<1>2. pass' \in {"idle", "materialise"} => cur' = None /\ todo' = {}
  BY DEF Tick, Reconciled, EndPass, RequestConflict
<1> QED
  BY <1>1, <1>2, LoopInOrder

LEMMA FireInOrder ==
    ASSUME TypeOK, LeasesInv, NEW o \in Occurrence, Fire(o)
    PROVE  LeasesInv'
<1> Good(o) /\ TaskInOrder
  BY DEF LeasesInv
<1>1. occ[o] \in Waiting \cup {"absent"} /\ occ'[o] \in Waiting
  BY DEF Fire, Runnable, Waiting, TypeOK, StoreTypeOK
<1>2. attempt[o] = "none" /\ run[o] = None
  BY <1>1 DEF Good, InOrder
<1>3. /\ UNCHANGED <<attempt, run, ext, call>> /\ todo' = {} /\ pass' = "fire"
      /\ step' = "start" /\ cur' = o
  BY DEF Fire, NoTask, TaskInOrder, leaseVars
<1>4. Good(o)'
  BY <1>1, <1>2, <1>3, StoreAssumption
  DEF Good, StillWaits, Committed, InOrder, Supervised, Active, Truthful, GivenBack
<1>5. ASSUME NEW p \in Occurrence \ {o} PROVE Good(p)'
  <2>1. occ'[p] = occ[p]
    BY DEF Fire, TypeOK, StoreTypeOK
  <2> QED
    BY <1>3, <2>1
    DEF LeasesInv, Good, StillWaits, Committed, InOrder, Supervised, Active, Truthful, Ended,
        RunOutcome, GivenBack
<1> QED
  BY <1>3, <1>4, <1>5, StoreAssumption DEF LeasesInv, TaskInOrder, CallsForLiveRecord

LEMMA MaterialiseInOrder ==
    ASSUME TypeOK, LeasesInv, NEW new \in SUBSET Occurrence, NEW kept, Materialise(new, kept)
    PROVE  LeasesInv'
<1> TaskInOrder
  BY DEF LeasesInv
<1>1. /\ UNCHANGED <<attempt, run, ext, call>> /\ cur' = None /\ step' = "none"
      /\ pass' = "start"
  BY DEF Materialise, TaskInOrder, leaseVars
<1>2. ASSUME NEW p \in Occurrence PROVE Good(p)'
  <2> Good(p)
    BY DEF LeasesInv
  <2>1. StillWaits(p)' /\ Committed(p)'
    BY <1>1 DEF Materialise, StillWaits, Committed, Waiting
  <2>2. CASE occ'[p] = occ[p]
    BY <1>1, <2>1, <2>2
    DEF Good, InOrder, Supervised, Active, Truthful, Ended, RunOutcome, GivenBack
  <2>3. CASE occ'[p] # occ[p]
    <3>1. occ[p] \in Waiting \cup {"absent"}
      BY <2>3 DEF Materialise, Superseded, Candidates, ComeDue
    <3>2. attempt[p] = "none" /\ run[p] = None
      BY <3>1 DEF Good, InOrder
    <3> QED
      BY <1>1, <2>1, <3>2, StoreAssumption
      DEF Good, InOrder, Supervised, Active, Truthful, GivenBack
  <2> QED
    BY <2>2, <2>3
<1> QED
  BY <1>1, <1>2 DEF LeasesInv, TaskInOrder, CallsForLiveRecord

LEMMA NextInOrder ==
    ASSUME TypeOK, LeasesInv, [Next]_vars
    PROVE  LeasesInv'
<1>1. CASE UNCHANGED vars
  BY <1>1, RecordsInOrder
  DEF vars, storeVars, leaseVars, LeasesInv, CallsForLiveRecord
<1>2. CASE CoreStep
  BY <1>2, ReconcilesInOrder, StartsWaiting, StartsAttempt, LoopsInOrder, MaterialiseInOrder
  DEF CoreStep, Ticks, Sweeps, EndsPass, Reconciles, Starts, StartSteps, Materialises
<1>3. CASE \E o \in Occurrence : Coordinates(o)
  BY <1>3, SendsInOrder, AnswersInOrder DEF Coordinates
<1>4. CASE Environment
  BY <1>4, FireInOrder, StartsAttempt, AnswersInOrder, RunStepsInOrder, OthersInOrder, CrashInOrder
  DEF Environment, Fires, FailsToStart
<1> QED
  BY <1>1, <1>2, <1>3, <1>4, ServesInOrder DEF Next

----
(* The theorems. *)

LEMMA LeasesInductive == Spec => [](TypeOK /\ LeasesInv)
<1>1. Init => TypeOK /\ LeasesInv
  BY InitTyped, InitInOrder
<1>2. TypeOK /\ LeasesInv /\ [Next]_vars => (TypeOK /\ LeasesInv)'
  BY NextTyped, NextInOrder
<1> QED
  BY <1>1, <1>2, PTL DEF Spec

\* The store, the coordinator's call and the pass keep their types, whatever order
\* ticks, answers, runs and crashes come in: an attempt never ends with the status
\* of a run that is still under way.
THEOREM LeasesTypeCorrect == Spec => []TypeOK
BY LeasesInductive, PTL

\* A run that has not ended always has an attempt and an occurrence that run, for
\* some tick to renew, cancel or finish: createRecoverableRun comes after the
\* tokens, and no crash between the transactions of a start or of a reconciliation
\* leaves a run without them.
THEOREM SupervisedCorrect == Spec => []RunsAreSupervised
<1>1. LeasesInv => RunsAreSupervised
  BY DEF LeasesInv, Good, Supervised, RunsAreSupervised
<1> QED
  BY <1>1, LeasesInductive, PTL

\* An attempt ends only after its run, and its occurrence with what the run came
\* to: finishAttempt, a transaction after the tick looked at the run, still finds
\* the run it looked at.
THEOREM TruthCorrect == Spec => []AttemptsTellTheTruth
<1>1. LeasesInv => AttemptsTellTheTruth
  BY DEF LeasesInv, Good, Truthful, AttemptsTellTheTruth
<1> QED
  BY <1>1, LeasesInductive, PTL

\* The attempt of a run with an external lease does not end before the lease is
\* released, and no late answer of the lease service takes the release back.
THEOREM GivenBackCorrect == Spec => []AttemptOutlivesDomainLease
<1>1. LeasesInv => AttemptOutlivesDomainLease
  BY StoreAssumption DEF LeasesInv, Good, GivenBack, AttemptOutlivesDomainLease
<1> QED
  BY <1>1, LeasesInductive, PTL

====
