---- MODULE TriggerRuntime ----
(***************************************************************************)
(* trigger-runtime.ts: fire, for manual triggers, and tick, which sweeps   *)
(* the leases of ended attempts, reconciles the active attempts,           *)
(* materialises the schedules and starts what is runnable.  Both run       *)
(* without an await, but every transaction is an action of its own, so     *)
(* that a crash can fall between any two of them.                          *)
(***************************************************************************)
EXTENDS DomainLease, FiniteSets

CONSTANTS
    Trigger,     \* trigger specifications
    TriggerOf,   \* the trigger of an occurrence
    Manual,      \* the occurrences of manual triggers, which the control API
                 \* fires; the others are scheduled
    Keeps        \* how many late occurrences a trigger's missedRunPolicy may keep:
                 \* {1} for run_once, {maxCatchUpOccurrences} for
                 \* bounded_catch_up, any number for skip, by its window

ASSUME RuntimeAssumption ==
    /\ TriggerOf \in [Occurrence -> Trigger]
    /\ Manual \subseteq Occurrence
    /\ \A o \in Manual, p \in Occurrence \ Manual : TriggerOf[o] # TriggerOf[p]
    /\ Keeps \in [Trigger -> SUBSET Nat]

VARIABLES
    pass,   \* the loop fire or tick is in
    todo,   \* the occurrences the loop has yet to visit
    cur,    \* the occurrence it is visiting, or None
    step    \* the next transaction for cur

taskVars == <<pass, todo, cur, step>>

Pass == {"idle", "fire", "reconcile", "materialise", "start"}
Step == {"none", "start", "browser", "yield", "attempt", "tokens", "run", "block",
         "lost", "fence", "finish", "unlease"}

TaskTypeOK ==
    /\ pass \in Pass
    /\ todo \subseteq Occurrence
    /\ cur \in Occurrence \cup {None}
    /\ step \in Step

TaskInit ==
    /\ pass = "idle"
    /\ todo = {}
    /\ cur = None
    /\ step = "none"

\* JavaScript runs nothing else while a tick or a fire is on the stack.
NoTask == pass = "idle"

\* The transaction `next` of occurrence o follows in the same pass; or none does.
Then(o, next) == cur' = o /\ step' = next /\ UNCHANGED <<pass, todo>>
Done          == cur' = None /\ step' = "none" /\ UNCHANGED <<pass, todo>>
At(o, here)   == cur = o /\ step = here

First(o) == o \in todo /\ \A p \in todo : o <= p
Visit(loop, o) == pass = loop /\ cur = None /\ First(o)
Take(o, next) == todo' = todo \ {o} /\ cur' = o /\ step' = next /\ UNCHANGED pass
LeaveAlone(o) == todo' = todo \ {o} /\ UNCHANGED <<pass, cur, step>>

rest == <<due, run, leaseVars>>

----
(* tick: sweep, then reconcile every active attempt. *)

\* sweepAttemptLeases: only leases of attempts stored as terminal.
Sweep ==
    lease' = [r \in Resource |->
                 IF \E o \in Occurrence : attempt[o] = "terminal" /\ Holds(o, r)
                 THEN [lease[r] EXCEPT !.left = 0] ELSE lease[r]]

Tick ==
    /\ NoTask
    /\ Sweep
    /\ pass' = "reconcile"
    /\ todo' = {o \in Occurrence : attempt[o] \in {"pending", "running"}}
    /\ UNCHANGED <<cur, step, occ, due, attempt, run, ext, leaseVars>>

\* findOrRenewLeases: a pending attempt has no fencing tokens yet.
LostControl(o) ==
    attempt[o] = "pending" \/ \E r \in Needs(o) : ~Holds(o, r)
FindOrRenewLeases(o) ==
    lease' = IF attempt[o] = "pending" THEN lease ELSE Renewed(o, Needs(o))


\* Lost control under an external lease: block, mark the run uncertain, let go of
\* what is left, never finish the attempt here.
ReconcileLostExternal(o) ==
    /\ Visit("reconcile", o) /\ LostControl(o) /\ o \in External
    /\ FindOrRenewLeases(o)
    /\ MarkReconciliationRequired(o, FALSE)
    /\ Take(o, "lost")
    /\ UNCHANGED <<occ, due, attempt, run, call, remote, known>>

\* Mutant: the run that lost its leases is left alone.
ReconcileLostControlQuietly(o) ==
    /\ Visit("reconcile", o) /\ LostControl(o) /\ o \notin External
    /\ FindOrRenewLeases(o)
    /\ LeaveAlone(o)
    /\ UNCHANGED <<occ, due, attempt, run, ext, leaseVars>>

\* Lost control otherwise: an active run is cancelled before its attempt ends.
ReconcileLostControl(o) ==
    /\ Visit("reconcile", o) /\ LostControl(o) /\ o \notin External
    /\ FindOrRenewLeases(o)
    /\ run' = IF Active(o) THEN [run EXCEPT ![o] = "cancelled"] ELSE run
    /\ Take(o, "finish")
    /\ UNCHANGED <<occ, due, attempt, ext, leaseVars>>

\* Mutants: a run that waits counts as ended; the external lease is not waited for;
\* a run that was never created is waited for.
FinishableAtRest(o) == run[o] \notin {"ready", "acting"}
FinishableOnceEnded(o) == run[o] = None \/ Ended(o)
FinishableWithRun(o) == Ended(o) /\ (o \in External => ext[o].state = "released")

\* In control, and nothing left to wait for: the run ended or was never created,
\* and the external lease is gone.  A bound lease without a run is left to the
\* coordinator, which releases it once the attempt is terminal.
Finishable(o) ==
    \/ run[o] = None /\ (o \in External => ext[o].state \in {"bound", "released"})
    \/ Ended(o) /\ (o \in External => ext[o].state = "released")

ReconcileEnded(o) ==
    /\ Visit("reconcile", o) /\ ~LostControl(o) /\ Finishable(o)
    /\ FindOrRenewLeases(o)
    /\ Take(o, "finish")
    /\ UNCHANGED <<occ, due, attempt, run, ext, leaseVars>>

\* In control with a blocked external lease: the run becomes uncertain.
ReconcileFenced(o) ==
    /\ Visit("reconcile", o) /\ ~LostControl(o)
    /\ o \in External /\ ext[o].state \in {"acquiring", "reconciliation"}
    /\ FindOrRenewLeases(o)
    /\ Take(o, "fence")
    /\ UNCHANGED <<occ, due, attempt, run, ext, leaseVars>>

ReconcileRunning(o) ==
    /\ Visit("reconcile", o) /\ ~LostControl(o) /\ ~Finishable(o)
    /\ o \in External => ext[o].state \in {"bound", "released"}
    /\ FindOrRenewLeases(o)
    /\ LeaveAlone(o)
    /\ UNCHANGED <<occ, due, attempt, run, ext, leaseVars>>

\* markExternalDomainLeaseUncertain ends a run at a call and throws anywhere else.
MarkUncertain(o) ==
    /\ At(o, "lost") \/ At(o, "fence")
    /\ run' = IF run[o] \in {"ready", "acting"}
              THEN [run EXCEPT ![o] = "uncertain"] ELSE run
    /\ IF step = "lost" THEN Then(o, "unlease") ELSE Done
    /\ UNCHANGED <<occ, due, attempt, lease, ext, leaseVars>>

\* Mutant: losing the leases decides the outcome, whatever the run came to.
FinishAttemptByControl(o) ==
    /\ At(o, "finish")
    /\ FinishTriggerAttempt(o,
          IF run[o] # None /\ ~LostControl(o) THEN RunOutcome(o) ELSE "cancelled")
    /\ Then(o, "unlease")
    /\ UNCHANGED <<rest, lease, ext>>

\* finishAttempt and finishWithoutLeases.  What never had a run fails, or was
\* blocked by the external lease that was released before.
FinishAttempt(o) ==
    /\ At(o, "finish")
    /\ FinishTriggerAttempt(o,
          IF run[o] # None THEN RunOutcome(o)
          ELSE IF o \in External /\ ext[o].state = "released" THEN "blocked"
          ELSE "failed")
    /\ Then(o, "unlease")
    /\ UNCHANGED <<rest, lease, ext>>

\* releaseLeases and releaseRetainedLeases: browser and trigger lease.  An attempt
\* without tokens has none to release; the sweep does it once it is terminal.
ReleaseLeases(o) ==
    /\ At(o, "unlease")
    /\ lease' = Released(o, Needs(o))
    /\ Done
    /\ UNCHANGED <<occ, due, attempt, run, ext, leaseVars>>

----
(* tick: materialise the schedules. *)

Reconciled ==
    /\ pass = "reconcile" /\ cur = None /\ todo = {}
    /\ Sweep
    /\ pass' = "materialise"
    /\ UNCHANGED <<todo, cur, step, occ, due, attempt, run, ext, leaseVars>>

\* The occurrences that came due since the last tick, oldest first.
ComeDue(new) ==
    \A o \in new :
        /\ occ[o] = "absent" /\ o \notin Manual
        /\ \A p \in Occurrence :
              TriggerOf[p] = TriggerOf[o] /\ p < o => occ[p] # "absent" \/ p \in new

\* applyMissedRunPolicy: of a trigger's occurrences not started yet all but the
\* last few are finished.
Candidates(t, new) ==
    {o \in Occurrence \ Manual :
        TriggerOf[o] = t /\ (occ[o] \in Waiting \/ o \in new)}
Superseded(t, new, kept) ==
    {o \in Candidates(t, new) :
        Cardinality({p \in Candidates(t, new) : p >= o}) > kept}

Materialise(new, kept) ==
    /\ pass = "materialise"
    /\ ComeDue(new)
    /\ \A t \in Trigger : kept[t] \in Keeps[t]
    /\ occ' = [o \in Occurrence |->
                  IF o \in Superseded(TriggerOf[o], new, kept[TriggerOf[o]])
                  THEN "missed"
                  ELSE IF o \in new THEN "pending" ELSE occ[o]]
    /\ due' = {o \in due : occ'[o] = "deferred"}
    /\ pass' = "start"
    /\ todo' = {o \in Occurrence : occ'[o] = "pending" \/ o \in due'}
    /\ UNCHANGED <<cur, step, attempt, run, lease, ext, leaseVars>>

----
(* Starting an occurrence: startRunnableOccurrences and fire. *)

\* A request made again for an occurrence that is neither new nor runnable only
\* reads.
Fire(o) ==
    /\ NoTask
    /\ o \in Manual
    /\ occ[o] = "absent" \/ Runnable(o)
    /\ occ' = IF occ[o] = "absent" THEN [occ EXCEPT ![o] = "pending"] ELSE occ
    /\ pass' = "fire" /\ cur' = o /\ step' = "start"
    /\ UNCHANGED <<todo, due, attempt, run, lease, ext, leaseVars>>

StartNext(o) ==
    /\ Visit("start", o)
    /\ Take(o, "start")
    /\ UNCHANGED <<storeVars, leaseVars>>

EndPass ==
    /\ pass \in {"fire", "start"} /\ cur = None /\ todo = {}
    /\ pass' = "idle"
    /\ UNCHANGED <<todo, cur, step, storeVars, leaseVars>>

\* The intent for the external lease comes first.  Another request for the domain
\* that is not released is a conflict, thrown out of the whole pass.
Request(o) ==
    /\ At(o, "start") /\ o \in External /\ ~Unreleased(o)
    /\ \A p \in Occurrence : ~Unreleased(p)
    /\ BeginAcquisition(o)
    /\ Done
    /\ UNCHANGED <<occ, due, attempt, run, lease, verified, call, remote>>

RequestConflict(o) ==
    /\ At(o, "start") /\ o \in External /\ ~Unreleased(o)
    /\ \E p \in Occurrence : Unreleased(p)
    /\ pass' = "idle" /\ todo' = {} /\ cur' = None /\ step' = "none"
    /\ UNCHANGED <<storeVars, leaseVars>>

\* Acquiring, blocked, or bound and not verified since Core started: later.
NotYet(o) ==
    /\ At(o, "start") /\ Unreleased(o)
    /\ ~(ext[o].state = "bound" /\ CanStart(o))
    /\ Done
    /\ UNCHANGED <<storeVars, leaseVars>>

MayStart(o) ==
    o \in External => ext[o].state = "bound" /\ CanStart(o)

\* A busy local lease defers the occurrence, or blocks the external lease it has.
GiveWay(o) ==
    /\ IF o \in External
       THEN MarkReconciliationRequired(o, FALSE) /\ UNCHANGED <<occ, due>>
       ELSE DeferOccurrence(o) /\ UNCHANGED <<ext, verified>>
    /\ Done
    /\ UNCHANGED <<attempt, run, call, remote, known>>

TriggerBusy(o) ==
    /\ At(o, "start") /\ MayStart(o) /\ ~Free(KeyOf[o])
    /\ GiveWay(o)
    /\ UNCHANGED lease

AcquireTriggerLease(o) ==
    /\ At(o, "start") /\ MayStart(o) /\ Free(KeyOf[o])
    /\ lease' = Acquired(o, KeyOf[o])
    /\ Then(o, IF BrowserOf[o] = None THEN "attempt" ELSE "browser")
    /\ UNCHANGED <<occ, attempt, ext, rest>>

BrowserBusy(o) ==
    /\ At(o, "browser") /\ ~Free(BrowserOf[o])
    /\ lease' = Released(o, {KeyOf[o]})
    /\ Then(o, "yield")
    /\ UNCHANGED <<occ, attempt, ext, rest>>

Yield(o) == At(o, "yield") /\ GiveWay(o) /\ UNCHANGED lease

AcquireBrowserLease(o) ==
    /\ At(o, "browser") /\ Free(BrowserOf[o])
    /\ lease' = Acquired(o, BrowserOf[o])
    /\ Then(o, "attempt")
    /\ UNCHANGED <<occ, attempt, ext, rest>>

CreateTriggerAttempt(o) ==
    /\ At(o, "attempt")
    /\ occ' = [occ EXCEPT ![o] = "running"]
    /\ due' = due \ {o}
    /\ attempt' = [attempt EXCEPT ![o] = "pending"]
    /\ Then(o, "tokens")
    /\ UNCHANGED <<run, lease, ext, leaseVars>>

StoreTokens(o) ==
    /\ At(o, "tokens")
    /\ attempt' = [attempt EXCEPT ![o] = "running"]
    /\ Then(o, "run")
    /\ UNCHANGED <<occ, lease, ext, rest>>

\* createRecoverableRun: the run, its link to the attempt and the external lease in
\* one transaction.  The link stamps the lease with its own time, from which the
\* granted time is counted from now on.
CreateRun(o) ==
    /\ At(o, "run")
    /\ run' = [run EXCEPT ![o] = "ready"]
    /\ ext' = IF o \in External
              THEN [ext EXCEPT ![o] = [@ EXCEPT !.linked = TRUE, !.anchored = FALSE,
                                                !.window = ext[o].granted]]
              ELSE ext
    /\ Done
    /\ UNCHANGED <<occ, due, attempt, lease, leaseVars>>

\* The run cannot be created (page gone, workflow unavailable, maintenance).
CreateRunFails(o) ==
    /\ At(o, "run")
    /\ IF o \in External
       THEN /\ MarkReconciliationRequired(o, FALSE)
            /\ Done
       ELSE /\ UNCHANGED <<ext, verified>>
            /\ Then(o, "block")
    /\ UNCHANGED <<occ, due, attempt, run, lease, call, remote, known>>

BlockAttempt(o) ==
    /\ At(o, "block")
    /\ FinishTriggerAttempt(o, "blocked")
    /\ Then(o, "unlease")
    /\ UNCHANGED <<rest, lease, ext>>

\* A crash ends the pass; what was committed stays.
TaskRestart ==
    /\ pass' = "idle"
    /\ todo' = {}
    /\ cur' = None
    /\ step' = "none"

ReconcileSteps(o) ==
    \/ ReconcileLostExternal(o) \/ ReconcileLostControl(o) \/ ReconcileEnded(o)
    \/ ReconcileFenced(o) \/ ReconcileRunning(o)
    \/ MarkUncertain(o) \/ FinishAttempt(o) \/ ReleaseLeases(o)

StartSteps(o) ==
    \/ StartNext(o) \/ Request(o) \/ RequestConflict(o) \/ NotYet(o)
    \/ TriggerBusy(o) \/ AcquireTriggerLease(o)
    \/ BrowserBusy(o) \/ Yield(o) \/ AcquireBrowserLease(o)
    \/ CreateTriggerAttempt(o) \/ StoreTokens(o) \/ CreateRun(o) \/ BlockAttempt(o)

====
