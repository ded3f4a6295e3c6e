---- MODULE InventoryEffects ----
(***************************************************************************)
(* Core and the inventory service: the runs that write through it          *)
(* (inventory-data-runtime-provider.ts, called by the drain loop of        *)
(* ir2-workflow-runtime.ts), their lease on the domain, and the operator's *)
(* reconciliation of writes whose outcome is in doubt                      *)
(* (inventory-effect-reconciliation.ts).  The calls of the lease           *)
(* coordinator are one step each: DomainLease has them in full.            *)
(***************************************************************************)
EXTENDS InventoryService

CONSTANTS MaxCrashes   \* bound: crashes of Core, by program

ASSUME EffectsAssumption == MaxCrashes \in [Programs -> Nat]

VARIABLES
    run,        \* status of a run: "ended" is any end but an uncertain one
    record,     \* its row of external_domain_leases
    told,       \* what the engine was told of an invocation; "failed" is any answer
                \* that says it was not made, a sync without a source included
    waiting,    \* volatile: the request the drain loop awaits, or None
    operator,   \* volatile: the operator's request being served
    token,      \* the report behind the resolution token the operator has
    audit,      \* the report of external_domain_lease_reconciliations
    crashes

coreVars == <<run, record, told, waiting, operator, token, audit, crashes>>
vars     == <<serviceVars, coreVars>>

NoRequest == [at |-> "idle", run |-> None, report |-> None, todo |-> {}]
Reports == UNION {[E -> [status : EffectStatus,
                         items : [Product -> {"none", "succeeded", "failed"}]]] :
                     E \in SUBSET Effect}
RequestRecord ==
    [at : {"idle", "inspect", "resolve", "reconcile", "final"}, run : Run \cup {None},
     report : Reports \cup {None}, todo : SUBSET Effect]

TypeOK ==
    /\ ServiceTypeOK
    /\ run \in [Run -> {"none", "running", "ended", "uncertain"}]
    /\ record \in [Run -> {"none", "bound", "reconciliation", "released"}]
    /\ told \in [Effect -> Result \cup {"none"}]
    /\ waiting \in Handler \cup {None}
    /\ operator \in RequestRecord
    /\ token \in Reports \cup {None}
    /\ audit \in [Run -> Reports \cup {None}]
    /\ crashes \in 0..MaxCrashes[operation]

Init ==
    /\ ServiceInit
    /\ run = [r \in Run |-> "none"]
    /\ record = [r \in Run |-> "none"]
    /\ told = [e \in Effect |-> "none"]
    /\ waiting = None
    /\ operator = NoRequest
    /\ token = None
    /\ audit = [r \in Run |-> None]
    /\ crashes = 0

----
(* The lease and the runs. *)

\* One record of the domain is unreleased at a time.
DomainFree == \A q \in Run : record[q] \in {"none", "released"}

\* The service grants the lease to the one record, and the grant is bound.
BindGrant(r) ==
    /\ Grants(r)
    /\ record' = [record EXCEPT ![r] = "bound"]

\* A run that writes starts once its record is bound.
StartRun(r) ==
    /\ run[r] = "none" /\ Writes(r) # {}
    /\ DomainFree
    /\ BindGrant(r)
    /\ run' = [run EXCEPT ![r] = "running"]
    /\ UNCHANGED <<operation, tableVars, handler, open, told, waiting, operator, token,
                   audit, crashes>>

\* The workflow comes to its end, or is cancelled, also while a write is under way.
EndRun(r) ==
    /\ run[r] = "running"
    /\ run' = [run EXCEPT ![r] = "ended"]
    /\ UNCHANGED <<serviceVars, record, told, waiting, operator, token, audit, crashes>>

Release(r) ==
    /\ record[r] = "bound" /\ run[r] # "running"
    /\ GivesBack(r)
    /\ record' = [record EXCEPT ![r] = "released"]
    /\ UNCHANGED <<operation, tableVars, handler, open, run, told, waiting,
                   operator, token, audit, crashes>>

\* The coordinator finds the lease lost, and the trigger runtime ends the run.
LeaseNotRenewed(r) ==
    /\ record[r] = "bound" /\ run[r] = "running"
    /\ ~(lease.live /\ lease.holder = r)
    /\ record' = [record EXCEPT ![r] = "reconciliation"]
    /\ UNCHANGED <<serviceVars, run, told, waiting, operator, token, audit, crashes>>

MarkRunUncertain(r) ==
    /\ record[r] = "reconciliation" /\ run[r] = "running"
    /\ run' = [run EXCEPT ![r] = "uncertain"]
    /\ UNCHANGED <<serviceVars, record, told, waiting, operator, token, audit, crashes>>

----
(* Writes. *)

\* The drain loop hands an invocation to the provider, again after a crash.
Invoke(e, h) ==
    /\ waiting = None /\ told[e] = "none" /\ operation[e] # None
    /\ run[RunOf[e]] = "running" /\ record[RunOf[e]] = "bound"
    /\ handler[h].at = "idle"
    /\ waiting' = h
    /\ handler' = [handler EXCEPT ![h] = [IdleHandler EXCEPT !.effect = e,
                                                             !.at = "arrived"]]
    /\ UNCHANGED <<operation, lease, tableVars, open, run, record, told, operator,
                   token, audit, crashes>>

\* It is not handed out, or not again: its deadline has passed, or the provider
\* rejects it because the lease is not bound.  The engine is told so, without a doubt.
NotHandedOut(e) ==
    /\ waiting = None /\ told[e] = "none" /\ operation[e] # None
    /\ run[RunOf[e]] = "running"
    /\ told' = [told EXCEPT ![e] = "failed"]
    /\ UNCHANGED <<serviceVars, run, record, waiting, operator, token, audit, crashes>>

\* The engine hears of an invocation of a running run.  A doubt blocks the lease
\* until it is reconciled, and the uncertain route ends the run.
Hears(e, result) ==
    /\ waiting' = None
    /\ told' = IF run[RunOf[e]] = "running" THEN [told EXCEPT ![e] = result] ELSE told
    /\ record' = IF result = "uncertain" /\ record[RunOf[e]] = "bound"
                 THEN [record EXCEPT ![RunOf[e]] = "reconciliation"] ELSE record
    /\ run' = IF result = "uncertain" /\ run[RunOf[e]] = "running"
              THEN [run EXCEPT ![RunOf[e]] = "uncertain"] ELSE run
    /\ UNCHANGED <<operator, token, audit, crashes>>

\* A handler's answer: to the drain loop, or to a socket nobody reads any more.
Answer(h) ==
    /\ At(h, "answer")
    /\ handler' = [handler EXCEPT ![h] = IdleHandler]
    /\ IF waiting = h THEN Hears(Of(h), handler[h].says)
       ELSE UNCHANGED coreVars
    /\ UNCHANGED <<operation, lease, tableVars, open>>

\* The timeout, the deadline's abort, or a broken connection.  The handler goes on.
GiveUpWaiting ==
    /\ waiting # None
    /\ handler[waiting].at # "idle"
    /\ Hears(Of(waiting), "uncertain")
    /\ UNCHANGED serviceVars

----
(* Reconciliation by the operator. *)

\* #inspect: the report is read from a snapshot that may be older than the lock on
\* the lease row the service then waits for.
Ask(r, purpose) ==
    /\ operator.at = "idle"
    /\ record[r] = "reconciliation" /\ run[r] = "uncertain"
    /\ purpose = "resolve" => token # None
    /\ operator' = [NoRequest EXCEPT !.at = purpose, !.run = r, !.report = Report(r)]
    /\ UNCHANGED <<serviceVars, run, record, told, waiting, token, audit, crashes>>

Doubtful(report) == {e \in DOMAIN report : report[e].status = "running"}

Inspected ==
    /\ operator.at = "inspect" /\ NoActiveOwner
    /\ token' = operator.report
    /\ operator' = NoRequest
    /\ UNCHANGED <<serviceVars, run, record, told, waiting, audit, crashes>>

\* Only what the operator has seen is resolved, a report that was stale when it was
\* shown is not.
Resolve ==
    /\ operator.at = "resolve" /\ NoActiveOwner
    /\ operator.report = token
    /\ operator' = [operator EXCEPT !.at = "reconcile",
                                    !.todo = Doubtful(operator.report)]
    /\ UNCHANGED <<serviceVars, run, record, told, waiting, token, audit, crashes>>

ReconcileNext(e) ==
    /\ operator.at = "reconcile" /\ e \in operator.todo
    /\ ReconcileInventoryEffect(e)
    /\ operator' = [operator EXCEPT !.todo = @ \ {e}]
    /\ UNCHANGED <<run, record, told, waiting, token, audit, crashes>>

\* Mutant: what the reconciliation is expected to have made of the first.
ExpectedReport(r) ==
    [e \in DOMAIN operator.report |->
        IF operator.report[e].status = "running"
        THEN [operator.report[e] EXCEPT !.status = "reconciled"]
        ELSE operator.report[e]]

\* The second report is the one that is put on record.
FinalReport(r) == Report(r)

InspectAgain ==
    /\ operator.at = "reconcile" /\ operator.todo = {}
    /\ operator' = [operator EXCEPT !.at = "final", !.report = FinalReport(operator.run)]
    /\ UNCHANGED <<serviceVars, run, record, told, waiting, token, audit, crashes>>

\* commitInventoryEffectReconciliation.
CommitReconciliation(r) ==
    /\ operator.at = "final" /\ operator.run = r /\ NoActiveOwner
    /\ Doubtful(operator.report) = {}
    /\ record[r] = "reconciliation" /\ run[r] = "uncertain"
    /\ audit' = [audit EXCEPT ![r] = operator.report]
    /\ record' = [record EXCEPT ![r] = "released"]
    /\ operator' = NoRequest
    /\ token' = None
    /\ UNCHANGED <<serviceVars, run, told, waiting, crashes>>

\* The service refuses or does not answer; a change of token; a report still running.
OperatorFails ==
    /\ operator.at # "idle"
    /\ operator' = NoRequest
    /\ UNCHANGED <<serviceVars, run, record, told, waiting, token, audit, crashes>>

----
\* A crash while nothing is awaited is one of the operator's requests that fail.
CoreCrash ==
    /\ crashes < MaxCrashes[operation] /\ waiting # None
    /\ crashes' = crashes + 1
    /\ waiting' = None
    /\ operator' = NoRequest
    /\ UNCHANGED <<serviceVars, run, record, told, token, audit>>

\* The service's connections break: the drain loop hears of it.
ServiceCrash ==
    /\ ServiceRestart
    /\ IF waiting # None THEN Hears(Of(waiting), "uncertain") ELSE UNCHANGED coreVars

Service == (\E h \in Handler : HandlerStep(h)) /\ UNCHANGED coreVars

Environment == (Expire \/ OutsiderTakes) /\ UNCHANGED coreVars

Operator ==
    \/ \E r \in Run, purpose \in {"inspect", "resolve"} : Ask(r, purpose)
    \/ Inspected \/ Resolve \/ InspectAgain \/ OperatorFails
    \/ \E e \in Effect : ReconcileNext(e)
    \/ \E r \in Run : CommitReconciliation(r)

Core ==
    \/ \E r \in Run : \/ StartRun(r) \/ EndRun(r) \/ Release(r)
                      \/ LeaseNotRenewed(r) \/ MarkRunUncertain(r)
    \/ \E e \in Effect : NotHandedOut(e) \/ \E h \in Handler : Invoke(e, h)
    \/ \E h \in Handler : Answer(h)
    \/ GiveUpWaiting

Next == Core \/ Service \/ Environment \/ Operator \/ CoreCrash \/ ServiceCrash

Spec == Init /\ [][Next]_vars

----
(* Properties. *)

\* Readers of the orders see whole publications only: every source row up to a
\* watermark that never goes back, although rows are staged page by page by handlers
\* that crash, lose the lease, or are still at work when the next run has it.
Feed == INSTANCE OrderFeed WITH published <- facts, watermark <- mark
PublishesWhole == Feed!FeedSpec

\* What Core has on record of a write is true, and stays true whatever handlers are
\* still on their way: a write the engine believes in was made, and the audit of a
\* reconciled run is what the service has, missing effects included.
RecordsAreTrue ==
    /\ \A e \in Effect : told[e] = "succeeded" => effect[e] = "succeeded"
    /\ \A r \in Run : audit[r] # None => audit[r] = Report(r)

\* An effect is decided once: neither the clean-up of a sync whose commit was not
\* heard of, nor a second handler, nor a reconciliation changes it or its items again.
EffectsAreFinal ==
    [][\A e \in Effect : effect[e] \in Terminal =>
          effect'[e] = effect[e] /\ item'[e] = item[e]]_vars

\* Rows are staged only for a sync that is running by both its rows, so that
\* deleting them with the sync's end is enough.
StagedForRunningSync ==
    \A e \in Effect : staged[e] # {} => sync[e] = "running" /\ effect[e] = "running"

\* A run whose write is in doubt, and no other, holds the domain until the operator
\* has resolved it.  (Core's status document; the code does not keep it: a run that
\* is cancelled while a write is under way ends otherwise, and nobody can clear it.)
DoubtMeansUncertainRun ==
    \A r \in Run : record[r] = "reconciliation" => run[r] \in {"running", "uncertain"}

====
