---- MODULE InventoryService ----
(***************************************************************************)
(* The inventory service: the rows it keeps in PostgreSQL (repository.ts)  *)
(* and the handlers of its three write operations (service-protocol.ts,    *)
(* mysql-source.ts, shop-forecast-risk-refresh.ts).                        *)
(*                                                                         *)
(* A write is an effect, identified by the caller's invocation and bound   *)
(* to one grant of the domain lease.  Every transaction of a handler first *)
(* locks the lease row and finds it live, and holds the lock until it      *)
(* commits: it is two steps here, because the lease may expire in between. *)
(* Who asks for the row later waits for the transactions before it.        *)
(***************************************************************************)
EXTENDS Naturals, FiniteSets

CONSTANTS
    Run,         \* workflow runs; each is granted the lease at most once
    Effect,      \* the write invocations of the runs
    RunOf,       \* the run an effect belongs to
    Programs,    \* what the runs may be made to write: sets of operations by effect
    Products,    \* number of products a forecast effect visits
    LastRow,     \* bound: rows of the order source, numbered by id
    Handler,     \* requests in the service at a time
    Outsider,    \* another client of the domain lease
    None

SyncOp     == "sales-demand.sync"
SnapshotOp == "inventory.snapshot.persist"
ForecastOp == "inventory.shop.forecast-risk.refresh"
WriteOperation == {SyncOp, SnapshotOp, ForecastOp}

ASSUME ServiceAssumption ==
    /\ RunOf \in [Effect -> Run]
    /\ Programs \subseteq [Effect -> WriteOperation \cup {None}]
    /\ Products \in Nat /\ LastRow \in Nat
    /\ Outsider \notin Run /\ None \notin Run /\ None # Outsider
    /\ None \notin Effect \cup Handler \cup WriteOperation

\* A run syncs the orders (of one shop) once: the workflow has one step that does, for
\* each of its shops, without a retry.  Nothing in the service sees to it.
ASSUME OneSyncAssumption ==
    \A p \in Programs : \A d, e \in Effect :
        p[d] = SyncOp /\ p[e] = SyncOp /\ RunOf[d] = RunOf[e] => d = e

VARIABLES
    operation, \* one of Programs: the operation of each effect the runs have
    lease,     \* the row of ops.lease: its holder and whether it is live
    effect,    \* ops.inventory_effect: the status of each effect
    item,      \* ops.inventory_effect_item of the forecast effects
    sync,      \* source.sync_run of the sync effects
    staged,    \* source.order_line_staging, by effect
    facts,     \* source.order_line_fact
    mark,      \* source.watermark
    handler,   \* volatile: the handlers and their locals
    open       \* those whose transaction holds the lease row or is next to

tableVars   == <<effect, item, sync, staged, facts, mark>>
serviceVars == <<operation, lease, effect, item, sync, staged, facts, mark, handler,
                 open>>

Product == 1..Products
Row     == 1..LastRow

\* "reconciled" is a failed effect whose code a reconciliation gave it.
EffectStatus == {"none", "running", "succeeded", "failed", "reconciled"}
Terminal     == {"succeeded", "failed", "reconciled"}

\* The places where a handler has a transaction to run, and the others.
Transaction == {"begin", "stage", "publish", "no change", "cleanup",
                "product", "item", "summary"}
Place == {"idle", "arrived", "read", "verify", "answer"} \cup Transaction

\* from: the watermark it started at; cursor: the last row it has read;
\* says: its answer.
Result == {"succeeded", "failed", "uncertain"}
HandlerRecord ==
    [effect : Effect \cup {None}, at : Place, from : 0..LastRow,
     cursor : 0..LastRow, says : Result \cup {None}]
IdleHandler ==
    [effect |-> None, at |-> "idle", from |-> 0, cursor |-> 0, says |-> None]

ServiceTypeOK ==
    /\ operation \in Programs
    /\ lease \in [holder : Run \cup {None, Outsider}, live : BOOLEAN]
    /\ effect \in [Effect -> EffectStatus]
    /\ item \in [Effect -> [Product -> {"none", "succeeded", "failed"}]]
    /\ sync \in [Effect -> {"none", "running", "succeeded", "failed"}]
    /\ staged \in [Effect -> SUBSET Row]
    /\ facts \subseteq Row
    /\ mark \in 0..LastRow
    /\ handler \in [Handler -> HandlerRecord]
    /\ open \subseteq Handler

ServiceInit ==
    /\ operation \in Programs
    /\ lease = [holder |-> None, live |-> FALSE]
    /\ effect = [e \in Effect |-> "none"]
    /\ item = [e \in Effect |-> [p \in Product |-> "none"]]
    /\ sync = [e \in Effect |-> "none"]
    /\ staged = [e \in Effect |-> {}]
    /\ facts = {}
    /\ mark = 0
    /\ handler = [h \in Handler |-> IdleHandler]
    /\ open = {}

----
(* The lease row.  Granting and giving back lock it: they wait for open. *)

Grants(r) ==
    /\ ~lease.live /\ open = {}
    /\ lease' = [holder |-> r, live |-> TRUE]

GivesBack(r) ==
    /\ open = {}
    /\ lease' = IF lease.holder = r THEN [lease EXCEPT !.live = FALSE] ELSE lease

\* Time: the grant ends before it was renewed, transactions or not.
Expire ==
    /\ lease.live
    /\ lease' = [lease EXCEPT !.live = FALSE]
    /\ UNCHANGED <<operation, tableVars, handler, open>>

\* External: another client of the service has the domain.
OutsiderTakes ==
    /\ ~lease.live /\ open = {} /\ lease.holder # Outsider
    /\ lease' = [holder |-> Outsider, live |-> TRUE]
    /\ UNCHANGED <<operation, tableVars, handler, open>>

----
(* Handlers: where they are, and how their transactions begin and fail. *)

Of(h) == handler[h].effect
At(h, place) == handler[h].at = place /\ h \notin open
In(h, place) == handler[h].at = place /\ h \in open
Goes(h, place) == handler' = [handler EXCEPT ![h].at = place]
Says(h, result) ==
    handler' = [handler EXCEPT ![h].at = "answer", ![h].says = result]

Fenced(h) == lease.live /\ lease.holder = RunOf[Of(h)]

\* assertLeaseForUpdate.
Open(h) ==
    /\ handler[h].at \in Transaction /\ h \notin open
    /\ Fenced(h)
    /\ open' = open \cup {h}
    /\ UNCHANGED <<operation, lease, tableVars, handler>>

\* A doubt about a transaction: the lease was lost, the connection broke.  The sync
\* tries to clean up first; a product's write leaves a partial commit.
Doubts(h) ==
    IF handler[h].at \in {"stage", "publish", "no change"}
    THEN Goes(h, "cleanup") ELSE Says(h, "uncertain")

\* An error that is certain: the transaction was rolled back.
Fails(h) ==
    CASE handler[h].at \in {"stage", "publish", "no change"} -> Goes(h, "cleanup")
      [] handler[h].at = "cleanup" -> Says(h, "uncertain")
      [] handler[h].at = "product" -> Goes(h, "item")
      [] OTHER -> Says(h, "failed")

LeaseLost(h) ==
    /\ handler[h].at \in Transaction /\ h \notin open
    /\ ~Fenced(h)
    /\ Doubts(h)
    /\ UNCHANGED <<operation, lease, tableVars, open>>

RollBack(h) ==
    /\ h \in open
    /\ open' = open \ {h}
    /\ Doubts(h) \/ Fails(h)
    /\ UNCHANGED <<operation, lease, tableVars>>

\* The commit is durable; the handler hears of it (next), or the connection breaks
\* first.
Commit(h, next) ==
    /\ h \in open
    /\ open' = open \ {h}
    /\ next \/ Doubts(h)
    /\ UNCHANGED <<operation, lease>>

----
(* claimInventoryEffect: an effect begins once.  Its first transaction waits for
   no other of the same effect, which the row's key decides. *)

\* The sync reads the watermark in a statement of its own.
Arrived(h) ==
    /\ At(h, "arrived")
    /\ \/ handler' = [handler EXCEPT ![h].at = "begin",
                          ![h].from = IF operation[Of(h)] = SyncOp THEN mark ELSE 0,
                          ![h].cursor = IF operation[Of(h)] = SyncOp THEN mark ELSE 0]
       \/ /\ operation[Of(h)] = SyncOp
          /\ Says(h, "uncertain") \/ Says(h, "failed")
    /\ UNCHANGED <<operation, lease, tableVars, open>>

BeginSync(h) ==
    /\ In(h, "begin") /\ operation[Of(h)] = SyncOp /\ effect[Of(h)] = "none"
    /\ effect' = [effect EXCEPT ![Of(h)] = "running"]
    /\ sync' = [sync EXCEPT ![Of(h)] = "running"]
    /\ Commit(h, Goes(h, "read"))
    /\ UNCHANGED <<item, staged, facts, mark>>

BeginForecast(h) ==
    /\ In(h, "begin") /\ operation[Of(h)] = ForecastOp /\ effect[Of(h)] = "none"
    /\ effect' = [effect EXCEPT ![Of(h)] = "running"]
    /\ Commit(h, Goes(h, "verify"))
    /\ UNCHANGED <<item, sync, staged, facts, mark>>

\* persistSnapshot: claim, snapshot and receipt in one transaction.
PersistSnapshot(h) ==
    /\ In(h, "begin") /\ operation[Of(h)] = SnapshotOp /\ effect[Of(h)] = "none"
    /\ effect' = [effect EXCEPT ![Of(h)] = "succeeded"]
    /\ Commit(h, Says(h, "succeeded"))
    /\ UNCHANGED <<item, sync, staged, facts, mark>>

\* The effect exists: its result or its error is repeated, or it is in progress.
\* The stored code of a failure may be one of a broken connection.
Repeated(h) ==
    /\ In(h, "begin") /\ effect[Of(h)] # "none"
    /\ open' = open \ {h}
    /\ \/ effect[Of(h)] = "succeeded" /\ Says(h, "succeeded")
       \/ effect[Of(h)] \in {"failed", "reconciled"} /\ Says(h, "failed")
       \/ effect[Of(h)] # "succeeded" /\ Says(h, "uncertain")
    /\ UNCHANGED <<operation, lease, tableVars>>

----
(* The order sync. *)

\* readWdtPage: the page after the cursor, of one row.  The order source is external:
\* it only ever gets rows with higher ids.
ReadPage(h) ==
    /\ At(h, "read") /\ handler[h].cursor < LastRow
    /\ handler' = [handler EXCEPT ![h].at = "stage", ![h].cursor = @ + 1]
    /\ UNCHANGED <<operation, lease, tableVars, open>>

\* An empty page, or a short one before.  Without coverage there is nothing to
\* publish, and rows without it are an error.
ReadEnds(h) ==
    /\ At(h, "read")
    /\ \/ Goes(h, "publish")
       \/ handler[h].cursor = handler[h].from /\ Goes(h, "no change")
    /\ UNCHANGED <<operation, lease, tableVars, open>>

\* Mutant: the loop is left without a result.
ReadStops(h) ==
    /\ At(h, "read")
    /\ Goes(h, "answer")
    /\ UNCHANGED <<operation, lease, tableVars, open>>

\* The source fails, or its data is invalid.
ReadFails(h) ==
    /\ At(h, "read")
    /\ Goes(h, "cleanup")
    /\ UNCHANGED <<operation, lease, tableVars, open>>

\* Mutant: what was done is not looked at.
SyncBegan(h) == effect[Of(h)] # "none"

\* lockInventoryEffect and the update of a sync run: both still running.
SyncRuns(h) == effect[Of(h)] = "running" /\ sync[Of(h)] = "running"

StageChunk(h) ==
    /\ In(h, "stage") /\ SyncRuns(h)
    /\ staged' = [staged EXCEPT ![Of(h)] = @ \cup {handler[h].cursor}]
    /\ Commit(h, Goes(h, "read"))
    /\ UNCHANGED <<effect, item, sync, facts, mark>>

\* The rows the promotion takes: those of this sync run.
Promoted(h) == staged[Of(h)]

\* Mutant: the staging is left to a later clean-up.
SyncEndsOnly(h, result) ==
    /\ sync' = [sync EXCEPT ![Of(h)] = result]
    /\ effect' = [effect EXCEPT ![Of(h)] = result]
    /\ UNCHANGED staged

SyncEnds(h, result) ==
    /\ sync' = [sync EXCEPT ![Of(h)] = result]
    /\ effect' = [effect EXCEPT ![Of(h)] = result]
    /\ staged' = [staged EXCEPT ![Of(h)] = {}]

\* Mutant: the rows first, the watermark and the rest in a transaction of their own.
PublishInTwo(h) ==
    /\ In(h, "publish") /\ SyncRuns(h)
    /\ facts' = facts \cup Promoted(h)
    /\ IF Promoted(h) \subseteq facts
       THEN /\ mark' = handler[h].cursor
            /\ SyncEnds(h, "succeeded")
            /\ Commit(h, Says(h, "succeeded"))
            /\ UNCHANGED item
       ELSE /\ Commit(h, UNCHANGED handler)
            /\ UNCHANGED <<mark, sync, effect, staged, item>>

\* completeOrderSync: facts, dataset version, watermark, run and effect at once.
Publish(h) ==
    /\ In(h, "publish") /\ SyncRuns(h)
    /\ facts' = facts \cup Promoted(h)
    /\ mark' = handler[h].cursor
    /\ SyncEnds(h, "succeeded")
    /\ Commit(h, Says(h, "succeeded"))
    /\ UNCHANGED item

NoChange(h) ==
    /\ In(h, "no change") /\ SyncRuns(h)
    /\ SyncEnds(h, "succeeded")
    /\ Commit(h, Says(h, "succeeded"))
    /\ UNCHANGED <<item, facts, mark>>

\* failOrderSync: the failure is certain once this is committed.
FailSync(h) ==
    /\ In(h, "cleanup") /\ SyncRuns(h)
    /\ SyncEnds(h, "failed")
    /\ Commit(h, Says(h, "failed"))
    /\ UNCHANGED <<item, facts, mark>>

\* The effect or its sync run has ended: a state conflict.
SyncConflict(h) ==
    /\ h \in open /\ handler[h].at \in {"stage", "publish", "no change", "cleanup"}
    /\ ~SyncRuns(h)
    /\ open' = open \ {h}
    /\ Fails(h)
    /\ UNCHANGED <<operation, lease, tableVars>>

----
(* The forecast and risk of a shop, product by product. *)

Unvisited(e) == {p \in Product : item[e][p] = "none"}
Visits(h, p) == p \in Unvisited(Of(h)) /\ \A q \in Unvisited(Of(h)) : p <= q

\* verifiedSnapshotFacts, outside any transaction.
VerifySnapshots(h) ==
    /\ At(h, "verify")
    /\ \/ Goes(h, IF Unvisited(Of(h)) = {} THEN "summary" ELSE "product")
       \/ Says(h, "uncertain")
       \/ Says(h, "failed")
    /\ UNCHANGED <<operation, lease, tableVars, open>>

\* Its snapshot is not there, or its inputs cannot be read.
ProductFails(h) ==
    /\ At(h, "product")
    /\ Goes(h, "item") \/ Says(h, "uncertain")
    /\ UNCHANGED <<operation, lease, tableVars, open>>

RecordItem(h, p, result) ==
    /\ effect[Of(h)] = "running" /\ Visits(h, p)
    /\ item' = [item EXCEPT ![Of(h)][p] = result]
    /\ Commit(h, Goes(h, IF Unvisited(Of(h)) = {p} THEN "summary" ELSE "product"))
    /\ UNCHANGED <<effect, sync, staged, facts, mark>>

\* persistForecastRiskProduct: forecasts, risk, incidents and receipt at once.
PersistProduct(h) ==
    In(h, "product") /\ \E p \in Product : RecordItem(h, p, "succeeded")
RecordFailedItem(h) ==
    In(h, "item") /\ \E p \in Product : RecordItem(h, p, "failed")

\* completeForecastRiskEffect, which recounts the items.
CompleteForecast(h) ==
    /\ In(h, "summary") /\ effect[Of(h)] = "running" /\ Unvisited(Of(h)) = {}
    /\ effect' = [effect EXCEPT ![Of(h)] = "succeeded"]
    /\ Commit(h, Says(h, "succeeded"))
    /\ UNCHANGED <<item, sync, staged, facts, mark>>

----
(* Reconciliation, for a grant that is over. *)

\* The lock on the lease row, behind every transaction that was admitted.
NoActiveOwner == open = {} /\ ~lease.live

\* reconcileInventoryEffect.
ReconcileSync(e) ==
    /\ operation[e] = SyncOp /\ sync[e] = "running"
    /\ sync' = [sync EXCEPT ![e] = "failed"]
    /\ staged' = [staged EXCEPT ![e] = {}]
    /\ effect' = [effect EXCEPT ![e] = "reconciled"]

ReconcileForecast(e) ==
    /\ operation[e] = ForecastOp
    /\ effect' = [effect EXCEPT ![e] =
                     IF Unvisited(e) = {} THEN "succeeded" ELSE "reconciled"]
    /\ UNCHANGED <<sync, staged>>

ReconcileInventoryEffect(e) ==
    /\ NoActiveOwner
    /\ IF effect[e] = "running" THEN ReconcileSync(e) \/ ReconcileForecast(e)
       ELSE UNCHANGED <<effect, sync, staged>>
    /\ UNCHANGED <<operation, lease, item, facts, mark, handler, open>>

\* The writes of a run.
Writes(r) == {e \in Effect : RunOf[e] = r /\ operation[e] # None}

\* What listInventoryEffectsForReconciliation shows of a run's effects.
Report(r) ==
    [e \in Writes(r) |-> [status |-> effect[e], items |-> item[e]]]

----
\* The service stops: transactions under way are rolled back.
ServiceRestart ==
    /\ handler' = [h \in Handler |-> IdleHandler]
    /\ open' = {}
    /\ UNCHANGED <<operation, lease, tableVars>>

HandlerStep(h) ==
    \/ Open(h) \/ LeaseLost(h) \/ RollBack(h)
    \/ Arrived(h) \/ BeginSync(h) \/ BeginForecast(h) \/ PersistSnapshot(h)
    \/ Repeated(h)
    \/ ReadPage(h) \/ ReadEnds(h) \/ ReadFails(h)
    \/ StageChunk(h) \/ Publish(h) \/ NoChange(h) \/ FailSync(h) \/ SyncConflict(h)
    \/ VerifySnapshots(h) \/ ProductFails(h)
    \/ PersistProduct(h) \/ RecordFailedItem(h) \/ CompleteForecast(h)

====
