# A TLA+ verification project for BPA

BPA (Browser Process Assistance) compiles workflow documents, runs them in a
workflow engine on the user's machine and lets a browser extension perform the
steps that touch web pages. This directory holds TLA+ models of the parts of it
where order, failure and time decide whether a run does what its author wrote:
the modules, the configurations TLC checks them with, and proofs checked by
TLAPS. Paths below are relative to the repository root.

## 1. The system

    workflow document --compiler--> IR2 plan --engine--> runtime outbox
                                                            | drainOnce
    triggers, schedules --TriggerRuntime--> runs            v
                                            Local Core (one Node process, SQLite)
                                              LocalBrowserGateway, gateway_commands
                                                 | Native Host pipe, bpa.browser/2
                                                 v
                                            extension service worker (background.ts)
                                              IndexedDB + storage.local, adapters
                                                 | page actions
                                                 v
                                            web pages in tabs

Local Core is a single JavaScript thread over synchronous SQLite. Its work is
driven by the `gatewayTimer` of `apps/local-core/src/main.ts:123-174` (every
500 ms: `browserGateway.tick`, `externalDomainLeases.tick`, every second tick
recovery sessions and triggers, then `ir2Runtime.drainOnce`), by messages from
the Native Host, and by control-API requests. Code between two awaits is atomic;
a crash is possible at every point. The extension's service worker is one thread
too, but each message starts a handler that awaits browser storage before
anything else, so handlers of different messages interleave freely, and the
browser may stop the worker between any two awaits.

### Components, their state and operations, and what makes them correct

| Component | State | Operations | Correct when |
|---|---|---|---|
| Gateway (browser-gateway.ts) | `gateway_commands` rows (queued, delivered, accepted, terminal), session and resume token, connection, `cancelRequests`, page observations | invoke, tick, dispatchPending, requestCancel, handleHello, handleCapabilities, handleObservation, handleAck, handleResult, handleCancelEffective, evidence, detach | one command per tab in the browser; decided once; success only with Evidence; queued commands of cancelled runs never sent; everything decided by its deadline |
| Extension bridge (background.ts, pending-results.ts) | active commands, active tabs, cancellation marks; durable command starts, pending results, pending Evidence, `lastAckedCommandSeq` | handleCommand, handleMessage, sendPending, sendReadyPendingResults, recoverInterruptedCommands, connect | an action runs at most once; a started action leaves a start or a result behind until it is decided; no slot leaks; stored results reach Core |
| Evidence upload (browser-evidence.ts, evidence-transfer.ts) | transfers and their offsets, linked to command and session | begin, chunk, complete | a result's Evidence is complete before the result counts |
| Runtime drain loop (ir2-workflow-runtime.ts, node-runtime) | outbox snapshot, invocation in flight | drainOnce, cancel, acceptRuntimeResult | each attempt answered once, at its deadline at the latest |
| Workflow engine (engine, workflow-ir) | checkpoints, attempts with fencing tokens, foreach frames; outbox and inbox beside them | start, accept an outcome, accept assistance, retry, cancel | an answer advances a run once; every item of a foreach is accounted for; attempts fit the deadlines around them; a run ends |
| Trigger runtime (trigger-runtime.ts, schedule-calendar.ts) | triggers, occurrences, attempts, control leases with fencing tokens | fire, tick (sweep, reconcile, materialise, start) | one run per concurrency key; an occurrence starts at most one run; a lost lease stops its run before another starts |
| External domain leases (external-domain-lease-coordinator.ts) | lease records acquiring / bound / reconciliation_required / released with revisions; volatile verified set | tick: acquire, verify, renew, release, reconcile | effects only under a verified remote lease; attempts end after the remote release; a lost answer is retried with the same request id |
| Assistance tasks (assistance-core) | tasks, leases, fencing counter, revision | claim, start, heartbeat, release, submit, expire, cancel | one accepted submission, from the current lease holder |
| Attention delivery (attention-delivery-dispatcher.ts) | deliveries pending / delivering / delivered / uncertain | claim, send, complete, expire | a notification is sent at most once |
| Recovery sessions (recovery-session.ts) | sessions bound to browser session, page and run | issue, activate, complete, revoke, expire | never usable after its binding is gone |
| Managed child tabs (managed-tab-lifecycle.ts) | reservations, attributed tabs | reserve, observe, finish, forget, restore | capacity never exceeded, slots returned |
| Native connection supervisor | phase and generation | connect, disconnect, retry, stop | an old port never changes the current connection |
| Protocol session guard (gateway-core) | sequence numbers, seen ids | accept | a message counts once, in order |
| Page probes (page-probe-registry.ts) | pending probes | request, answer, expire | a probe ends once |
| Instance lock (instance-lock.ts) | lock file | acquire, release | one Core per profile |
| Staging transfer (staging-transfer.ts) | staging leases, their tokens in memory, file, blob, source, asset | issue, upload, consume | a consumed lease stands for a complete upload |
| Maintenance (control.ts, main.ts, install-macos-arm64.sh) | the lock directory, requests in progress | lock, ready?, stop, install, unlock | nothing is in progress while the runtime is replaced |
| Inventory service (inventory-monitor) | lease row, effects and their items, sync runs, staged rows, facts, watermark (PostgreSQL) | sync, snapshot, forecast, inspect, reconcile | readers see whole publications; an effect is decided once; Core's record of a write is true |
| Datasets, assets, authoring, compiler, UIs, adapters, team runtime | - | pure translation, storage, I/O or DOM automation | outside the models, see section 11 |

`PROJECT.json` lists every component with its status, and every hazard with its
line and the properties that would catch it.

### The hard behaviours

* Core sends a command and marks it delivered afterwards; a crash in between
  leaves a queued command the browser already has.
* A deadline ends `invoke` while the page action runs; the engine may retry.
* Cancellation races dispatch, acknowledgement, the action and its result.
* Results, their Evidence and both acknowledgements arrive in any order, across
  reconnections with and without resumption of the session.
* The service worker dies between recording a start, acknowledging it, acting
  and storing the result.
* Replay of stored results is single-flight and trims by a watermark, while
  commands of several tabs finish in any order.
* Leases expire while Core sleeps; local leases, attempts and runs are written in
  separate transactions; remote leases answer late or never.
* The drain loop works on a snapshot of the outbox while requests of people, timers
  and cancellations change the runs it is about.
* A worker whose task lease expired goes on working, and its submission waits
  between reading the task and committing.
* A handler looks at the maintenance lock once, before the installer makes it, and
  acts afterwards.
* The handlers of the inventory service outlive the requests of Core that started
  them, and a transaction that was admitted commits after its lease has expired.

## 2. Command delivery: the modules

| Module | Models | From |
|---|---|---|
| `BrowserLink` | the messages in flight, the pipe, the resume token, the deadline clock | the bpa.browser/2 messages both sides build |
| `BrowserGateway` | Core: ledger, dispatch pass, drain loop and invoke, cancellation, message handlers, detach, restart | browser-gateway.ts, browser-evidence.ts, ir2-workflow-runtime.ts, the `gateway_commands` operations of persistence-sqlite |
| `ExtensionBridge` | the service worker: handleCommand in its awaits, the message handlers, replay, restart | background.ts, pending-results.ts |
| `BrowserDelivery` | the two composed with the pipe, deadlines, page changes, crashes; the properties | both, main.ts |
| `CommandLedger` | the abstract specification delivery refines | - |
| `MCBrowserDelivery` | instances for TLC | - |
| `BrowserDelivery_proofs`, `CommandLedger_proofs` | theorems and their proofs (section 8) | - |

How state and actions correspond to the code:

* `state[c]` is the row of command `c` in `gateway_commands` (its `state`, and
  once terminal the status in its `result_json`); a command is one attempt of a
  call step, `ir2:<invocationId>`. `evidence[c]` is the session in which Core
  linked and acknowledged the command's Evidence.
* Each Core handler is one action, because Core runs it synchronously. The
  handlers that call `dispatchPending` contain the whole pass: `DispatchPending`
  cancels the queued commands of cancelled runs, sends `cancel.request` for those
  in the browser, and then walks the queue in `command_seq` order; `Sent` and
  `Refused` say in closed form what the walk does. `CrashAfterSend` and
  `CrashInInvoke` are the crash between `sendMessage` and
  `markGatewayCommandState`.
* `Invoke`, `PollTerminal` and `InvokeDeadline` are the beginning, the successful
  poll and the abort of `LocalBrowserGateway.invoke`, called from `drainOnce`,
  which awaits one attempt at a time (`invoking`). `outcome[c]` is what the
  engine was told.
* A run's page binding is reduced to the session it froze (`binding`), whether
  the page in the tab is still that page (`intact`, the bridge's truth) and
  whether Core's latest observation says so (`current`); `fresh` is the subset
  observed within 30 s.
* `phase[c]` is where `handleCommand` awaits for a command. `CheckDeadline`, `CheckPage`
  and `Execute` are three steps, since the observation of the page (background.ts
  1041-1042) and the preflight or the last write before the action (1088, 1203) are
  awaited in between, and a mark, a deadline or a new page that comes meanwhile is not
  looked at. What looks at the deadline once more is the page of a content-script node
  (content-action-router.ts 277-287), synchronously before its action: `GuardedCommand`
  is the set of such commands; the others navigate the tab (1109) or run an alliance
  stage, whose last look is before its own preflight (alliance-retired-background.ts
  225, then 255). `StopBeforeAction` stores what the refusals before the action
  (`Barred`) turn into. `active`, `activeTab`
  and `cancelMarks` are the Maps and the Set of the same names in background.ts;
  `starts`, `pendingResult`, `pendingEvidence` and `ackedSeq` are the durable
  stores. `sendPending` and `replaying` are the two single-flight promises, and
  `withheld` the list of pending Evidence the replay read when it began.
* The pipe is FIFO, but messages are kept in two sets: the bridge starts a handler
  per message, each begins with an await of browser storage, and so they take
  effect in any order. Towards Core the sets allow more orders than the pipe has;
  no run depends on the difference to find a violation, since the handlers a
  counterexample reorders belong to different connections or commands.
* Faults: the pipe breaks and loses what is in it; the service worker or Core
  restart from their durable state. `MaxFaults` bounds them.

## 3. Triggers and the external domain: the modules

| Module | Models | From |
|---|---|---|
| `LeaseStore` | the SQLite rows both share: occurrences, attempts, runs, control leases, external lease records | the trigger and lease operations of persistence-sqlite |
| `DomainLease` | the lease coordinator around each awaited call, the remote service, the operator's reconciliation, doubtful writes | external-domain-lease-coordinator.ts, repository.ts of the inventory monitor, inventory-effect-reconciliation.ts, inventory-data-runtime-provider.ts |
| `TriggerRuntime` | `fire` and `tick`, transaction by transaction | trigger-runtime.ts, createRecoverableRun |
| `TriggerLeases` | both on one Core with the runs, time, other owners, crashes; the properties | those, main.ts, control.ts, ir2-workflow-runtime.ts |
| `MCTriggerLeases` | instances for TLC | - |
| `TriggerLeases_proofs`, `LeaseGrants_proofs` | the proofs (section 8) | - |

How state and actions correspond to the code:

* An occurrence has at most one attempt and one run in its life, so `occ`,
  `attempt` and `run` are indexed by the occurrence. Occurrences are numbered by
  `scheduledAt`. `due` says which deferred ones have passed `nextAttemptAt`.
* `lease[r]` is the row of a concurrency key or a browser instance: its owner and
  the time left. Fencing tokens are abstracted: an attempt acquires each of its
  leases once, so a row is the attempt's own as long as it names it and has not
  lapsed.
* `ext[o]` is the occurrence's latest row of `external_domain_leases`. `granted` is
  `expiresAt - serverNow`, `window` what `estimatedRemainingMilliseconds` makes of
  it now, `anchored` whether it counts from a request to the service, `late`
  whether the diagnostic is `POST_TERMINAL_RECONCILIATION`. A revision is told
  apart by the state and the link to a run (`Revision`), which is what another
  task can change while a call is awaited.
* `call` is the one provider call the coordinator awaits. A call is three steps
  (sent, served, answered); it can be lost before or after it was served, and time
  passes in between (`age`). `verified` is `#verifiedRequestIds`. `remote` and
  `known` are the service's rows of `ops.lease` and
  `ops.lease_acquisition_request`.
* `tick` and `fire` run without an await, so nothing else of Core runs while one is
  on the stack (`NoTask`); but each transaction is an action, `cur` and `step` name
  the next one, and `Crash` falls between any two. `pass` is the loop the tick is
  in, `todo` what the loop has yet to visit.
* A run is `ready` at a call not yet dispatched, `acting` while the provider works
  on it, `waiting` anywhere else. `Dispatches` has the guard of `drainOnce`
  (`AllowsEffects`); a crash makes an acting call ready again.

## 4. Runs and assistance tasks: the modules

| Module | Models | From |
|---|---|---|
| `WorkflowEngine` | the engine's transitions as pure operators: the set of states a transition can come to | packages/engine, the execution bound of workflow-ir/plan.ts |
| `AssistanceTask` | the task table and the calls of workers, each a read, an await and a compare-and-set | packages/assistance-core, persistence-task-queue.ts |
| `WorkflowRun` | runs on one Core: checkpoints, outbox, inbox, the drain loop, the tasks that block a run, cancellation, lost leases, time and crashes | ir2-workflow-runtime.ts, the run tables of persistence-sqlite |
| `RunLedger` | the abstract specification runs refine | - |
| `MCWorkflowRun` | two small plans for TLC | - |
| `AssistanceTask_proofs`, `WorkflowRun_proofs` | the proofs (section 8) | - |

How state and actions correspond to the code:

* A plan is a function from step keys to steps; `Plan[s].in` is the foreach whose body
  holds a step. Values are abstracted to the branches they choose: a decision may take
  any, a list has any of `ItemCounts` items, holds items without distinct keys or is no
  list at all. `Admitted` is what `validateExecutionPlan` accepts: steps lead to steps
  of their own block, bounds are positive, and there is no cycle, which is to say that
  the cost of a step (`CostOf`, the source's `executionCost`) exceeds that of every step
  it leads to. TLC evaluates it on both plans.
* `Drive` is `drive`: it executes steps until the run waits or ends, and returns every
  transition that is possible over the values left open. `Step` is one turn of its
  loop, `Round` a turn of every transition still under way. The source's loop has no
  bound; the model makes `ExecutionCost` turns, and the type theorem says that no
  checkpoint is committed in the middle of a loop, so the bound cuts nothing.
* `engine[r]` is the checkpoint of a run. A transition is committed in one
  transaction with the outbox rows it needs, the tasks it creates and the rows it
  acknowledges (`CommitTransition`); `done` is the set of ids the engine has
  completed and `inbox` the rows of `engine_inbox`. The revisions of runs are left
  out: the runtime reads and commits in one piece of synchronous code.
* `drain.rows` is the snapshot a pass of `drainOnce` works on, `drain.at` the call it
  awaits. A pass may hand over a row of a run that was cancelled meanwhile, as the
  code does; the answer then changes nothing.
* Requests of workers name their ids and may be sent again. `call[c].seen` is the
  task as it was read before the await, and the commit compares its revision.
  `known` is the token a worker received last. The queue's methods are synchronous
  behind their awaits, so a commit is one step.
* Deadlines are counted down. A frame's `left` may go below zero, which is a foreach
  that is over and has not been looked at.

## 5. Operators and maintenance: the modules

| Module | Models | From |
|---|---|---|
| `AttentionDelivery` | attentions and their deliveries, `dispatchNext`, the channel | attention-delivery-dispatcher.ts, `attention_*` tables of persistence-sqlite |
| `RecoverySession` | the calls of an operator, sweep, browser sessions, page observations, the control lease | recovery-session.ts, the session tables of persistence-sqlite |
| `StagingTransfer` | the commits of an upload | staging-transfer.ts |
| `RuntimeMaintenance` | the three on one Core with runs, control requests, the maintenance lock and the installer | control.ts, main.ts, install-macos-arm64.sh |
| `NoticeOutbox` | the abstract specification deliveries refine | - |
| `MCRuntimeMaintenance`, `RuntimeMaintenance_proofs` | instances and proofs | - |

How state and actions correspond to the code:

* Core has one thread. `turn` names the handler that is on it between its look at
  the lock and its end; the handler acts while the installer, another process, takes
  steps of its own. Control requests, the issue of a staging lease, the calls of a
  recovery session and the dispatch of deliveries look at the lock; the drain loop's
  ends of runs, the sweep, answers of the channel, uploads, the gateway's messages and
  the ends of asynchronous requests do not.
* `Dispatch` and `Claim` are the two transactions of `dispatchNext`, `sender` the
  delivery whose answer it awaits. The channel is external: a message on the `wire`
  may be heard after Core stopped waiting.
* `session[r]` is the recovery session of an attention, `lease` the control lease of
  the browser instance, `connected` the sessions without `disconnected_at`. The
  binding of a session that has ended and the page of a disconnected one are never
  read and are cleared in the model.
* `Ready` is `runtimeMaintenanceReadiness`; commands, outbox rows and external leases
  exist for active runs only, so `run[r] # "active"` stands for them.
* A roll-back of the installer removes the lock before Core is back (`Unlock` at any
  point). An installer that is killed leaves the lock behind, which is outside the
  model, and it is assumed to find Core's launch agent loaded.

## 6. The inventory service: the modules

| Module | Models | From |
|---|---|---|
| `InventoryService` | lease row, effects, items, sync runs, staging, facts and watermark; the handlers of the three writes, transaction by transaction; reconciliation | repository.ts, service-protocol.ts, mysql-source.ts, shop-forecast-risk-refresh.ts of the inventory monitor |
| `InventoryEffects` | Core's side: runs, lease records, what the engine was told, the operator | inventory-data-runtime-provider.ts, inventory-effect-reconciliation.ts, ir2-workflow-runtime.ts |
| `OrderFeed` | the abstract specification the published orders refine | - |
| `MCInventoryEffects`, `InventoryEffects_proofs` | instances and proofs | - |

How state and actions correspond to the code:

* Every transaction of a handler locks the lease row first and finds it live
  (`Open`), and holds the lock until it commits. It is two steps, because the expiry is
  a comparison with the clock, made before the transaction does its work: the lease may
  be over when it commits. The row lock is FIFO: granting, giving back, inspecting and
  reconciling wait for `open = {}`.
* `handler[h].at` is where a handler is; it goes on when its caller has given up,
  until it answers to a socket nobody reads (`Answer`). `Doubts` and `Fails` are its
  error paths: what may have been committed, and what certainly was not.
* A sync reads the watermark, claims its effect, reads page after page (one row
  each), stages each page in a transaction, and publishes facts, watermark, sync run
  and effect at once. A page may end before rows another handler has already seen.
* `told[e]` is what the engine was told of an invocation. `"failed"` stands for any
  answer that says the write was not made, including a sync whose source is
  unavailable. A doubt marks the lease record for reconciliation and ends the run as
  uncertain.
* The inspection's snapshot may be older than the lock it then waits for, so a report
  can be stale when it is shown; the token compares it with the one resolved, and
  what is put on record is a second inspection after the reconciliation.
* The coordinator's calls are one step here; `DomainLease` has them in full. `StartRun`
  joins the record of an acquisition (`DomainFree`), its grant (`BindGrant`) and the start
  of the occurrence's run.
  `OneSyncAssumption` says that a run syncs its shop once: the production workflow has
  one sync step per shop, without a retry. Nothing in `completeOrderSync` keeps
  the watermark from going back otherwise.
* External: the order source, which only ever gets rows with higher ids (its
  seven-day window, updates in place and rows that become visible out of order are
  outside the model).

## 7. The runs

| Run | Asks | Instance |
|---|---|---|
| `delivery_faults` | `TypeOK`, `SuccessIsReal`, `EffectLeavesTrace`, `CancelledRunStaysOut`, refinement of `CommandLedger` | one command, all six kinds of event, one fault |
| `delivery_tab` | `OneCommandPerTab`, `SlotsBelongToHandlers` | two runs with one command each on one tab, a Core crash anywhere; the runs are interchangeable (`SYMMETRY Exchange`) |
| `delivery_retry` | `AttemptsActInOrder` | two attempts of one call step that a content script runs, deadlines, failures |
| `delivery_liveness` | `EveryCommandIsDecided`, `EveryAttemptIsAnswered` | one command, Core crash, deadline, cancellation, fair timers |
| `trigger_runs` | `RunsAreSupervised`, `AttemptsTellTheTruth`, `StartsAlone`, `EveryOccurrenceEnds` | a manual and a scheduled occurrence on one key and one browser, expiring leases, another owner of the browser, a crash anywhere |
| `domain_race` | `TypeOK`, `AttemptOutlivesDomainLease`, `RemoteLeaseIsKnown`, `WindowInsideGrant` | two occurrences of one schedule on one domain, lost and refused calls, doubtful writes, another client of the service, a crash |
| `domain_starvation` | `EveryOccurrenceEnds` is violated | two occurrences of one schedule, nothing goes wrong |
| `workflow_items` | `TypeOK`, `WaitsAreBacked`, `ItemsAccounted`, `AttemptsFit`, `DispatchedInTime`, `EveryRunEnds`, refinement of `RunLedger` and of `AssistanceSpec` | one run over a foreach of none, two or three items (two are allowed), each a call with a retry and a question; cancellation, withheld calls, a lost lease, two crashes |
| `workflow_answers` | `FencedAnswer`, `AppliedOnce`, `NoTakeover` | a person and an AI reviewer, two calls at once, three requests, a detached note and a blocking question, a cancellation |
| `maintenance` | `SessionHoldsBrowser`, `QuietSwap`, `ConsumedIsComplete` | one run whose attention asks for a login, a browser session with two page epochs, an outsider, an upload, an installation, a crash |
| `maintenance_delivery` | `TypeOK`, `DeliveriesSettle`, refinement of `NoticeOutbox` | two runs, an asynchronous request, an installation, two crashes |
| `inventory` | `RecordsAreTrue`, `StagedForRunningSync`, `EffectsAreFinal`, refinement of `OrderFeed` (`PublishesWhole`) | two runs that sync, one after the other; one run that syncs, with a crash; one that refreshes two products and persists a snapshot, with a crash; two handlers, two source rows, another client, the operator |

*Delivery.* The faults, the tab exclusion and the retry are about one command, two
commands that compete, and two attempts of one step; nothing in the code counts
commands except the capacity of 32 active commands
(`EXTENSION_RUNTIME_LIMITS.activeCommands`, 2 here, which the instances do not reach:
the tab refuses first). One fault puts a crash or a loss at every point of every
interleaving, and what follows a fault is the recovery the code does after any number
of them; a second fault during recovery is left to larger instances (`MaxFaults = 2`
was not run to the end). The sets of statuses are those whose handling differs.
`FewInFlight` stops `delivery_tab` and `delivery_retry` beyond two messages in flight in
each direction (states with a third are checked, but not continued), so that every pair
is reordered. `CHECK_DEADLOCK FALSE` there: a system
whose commands are decided and whose faults are spent legitimately stops.

*Triggers.* Leases, keys and the domain are held by one and wanted by another, so two
occurrences show every conflict; a third would only queue behind the second.
`LeaseTtl = 2` tells a lease just renewed, one about to lapse and one lapsed apart;
where control leases are not the question it is 1. `RemoteTtl = 2` in `domain_race`
has a renewal due with the last unit of the window (the code renews at a third of the
granted time, but never later than with one unit left,
external-domain-lease-coordinator.ts 288) and one that comes too late; the renewal is
granted, refused or lost like every other call, and it may be served before or after the
unit passes, which is what the mutant of `WindowInsideGrant` (a renewal counted from its
answer) gets wrong. In `trigger_runs` and `domain_starvation` `Keeps` lets the `skip`
policy drop any number of late occurrences, which includes what the two other policies
do; `domain_race` has `run_once`, which keeps one. `MaxCrashes = 1`, at every transaction. Deadlock is checked: Core's tick is always
possible.

*Runs and tasks.* The plan `Items` has every kind of step a wait can follow inside a
foreach, deadlines of different lengths (a foreach of 3, attempts of 2, a delay of 0 or
1, an assistance deadline of 1) so that each can end before the other, and more items
than the plan allows as one of the counts. `MaxId = 6` is not a cut: two items with a
retry and a question each use six ids, and no transition needs a seventh. `Question` has
the two kinds of tasks, detached and blocking. Two calls and three requests let a claim
be followed by a takeover and a stale submission while another call is between its read
and its commit; the calls are alike (`CallSymmetry`). Runs that ended stop:
`CHECK_DEADLOCK FALSE`.

*Maintenance.* A tick stands for the shortest of the code's periods (30 s and more); a
delivery's lease is one tick, a session lasts two, an observation is fresh for the tick
it was made in. One session, one upload and one installation are enough for each pair
to meet; two deliveries are needed for the order of the outbox. `maintenance` leaves
out the asynchronous requests and `maintenance_delivery` the browser and the uploads,
to keep the product of independent parts small; `QuietSwap` is proved for all of them
together (section 8). Deadlock is checked: time always passes.

*Inventory.* Two handlers are the one Core awaits and one it gave up on; a third would
be a second abandoned one. Two rows make a sync of two pages, so that another handler
can find the first staged and the second not. Two syncs of different runs show what the
domain lease has to keep apart, without a crash; with a crash, one run has its
invocation handed out twice (`operation` is chosen in `Init`). Handlers are alike
(`AnyHandler`). Runs that have ended and whose records are released stop:
`CHECK_DEADLOCK FALSE`.

Every property has a mutant in PROJECT.json: a plausible bug of the code (a forgotten
occupied tab, a result accepted without its Evidence, a claim that keeps its token, a
foreach that forgets an item, an overdue notice put back in the queue, rows published
before their watermark...) that TLC shows to break it.

### Fairness

Delivery's `FairSpec` asks for weak fairness of Core's own timers only: `Ticks` (the
500 ms interval), the drain loop started by the same interval, the 50 ms poll of
`invoke`, and the passing of time. Nothing is assumed of the browser, the pipe or
the user, so the liveness properties say that Core alone decides every command
and answers every attempt. Commands of cancelled runs are excepted: Core waits
for the browser there (`tick` skips them), which may be for ever.

In `TriggerLeases`, `CoreStep` (the tick, from start to end) and the service's
answers are weakly fair. The coordinator's steps, the end of a deferral and the
passing of time are enabled only between two ticks, because a tick has the thread to
itself; the timers give them their turn there, so they are strongly fair, for each
occurrence. Runs and other owners of browsers are not fair: `EveryOccurrenceEnds`
assumes in its statement that runs do not stay active for ever (`RunsEnd`) and that
other owners let go of the browsers in the end (`OthersLetGo`).

In `WorkflowRun` the drain loop (called every 500 ms) and the provider it awaits (aborted
at its deadline) are weakly fair, as are the steps of each call that has begun;
time is strongly fair, since it passes between handlers only. Nobody is assumed to
answer a task: `EveryRunEnds` rests on the deadline row.

In `RuntimeMaintenance` the dispatcher's turn, the answer of the channel (which is
bounded by a timeout) and time are strongly fair, because control requests may have the
thread whenever they look for it; a handler that has begun goes on, Core is started
again, and the installer ends (weak fairness). Operators, the browser and the channel's
hearing are not fair.

### What the violation shows

`domain_starvation`: the missed-run policy ends an occurrence whose request for the
domain is being answered. No attempt will ever own that lease, so the coordinator
renews it for ever, and every later occurrence of the domain throws a conflict out of
`startRunnableOccurrences`, which also keeps the occurrences behind it and that
interval's `drainOnce` from running. PROJECT.json quotes the plan document's lines.

### Statements the code does not keep, defined but not among the runs

* `BrowserDelivery!CancelledMeansUntouched`: a cancellation that arrives during the page
  action is looked at when the action is over and reported as a safe stop
  (background.ts 1299), although the protocol reserves `cancelled` for actions that had
  not begun.
* `BrowserDelivery!NoActionPastDeadline` and `NoActionAfterRetry`: the bridge looks at the
  deadline once after pacing (background.ts 1038), then awaits the page's observation
  and the preflight (1041, 1042, 1088), and navigates or starts the stage without another
  look. A deadline that passes in between ends the attempt for Core, which may
  enqueue its retry, and the action begins all the same. TLC finds both on the instance of
  `delivery_retry` with `GuardedCommand = {}`. docs/protocols/browser-protocol-v2.md:133
  says: "等待会越过 Deadline 或页面上下文变化时，不得继续执行" (when waiting would cross the
  deadline, or the page context changes, execution must not go on). What remains true,
  and is checked and proved, is `AttemptsActInOrder`.
* `BrowserDelivery!ResultKeptUntilDecided`: `sendReadyPendingResults` (background.ts
  601) deletes every stored result up to the highest acknowledged `command_seq`; with two
  tabs a later command's acknowledgement deletes an earlier command's unacknowledged
  result (docs/protocols/browser-protocol-v2.md:131).
* `BrowserDelivery!NoStrandedResult`: an `evidence.ack` handled while a replay is in
  flight joins it, although it has already decided to withhold that result; the result
  then waits for the next reconnection.
* `TriggerLeases!EffectsInsideGrant`: `createRecoverableRun` stamps the lease row with
  the time of the run, from which Core counts the granted duration again. A lease that
  aged before its occurrence was started is then renewed too late, and a call goes to its
  provider after the service's grant ended. (The service checks the fence of every
  write, so the write is refused there.)
* `InventoryEffects!DoubtMeansUncertainRun`: a run that is cancelled while a write is
  in doubt ends as cancelled with its lease record in `reconciliation_required`. The
  coordinator then refuses to release it (external-domain-lease-coordinator.ts
  376-382), the operator's inspection asks for an uncertain run, and nobody can clear
  the domain; docs/current/bpa-product-execution-status-v1.md:399 says otherwise.

### Met while modelling and proving

* That attempts of one step never act at once is false of three even where every page
  looks at the deadline. The first stalls in the bridge between the check of the tab (background.ts 870)
  and the claim (924) and passes its deadline; the second is dispatched, both claim the
  tab, the first, which claimed last, stops at its deadline and gives up the tab the
  second is using; the second passes its deadline while it acts, and the third begins.
  No document of the repository promises otherwise (a planned one asks for it,
  docs/plans/bpa-rust-core-runtime-architecture-performance-v0.1.md:713). The same is
  true of two attempts when the first has passed its last look at the deadline before
  the deadline comes: it begins, or goes on, beside whatever Core does with the second. What
  usually keeps the second from acting then is the bridge's own refusal while the
  first has the tab (`TabBusy`), not the deadline. What holds for any number of attempts is
  `AttemptsActInOrder`: it says which of the earlier attempts may still begin.
* That a started action which is not decided leaves a start or a result behind is true of
  one command and false of two tabs: the result of the earlier command is deleted with
  the acknowledgement of the later one's. `EffectLeavesTrace` names that exception
  (`Overtaken`) and its proof shows that there is no other.
* The engine hears `timed_out`, which a retry policy may list, while the page action is
  running.
* A pause of Core of more than the 300 s of a control lease leaves an occurrence with an
  external lease `running` for ever, since `reconcileActiveAttempts` releases what it has
  but never finishes that attempt (`EveryOccurrenceEnds` is checked without external
  leases for that reason). A manual trigger fired after such a pause, before the first
  tick, can start a run while the run that lost the key is still active (`StartsAlone` is
  about the tick's own starts).
* Detached tasks get no deadline timer, and the outbox row of their request stays until
  they are answered. `awaitHumanAssistanceTask` is never called.
* docs/plans/bpa-stage-one-unattended-operations-v0.1.md:223-226 says that deliveries
  already `delivering` drain under the maintenance lock. After a crash of Core such a row
  is only expired by `dispatchNext`, which is skipped under the lock; trigger attempts
  are reconciled by a tick that is skipped too, and an abandoned staging lease stays
  active for ever. In each case the installer waits for readiness until it gives up.
* After a crash with a write in flight and a deadline that passed, `drainOnce` answers
  `timed_out` "before provider dispatch" (ir2-workflow-runtime.ts 397-408): the run goes
  on, no reconciliation is asked for, and the effect and its staged rows may stay
  `running`. Errors of `verifiedSnapshotFacts`, of an item or of the completion that are
  not transport errors are answered as certain failures with the effect still running.
  `RecordsAreTrue` says nothing of `"failed"` for these reasons.

## 8. The proofs

### Command delivery

`BrowserDelivery_proofs` proves, for any commands, runs, tabs, retry policy, event
set, capacity and number of faults:

| Theorem | States |
|---|---|
| `TypeCorrect` | `Spec => []TypeOK` |
| `SlotsCorrect` | `Spec => []SlotsBelongToHandlers` |
| `SuccessCorrect` | `Spec => []SuccessIsReal` |

`CommandLedger_proofs` proves, for the same constants:

| Theorem | States |
|---|---|
| `TabCorrect` | `Spec => []OneCommandPerTab` |
| `CancelledCorrect` | `Spec => CancelledRunStaysOut` |
| `LedgerCorrect` | `Spec => ImplementsLedger`, the refinement of `CommandLedger` |
| `TraceCorrect` | `Spec => []EffectLeavesTrace` |
| `AttemptsCorrect` | `Spec => AttemptsActInOrder` |

They use the named assumptions on the constants only: `LinkAssumption` (every
command has a run and every run a tab, `None` is no command), `AnswerAssumption`
(`None` is no result and no status), `GatewayAssumption`, `BridgeAssumption` and
`DeliveryAssumption` (types of the parameters, and that the attempts of one call step
have numbers of their own: a retry is scheduled with the number of the attempt that
ended plus one).

*Types.* One lemma per action says that it preserves `TypeOK`, and each module's
part (`LinkTypeOK`, `GatewayTypeOK`, `BridgeTypeOK`) is a lemma's conjunct. The
dispatch pass has a lemma of its own, since six handlers end with it.

*Slots.* `SlotsBelongToHandlers` is inductive together with `TypeOK`: every action
that lets a handler reach a later await enters the slot, and every end of
`handleCommand` goes through the `finally` block that frees it.

*Success.* `SuccessIsReal` is not inductive: that a stored command succeeded says
nothing of why the message that made it so was true. `SuccessInv` follows the
success back to the action:

* `SuccessSent`: a `command.result` in flight that says succeeded names Evidence,
  and its command executed;
* `SuccessStored`: so does a success in the bridge's durable store;
* `ExecutingRan`: a handler past the page action has executed it;
* `SessionOpened`: a ready connection has a session number other than 0, so that
  the Evidence linked in it is told apart from no Evidence.

With these, `ReceiveResult` can only accept a success for an executed command whose
Evidence is linked in the current session.

*Order.* Core sends a command and marks it delivered afterwards, so a crash in between
leaves a queued command of which the bridge may have a copy, a handler, an
acknowledgement or an executed action: it is `Astray`. The tab, the cancellation and the
ledger all depend on what is known of such a command, which `OrderInv` says:

* `AstrayAlone`: in the current session it is the only one of its tab that is astray or
  in the browser, and Core's connection is not ready, so that it is decided or
  acknowledged before the next dispatch pass could send another. `SessionsPast` and
  `Numbered` make sure that a session opened after the crash is a different one.
* `AstrayUncancelled`: its run was not cancelled, since the pass that sent it had
  cancelled the queued commands of cancelled runs first. This is what keeps the late
  acknowledgement of the copy from bringing a cancelled run's command into the browser.
* `DispatchedOnce`: a command is sent once, so that its action starts at most once.
* `AbsentUntouched`, `Awaited`: nobody has heard of a command before it is enqueued, and
  an attempt the drain loop waits for has no outcome yet.

The steps are summarised once as `Moves` (how a command's row, its action and its outcome
may change, and that a cancelled run's stay out), from which the action property and the
refinement follow without looking at the actions again. The refinement maps
`queued`, `delivered` and `accepted` to `pending`.

*Traces and attempts.* `TraceKept` follows a command from its start record to its stored
result; `AckedIsDecided` says that what Core acknowledged, and the watermark with it, is
decided, so that only a decided command can take a stored result away. `AttemptInv` says
what has become of an earlier attempt when a retry is enqueued: if it timed out, its
deadline is past (`TimedOutIsDue`), so no handler passes a look at the deadline with it,
neither the bridge's nor the page's; if it failed, no handler is before its action any
more (`FailedIsOver`, for the phases `BeforeAction`), because a failure is only ever
reported from a stored result, which takes in the one a handler stores when it cannot send
the safe stop, and a command that has a result on record (`Recorded`) is sent once
(`DispatchedOnce`) and not handled again. Nothing is said of an attempt that timed out with
its looks behind it, because the code says nothing of it (section 7). Core's and the environment's steps do nothing to the bridge but take messages
and time away (`BridgeSide`), and the bridge's nothing to Core's rows (`CoreSide`), so each side's
actions are argued about once. `OrderInv`, `TraceInv` and `AttemptInv` were checked by TLC
on two commands with crashes before they were proved.

### Triggers and the external domain

`TriggerLeases_proofs` proves, for any occurrences, triggers, keys, browsers,
missed-run policies, lease durations, event set and number of crashes:

| Theorem | States |
|---|---|
| `LeasesTypeCorrect` | `Spec => []TypeOK` |
| `SupervisedCorrect` | `Spec => []RunsAreSupervised` |
| `TruthCorrect` | `Spec => []AttemptsTellTheTruth` |
| `GivenBackCorrect` | `Spec => []AttemptOutlivesDomainLease` |

They use `StoreAssumption`, `RuntimeAssumption` and `LeasesAssumption`: the types of
the parameters, and that `None` is no occurrence, resource or status of a run and the
outsider no occurrence.

`LeaseGrants_proofs` proves, for the same constants:

| Theorem | States |
|---|---|
| `KnownCorrect` | `Spec => []RemoteLeaseIsKnown` |
| `WindowCorrect` | `Spec => []WindowInsideGrant` |
| `StartsCorrect` | `Spec => StartsAlone` |

The invariant is `TypeOK /\ LeasesInv`, and the two parts need each other:
`FinishAttempt` stores the run's outcome in the occurrence, which has its type only
because the run has ended. A tick decides in one transaction and acts in later ones,
so the three properties are not inductive without what the earlier transactions left
behind:

* `Committed(o)`: what holds before the transaction named by `step`. A run is
  created only at `step = "run"`, when attempt and occurrence run; `step = "finish"`
  is reached only with the run ended and its external lease released, and since the
  tick does not await, nothing has changed since it looked.
* `StillWaits(o)`: what the start loop has yet to visit, from the list made when the
  loop began, is still waiting. No other step can have started it.
* `InOrder(o)`: an occurrence that waits has no attempt, and an attempt without
  tokens has no run.
* `CallsForLiveRecord`: a call whose answer may bind a record was made for a record
  that was not released. `Bind` compares the revision, so an answer that comes after
  the release cannot take it back.
* `TaskInOrder`: an idle pass has nothing left to do.

Two lemmas carry most steps: `RecordsInOrder` for the coordinator, the service and
time, which touch neither attempts nor runs; `OneInOrder` for the runtime's own
steps, which touch one occurrence. `LeasesInv` was checked by TLC on the instances of
`trigger_runs` and `domain_race` before it was proved.

*What the service grants.* The record, the call in flight and the row of the service
are three views of one lease, and each may be ahead of the others. `GrantsInv` says what
is certain of them: the service grants only what Core asked for and has a record of
(`OnRecord`); the record of a call stays until its answer is handled (`CallAccounted`);
an answer in the negative stays true, since nobody else asks for this request
(`RefusedForGood`); a grant less the age of its request is never more than what is left
of it, whether the time passes before or after it is served (`GrantCounted`); and what
gives the lease back is sent only for a record no run may use (`GivesBackUnused`). The
arithmetic of `estimatedRemainingMilliseconds` is in `GrantCounted` and `InsideGrant`.

*Starting alone.* `ControlInv` is about the tick: the runs its reconciliation has been past
hold every lease they need or may not act any more (`InControl`), and each later
transaction finds the leases the earlier ones made sure of (`Equipped`). Nothing
interrupts a tick, and renewing, releasing or acquiring leaves the rows of other owners
alone (`Untouched`), so a lease the new run acquires was nobody's.

### Assistance tasks

`AssistanceTask_proofs` proves, for any tasks, workers, calls, number of requests and
lease duration, of `AssistanceSpec` (the workers and their calls, and an engine that may
create, expire or cancel any task at any time):

| Theorem | States |
|---|---|
| `TypeCorrect` | `AssistanceSpec => []AssistanceTypeOK` |
| `AnswersAreFenced` | `AssistanceSpec => []FencedAnswer` |
| `RequestsApplyOnce` | `AssistanceSpec => []AppliedOnce` |
| `LeasesAreNotTakenOver` | `AssistanceSpec => NoTakeover` |

That the tasks of `WorkflowRun` are tasks of `AssistanceSpec` is the theorem
`RunsDriveTasks` below: with it these theorems hold of the tasks of durable runs.

The hazard is the await between a read and its commit, so the invariant is about
what a call has read (`SeenGood`): the request was legal on it, its revision is not later
than the task's, and if it is the same the task is what was read. Every change of a
task takes the next revision, so the compare-and-set either applies the request to the
task it was judged on or refuses it. `TaskGood` says that the fencing counter numbers
the claims and that the owner of a lease made the last of them, and `RequestGood` that a
request has been applied exactly when its result is recorded.

### Runs

`WorkflowRun_proofs` proves, for every admitted plan (any nesting of foreaches, any
limits, deadlines and retry policies), any runs, workers, calls and requests, any number
of ids and of crashes:

| Theorem | States |
|---|---|
| `RunsTypeCorrect` | `Spec => []TypeOK`, which includes the bound on the steps of a run |
| `BackedCorrect` | `Spec => []WaitsAreBacked` |
| `ItemsCorrect` | `Spec => []ItemsAccounted` |
| `FitsCorrect` | `Spec => []AttemptsFit` |
| `DispatchCorrect` | `Spec => DispatchedInTime` |
| `RunsKeepTheLedger` | `Spec => ImplementsLedger`, the refinement of `RunLedger` |
| `RunsDriveTasks` | `Spec => AssistanceSpec`, the refinement of the tasks' specification |
| `RunsFenceAnswers` | `Spec => []FencedAnswer /\ []AppliedOnce /\ NoTakeover` |

They use `RunAssumption` (types of the parameters, the ids are `1..MaxId`, the plan is
`Admitted`), and `AssistanceAssumption` and `NoneAssumption` (types, and that `None` is
no checkpoint). No theorem assumes anything of the plan that
`validateExecutionPlan` does not check.

The invariant is `IInv /\ RunsInv`: the one of `AssistanceTask_proofs`, and one of the
runs. TLC checked `RunsInv` on the plans of `workflow_items` and `workflow_answers`
before it was proved (with the budget below written as a sum).

*The engine.* A committed checkpoint is one that `drive` ended with (`DrivenOk`): it has
settled, or waits for exactly one of the effects emitted with it, under an id no earlier
transition used. That every turn of the loop leads there is an induction over the turns.
What the induction carries (`RunningOk`) is more than the properties say:

* the frames are those of the foreaches around the cursor, innermost last (`StackOk`,
  `OnStep`), each with its items accounted for (`FrameOk`);
* the budget: the steps taken, the cost of the step the run is at, and for each frame
  the cost of its remaining items and of the way on from its foreach (`Weight`) stay
  within the cost of the plan (`Affords`). A turn uses up one step of the budget, so
  the loop ends, and the bound of `estimateMaxStepExecutions` is one no run exceeds,
  with any nesting, retries and stops at deadlines. Stopping an outer foreach gives up
  the budgets of the inner ones, which is why the budget is a function of the level and
  not one number.

*The tables.* `WaitsAreBacked` is not inductive. `Backing` says what each run has:
nothing but requests of detached tasks (`Resting`), or the one call row it waits for
(`CallBacked`), or an open task with its deadline and its request (`TaskBacked`).
`RowsGood` says that ids tell rows apart, also between the outbox and the snapshot
of a pass made earlier: a row of the snapshot that was acknowledged meanwhile cannot be
mistaken for a new one, since new rows have new ids. That is what makes it safe to
handle a stale row (`SkipRow`, or an answer nobody waits for), and why the mutant that
retries under the old id breaks the refinement. `TasksGood` says that a blocking task
that is open has a run waiting for it, so that answering it wakes exactly one.

Each action is proved once, for its effect on the invariant, on the ledger
(`LedgerStep`) and on the tasks (`TasksStep`) at the same time (`NextRuns`); the
theorems follow from that lemma without looking at the actions again.
`DispatchedInTime` needs `AttemptsFit` through the identity of rows: the row handed over
comes from the snapshot, the deadline that fits from the outbox.

The library's induction theorems take an operator as a parameter, which the provers
cannot instantiate. `Induction` and `LeastNat` restate them for a set, from the
well-foundedness of `<`, and `RoundsExist` and `RoundsAgree` show that the recursive
functions of `Drive` are defined for every number of turns.

### Operators and maintenance

`RuntimeMaintenance_proofs` proves, for any runs, browser sessions, epochs, lease times
and bounds:

| Theorem | States |
|---|---|
| `TypeCorrect` | `Spec => []TypeOK` |
| `SessionsHoldTheBrowser` | `Spec => []SessionHoldsBrowser` |
| `SwapIsQuiet` | `Spec => []QuietSwap` |
| `UploadsAreComplete` | `Spec => []ConsumedIsComplete` |
| `AnswersFindTheirDelivery` | `Spec => []InFlightIsDelivering` |
| `NoticesAreDelivered` | `Spec => DeliversNotices`, the refinement of `NoticeOutbox` |

The invariant is a conjunction of one part per component and one for the whole:
`AttentionInv`, `RecoveryInv`, `StagingInv`, `CoreTypeOK`, `TurnInv` and `QuietSwap`.
`StepMoves` shows that a step of the system is a move, or a stutter, of each component;
each part is then kept by the moves of its component alone.

* `AttentionInv`: a message on its way has not been heard and its delivery can still
  be told of it. The awaited delivery is `delivering` because expiry runs only when
  nothing is awaited (`TurnInv`: the dispatcher's turn begins without a sender).
* `RecoveryInv`: a session with time left holds the lease for exactly that time, and one
  without time left holds none, although no sweep has seen it yet. The second half makes
  the property survive an expiry followed by an outsider's lease.
* `QuietSwap` with `TurnInv` is what the maintenance lock is for: the lock is there
  while the installer is at work, a handler that looked before it is over when the
  installer hears that Core is ready, and what may still run then (`CalmKept`) starts
  nothing.
* The refinement maps `pending` and `delivering` to `due`; the sweep of expired leases
  gives up several notices in one abstract step.

### The inventory service

`InventoryEffects_proofs` proves, for any runs, effects and programs, any number of
handlers, products, source rows and crashes:

| Theorem | States |
|---|---|
| `TypeCorrect` | `Spec => []TypeOK` |
| `PublishesCorrect` | `Spec => PublishesWhole`, the refinement of `OrderFeed` |
| `StagedCorrect` | `Spec => []StagedForRunningSync` |
| `FinalCorrect` | `Spec => EffectsAreFinal` |
| `RecordsCorrect` | `Spec => []RecordsAreTrue` |

They use `ServiceAssumption` and `EffectsAssumption` (types of the parameters) and
`OneSyncAssumption`: a run has one sync of the orders of a shop. That is the workflow's
doing and no code of the service's, and `PublishesWhole` needs it: with two syncs of one
run both would be the holder of the lease, and the second could publish from a watermark
that the first has moved.

The invariant is `ServiceInv /\ CoreInv`, which TLC checked on the instance of
`inventory` before it was proved.

* `PlaceGood`: an open transaction is one of the lease's holder, a handler at work has
  an effect that has begun, and a handler that is about to answer success has one that
  succeeded. The lease may have expired under the transaction; it cannot have gone to
  another run, since granting it waits for the row's lock.
* `OneHandlerEach`: at most one handler works for an effect, since the claim commits
  once. A handler that nobody waits for and the one that repeats its call are never both
  at work.
* `ReadGood`: a sync that may still commit has staged exactly the rows between the
  watermark it started at and its cursor. `Current`: if its run is the holder, the
  watermark has not moved since it was read in a statement of its own, before the claim.
* `Dead(r)`: run `r` has neither the live lease nor an open transaction, and can get
  neither again. This is what the service's check for an active owner establishes, and
  it is kept by every step of everybody (`Calm`), with the run's report. So the second
  report of the operator's request is the one that stays true, and the first need not be.

The 21 actions of a handler are argued about once each: what a step does to the handler
(`Moves`, `Lost`), what it does to the tables (`Tables`), and together `Steps`, from
which `StepKeepsService` and `HandlerIsCalm` follow without looking at the action again.
The steps of Core, of the operator and of the environment use `Calm` and `CoreKept`;
only a reconciliation changes tables and the operator's request at once
(`ReconcileStep`): an audited run has released its record, and the effects being
reconciled are those of a run that has not.

## 9. What is only model-checked

Liveness: `EveryCommandIsDecided`, `EveryAttemptIsAnswered`, `EveryOccurrenceEnds`,
`EveryRunEnds` and `DeliveriesSettle` stay with TLC, since liveness under fairness and
`ENABLED` are out of the proof system's reach here. Every safety invariant, action
property and refinement that a passing run checks has a theorem.

`CostOf` is a recursive function over the plan. That it is what `executionCost` computes
is not proved but stated by `Admitted` for the plan at hand (each cost exceeds the costs
it is made of), and TLC evaluates it on the plans of the runs.

## 10. The plan

Done: command delivery, triggers with control leases and the external domain lease, runs
and their tasks, attentions, recovery sessions, uploads and maintenance, and the writes
of the inventory service, with the proofs of section 8 for each of them.

1. An abstract specification of one occurrence, claimed once, at most one run, one
   outcome, for `TriggerLeases` to refine.
2. The small state machines that are left: `EvidenceUpload` (chunks, offsets, quota),
   `InstanceLock`, `ManagedTabs`, `NativeConnection`, `PageProbes`, `ProtocolSession`; and
   the authoring service.

## 11. Not modelled, and why

Within command delivery:

* An old observation of a lost session makes `requestPageProbe` throw out of
  `dispatchPending` and `tick` (browser-gateway.ts 481-487, 1838-1849), which keeps
  the rest of `gatewayTimer` from running until the deadline. It delays, and the
  liveness runs assume only that the timer's work is eventually done.
* The drain loop's skip of a run without a bound external lease
  (ir2-workflow-runtime.ts 415-423) is `AllowsEffects` of `DomainLease`; the two
  compositions are not joined.
* Evidence begin, chunks and completion are one message; a transfer that does not
  complete is the message lost. The writes of a start, of Evidence and of a result
  are one step each.
* The re-save of a stored result during replay (background.ts 585) can bring a
  deleted result back, which is then sent and acknowledged once more.
* A timed-out command's stored result and Evidence stay in the browser's storage.
* Two commands of one tab can both reach their page action in the bridge when one
  handler stalled between the check of the tab (background.ts 870) and the claim
  (924), after a deadline, a cancellation or a crash in a dispatch pass let Core send the
  second (section 7 has the schedule of three attempts). The model has these behaviours;
  no property forbids them.
* The protocol document speaks of replaying from the first unconfirmed sequence
  number; the gateway dispatches queued commands only, never a delivered one again.
* The Native Host's and the pipe's internals, heartbeats, the resume token's
  lifetime, several connections at once, and the schema and contract failures of
  the drain loop (they end an attempt as failed before anything is sent).

Within triggers and leases:

* Dataset triggers, whose tick fires inside the materialisation loop; disabled
  triggers, missing versions and providers, changed configuration (each ends or skips
  an occurrence before anything is acquired); maintenance mode.
* A crash inside a sweep or inside the missed-run loop, which leave rows that the next
  tick treats the same way.
* A cancellation that throws out of `reconcileLostControl`; revision conflicts that
  need a second thread in Core.
* Several domains: `tick` of the coordinator walks a list read once, so the second
  record it visits can be stale. Requests that the service carries out after Core gave
  them up. Clocks that jump backwards.
* The calendar arithmetic of schedule-calendar.ts.
* In `TriggerLeases` a write in doubt and the operator's reconciliation are the lease
  record's states only; `InventoryEffects` has the writes themselves. The two are not
  composed.

Within runs and tasks:

* Values, bindings, conditions and schemas: each is a choice among the outcomes it can
  have. Resource bindings and contract failures of a call are outcomes of the call.
* The provider itself: delivery, the inventory service and the terminal attention are
  models of their own, and not composed with `WorkflowRun`.
* Assistance profiles and the validation of outputs, except for whether a submission
  resolves or escalates.

Within operators and maintenance:

* Tokens, revisions and requests that do not match are refusals, which change nothing.
* A killed installer, a launch agent that is missing, and what the installer copies.
* The transfer socket, digests and names of files; several uploads at once.

Within the inventory service:

* Reads and dashboards, incidents and reviews, the scripts that run without Core, and
  the numeric kernel (forecast and risk of one product: pure arithmetic).
* Pagination by size, digests, dataset version rows, and the source's window, in-place
  updates and rows that become visible out of order.
* Several requests of the operator at once, and several domains.

Outside the models: the compiler and authoring (pure translation and validation, tested
on inputs), the control API's listing and provisioning and the user interfaces (requests
in, views out), the adapters and business providers (DOM automation, data mapping), the
team runtime and the legacy engine (separate deployments), datasets and assets
(content-addressed storage; their interesting step is an SQLite transaction or a
rename). Managed child tabs, the native connection supervisor, the protocol session
guard and the instance lock are small state machines that are planned, not done.
