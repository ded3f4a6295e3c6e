---- MODULE RuntimeMaintenance ----
(***************************************************************************)
(* The maintenance lock (control.ts, main.ts, install-macos-arm64.sh).  An *)
(* installer makes a lock directory, asks the running Core until nothing   *)
(* is in progress, stops it, installs, and removes the lock.  Core looks   *)
(* at the directory when a handler begins: control requests and the claim  *)
(* of deliveries are refused under the lock; the drain loop, the sweep of  *)
(* recovery sessions, uploads and answers go on.                           *)
(*                                                                         *)
(* Core has one thread.  turn is the handler that runs on it after its     *)
(* look at the lock; the handler acts while other processes, the installer *)
(* among them, take steps of their own.                                    *)
(***************************************************************************)
EXTENDS RecoverySession, StagingTransfer

CONSTANTS
    MaxCrashes,    \* bound on the crashes of Core
    MaxUpgrades,   \* bound on the installations begun
    MaxMutations   \* bound on the asynchronous control requests at once

ASSUME MaintenanceAssumption == MaxMutations \in Nat

VARIABLES
    up,         \* Core runs
    turn,       \* the handler on Core's thread: none, control, dispatch, claim, upload
    lock,       \* the lock directory exists
    installer,  \* idle, waiting for readiness, told ready, swapping the runtime
    mutations,  \* activeAsyncControlMutations
    crashes,
    upgrades

maintenanceVars == <<up, turn, lock, installer, mutations, crashes, upgrades>>

vars == <<attentionVars, recoveryVars, stagingVars, maintenanceVars>>

Init ==
    /\ AttentionInit
    /\ RecoveryInit
    /\ StagingInit
    /\ up = TRUE
    /\ turn = "none"
    /\ lock = FALSE
    /\ installer = "idle"
    /\ mutations = 0
    /\ crashes = 0
    /\ upgrades = 0

CoreIdle == up /\ turn = "none"

othersThanTurn == UNCHANGED <<up, lock, installer, mutations, crashes, upgrades>>

----
(* Handlers that look at the lock first. *)

Enter(handler) ==
    /\ CoreIdle
    /\ ~lock
    /\ turn' = handler
    /\ othersThanTurn
    /\ UNCHANGED <<attentionVars, recoveryVars, stagingVars>>

EnterControl == Enter("control")

\* drainAttentionDelivery: one delivery at a time.
EnterDispatch == sender = None /\ Enter("dispatch")

In(handler)   == up /\ turn = handler
Return        == turn' = "none" /\ othersThanTurn

RecoveryCall ==
    \/ SweepExpired
    \/ \E r \in Run : \/ \E b \in BrowserSession : Issue(r, b)
                      \/ Activate(r)
                      \/ CompleteSession(r)
                      \/ Revoke(r)
                      \/ LoseBinding(r)
    \/ OutsiderLease

ControlCall ==
    /\ In("control")
    /\ \/ /\ RecoveryCall
          /\ UNCHANGED <<attentionVars, stagingVars>>
       \/ /\ \E r \in Run : StartRun(r) \/ EndQuietly(r) \/ Acknowledge(r)
          /\ UNCHANGED <<recoveryVars, stagingVars>>
       \/ /\ IssueStaging
          /\ UNCHANGED <<attentionVars, recoveryVars>>
    /\ Return

BeginMutation ==
    /\ In("control")
    /\ mutations < MaxMutations
    /\ mutations' = mutations + 1
    /\ turn' = "none"
    /\ UNCHANGED <<up, lock, installer, crashes, upgrades>>
    /\ UNCHANGED <<attentionVars, recoveryVars, stagingVars>>

Dispatch ==
    /\ In("dispatch")
    /\ ExpireDeliveries
    /\ turn' = "claim"
    /\ othersThanTurn
    /\ UNCHANGED <<recoveryVars, stagingVars>>

Claim ==
    /\ In("claim")
    /\ \/ ClaimNext
       \/ NothingPending /\ UNCHANGED attentionVars
    /\ Return
    /\ UNCHANGED <<recoveryVars, stagingVars>>

----
(* What Core does without a look at the lock. *)

\* The drain loop ends runs.
EndRun ==
    /\ CoreIdle
    /\ \E r \in Run : EndQuietly(r) \/ EndWithAttention(r)
    /\ UNCHANGED <<recoveryVars, stagingVars, maintenanceVars>>

Sweep ==
    /\ CoreIdle
    /\ SweepExpired
    /\ UNCHANGED <<attentionVars, stagingVars, maintenanceVars>>

ReceiveAnswer ==
    /\ CoreIdle
    /\ \E r \in Run, outcome \in Settled : Answer(r, outcome)
    /\ UNCHANGED <<recoveryVars, stagingVars, maintenanceVars>>

Gateway ==
    /\ CoreIdle
    /\ \/ OpenBrowser
       \/ ResumeBrowser
       \/ \E b \in BrowserSession :
             \/ \E epoch \in Epoch, login \in {"blocked", "proven", "unproven"} :
                   Observe(b, epoch, login)
             \/ Detach(b)
    /\ UNCHANGED <<attentionVars, stagingVars, maintenanceVars>>

\* Mutant: a request that fails is taken off the counter twice.
EndMutationTwice ==
    /\ CoreIdle
    /\ mutations > 0
    /\ mutations' \in {mutations - 1, mutations - 2}
    /\ UNCHANGED <<attentionVars, recoveryVars, stagingVars>>
    /\ UNCHANGED <<up, turn, lock, installer, crashes, upgrades>>

EndMutation ==
    /\ CoreIdle
    /\ mutations > 0
    /\ mutations' = mutations - 1
    /\ UNCHANGED <<attentionVars, recoveryVars, stagingVars>>
    /\ UNCHANGED <<up, turn, lock, installer, crashes, upgrades>>

BeginUpload ==
    /\ CoreIdle
    /\ UploadAllowed
    /\ turn' = "upload"
    /\ othersThanTurn
    /\ UNCHANGED <<attentionVars, recoveryVars, stagingVars>>

UploadStep ==
    /\ In("upload")
    /\ \/ \E part \in Parts : Store(part) /\ UNCHANGED turn
       \/ Consume /\ turn' = "none"
       \/ UNCHANGED stagingVars /\ turn' = "none"     \* a step throws
    /\ othersThanTurn
    /\ UNCHANGED <<attentionVars, recoveryVars>>

----
(* The installer. *)

unchangedCore == UNCHANGED <<attentionVars, recoveryVars, stagingVars, turn>>

TakeLock ==
    /\ installer = "idle"
    /\ ~lock
    /\ upgrades < MaxUpgrades
    /\ lock' = TRUE
    /\ installer' = "waiting"
    /\ upgrades' = upgrades + 1
    /\ UNCHANGED <<up, mutations, crashes>>
    /\ unchangedCore

\* Mutant: the readiness leaves out the staging leases.
ReadyBesidesUploads ==
    /\ lock
    /\ \A r \in Run : /\ run[r] # "active"
                      /\ delivery[r].state # "delivering"
                      /\ session[r].state \notin Live
    /\ LeaseFree
    /\ mutations = 0

\* runtimeMaintenanceReadiness.  Commands, outbox rows and external domain leases
\* exist for active runs only.
Ready ==
    /\ lock
    /\ \A r \in Run : /\ run[r] # "active"
                      /\ delivery[r].state # "delivering"
                      /\ session[r].state \notin Live
    /\ LeaseFree
    /\ staging # "active"
    /\ mutations = 0

HearReady ==
    /\ installer = "waiting"
    /\ CoreIdle
    /\ Ready
    /\ installer' = "ready"
    /\ UNCHANGED <<up, lock, mutations, crashes, upgrades>>
    /\ unchangedCore

Halt == up' = FALSE /\ turn' = "none" /\ mutations' = 0 /\ AttentionCrash /\ RecoveryCrash
        /\ StagingCrash

StopCore ==
    /\ installer = "ready"
    /\ installer' = "swapping"
    /\ Halt
    /\ UNCHANGED <<lock, crashes, upgrades>>

\* The new Core starts under the lock; the installer then checks it.
StartCore ==
    /\ ~up
    /\ up' = TRUE
    /\ UNCHANGED <<lock, installer, mutations, crashes, upgrades>>
    /\ unchangedCore

\* The installation is done or rolls back at any point: not ready in time, Core not
\* running, a check that fails.  A roll-back removes the lock before Core is back.
Unlock ==
    /\ installer # "idle"
    /\ installer' = "idle"
    /\ lock' = FALSE
    /\ UNCHANGED <<up, mutations, crashes, upgrades>>
    /\ unchangedCore

----

CoreCrash ==
    /\ up
    /\ crashes < MaxCrashes
    /\ crashes' = crashes + 1
    /\ Halt
    /\ UNCHANGED <<lock, installer, upgrades>>

Channel ==
    /\ \E r \in Run : Accept(r) \/ Drop(r)
    /\ UNCHANGED <<recoveryVars, stagingVars, maintenanceVars>>

\* A handler takes the time once, when it begins.
Tick ==
    /\ turn = "none"
    /\ AttentionTick
    /\ RecoveryTick
    /\ UNCHANGED <<stagingVars, maintenanceVars>>

Next ==
    \/ EnterControl \/ ControlCall \/ BeginMutation
    \/ EnterDispatch \/ Dispatch \/ Claim
    \/ EndRun \/ Sweep \/ ReceiveAnswer \/ Gateway \/ EndMutation
    \/ BeginUpload \/ UploadStep
    \/ TakeLock \/ HearReady \/ StopCore \/ StartCore \/ Unlock
    \/ CoreCrash \/ Channel \/ Tick

Fairness ==
    /\ SF_vars(EnterDispatch)
    /\ WF_vars(Dispatch)
    /\ WF_vars(Claim)
    /\ SF_vars(ReceiveAnswer)
    /\ WF_vars(ControlCall)
    /\ WF_vars(UploadStep)
    /\ WF_vars(StartCore)
    /\ WF_vars(Unlock \/ HearReady)
    /\ WF_vars(StopCore)
    /\ SF_vars(Tick)

Spec == Init /\ [][Next]_vars

FairSpec == Spec /\ Fairness

----

TypeOK ==
    /\ AttentionTypeOK
    /\ RecoveryTypeOK
    /\ StagingTypeOK
    /\ up \in BOOLEAN
    /\ turn \in {"none", "control", "dispatch", "claim", "upload"}
    /\ lock \in BOOLEAN
    /\ installer \in {"idle", "waiting", "ready", "swapping"}
    /\ mutations \in 0..MaxMutations
    /\ crashes \in Nat
    /\ upgrades \in Nat

\* From the moment the installer is told that Core is ready until it lets go of the
\* lock, nothing is in progress: no run, delivery, recovery session, lease,
\* upload or control request, although each of them may have passed its look at
\* the lock before the lock was made.
QuietSwap ==
    installer \in {"ready", "swapping"} =>
        /\ \A r \in Run : /\ run[r] # "active"
                          /\ delivery[r].state # "delivering"
                          /\ session[r].state \notin Live
        /\ LeaseFree
        /\ staging # "active"
        /\ mutations = 0
        /\ sender = None
        /\ turn = "none"

\* A consumed staging lease, which is all an import asks for (resolveDatasetUpload),
\* stands for an upload whose file, blob, source and asset are all recorded,
\* wherever Core crashed between their commits.
ConsumedIsComplete == staging = "consumed" => stored = Parts

\* A delivery that is recorded gets an outcome, and is not forgotten by a crash
\* during its call or by an installation.
DeliveriesSettle ==
    \A r \in Run : (delivery[r].state = "pending") ~> (delivery[r].state \in Settled)
====
