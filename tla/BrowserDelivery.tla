---- MODULE BrowserDelivery ----
(***************************************************************************)
(* Command delivery end to end: Local Core's gateway and drain loop, the   *)
(* extension bridge, the Native Host pipe between them, and what happens   *)
(* to both: deadlines pass, pages change, the pipe breaks, either process  *)
(* dies at any point and comes back with its durable state.                *)
(***************************************************************************)
EXTENDS BrowserGateway, ExtensionBridge

CONSTANTS
    Event,      \* what happens around the protocol: a subset of EventKind
    MaxFaults   \* bound on the number of faults

FaultKind == {"link", "core", "worker"}
EventKind == FaultKind \cup {"deadline", "page", "cancel"}

ASSUME DeliveryAssumption ==
    /\ Event \subseteq EventKind
    /\ MaxFaults \in Nat

VARIABLE faults   \* faults so far

vars == <<linkVars, gatewayVars, bridgeVars, faults>>

TypeOK ==
    /\ LinkTypeOK
    /\ GatewayTypeOK
    /\ BridgeTypeOK
    /\ faults \in 0 .. MaxFaults

Init == LinkInit /\ GatewayInit /\ BridgeInit /\ faults = 0

----
(* Core's steps.  Those of the timers and of the user leave the pipe's incoming *)
(* side alone; a handler consumes a message and enqueues no command.             *)
timerFrame   == <<toCore, bridgeConn, tokenFresh, expired, bridgeVars, faults>>
handlerFrame == <<bridgeConn, tokenFresh, commandSeq, expired, bridgeVars, faults>>

RunStarts(r) ==
    /\ StartRun(r)
    /\ intact' = intact \cup {r}
    /\ UNCHANGED <<toCore, bridgeConn, tokenFresh, expired, volatileVars,
                   durableVars, executed, faults>>

Drain(c) ==
    /\ DrainExpired(c) \/ \E fresh \in SUBSET current : DrainRefused(c, fresh)
    /\ UNCHANGED timerFrame
Invokes(c) ==
    /\ \E fresh \in SUBSET current : Invoke(c, fresh)
    /\ UNCHANGED timerFrame
Polls(c) == PollTerminal(c) /\ UNCHANGED timerFrame
Aborts(c) == InvokeDeadline(c) /\ UNCHANGED timerFrame
Cancels(r) == "cancel" \in Event /\ CancelRun(r) /\ UNCHANGED timerFrame
Ticks ==
    (\E fresh \in SUBSET current : Tick(fresh)) /\ UNCHANGED timerFrame
GetsReady ==
    (\E fresh \in SUBSET current : HandleCapabilities(fresh)) /\ UNCHANGED timerFrame
Observes(t) ==
    /\ \E fresh \in SUBSET Run : HandleObservation(t, intact, fresh)
    /\ UNCHANGED timerFrame

Hello ==
    HandleHello /\ UNCHANGED <<bridgeConn, expired, bridgeVars, faults>>
GetsAck(c, ok)   == ReceiveAck(c, ok) /\ UNCHANGED handlerFrame
GetsResult(c, r) == ReceiveResult(c, r) /\ UNCHANGED handlerFrame
GetsStop(c)      == ReceiveCancelEffective(c) /\ UNCHANGED handlerFrame
GetsEvidence(c)  == ReceiveEvidence(c) /\ UNCHANGED handlerFrame

----
(* The bridge's steps. *)
portFrame   == <<gatewayVars, commandSeq, expired, intact, faults>>
bridgeFrame == <<portFrame, bridgeConn, tokenFresh>>

HandlesDispatch(c)        == ReceiveDispatch(c) /\ UNCHANGED bridgeFrame
Starts(c)                 == StartCommand(c) /\ UNCHANGED bridgeFrame
StopsBefore(c)            == CancelBeforeAction(c) /\ UNCHANGED bridgeFrame
ChecksDeadline(c)         == CheckDeadline(c) /\ UNCHANGED bridgeFrame
ChecksPage(c)             == CheckPage(c) /\ UNCHANGED bridgeFrame
Blocks(c, status)         == StopBeforeAction(c, status) /\ UNCHANGED bridgeFrame
Executes(c)               == Execute(c) /\ UNCHANGED bridgeFrame
Returns(c, status)        == AdapterReturns(c, status) /\ UNCHANGED bridgeFrame
StopsAfter(c, stopped)    == CancelAfterAction(c, stopped) /\ UNCHANGED bridgeFrame
Finishes(c)               == FinishCommand(c) /\ UNCHANGED bridgeFrame
HandlesCancel(c)          == ReceiveCancel(c) /\ UNCHANGED bridgeFrame
HandlesResultAck(c, ok)   == ReceiveResultAck(c, ok) /\ UNCHANGED bridgeFrame
HandlesEvidenceAck(c, ok) == ReceiveEvidenceAck(c, ok) /\ UNCHANGED bridgeFrame
HandlesResume             == ReceiveResume /\ UNCHANGED bridgeFrame
TurnsToResults            == UploadsSent /\ UNCHANGED bridgeFrame
Replays                   == FinishReplay /\ UNCHANGED bridgeFrame
Connects                  == Connect /\ UNCHANGED portFrame
HandlesWelcome            == ReceiveWelcome /\ UNCHANGED portFrame

----
(* The environment. *)

\* A frozen deadline passes, for Core and the bridge alike.
Expire(c) ==
    /\ "deadline" \in Event
    /\ c \notin expired
    /\ Scheduled(c)
    /\ expired' = expired \cup {c}
    /\ UNCHANGED <<toBridge, toCore, bridgeConn, tokenFresh, commandSeq,
                   gatewayVars, bridgeVars, faults>>

\* The page of a tab navigates, reloads or changes account: bindings frozen on it
\* never match again.
PageChanges(t) ==
    /\ "page" \in Event
    /\ \E r \in intact : TabOf[r] = t
    /\ intact' = {r \in intact : TabOf[r] # t}
    /\ UNCHANGED <<linkVars, gatewayVars, volatileVars, durableVars, executed,
                   faults>>

Fails(kind) ==
    /\ kind \in Event
    /\ faults < MaxFaults
    /\ faults' = faults + 1

\* Both ends lose the pipe and what is in it.
PipeBreaks ==
    /\ bridgeConn' = "none"
    /\ toBridge' = {}
    /\ toCore' = {}
    /\ Detach

\* The pipe leads nowhere once Core has restarted: the bridge notices.
PipeDead == coreConn = "none" /\ SessionHello \notin toCore

LinkLost ==
    /\ bridgeConn # "none"
    /\ IF PipeDead THEN UNCHANGED faults ELSE Fails("link")
    /\ PipeBreaks
    /\ UNCHANGED <<tokenFresh, commandSeq, expired, state, evidence, session,
                   binding, cancelled, outcome, invoking, bridgeVars>>

WorkerRestarts ==
    /\ Fails("worker")
    /\ PipeBreaks
    /\ WorkerRestart
    /\ UNCHANGED <<tokenFresh, commandSeq, expired, state, evidence, session,
                   binding, cancelled, outcome, invoking>>

CoreRestarts ==
    /\ Fails("core")
    /\ CoreCrash
    /\ UNCHANGED <<bridgeConn, tokenFresh, expired, bridgeVars>>

CoreRestartsInPass(c) ==
    /\ Fails("core")
    /\ \E fresh \in SUBSET current :
          CrashAfterSend(c, fresh) \/ CrashInInvoke(c, fresh)
    /\ UNCHANGED <<bridgeConn, tokenFresh, expired, bridgeVars>>

----
CoreNext ==
    \/ \E r \in Run : RunStarts(r) \/ Cancels(r)
    \/ \E c \in Command :
          \/ Drain(c) \/ Invokes(c) \/ Polls(c) \/ Aborts(c)
          \/ GetsStop(c) \/ GetsEvidence(c)
          \/ \E ok \in BOOLEAN : GetsAck(c, ok)
          \/ \E r \in Result : GetsResult(c, r)
    \/ \E t \in Tab : Observes(t)
    \/ Ticks \/ Hello \/ GetsReady

BridgeNext ==
    \/ \E c \in Command :
          \/ HandlesDispatch(c) \/ Starts(c) \/ StopsBefore(c)
          \/ ChecksDeadline(c) \/ ChecksPage(c) \/ Executes(c)
          \/ Finishes(c) \/ HandlesCancel(c)
          \/ \E status \in {"rejected", "failed"} : Blocks(c, status)
          \/ \E status \in AdapterStatus : Returns(c, status)
          \/ \E b \in BOOLEAN :
                StopsAfter(c, b) \/ HandlesResultAck(c, b) \/ HandlesEvidenceAck(c, b)
    \/ HandlesResume \/ TurnsToResults \/ Replays \/ Connects \/ HandlesWelcome

EnvironmentNext ==
    \/ \E c \in Command : Expire(c) \/ CoreRestartsInPass(c)
    \/ \E t \in Tab : PageChanges(t)
    \/ LinkLost \/ WorkerRestarts \/ CoreRestarts

Next == CoreNext \/ BridgeNext \/ EnvironmentNext

Spec == Init /\ [][Next]_vars

----
(* Safety. *)

\* Core never has two commands in the browser for one tab of one session: the
\* dispatch pass, acknowledgements, results, timeouts, reconnections and crashes
\* between sending a command and marking it delivered keep the tab exclusive.
OneCommandPerTab ==
    \A c, d \in Command :
        /\ state[c] \in InBrowser
        /\ state[d] \in InBrowser
        /\ SameTab(c, d)
        => c = d

\* A command Core holds as succeeded ran, and Core acknowledged the Evidence its
\* result names: no order of acknowledgements, replays and restarts lets a
\* success in without its Evidence.
SuccessIsReal ==
    \A c \in Command :
        state[c] = "succeeded" => executed[c] > 0 /\ evidence[c] # 0

\* The bridge has been told of the decision of a command that Core enqueued later
\* than c: results up to that one are taken for acknowledged.
Overtaken(c) ==
    \E d \in Command : /\ state[d] \in Status
                       /\ commandSeq[c] < commandSeq[d]
                       /\ commandSeq[d] <= ackedSeq

\* A page action that was started and not yet decided is forgotten by the bridge
\* only when a later command overtakes it: else its start record or its result
\* survives, so that a restart or a reconnection can still report it.
EffectLeavesTrace ==
    \A c \in Command :
        executed[c] > 0 /\ state[c] \notin Status
        => c \in starts \/ pendingResult[c] # None \/ Overtaken(c)

\* Capacity, tabs and cancellation marks belong to handlers in progress: whatever
\* path handleCommand takes, also when a send throws, none of them leaks.
SlotsBelongToHandlers ==
    /\ \A c \in active : phase[c] \notin {"idle", "starting"}
    /\ cancelMarks \subseteq active
    /\ \A t \in Tab : activeTab[t] # None =>
          activeTab[t] \in active /\ TabFor(activeTab[t]) = t

\* Core has enqueued a retry of c.
Retried(c) ==
    \E d \in Command : /\ RunOf[c] = RunOf[d]
                       /\ Attempt[c] < Attempt[d]
                       /\ state[d] # "absent"

\* Once Core has enqueued a retry, no earlier attempt passes the bridge's deadline
\* check any more, and none whose page looks at the deadline begins to act, however
\* late its dispatch, its handler or its answer is.
AttemptsActInOrder ==
    [][\A c \in Command :
          Retried(c) =>
             /\ phase'[c] = "checked" => phase[c] = "checked"
             /\ c \in GuardedCommand => executed'[c] = executed[c]]_vars

\* A command of a cancelled run that is not in the browser never gets there: not
\* by a dispatch pass, nor by the acknowledgement of a copy sent before a crash.
CancelledRunStaysOut ==
    [][\A c \in Command :
          RunOf[c] \in cancelled /\ state[c] \in {"absent", "queued"}
          => state'[c] \notin InBrowser]_vars

\* Delivery implements the abstract ledger: submitted once, started at most once,
\* decided once, one outcome told.
Ledger == INSTANCE CommandLedger WITH
    life <- [c \in Command |-> IF state[c] \in Pending THEN "pending" ELSE state[c]],
    acts <- executed,
    told <- outcome

ImplementsLedger == Ledger!LedgerSpec

----
(* What the protocol document says and the code does not always do. *)

\* browser-protocol-v2: a command may be cancelled only while its action has not
\* begun.
CancelledMeansUntouched ==
    \A c \in Command : state[c] = "cancelled" => executed[c] = 0

\* browser-protocol-v2: when waiting crosses the deadline the command does not go
\* on.  The bridge waits twice more after its last look at the deadline.
NoActionPastDeadline ==
    [][\A c \in Command : c \in expired => executed'[c] = executed[c]]_vars

\* What a reader may take the deadline of an attempt for: no attempt begins to act
\* once its retry is enqueued.
NoActionAfterRetry ==
    [][\A c \in Command : Retried(c) => executed'[c] = executed[c]]_vars

\* browser-protocol-v2: the bridge deletes a result only after result.ack with
\* accepted = true, which Core sends for decided commands only.
ResultKeptUntilDecided ==
    [][\A c \in Command :
          pendingResult[c] # None /\ pendingResult'[c] = None
          => state[c] \in Status]_vars

\* browser-protocol-v2: an existing result is sent again.  A stored result of a
\* command Core waits for, whose Evidence is acknowledged, is on its way or about
\* to be sent while the connection stands.
NoStrandedResult ==
    \A c \in Command :
        /\ bridgeConn = "open"
        /\ coreConn = "ready"
        /\ state[c] \in InBrowser
        /\ InSession(c)
        /\ pendingResult[c] # None
        /\ pendingResult[c].evidence => c \notin pendingEvidence
        => \/ replaying \/ sendPending # "idle"
           \/ SessionResume \in toBridge
           \/ ResultMsg(c, pendingResult[c]) \in toCore
           \/ ResultAck(c, TRUE) \in toBridge

----
(* Liveness, from the timers alone: the gateway timer runs every 500 ms, invoke  *)
(* polls every 50 ms, the drain loop is started by the same timer, and time      *)
(* passes.  Nothing is asked of the browser, the pipe or the user.               *)
Fairness ==
    /\ WF_vars(Ticks)
    /\ \A c \in Command :
          /\ WF_vars(Expire(c))
          /\ WF_vars(Drain(c) \/ Invokes(c))
          /\ WF_vars(Polls(c) \/ Aborts(c))

FairSpec == Spec /\ Fairness

\* Every command Core holds is decided, whatever the browser does, unless its run
\* is cancelled (then Core waits for the browser).
EveryCommandIsDecided ==
    \A c \in Command :
        state[c] \in Pending ~> state[c] \in Status \/ RunOf[c] \in cancelled

\* Every attempt the engine schedules is answered, so that no run waits for the
\* browser for ever and no attempt holds the drain loop for ever.
EveryAttemptIsAnswered ==
    \A c \in Command :
        Scheduled(c) ~> outcome[c] # None \/ RunOf[c] \in cancelled

====
