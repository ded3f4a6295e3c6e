---- MODULE ExtensionBridge ----
(***************************************************************************)
(* The browser's side of command delivery: the extension service worker    *)
(* (background.ts) with its durable stores in IndexedDB and                *)
(* storage.local.  A message handler is a chain of awaits; each action is  *)
(* the code between two of them, so handlers of different messages         *)
(* interleave, also with a reconnection of the Native port.                *)
(***************************************************************************)
EXTENDS BrowserLink, FiniteSets

CONSTANTS
    AdapterStatus,   \* statuses an adapter's response can turn into
    StagedCommand,   \* commands that run an alliance stage, which can refuse to stop
    GuardedCommand,  \* commands of content-script nodes: the page looks at the
                     \* deadline once more; the others navigate or run a stage
    RiskyCommand,    \* commands that pacing or a risk on the page can refuse
    ActiveCapacity   \* EXTENSION_RUNTIME_LIMITS.activeCommands

ASSUME BridgeAssumption ==
    /\ AdapterStatus \subseteq {"succeeded", "failed", "rejected", "uncertain"}
    /\ StagedCommand \subseteq Command
    /\ GuardedCommand \subseteq Command \ StagedCommand
    /\ RiskyCommand \subseteq Command
    /\ ActiveCapacity \in Nat \ {0}

VARIABLES
    phase,            \* where handleCommand stands for a command: see Phase
    active,           \* activeCommands
    activeTab,        \* activeTabCommands
    cancelMarks,      \* cancelledCommands
    starts,           \* durable: the command-starts store
    pendingResult,    \* durable: the pending-results store
    pendingEvidence,  \* durable: the pending-evidence store
    ackedSeq,         \* durable: lastAckedCommandSeq
    sendPending,      \* sendPending's promise: "idle", "uploading" or "results"
    replaying,        \* a sendReadyPendingResults is in flight ...
    withheld,         \* ... and found these evidences pending when it began
    intact,           \* started runs whose frozen page is still the page in the tab
    executed          \* history: how often a command's page action was started

volatileVars == <<phase, active, activeTab, cancelMarks, sendPending,
                  replaying, withheld>>
durableVars  == <<starts, pendingResult, pendingEvidence, ackedSeq>>
bridgeVars   == <<volatileVars, durableVars, intact, executed>>

\* "starting": savePendingCommandStart awaited; "pacing": acknowledged, waiting for
\* its turn; "checked": the deadline was looked at, the page's observation is
\* awaited; "cleared": the page was looked at, the preflight or the last write
\* before the action is awaited; "executing": the action runs; "saved": its result
\* is stored, the command not yet released.  From the action's end to the stored
\* result is one step: a cancellation mark set in between is never looked at again,
\* and a restart finds the same start record as one during the action.
Phase == {"idle", "starting", "pacing", "checked", "cleared", "executing", "saved"}

BridgeTypeOK ==
    /\ phase \in [Command -> Phase]
    /\ active \subseteq Command
    /\ activeTab \in [Tab -> Command \cup {None}]
    /\ cancelMarks \subseteq Command
    /\ starts \subseteq Command
    /\ pendingResult \in [Command -> Result \cup {None}]
    /\ pendingEvidence \subseteq Command
    /\ ackedSeq \in Nat
    /\ sendPending \in {"idle", "uploading", "results"}
    /\ replaying \in BOOLEAN
    /\ withheld \subseteq Command
    /\ intact \subseteq Run
    /\ executed \in [Command -> Nat]

BridgeInit ==
    /\ phase = [c \in Command |-> "idle"]
    /\ active = {}
    /\ activeTab = [t \in Tab |-> None]
    /\ cancelMarks = {}
    /\ starts = {}
    /\ pendingResult = [c \in Command |-> None]
    /\ pendingEvidence = {}
    /\ ackedSeq = 0
    /\ sendPending = "idle"
    /\ replaying = FALSE
    /\ withheld = {}
    /\ intact = {}
    /\ executed = [c \in Command |-> 0]

----
TabFor(c) == TabOf[RunOf[c]]

\* send: a message sent before the welcome is refused by Core, one sent without
\* a port throws in its handler.
Send(msgs) ==
    toCore' = IF bridgeConn = "open" THEN toCore \cup msgs ELSE toCore
Throws == bridgeConn = "none"

\* A message of the current session; the handler starts.
Handle(m) == bridgeConn = "open" /\ m \in toBridge /\ toBridge' = toBridge \ {m}

\* interruptedCommandResult.
Interrupted == [status |-> "uncertain", evidence |-> FALSE]

\* recoverInterruptedCommands: a start without a result becomes an uncertain one.
RecoveredResults ==
    [c \in Command |->
        IF c \in starts /\ pendingResult[c] = None
        THEN Interrupted ELSE pendingResult[c]]

\* sendReadyPendingResults begins, or joins the one in flight.
BeginReplay(uploads) ==
    /\ replaying' = TRUE
    /\ withheld' = IF replaying THEN withheld ELSE uploads

\* sendPending begins with every stored upload, or joins the one in flight.
BeginSendPending ==
    /\ sendPending' = IF sendPending = "idle" THEN "uploading" ELSE sendPending
    /\ IF sendPending = "idle"
       THEN toCore' = toCore \cup {EvidenceMsg(c) : c \in pendingEvidence}
       ELSE UNCHANGED toCore

\* Mutant: the tab stays taken.
ReleaseKeepingTab(c) ==
    /\ active' = active \ {c}
    /\ cancelMarks' = cancelMarks \ {c}
    /\ UNCHANGED activeTab

\* releaseCommand.
Release(c) ==
    /\ active' = active \ {c}
    /\ activeTab' = [activeTab EXCEPT ![TabFor(c)] = IF @ = c THEN None ELSE @]
    /\ cancelMarks' = cancelMarks \ {c}

Goto(c, p) == phase' = [phase EXCEPT ![c] = p]

----
(* handleCommand. *)

TabBusy(c) == activeTab[TabFor(c)] \notin {c, None}

Unavailable(c) == Cardinality(active) >= ActiveCapacity \/ TabBusy(c)

\* Up to savePendingCommandStart: refuse a command whose frozen page is gone,
\* answer one that is known, refuse one there is no room for, else record its
\* start.
ReceiveDispatch(c) ==
    /\ Handle(Dispatch(c))
    /\ IF RunOf[c] \notin intact
       THEN Send({Ack(c, FALSE)}) /\ UNCHANGED <<phase, starts, pendingResult>>
       ELSE IF pendingResult[c] # None
       THEN /\ Send({ResultMsg(c, pendingResult[c])})
            /\ UNCHANGED <<phase, starts, pendingResult>>
       ELSE IF c \in active
       THEN Send({Ack(c, TRUE)}) /\ UNCHANGED <<phase, starts, pendingResult>>
       ELSE IF c \in starts
       THEN /\ pendingResult' = RecoveredResults
            /\ starts' = {}
            /\ Send({ResultMsg(c, Interrupted)})
            /\ UNCHANGED phase
       ELSE IF Unavailable(c)
       THEN Send({Ack(c, FALSE)}) /\ UNCHANGED <<phase, starts, pendingResult>>
       ELSE /\ starts' = starts \cup {c}
            /\ Goto(c, "starting")
            /\ UNCHANGED <<pendingResult, toCore>>
    /\ UNCHANGED <<active, activeTab, cancelMarks, pendingEvidence,
                   ackedSeq, sendPending, replaying, withheld, executed>>

\* The start is stored: acknowledge and claim the tab.  If the port is gone the
\* send throws, the handler ends and the start stays behind.
StartCommand(c) ==
    /\ phase[c] = "starting"
    /\ IF Throws
       THEN Goto(c, "idle") /\ UNCHANGED <<active, activeTab, toCore>>
       ELSE /\ Goto(c, "pacing")
            /\ Send({Ack(c, TRUE)})
            /\ active' = active \cup {c}
            /\ activeTab' = [activeTab EXCEPT ![TabFor(c)] = c]
    /\ UNCHANGED <<cancelMarks, durableVars, sendPending, replaying,
                   withheld, executed, toBridge>>

\* The evidence and the result naming it are stored.
SaveResult(c, status) ==
    /\ Goto(c, "saved")
    /\ pendingEvidence' = pendingEvidence \cup {c}
    /\ pendingResult' = [pendingResult EXCEPT
                            ![c] = [status |-> status, evidence |-> TRUE]]

\* Cancelled while paced: forget the start, release, report a safe stop.  If that
\* send throws, the handler falls through to an ordinary failure.
CancelBeforeAction(c) ==
    /\ phase[c] = "pacing"
    /\ c \in cancelMarks
    /\ starts' = starts \ {c}
    /\ Release(c)
    /\ IF Throws
       THEN SaveResult(c, "failed") /\ UNCHANGED toCore
       ELSE /\ Send({CancelEffective(c)})
            /\ Goto(c, "idle")
            /\ UNCHANGED <<pendingEvidence, pendingResult>>
    /\ UNCHANGED <<ackedSeq, sendPending, replaying, withheld, executed, toBridge>>

\* Mutant: the deadline is not looked at after pacing.
CheckDeadlineNever(c) ==
    /\ phase[c] = "pacing"
    /\ c \notin cancelMarks
    /\ Goto(c, "checked")
    /\ UNCHANGED <<active, activeTab, cancelMarks, durableVars, sendPending,
                   replaying, withheld, executed, toBridge, toCore>>

\* Paced, neither cancelled nor past its deadline: the tab is probed.
CheckDeadline(c) ==
    /\ phase[c] = "pacing"
    /\ c \notin cancelMarks
    /\ c \notin expired
    /\ Goto(c, "checked")
    /\ UNCHANGED <<active, activeTab, cancelMarks, durableVars, sendPending,
                   replaying, withheld, executed, toBridge, toCore>>

\* The frozen page is still the page in the tab: the preflight begins.  A mark set
\* meanwhile is not looked at.
CheckPage(c) ==
    /\ phase[c] = "checked"
    /\ RunOf[c] \in intact
    /\ Goto(c, "cleared")
    /\ UNCHANGED <<active, activeTab, cancelMarks, durableVars, sendPending,
                   replaying, withheld, executed, toBridge, toCore>>

\* Why a command is refused before its action: pacing or the deadline, the page it
\* was frozen on, a risk on the page; or the tab does not answer.
Barred(c, status) ==
    \/ /\ status = "rejected"
       /\ \/ phase[c] = "pacing" /\ (c \in expired \/ c \in RiskyCommand)
          \/ phase[c] = "checked" /\ RunOf[c] \notin intact
          \/ phase[c] = "cleared" /\ c \in RiskyCommand
    \/ status = "failed" /\ phase[c] = "cleared"

\* It is, and no cancellation is waiting.  A guarded command past its deadline is
\* one the page answers with a failure.
StopBeforeAction(c, status) ==
    /\ Barred(c, status)
    /\ c \notin cancelMarks
    /\ SaveResult(c, status)
    /\ UNCHANGED <<active, activeTab, cancelMarks, starts, ackedSeq, sendPending,
                   replaying, withheld, executed, toBridge, toCore>>

\* Mutant: the page does not look at the deadline either.
ExecutePastDeadline(c) ==
    /\ phase[c] = "cleared"
    /\ c \in StagedCommand => c \notin cancelMarks
    /\ Goto(c, "executing")
    /\ executed' = [executed EXCEPT ![c] = @ + 1]
    /\ UNCHANGED <<active, activeTab, cancelMarks, durableVars, sendPending,
                   replaying, withheld, toBridge, toCore>>

\* The page action starts: the tab is navigated, the stage or the content action
\* begins.  Neither the page nor, outside the content script, the deadline is looked
\* at again; a stage alone looks for a cancellation.
Execute(c) ==
    /\ phase[c] = "cleared"
    /\ c \in GuardedCommand => c \notin expired
    /\ c \in StagedCommand => c \notin cancelMarks
    /\ Goto(c, "executing")
    /\ executed' = [executed EXCEPT ![c] = @ + 1]
    /\ UNCHANGED <<active, activeTab, cancelMarks, durableVars, sendPending,
                   replaying, withheld, toBridge, toCore>>

\* It ends (or its page is gone) and no cancellation is waiting.
AdapterReturns(c, status) ==
    /\ phase[c] = "executing"
    /\ c \notin cancelMarks
    /\ SaveResult(c, status)
    /\ UNCHANGED <<active, activeTab, cancelMarks, starts, ackedSeq, sendPending,
                   replaying, withheld, executed, toBridge, toCore>>

\* It ends, or the command is refused, and a cancellation is waiting: the command
\* is reported cancelled and its start is not removed.  An alliance stage that does
\* not confirm its stop fails instead (stopped = FALSE).
CancelAfterAction(c, stopped) ==
    /\ phase[c] = "executing" \/ \E status \in {"rejected", "failed"} : Barred(c, status)
    /\ c \in cancelMarks
    /\ IF stopped
       THEN /\ Release(c)
            /\ Send({CancelEffective(c)})
            /\ Goto(c, "idle")
            /\ UNCHANGED <<pendingEvidence, pendingResult>>
       ELSE /\ c \in StagedCommand /\ phase[c] = "executing"
            /\ cancelMarks' = cancelMarks \ {c}
            /\ SaveResult(c, "failed")
            /\ UNCHANGED <<active, activeTab, toCore>>
    /\ UNCHANGED <<starts, ackedSeq, sendPending, replaying, withheld, executed,
                   toBridge>>

\* The start is removed, the evidence sent (and stored once more, whatever became
\* of it), the command released, also if the send throws.  The result waits for
\* the evidence to be acknowledged.
FinishCommand(c) ==
    /\ phase[c] = "saved"
    /\ Goto(c, "idle")
    /\ starts' = starts \ {c}
    /\ pendingEvidence' = pendingEvidence \cup {c}
    /\ Send({EvidenceMsg(c)})
    /\ Release(c)
    /\ UNCHANGED <<pendingResult, ackedSeq, sendPending, replaying,
                   withheld, executed, toBridge>>

----
(* The other messages. *)

\* cancel.request: nothing if a result is stored; a mark if the command is
\* active; else the safe stop is reported at once.
ReceiveCancel(c) ==
    /\ Handle(CancelRequest(c))
    /\ cancelMarks' = IF pendingResult[c] = None /\ c \in active
                      THEN cancelMarks \cup {c} ELSE cancelMarks
    /\ Send(IF pendingResult[c] = None /\ c \notin active
            THEN {CancelEffective(c)} ELSE {})
    /\ UNCHANGED <<phase, active, activeTab, durableVars, sendPending,
                   replaying, withheld, executed>>

\* Mutant: a refused result is deleted too.
ReceiveAnyResultAck(c, ok) ==
    /\ Handle(ResultAck(c, ok))
    /\ pendingResult' = [pendingResult EXCEPT ![c] = None]
    /\ UNCHANGED <<volatileVars, starts, pendingEvidence, ackedSeq, executed, toCore>>

\* result.ack: a result that is still stored moves the watermark and is deleted.
ReceiveResultAck(c, ok) ==
    /\ Handle(ResultAck(c, ok))
    /\ IF ok /\ pendingResult[c] # None
       THEN /\ ackedSeq' = IF commandSeq[c] > ackedSeq THEN commandSeq[c]
                           ELSE ackedSeq
            /\ pendingResult' = [pendingResult EXCEPT ![c] = None]
       ELSE UNCHANGED <<ackedSeq, pendingResult>>
    /\ UNCHANGED <<volatileVars, starts, pendingEvidence, executed, toCore>>

\* evidence.ack: an accepted upload is deleted and the ready results are sent.
ReceiveEvidenceAck(c, ok) ==
    /\ Handle(EvidenceAck(c, ok))
    /\ IF ok /\ c \in pendingEvidence
       THEN /\ pendingEvidence' = pendingEvidence \ {c}
            /\ BeginReplay(pendingEvidence \ {c})
       ELSE UNCHANGED <<pendingEvidence, replaying, withheld>>
    /\ UNCHANGED <<phase, active, activeTab, cancelMarks, starts,
                   pendingResult, ackedSeq, sendPending, executed, toCore>>

\* connect: the port is opened and session.hello sent.
Connect ==
    /\ bridgeConn = "none"
    /\ bridgeConn' = "hello"
    /\ toCore' = toCore \cup {SessionHello}
    /\ UNCHANGED <<volatileVars, durableVars, executed, toBridge, tokenFresh>>

\* session.welcome: the resume token is stored, what is pending is sent.
ReceiveWelcome ==
    /\ bridgeConn = "hello"
    /\ SessionWelcome \in toBridge
    /\ toBridge' = toBridge \ {SessionWelcome}
    /\ bridgeConn' = "open"
    /\ tokenFresh' = TRUE
    /\ BeginSendPending
    /\ UNCHANGED <<phase, active, activeTab, cancelMarks, durableVars,
                   replaying, withheld, executed>>

\* session.resume.
ReceiveResume ==
    /\ Handle(SessionResume)
    /\ BeginSendPending
    /\ UNCHANGED <<phase, active, activeTab, cancelMarks, durableVars,
                   replaying, withheld, executed>>

\* sendPending has sent its uploads and turns to the results.
UploadsSent ==
    /\ sendPending = "uploading"
    /\ sendPending' = "results"
    /\ BeginReplay(pendingEvidence)
    /\ UNCHANGED <<phase, active, activeTab, cancelMarks, durableVars,
                   executed, toBridge, toCore>>

\* sendReadyPendingResults reads the watermark and the results, deletes those up
\* to the watermark and sends the others whose evidence was not pending.
FinishReplay ==
    LET replay == {c \in Command : pendingResult[c] # None
                                   /\ commandSeq[c] > ackedSeq}
    IN  /\ replaying
        /\ pendingResult' = [c \in Command |-> IF c \in replay
                                               THEN pendingResult[c] ELSE None]
        /\ Send({ResultMsg(c, pendingResult[c]) :
                    c \in {d \in replay : pendingResult[d].evidence
                                          => d \notin withheld}})
        /\ replaying' = FALSE
        /\ withheld' = {}
        /\ sendPending' = IF sendPending = "results" THEN "idle" ELSE sendPending
        /\ UNCHANGED <<phase, active, activeTab, cancelMarks, starts,
                       pendingEvidence, ackedSeq, executed, toBridge>>

----
(* The service worker is stopped and started again: the handlers in progress    *)
(* are gone, the page observations start over, interrupted commands are          *)
(* recovered before the port is opened.                                          *)
WorkerRestart ==
    /\ phase' = [c \in Command |-> "idle"]
    /\ active' = {}
    /\ activeTab' = [t \in Tab |-> None]
    /\ cancelMarks' = {}
    /\ sendPending' = "idle"
    /\ replaying' = FALSE
    /\ withheld' = {}
    /\ starts' = {}
    /\ pendingResult' = RecoveredResults
    /\ intact' = {}
    /\ UNCHANGED <<pendingEvidence, ackedSeq, executed>>

====
