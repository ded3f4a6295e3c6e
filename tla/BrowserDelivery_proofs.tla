---- MODULE BrowserDelivery_proofs ----
(***************************************************************************)
(* Theorems about BrowserDelivery, for every set of commands, runs and     *)
(* tabs, every retry policy, every set of events and any number of faults. *)
(* Each is proved from an inductive invariant, one lemma per part of Next. *)
(***************************************************************************)
EXTENDS BrowserDelivery, TLAPS

(* What the messages are made of. *)

LEMMA BridgeMessages ==
    \A c \in Command :
        /\ Dispatch(c) \in ToBridgeMsg
        /\ CancelRequest(c) \in ToBridgeMsg
        /\ \A ok \in BOOLEAN : /\ ResultAck(c, ok) \in ToBridgeMsg
                               /\ EvidenceAck(c, ok) \in ToBridgeMsg
BY DEF ToBridgeMsg

LEMMA CoreMessages ==
    \A c \in Command :
        /\ CancelEffective(c) \in ToCoreMsg
        /\ EvidenceMsg(c) \in ToCoreMsg
        /\ \A ok \in BOOLEAN : Ack(c, ok) \in ToCoreMsg
        /\ \A r \in Result : ResultMsg(c, r) \in ToCoreMsg
BY DEF ToCoreMsg

LEMMA SessionMessages ==
    /\ SessionWelcome \in ToBridgeMsg
    /\ SessionResume \in ToBridgeMsg
    /\ SessionHello \in ToCoreMsg
BY DEF ToBridgeMsg, ToCoreMsg

LEMMA InitTyped == Init => TypeOK
<1> SUFFICES ASSUME Init PROVE TypeOK
  OBVIOUS
<1>1. LinkTypeOK
  BY DEF Init, LinkInit, LinkTypeOK, ConnState
<1>2. GatewayTypeOK
  BY DEF Init, GatewayInit, GatewayTypeOK, CommandState
<1>3. BridgeTypeOK
  BY DEF Init, BridgeInit, BridgeTypeOK, Phase
<1>4. faults \in 0 .. MaxFaults
  BY DeliveryAssumption DEF Init
<1> QED
  BY <1>1, <1>2, <1>3, <1>4 DEF TypeOK

(* A dispatch pass moves commands between states of the ledger and sends *)
(* messages of the protocol.                                             *)
LEMMA DispatchTyped ==
    ASSUME TypeOK, NEW s \in [Command -> CommandState], NEW pages, NEW fresh, NEW q,
           DispatchPending(s, pages, fresh, q)
    PROVE  /\ state' \in [Command -> CommandState]
           /\ cancelSent' \subseteq Command
           /\ toBridge' \subseteq ToBridgeMsg
<1> DEFINE t == CancelQueued(s, cancelled)
           stops == CancelTargets(t, cancelled)
           sent == Sent(t, fresh, q)
<1>1. t \in [Command -> CommandState]
  BY DEF CancelQueued, CommandState, Status
<1>2. DispatchPass(t, pages, fresh, q) \in [Command -> CommandState]
  <2> HIDE DEF t
  <2> QED BY <1>1 DEF DispatchPass, CommandState, Pending, InBrowser, Status
<1>3. stops \subseteq Command /\ sent \subseteq Command
  BY DEF CancelTargets, Sent
<1> HIDE DEF t, stops, sent
<1>4. /\ state' = DispatchPass(t, pages, fresh, q)
      /\ cancelSent' = cancelSent \cup stops
      /\ toBridge' = toBridge \cup {Dispatch(c) : c \in sent}
                              \cup {CancelRequest(c) : c \in stops}
  BY DEF DispatchPending, t, stops, sent
<1> QED
  BY <1>2, <1>3, <1>4, BridgeMessages DEF TypeOK, LinkTypeOK, GatewayTypeOK

----
(* Types are kept by Core's steps: each leaves the bridge's variables alone. *)

LEMMA CoreFrame ==
    ASSUME TypeOK, UNCHANGED <<bridgeVars, faults>>, LinkTypeOK', GatewayTypeOK'
    PROVE  TypeOK'
BY DEF TypeOK, BridgeTypeOK, bridgeVars, volatileVars, durableVars

LEMMA TellTyped ==
    ASSUME TypeOK, NEW c \in Command, NEW o \in Outcome, Tell(c, o)
    PROVE  outcome' \in [Command -> Outcome \cup {None}]
BY DEF Tell, TypeOK, GatewayTypeOK

LEMMA RunStartsTyped ==
    ASSUME TypeOK, NEW r \in Run, RunStarts(r)
    PROVE  TypeOK'
<1>1. LinkTypeOK'
  BY DEF RunStarts, StartRun, TypeOK, LinkTypeOK
<1>2. GatewayTypeOK'
  BY DEF RunStarts, StartRun, TypeOK, GatewayTypeOK
<1>3. BridgeTypeOK'
  BY DEF RunStarts, TypeOK, BridgeTypeOK, volatileVars, durableVars
<1> QED
  BY <1>1, <1>2, <1>3 DEF RunStarts, TypeOK

LEMMA DrainTyped ==
    ASSUME TypeOK, NEW c \in Command, Drain(c)
    PROVE  TypeOK'
<1>1. UNCHANGED timerFrame /\ UNCHANGED <<toBridge, commandSeq>>
  BY DEF Drain, DrainExpired, DrainRefused
<1>2. outcome' \in [Command -> Outcome \cup {None}]
  <2>1. \E o \in {"expired", "rejected"} : Tell(c, o)
    BY DEF Drain, DrainExpired, DrainRefused
  <2> QED
    BY <2>1, TellTyped DEF Outcome, Status
<1>3. GatewayTypeOK'
  BY <1>2 DEF Drain, DrainExpired, DrainRefused, TypeOK, GatewayTypeOK
<1>4. LinkTypeOK'
  BY <1>1 DEF timerFrame, TypeOK, LinkTypeOK
<1> QED
  BY <1>1, <1>3, <1>4, CoreFrame DEF timerFrame

LEMMA EnqueuedTyped ==
    ASSUME TypeOK, NEW c \in Command, Enqueued(c)
    PROVE  commandSeq' \in [Command -> Nat]
BY DEF Enqueued, TypeOK, LinkTypeOK

LEMMA InvokesTyped ==
    ASSUME TypeOK, NEW c \in Command, Invokes(c)
    PROVE  TypeOK'
<1> PICK fresh \in SUBSET current : Invoke(c, fresh)
  BY DEF Invokes
<1> DEFINE s == IF state[c] = "absent"
                THEN [state EXCEPT ![c] = "queued"] ELSE state
<1>1. UNCHANGED timerFrame
  BY DEF Invokes
<1>2. s \in [Command -> CommandState]
  BY DEF TypeOK, GatewayTypeOK, CommandState, Pending
<1>3. commandSeq' \in [Command -> Nat]
  BY EnqueuedTyped DEF Invoke, TypeOK, LinkTypeOK
<1>4. /\ state' \in [Command -> CommandState]
      /\ cancelSent' \subseteq Command
      /\ toBridge' \subseteq ToBridgeMsg
  <2>1. CASE coreConn = "ready"
    <3>1. DispatchPending(s, current, fresh, commandSeq')
      BY <2>1 DEF Invoke
    <3> HIDE DEF s
    <3> QED
      BY <1>2, <3>1, DispatchTyped
  <2>2. CASE coreConn # "ready"
    <3>1. state' = s /\ UNCHANGED <<cancelSent, toBridge>>
      BY <2>2 DEF Invoke
    <3> QED
      BY <1>2, <3>1 DEF TypeOK, GatewayTypeOK, LinkTypeOK
  <2> QED
    BY <2>1, <2>2
<1>5. LinkTypeOK'
  BY <1>1, <1>3, <1>4 DEF timerFrame, TypeOK, LinkTypeOK
<1>6. GatewayTypeOK'
  BY <1>4 DEF Invoke, TypeOK, GatewayTypeOK
<1> QED
  BY <1>1, <1>5, <1>6, CoreFrame DEF timerFrame

LEMMA PollsTyped ==
    ASSUME TypeOK, NEW c \in Command, Polls(c)
    PROVE  TypeOK'
<1>1. outcome' \in [Command -> Outcome \cup {None}]
  <2>1. state[c] \in Outcome /\ Tell(c, state[c])
    BY DEF Polls, PollTerminal, Outcome
  <2> QED
    BY <2>1, TellTyped
<1>2. GatewayTypeOK'
  BY <1>1 DEF Polls, PollTerminal, TypeOK, GatewayTypeOK
<1>3. LinkTypeOK'
  BY DEF Polls, PollTerminal, timerFrame, TypeOK, LinkTypeOK
<1> QED
  BY <1>2, <1>3, CoreFrame DEF Polls, timerFrame

LEMMA AbortsTyped ==
    ASSUME TypeOK, NEW c \in Command, Aborts(c)
    PROVE  TypeOK'
<1>1. outcome' \in [Command -> Outcome \cup {None}]
  BY TellTyped DEF Aborts, InvokeDeadline, Outcome, Status
<1>2. GatewayTypeOK'
  BY <1>1 DEF Aborts, InvokeDeadline, TypeOK, GatewayTypeOK, CommandState, Status
<1>3. LinkTypeOK'
  BY BridgeMessages DEF Aborts, InvokeDeadline, timerFrame, TypeOK, LinkTypeOK
<1> QED
  BY <1>2, <1>3, CoreFrame DEF Aborts, timerFrame

LEMMA CancelQueuedTyped ==
    ASSUME NEW s \in [Command -> CommandState], NEW runs
    PROVE  CancelQueued(s, runs) \in [Command -> CommandState]
BY DEF CancelQueued, CommandState, Status

LEMMA TimeOutTyped ==
    ASSUME NEW s \in [Command -> CommandState]
    PROVE  TimeOut(s) \in [Command -> CommandState]
BY DEF TimeOut, CommandState, Status

LEMMA CancelsTyped ==
    ASSUME TypeOK, NEW r \in Run, Cancels(r)
    PROVE  TypeOK'
<1>1. RequestCancel({r}) /\ UNCHANGED timerFrame /\ UNCHANGED commandSeq
  BY DEF Cancels, CancelRun
<1>2. /\ state' \in [Command -> CommandState]
      /\ cancelSent' \subseteq Command
      /\ toBridge' \subseteq ToBridgeMsg
  BY <1>1, CancelQueuedTyped, BridgeMessages
  DEF RequestCancel, CancelTargets, TypeOK, GatewayTypeOK, LinkTypeOK
<1>3. GatewayTypeOK'
  BY <1>2 DEF Cancels, CancelRun, TypeOK, GatewayTypeOK
<1>4. LinkTypeOK'
  BY <1>1, <1>2 DEF timerFrame, TypeOK, LinkTypeOK
<1> QED
  BY <1>1, <1>3, <1>4, CoreFrame DEF timerFrame

LEMMA TicksTyped ==
    ASSUME TypeOK, Ticks
    PROVE  TypeOK'
<1> PICK fresh \in SUBSET current : Tick(fresh)
  BY DEF Ticks
<1>1. UNCHANGED timerFrame /\ UNCHANGED commandSeq
  BY DEF Ticks, Tick
<1>2. /\ state' \in [Command -> CommandState]
      /\ cancelSent' \subseteq Command
      /\ toBridge' \subseteq ToBridgeMsg
  <2>1. TimeOut(state) \in [Command -> CommandState]
    BY TimeOutTyped DEF TypeOK, GatewayTypeOK
  <2>2. CASE coreConn = "ready"
    BY <2>1, <2>2, DispatchTyped DEF Tick
  <2>3. CASE coreConn # "ready"
    BY <2>1, <2>3, CancelQueuedTyped
    DEF Tick, TypeOK, GatewayTypeOK, LinkTypeOK
  <2> QED
    BY <2>2, <2>3
<1>3. GatewayTypeOK'
  BY <1>2 DEF Tick, TypeOK, GatewayTypeOK
<1>4. LinkTypeOK'
  BY <1>1, <1>2 DEF timerFrame, TypeOK, LinkTypeOK
<1> QED
  BY <1>1, <1>3, <1>4, CoreFrame DEF timerFrame

LEMMA GetsReadyTyped ==
    ASSUME TypeOK, GetsReady
    PROVE  TypeOK'
<1> PICK fresh \in SUBSET current : HandleCapabilities(fresh)
  BY DEF GetsReady
<1>1. UNCHANGED timerFrame /\ UNCHANGED commandSeq
  BY DEF GetsReady, HandleCapabilities
<1>2. /\ state' \in [Command -> CommandState]
      /\ cancelSent' \subseteq Command
      /\ toBridge' \subseteq ToBridgeMsg
  BY DispatchTyped DEF HandleCapabilities, TypeOK, GatewayTypeOK
<1>3. GatewayTypeOK'
  BY <1>2 DEF HandleCapabilities, TypeOK, GatewayTypeOK
<1>4. LinkTypeOK'
  BY <1>1, <1>2 DEF timerFrame, TypeOK, LinkTypeOK
<1> QED
  BY <1>1, <1>3, <1>4, CoreFrame DEF timerFrame

LEMMA ObservesTyped ==
    ASSUME TypeOK, NEW t \in Tab, Observes(t)
    PROVE  TypeOK'
<1> PICK fresh \in SUBSET Run : HandleObservation(t, intact, fresh)
  BY DEF Observes
<1>1. UNCHANGED timerFrame /\ UNCHANGED commandSeq
  BY DEF Observes, HandleObservation
<1>2. /\ state' \in [Command -> CommandState]
      /\ cancelSent' \subseteq Command
      /\ toBridge' \subseteq ToBridgeMsg
  BY DispatchTyped DEF HandleObservation, TypeOK, GatewayTypeOK
<1>3. GatewayTypeOK'
  BY <1>2 DEF HandleObservation, TypeOK, GatewayTypeOK
<1>4. LinkTypeOK'
  BY <1>1, <1>2 DEF timerFrame, TypeOK, LinkTypeOK
<1> QED
  BY <1>1, <1>3, <1>4, CoreFrame DEF timerFrame

LEMMA HelloTyped ==
    ASSUME TypeOK, Hello
    PROVE  TypeOK'
<1>1. GatewayTypeOK'
  BY DEF Hello, HandleHello, TypeOK, GatewayTypeOK
<1>2. LinkTypeOK'
  BY SessionMessages DEF Hello, HandleHello, TypeOK, LinkTypeOK
<1> QED
  BY <1>1, <1>2, CoreFrame DEF Hello

LEMMA GetsAckTyped ==
    ASSUME TypeOK, NEW c \in Command, NEW ok \in BOOLEAN, GetsAck(c, ok)
    PROVE  TypeOK'
<1>1. GatewayTypeOK'
  BY DEF GetsAck, ReceiveAck, TypeOK, GatewayTypeOK, CommandState, Pending, InBrowser, Status
<1>2. LinkTypeOK'
  BY DEF GetsAck, ReceiveAck, Receive, handlerFrame, TypeOK, LinkTypeOK
<1> QED
  BY <1>1, <1>2, CoreFrame DEF GetsAck, handlerFrame

LEMMA GetsResultTyped ==
    ASSUME TypeOK, NEW c \in Command, NEW r \in Result, GetsResult(c, r)
    PROVE  TypeOK'
<1>1. GatewayTypeOK'
  BY DEF GetsResult, ReceiveResult, TypeOK, GatewayTypeOK, CommandState, Result
<1>2. Acceptable(c, r) \in BOOLEAN
  BY DEF Acceptable, Result
<1>3. LinkTypeOK'
  BY <1>2, BridgeMessages
  DEF GetsResult, ReceiveResult, Receive, handlerFrame, TypeOK, LinkTypeOK
<1> QED
  BY <1>1, <1>3, CoreFrame DEF GetsResult, handlerFrame

LEMMA GetsStopTyped ==
    ASSUME TypeOK, NEW c \in Command, GetsStop(c)
    PROVE  TypeOK'
<1>1. GatewayTypeOK'
  BY DEF GetsStop, ReceiveCancelEffective, TypeOK, GatewayTypeOK, CommandState, Status
<1>2. LinkTypeOK'
  BY DEF GetsStop, ReceiveCancelEffective, Receive, handlerFrame, TypeOK, LinkTypeOK
<1> QED
  BY <1>1, <1>2, CoreFrame DEF GetsStop, handlerFrame

LEMMA GetsEvidenceTyped ==
    ASSUME TypeOK, NEW c \in Command, GetsEvidence(c)
    PROVE  TypeOK'
<1>1. GatewayTypeOK'
  BY DEF GetsEvidence, ReceiveEvidence, TypeOK, GatewayTypeOK
<1>2. LinkTypeOK'
  BY BridgeMessages DEF GetsEvidence, ReceiveEvidence, Receive, handlerFrame, TypeOK, LinkTypeOK
<1> QED
  BY <1>1, <1>2, CoreFrame DEF GetsEvidence, handlerFrame

LEMMA CoreTyped == TypeOK /\ CoreNext => TypeOK'
BY RunStartsTyped, CancelsTyped, DrainTyped, InvokesTyped, PollsTyped, AbortsTyped,
   GetsStopTyped, GetsEvidenceTyped, GetsAckTyped, GetsResultTyped, ObservesTyped,
   TicksTyped, HelloTyped, GetsReadyTyped
DEF CoreNext

----
(* Types are kept by the bridge's steps: each leaves Core's variables alone. *)

LEMMA BridgeStepFrame ==
    ASSUME TypeOK, UNCHANGED <<gatewayVars, faults>>, LinkTypeOK', BridgeTypeOK'
    PROVE  TypeOK'
BY DEF TypeOK, GatewayTypeOK, gatewayVars

\* Every handler but connect and welcome moves messages only.
LEMMA HandlerFrame ==
    ASSUME TypeOK, UNCHANGED bridgeFrame, BridgeTypeOK',
           toBridge' \subseteq ToBridgeMsg, toCore' \subseteq ToCoreMsg
    PROVE  TypeOK'
<1>1. LinkTypeOK'
  BY DEF bridgeFrame, portFrame, TypeOK, LinkTypeOK
<1> QED
  BY <1>1, BridgeStepFrame DEF bridgeFrame, portFrame

LEMMA SendTyped ==
    ASSUME TypeOK, NEW msgs \in SUBSET ToCoreMsg, Send(msgs)
    PROVE  toCore' \subseteq ToCoreMsg
BY DEF Send, TypeOK, LinkTypeOK

LEMMA RecoveredTyped ==
    ASSUME TypeOK
    PROVE  RecoveredResults \in [Command -> Result \cup {None}]
BY DEF RecoveredResults, Interrupted, Result, Status, TypeOK, BridgeTypeOK

LEMMA SaveResultTyped ==
    ASSUME TypeOK, NEW c \in Command, NEW status \in Status, SaveResult(c, status)
    PROVE  /\ phase' \in [Command -> Phase]
           /\ pendingEvidence' \subseteq Command
           /\ pendingResult' \in [Command -> Result \cup {None}]
BY DEF SaveResult, Goto, Phase, Result, TypeOK, BridgeTypeOK

LEMMA ReleaseTyped ==
    ASSUME TypeOK, NEW c \in Command, Release(c)
    PROVE  /\ active' \subseteq Command
           /\ activeTab' \in [Tab -> Command \cup {None}]
           /\ cancelMarks' \subseteq Command
BY DEF Release, TypeOK, BridgeTypeOK

LEMMA HandlesDispatchTyped ==
    ASSUME TypeOK, NEW c \in Command, HandlesDispatch(c)
    PROVE  TypeOK'
<1>1. UNCHANGED bridgeFrame /\ ReceiveDispatch(c)
  BY DEF HandlesDispatch
<1>2. toBridge' \subseteq ToBridgeMsg
  BY <1>1 DEF ReceiveDispatch, Handle, TypeOK, LinkTypeOK
<1>3. toCore' \subseteq ToCoreMsg
  <2>1. /\ Interrupted \in Result
        /\ pendingResult[c] # None => pendingResult[c] \in Result
    BY DEF Interrupted, Result, Status, TypeOK, BridgeTypeOK
  <2>2. \/ \E m \in ToCoreMsg : Send({m})
        \/ UNCHANGED toCore
    BY <1>1, <2>1, CoreMessages DEF ReceiveDispatch
  <2> QED
    BY <2>2, SendTyped DEF TypeOK, LinkTypeOK
<1>4. BridgeTypeOK'
  <2>1. phase' \in [Command -> Phase] /\ starts' \subseteq Command
    BY <1>1 DEF ReceiveDispatch, Goto, Phase, TypeOK, BridgeTypeOK
  <2>2. pendingResult' \in [Command -> Result \cup {None}]
    BY <1>1, RecoveredTyped DEF ReceiveDispatch, TypeOK, BridgeTypeOK
  <2> QED
    BY <1>1, <2>1, <2>2
    DEF ReceiveDispatch, bridgeFrame, portFrame, TypeOK, BridgeTypeOK
<1> QED
  BY <1>1, <1>2, <1>3, <1>4, HandlerFrame

LEMMA StartsTyped ==
    ASSUME TypeOK, NEW c \in Command, Starts(c)
    PROVE  TypeOK'
<1>1. TabFor(c) \in Tab
  BY LinkAssumption DEF TabFor
<1>2. BridgeTypeOK'
  BY <1>1 DEF Starts, StartCommand, Goto, Phase, bridgeFrame, portFrame,
              durableVars, TypeOK, BridgeTypeOK
<1>3. toCore' \subseteq ToCoreMsg
  <2>1. UNCHANGED toCore \/ Send({Ack(c, TRUE)})
    BY DEF Starts, StartCommand
  <2> QED
    BY <2>1, CoreMessages, SendTyped DEF TypeOK, LinkTypeOK
<1>4. toBridge' \subseteq ToBridgeMsg
  BY DEF Starts, StartCommand, TypeOK, LinkTypeOK
<1> QED
  BY <1>2, <1>3, <1>4, HandlerFrame DEF Starts

LEMMA StopsBeforeTyped ==
    ASSUME TypeOK, NEW c \in Command, StopsBefore(c)
    PROVE  TypeOK'
<1>1. BridgeTypeOK'
  <2>1. /\ active' \subseteq Command
        /\ activeTab' \in [Tab -> Command \cup {None}]
        /\ cancelMarks' \subseteq Command
    BY ReleaseTyped DEF StopsBefore, CancelBeforeAction
  <2>2. /\ phase' \in [Command -> Phase]
        /\ pendingEvidence' \subseteq Command
        /\ pendingResult' \in [Command -> Result \cup {None}]
    <3>1. CASE Throws
      BY <3>1, SaveResultTyped DEF StopsBefore, CancelBeforeAction, Status
    <3>2. CASE ~Throws
      BY <3>2 DEF StopsBefore, CancelBeforeAction, Goto, Phase, TypeOK, BridgeTypeOK
    <3> QED
      BY <3>1, <3>2
  <2> QED
    BY <2>1, <2>2
    DEF StopsBefore, CancelBeforeAction, bridgeFrame, portFrame, TypeOK, BridgeTypeOK
<1>2. toCore' \subseteq ToCoreMsg /\ toBridge' \subseteq ToBridgeMsg
  BY CoreMessages DEF StopsBefore, CancelBeforeAction, Send, TypeOK, LinkTypeOK
<1> QED
  BY <1>1, <1>2, HandlerFrame DEF StopsBefore

LEMMA ChecksDeadlineTyped ==
    ASSUME TypeOK, NEW c \in Command, ChecksDeadline(c)
    PROVE  TypeOK'
<1>1. BridgeTypeOK'
  BY DEF ChecksDeadline, CheckDeadline, Goto, Phase, durableVars, bridgeFrame, portFrame,
         TypeOK, BridgeTypeOK
<1> QED
  BY <1>1, HandlerFrame DEF ChecksDeadline, CheckDeadline, TypeOK, LinkTypeOK

LEMMA ChecksPageTyped ==
    ASSUME TypeOK, NEW c \in Command, ChecksPage(c)
    PROVE  TypeOK'
<1>1. BridgeTypeOK'
  BY DEF ChecksPage, CheckPage, Goto, Phase, durableVars, bridgeFrame, portFrame,
         TypeOK, BridgeTypeOK
<1> QED
  BY <1>1, HandlerFrame DEF ChecksPage, CheckPage, TypeOK, LinkTypeOK

LEMMA BlocksTyped ==
    ASSUME TypeOK, NEW c \in Command, NEW status \in {"rejected", "failed"},
           Blocks(c, status)
    PROVE  TypeOK'
<1>1. BridgeTypeOK'
  BY SaveResultTyped
  DEF Blocks, StopBeforeAction, Status, bridgeFrame, portFrame, TypeOK, BridgeTypeOK
<1> QED
  BY <1>1, HandlerFrame DEF Blocks, StopBeforeAction, TypeOK, LinkTypeOK

LEMMA ExecutesTyped ==
    ASSUME TypeOK, NEW c \in Command, Executes(c)
    PROVE  TypeOK'
<1>1. BridgeTypeOK'
  BY DEF Executes, Execute, Goto, Phase, durableVars, bridgeFrame, portFrame,
         TypeOK, BridgeTypeOK
<1> QED
  BY <1>1, HandlerFrame DEF Executes, Execute, TypeOK, LinkTypeOK

LEMMA ReturnsTyped ==
    ASSUME TypeOK, NEW c \in Command, NEW status \in AdapterStatus, Returns(c, status)
    PROVE  TypeOK'
<1>1. status \in Status
  BY BridgeAssumption DEF Status
<1>2. BridgeTypeOK'
  BY <1>1, SaveResultTyped
  DEF Returns, AdapterReturns, bridgeFrame, portFrame, TypeOK, BridgeTypeOK
<1> QED
  BY <1>2, HandlerFrame DEF Returns, AdapterReturns, TypeOK, LinkTypeOK

LEMMA StopsAfterTyped ==
    ASSUME TypeOK, NEW c \in Command, NEW stopped \in BOOLEAN, StopsAfter(c, stopped)
    PROVE  TypeOK'
<1>1. BridgeTypeOK'
  <2>1. CASE stopped
    <3>1. /\ active' \subseteq Command
          /\ activeTab' \in [Tab -> Command \cup {None}]
          /\ cancelMarks' \subseteq Command
      BY <2>1, ReleaseTyped DEF StopsAfter, CancelAfterAction
    <3> QED
      BY <2>1, <3>1
      DEF StopsAfter, CancelAfterAction, Goto, Phase, bridgeFrame, portFrame, TypeOK, BridgeTypeOK
  <2>2. CASE ~stopped
    BY <2>2, SaveResultTyped
    DEF StopsAfter, CancelAfterAction, Status, bridgeFrame, portFrame, TypeOK, BridgeTypeOK
  <2> QED
    BY <2>1, <2>2
<1>2. toCore' \subseteq ToCoreMsg
  <2>1. UNCHANGED toCore \/ Send({CancelEffective(c)})
    BY DEF StopsAfter, CancelAfterAction
  <2> QED
    BY <2>1, CoreMessages, SendTyped DEF TypeOK, LinkTypeOK
<1> QED
  BY <1>1, <1>2, HandlerFrame DEF StopsAfter, CancelAfterAction, TypeOK, LinkTypeOK

LEMMA FinishesTyped ==
    ASSUME TypeOK, NEW c \in Command, Finishes(c)
    PROVE  TypeOK'
<1>1. BridgeTypeOK'
  BY ReleaseTyped
  DEF Finishes, FinishCommand, Goto, Phase, bridgeFrame, portFrame, TypeOK, BridgeTypeOK
<1>2. toCore' \subseteq ToCoreMsg
  BY CoreMessages, SendTyped DEF Finishes, FinishCommand
<1> QED
  BY <1>1, <1>2, HandlerFrame DEF Finishes, FinishCommand, TypeOK, LinkTypeOK

LEMMA HandlesCancelTyped ==
    ASSUME TypeOK, NEW c \in Command, HandlesCancel(c)
    PROVE  TypeOK'
<1>1. BridgeTypeOK'
  BY DEF HandlesCancel, ReceiveCancel, durableVars, bridgeFrame, portFrame,
         TypeOK, BridgeTypeOK
<1>2. toCore' \subseteq ToCoreMsg
  <2>1. \E msgs \in SUBSET ToCoreMsg : Send(msgs)
    BY CoreMessages DEF HandlesCancel, ReceiveCancel
  <2> QED
    BY <2>1, SendTyped
<1> QED
  BY <1>1, <1>2, HandlerFrame DEF HandlesCancel, ReceiveCancel, Handle, TypeOK, LinkTypeOK

LEMMA HandlesResultAckTyped ==
    ASSUME TypeOK, NEW c \in Command, NEW ok \in BOOLEAN, HandlesResultAck(c, ok)
    PROVE  TypeOK'
<1>1. BridgeTypeOK'
  BY DEF HandlesResultAck, ReceiveResultAck, volatileVars, bridgeFrame, portFrame,
         TypeOK, BridgeTypeOK, LinkTypeOK
<1> QED
  BY <1>1, HandlerFrame DEF HandlesResultAck, ReceiveResultAck, Handle, TypeOK, LinkTypeOK

LEMMA HandlesEvidenceAckTyped ==
    ASSUME TypeOK, NEW c \in Command, NEW ok \in BOOLEAN, HandlesEvidenceAck(c, ok)
    PROVE  TypeOK'
<1>1. BridgeTypeOK'
  BY DEF HandlesEvidenceAck, ReceiveEvidenceAck, BeginReplay, bridgeFrame, portFrame,
         TypeOK, BridgeTypeOK
<1> QED
  BY <1>1, HandlerFrame DEF HandlesEvidenceAck, ReceiveEvidenceAck, Handle, TypeOK, LinkTypeOK

\* sendPending's uploads, on a resume or a welcome.
LEMMA BeginSendPendingTyped ==
    ASSUME TypeOK, BeginSendPending
    PROVE  /\ sendPending' \in {"idle", "uploading", "results"}
           /\ toCore' \subseteq ToCoreMsg
<1>1. {EvidenceMsg(c) : c \in pendingEvidence} \subseteq ToCoreMsg
  BY CoreMessages DEF TypeOK, BridgeTypeOK
<1> QED
  BY <1>1 DEF BeginSendPending, TypeOK, BridgeTypeOK, LinkTypeOK

LEMMA HandlesResumeTyped ==
    ASSUME TypeOK, HandlesResume
    PROVE  TypeOK'
<1>1. BridgeTypeOK'
  BY BeginSendPendingTyped
  DEF HandlesResume, ReceiveResume, durableVars, bridgeFrame, portFrame, TypeOK, BridgeTypeOK
<1> QED
  BY <1>1, BeginSendPendingTyped, HandlerFrame
  DEF HandlesResume, ReceiveResume, Handle, TypeOK, LinkTypeOK

LEMMA TurnsToResultsTyped ==
    ASSUME TypeOK, TurnsToResults
    PROVE  TypeOK'
<1>1. BridgeTypeOK'
  BY DEF TurnsToResults, UploadsSent, BeginReplay, durableVars, bridgeFrame, portFrame,
         TypeOK, BridgeTypeOK
<1> QED
  BY <1>1, HandlerFrame DEF TurnsToResults, UploadsSent, TypeOK, LinkTypeOK

LEMMA ReplaysTyped ==
    ASSUME TypeOK, Replays
    PROVE  TypeOK'
<1>1. BridgeTypeOK'
  BY DEF Replays, FinishReplay, bridgeFrame, portFrame, TypeOK, BridgeTypeOK
<1>2. toCore' \subseteq ToCoreMsg
  <2>1. \A c \in Command : pendingResult[c] # None => pendingResult[c] \in Result
    BY DEF TypeOK, BridgeTypeOK
  <2>2. \E msgs \in SUBSET ToCoreMsg : Send(msgs)
    BY <2>1, CoreMessages DEF Replays, FinishReplay
  <2> QED
    BY <2>2, SendTyped
<1> QED
  BY <1>1, <1>2, HandlerFrame DEF Replays, FinishReplay, TypeOK, LinkTypeOK

LEMMA ConnectsTyped ==
    ASSUME TypeOK, Connects
    PROVE  TypeOK'
<1>1. BridgeTypeOK'
  BY DEF Connects, Connect, volatileVars, durableVars, portFrame, TypeOK, BridgeTypeOK
<1>2. LinkTypeOK'
  BY SessionMessages DEF Connects, Connect, portFrame, ConnState, TypeOK, LinkTypeOK
<1> QED
  BY <1>1, <1>2, BridgeStepFrame DEF Connects, portFrame

LEMMA HandlesWelcomeTyped ==
    ASSUME TypeOK, HandlesWelcome
    PROVE  TypeOK'
<1>1. BridgeTypeOK'
  BY BeginSendPendingTyped
  DEF HandlesWelcome, ReceiveWelcome, durableVars, portFrame, TypeOK, BridgeTypeOK
<1>2. LinkTypeOK'
  BY BeginSendPendingTyped
  DEF HandlesWelcome, ReceiveWelcome, portFrame, ConnState, TypeOK, LinkTypeOK
<1> QED
  BY <1>1, <1>2, BridgeStepFrame DEF HandlesWelcome, portFrame

LEMMA BridgeTyped == TypeOK /\ BridgeNext => TypeOK'
BY HandlesDispatchTyped, StartsTyped, StopsBeforeTyped, BlocksTyped, ChecksDeadlineTyped,
   ChecksPageTyped, ExecutesTyped, FinishesTyped, HandlesCancelTyped, ReturnsTyped, StopsAfterTyped,
   HandlesResultAckTyped, HandlesEvidenceAckTyped, HandlesResumeTyped,
   TurnsToResultsTyped, ReplaysTyped, ConnectsTyped, HandlesWelcomeTyped
DEF BridgeNext

----
(* Types are kept by the environment's steps. *)

LEMMA ExpireTyped ==
    ASSUME TypeOK, NEW c \in Command, Expire(c)
    PROVE  TypeOK'
<1>1. LinkTypeOK'
  BY DEF Expire, TypeOK, LinkTypeOK
<1> QED
  BY <1>1, CoreFrame DEF Expire, gatewayVars, TypeOK, GatewayTypeOK

LEMMA PageChangesTyped ==
    ASSUME TypeOK, NEW t \in Tab, PageChanges(t)
    PROVE  TypeOK'
<1>1. BridgeTypeOK'
  BY DEF PageChanges, volatileVars, durableVars, TypeOK, BridgeTypeOK
<1>2. LinkTypeOK'
  BY DEF PageChanges, linkVars, TypeOK, LinkTypeOK
<1> QED
  BY <1>1, <1>2, BridgeStepFrame DEF PageChanges

LEMMA FaultTyped ==
    ASSUME TypeOK, NEW kind, Fails(kind) \/ UNCHANGED faults
    PROVE  faults' \in 0 .. MaxFaults
BY DeliveryAssumption DEF Fails, TypeOK

\* What a broken pipe leaves: Core detached, the bridge without a port.
LEMMA PipeBreaksTyped ==
    ASSUME TypeOK, PipeBreaks,
           UNCHANGED <<tokenFresh, commandSeq, expired, state, evidence, session,
                       binding, cancelled, outcome, invoking>>
    PROVE  LinkTypeOK' /\ GatewayTypeOK'
<1>1. LinkTypeOK'
  BY DEF PipeBreaks, ConnState, TypeOK, LinkTypeOK
<1>2. GatewayTypeOK'
  BY DEF PipeBreaks, Detach, TypeOK, GatewayTypeOK
<1> QED
  BY <1>1, <1>2

LEMMA LinkLostTyped ==
    ASSUME TypeOK, LinkLost
    PROVE  TypeOK'
<1>1. BridgeTypeOK'
  BY DEF LinkLost, bridgeVars, volatileVars, durableVars, TypeOK, BridgeTypeOK
<1>2. LinkTypeOK' /\ GatewayTypeOK'
  BY PipeBreaksTyped DEF LinkLost
<1>3. faults' \in 0 .. MaxFaults
  BY FaultTyped DEF LinkLost
<1> QED
  BY <1>1, <1>2, <1>3 DEF TypeOK

LEMMA WorkerRestartsTyped ==
    ASSUME TypeOK, WorkerRestarts
    PROVE  TypeOK'
<1>1. BridgeTypeOK'
  BY RecoveredTyped
  DEF WorkerRestarts, WorkerRestart, Phase, TypeOK, BridgeTypeOK
<1>2. LinkTypeOK' /\ GatewayTypeOK'
  BY PipeBreaksTyped DEF WorkerRestarts
<1>3. faults' \in 0 .. MaxFaults
  BY FaultTyped DEF WorkerRestarts
<1> QED
  BY <1>1, <1>2, <1>3 DEF TypeOK

\* A restarted Core: what it reads back and what it forgets.
LEMMA RestartTyped ==
    ASSUME TypeOK, NEW s \in [Command -> CommandState], Restart(s),
           toBridge' \subseteq ToBridgeMsg, commandSeq' \in [Command -> Nat],
           UNCHANGED <<bridgeConn, tokenFresh, expired>>
    PROVE  LinkTypeOK' /\ GatewayTypeOK'
<1>1. LinkTypeOK'
  BY DEF Restart, TypeOK, LinkTypeOK
<1>2. GatewayTypeOK'
  BY CancelQueuedTyped DEF Restart, TypeOK, GatewayTypeOK
<1> QED
  BY <1>1, <1>2

LEMMA CoreRestartsTyped ==
    ASSUME TypeOK, CoreRestarts
    PROVE  TypeOK'
<1>1. BridgeTypeOK'
  BY DEF CoreRestarts, bridgeVars, volatileVars, durableVars, TypeOK, BridgeTypeOK
<1>2. LinkTypeOK' /\ GatewayTypeOK'
  BY RestartTyped DEF CoreRestarts, CoreCrash, TypeOK, LinkTypeOK, GatewayTypeOK
<1>3. faults' \in 0 .. MaxFaults
  BY FaultTyped DEF CoreRestarts
<1> QED
  BY <1>1, <1>2, <1>3 DEF TypeOK

LEMMA CoreRestartsInPassTyped ==
    ASSUME TypeOK, NEW c \in Command, CoreRestartsInPass(c)
    PROVE  TypeOK'
<1>1. BridgeTypeOK'
  BY DEF CoreRestartsInPass, bridgeVars, volatileVars, durableVars, TypeOK, BridgeTypeOK
<1>2. PICK fresh \in SUBSET current : CrashAfterSend(c, fresh) \/ CrashInInvoke(c, fresh)
  BY DEF CoreRestartsInPass
<1>3. UNCHANGED <<bridgeConn, tokenFresh, expired>>
  BY DEF CoreRestartsInPass
<1>4. LinkTypeOK' /\ GatewayTypeOK'
  <2>1. toBridge' \subseteq ToBridgeMsg
    BY <1>2, BridgeMessages DEF CrashAfterSend, CrashInInvoke, TypeOK, LinkTypeOK
  <2>2. CASE CrashAfterSend(c, fresh)
    BY <1>3, <2>1, <2>2, RestartTyped DEF CrashAfterSend, TypeOK, LinkTypeOK, GatewayTypeOK
  <2>3. CASE CrashInInvoke(c, fresh)
    <3>1. [state EXCEPT ![c] = "queued"] \in [Command -> CommandState]
      BY DEF CommandState, Pending, TypeOK, GatewayTypeOK
    <3>2. Restart([state EXCEPT ![c] = "queued"]) /\ Enqueued(c)
      BY <2>3 DEF CrashInInvoke
    <3> QED
      BY <1>3, <2>1, <3>1, <3>2, RestartTyped, EnqueuedTyped
  <2> QED
    BY <1>2, <2>2, <2>3
<1>5. faults' \in 0 .. MaxFaults
  BY FaultTyped DEF CoreRestartsInPass
<1> QED
  BY <1>1, <1>4, <1>5 DEF TypeOK

LEMMA EnvironmentTyped == TypeOK /\ EnvironmentNext => TypeOK'
BY ExpireTyped, CoreRestartsInPassTyped, PageChangesTyped, LinkLostTyped,
   WorkerRestartsTyped, CoreRestartsTyped
DEF EnvironmentNext

LEMMA StutterTyped == TypeOK /\ UNCHANGED vars => TypeOK'
BY DEF vars, linkVars, gatewayVars, bridgeVars, volatileVars, durableVars,
       TypeOK, LinkTypeOK, GatewayTypeOK, BridgeTypeOK

\* Both processes' stores and tables, and the messages between them, keep their
\* types through every step of Core, the bridge and the environment.
THEOREM TypeCorrect == Spec => []TypeOK
<1>1. TypeOK /\ [Next]_vars => TypeOK'
  BY CoreTyped, BridgeTyped, EnvironmentTyped, StutterTyped DEF Next
<1> QED
  BY <1>1, InitTyped, PTL DEF Spec

----
(* Slots, tabs and cancellation marks. *)

slots == <<phase, active, activeTab, cancelMarks>>

LEMMA SlotsFrame == SlotsBelongToHandlers /\ UNCHANGED slots => SlotsBelongToHandlers'
BY DEF slots, SlotsBelongToHandlers

LEMMA CoreKeepsSlots == CoreNext => UNCHANGED slots
BY DEF CoreNext, RunStarts, Cancels, Drain, Invokes, Polls, Aborts, GetsStop, GetsEvidence,
       GetsAck, GetsResult, Observes, Ticks, Hello, GetsReady, timerFrame, handlerFrame,
       bridgeVars, volatileVars, slots

LEMMA InitSlots == Init => SlotsBelongToHandlers
BY DEF Init, BridgeInit, SlotsBelongToHandlers

\* releaseCommand takes back everything a command holds, and nothing else.
LEMMA ReleaseSlots ==
    ASSUME TypeOK, SlotsBelongToHandlers, NEW c \in Command, NEW p \in Phase,
           Release(c), Goto(c, p)
    PROVE  SlotsBelongToHandlers'
<1>1. \A d \in active' : d # c /\ phase'[d] \notin {"idle", "starting"}
  BY DEF Release, Goto, SlotsBelongToHandlers, TypeOK, BridgeTypeOK
<1>2. cancelMarks' \subseteq active'
  BY DEF Release, SlotsBelongToHandlers
<1>3. ASSUME NEW t \in Tab, activeTab'[t] # None
      PROVE  activeTab'[t] \in active' /\ TabFor(activeTab'[t]) = t
  <2>1. activeTab'[t] = activeTab[t]
    BY <1>3 DEF Release, TypeOK, BridgeTypeOK
  <2>2. activeTab[t] \in active /\ TabFor(activeTab[t]) = t
    BY <1>3, <2>1 DEF SlotsBelongToHandlers
  <2>3. activeTab[t] # c
    BY <1>3, <2>2, LinkAssumption DEF Release, TypeOK, BridgeTypeOK
  <2> QED
    BY <2>1, <2>2, <2>3 DEF Release
<1> QED
  BY <1>1, <1>2, <1>3 DEF SlotsBelongToHandlers, TabFor

\* A handler that advances an active command, and drops at most its mark.
LEMMA AdvanceSlots ==
    ASSUME TypeOK, SlotsBelongToHandlers, NEW c \in Command,
           NEW p \in {"pacing", "checked", "cleared", "executing", "saved"}, Goto(c, p),
           UNCHANGED <<active, activeTab>>, cancelMarks' \subseteq cancelMarks
    PROVE  SlotsBelongToHandlers'
BY DEF Goto, SlotsBelongToHandlers, TabFor, TypeOK, BridgeTypeOK

LEMMA BridgeSlots ==
    ASSUME TypeOK, SlotsBelongToHandlers, BridgeNext
    PROVE  SlotsBelongToHandlers'
<1>1. ASSUME NEW c \in Command, HandlesDispatch(c) PROVE SlotsBelongToHandlers'
  <2>1. CASE UNCHANGED phase
    BY <1>1, <2>1, SlotsFrame DEF HandlesDispatch, ReceiveDispatch, slots
  <2>2. CASE c \notin active /\ Goto(c, "starting")
    BY <1>1, <2>2
    DEF HandlesDispatch, ReceiveDispatch, Goto, SlotsBelongToHandlers, TabFor, TypeOK, BridgeTypeOK
  <2> QED
    BY <1>1, <2>1, <2>2 DEF HandlesDispatch, ReceiveDispatch
<1>2. ASSUME NEW c \in Command, Starts(c) PROVE SlotsBelongToHandlers'
  <2>1. c \notin active /\ TabFor(c) \in Tab /\ UNCHANGED cancelMarks
    BY <1>2, LinkAssumption
    DEF Starts, StartCommand, SlotsBelongToHandlers, TabFor
  <2>2. CASE Throws
    BY <1>2, <2>1, <2>2
    DEF Starts, StartCommand, Goto, SlotsBelongToHandlers, TabFor, TypeOK, BridgeTypeOK
  <2>3. CASE ~Throws
    <3>1. /\ phase' = [phase EXCEPT ![c] = "pacing"]
          /\ active' = active \cup {c}
          /\ activeTab' = [activeTab EXCEPT ![TabFor(c)] = c]
      BY <1>2, <2>3 DEF Starts, StartCommand, Goto
    <3>2. \A t \in Tab : activeTab'[t] # None =>
              activeTab'[t] \in active' /\ TabFor(activeTab'[t]) = t
      BY <2>1, <3>1 DEF SlotsBelongToHandlers, TypeOK, BridgeTypeOK
    <3>3. \A d \in active' : phase'[d] \notin {"idle", "starting"}
      BY <3>1 DEF SlotsBelongToHandlers, TypeOK, BridgeTypeOK
    <3> QED
      BY <2>1, <3>1, <3>2, <3>3 DEF SlotsBelongToHandlers, TabFor
  <2> QED
    BY <2>2, <2>3
<1>3. ASSUME NEW c \in Command, StopsBefore(c) PROVE SlotsBelongToHandlers'
  BY <1>3, ReleaseSlots DEF StopsBefore, CancelBeforeAction, SaveResult, Phase
<1>4. ASSUME NEW c \in Command, NEW status \in {"rejected", "failed"}, Blocks(c, status)
      PROVE  SlotsBelongToHandlers'
  BY <1>4, AdvanceSlots DEF Blocks, StopBeforeAction, SaveResult
<1>5. ASSUME NEW c \in Command, ChecksDeadline(c) \/ ChecksPage(c) \/ Executes(c)
      PROVE  SlotsBelongToHandlers'
  BY <1>5, AdvanceSlots
  DEF ChecksDeadline, CheckDeadline, ChecksPage, CheckPage, Executes, Execute
<1>6. ASSUME NEW c \in Command, NEW status \in AdapterStatus, Returns(c, status)
      PROVE  SlotsBelongToHandlers'
  BY <1>6, AdvanceSlots DEF Returns, AdapterReturns, SaveResult
<1>7. ASSUME NEW c \in Command, NEW b \in BOOLEAN, StopsAfter(c, b)
      PROVE  SlotsBelongToHandlers'
  <2>1. CASE b
    BY <1>7, <2>1, ReleaseSlots DEF StopsAfter, CancelAfterAction, Phase
  <2>2. CASE ~b
    BY <1>7, <2>2, AdvanceSlots DEF StopsAfter, CancelAfterAction, SaveResult
  <2> QED
    BY <2>1, <2>2
<1>8. ASSUME NEW c \in Command, Finishes(c) PROVE SlotsBelongToHandlers'
  BY <1>8, ReleaseSlots DEF Finishes, FinishCommand, Phase
<1>9. ASSUME NEW c \in Command, HandlesCancel(c) PROVE SlotsBelongToHandlers'
  BY <1>9 DEF HandlesCancel, ReceiveCancel, SlotsBelongToHandlers, TabFor
<1>10. ASSUME \/ \E c \in Command, b \in BOOLEAN :
                    HandlesResultAck(c, b) \/ HandlesEvidenceAck(c, b)
              \/ HandlesResume \/ TurnsToResults \/ Replays \/ Connects \/ HandlesWelcome
       PROVE  SlotsBelongToHandlers'
  BY <1>10, SlotsFrame
  DEF HandlesResultAck, ReceiveResultAck, HandlesEvidenceAck, ReceiveEvidenceAck,
      HandlesResume, ReceiveResume, TurnsToResults, UploadsSent, Replays, FinishReplay,
      Connects, Connect, HandlesWelcome, ReceiveWelcome, volatileVars, slots
<1> QED
  BY <1>1, <1>2, <1>3, <1>4, <1>5, <1>6, <1>7, <1>8, <1>9, <1>10 DEF BridgeNext

LEMMA EnvironmentSlots ==
    ASSUME SlotsBelongToHandlers, EnvironmentNext
    PROVE  SlotsBelongToHandlers'
<1>1. CASE WorkerRestarts
  BY <1>1 DEF WorkerRestarts, WorkerRestart, SlotsBelongToHandlers
<1>2. CASE ~WorkerRestarts
  BY <1>2, SlotsFrame
  DEF EnvironmentNext, Expire, CoreRestartsInPass, PageChanges, LinkLost, CoreRestarts,
      bridgeVars, volatileVars, slots
<1> QED
  BY <1>1, <1>2

\* The bridge's capacity, tab claims and cancellation marks never outlive the
\* handler that holds them, whichever way it ends and whatever interleaves.
THEOREM SlotsCorrect == Spec => []SlotsBelongToHandlers
<1> DEFINE Inv == TypeOK /\ SlotsBelongToHandlers
<1>1. Init => Inv
  BY InitTyped, InitSlots
<1>2. Inv /\ [Next]_vars => Inv'
  <2> SUFFICES ASSUME Inv, [Next]_vars PROVE Inv'
    OBVIOUS
  <2>1. TypeOK'
    BY CoreTyped, BridgeTyped, EnvironmentTyped, StutterTyped DEF Next
  <2>2. SlotsBelongToHandlers'
    <3>1. CASE CoreNext
      BY <3>1, CoreKeepsSlots, SlotsFrame
    <3>2. CASE BridgeNext
      BY <3>2, BridgeSlots
    <3>3. CASE EnvironmentNext
      BY <3>3, EnvironmentSlots
    <3>4. CASE UNCHANGED vars
      BY <3>4, SlotsFrame DEF vars, bridgeVars, volatileVars, slots
    <3> QED
      BY <3>1, <3>2, <3>3, <3>4 DEF Next
  <2> QED
    BY <2>1, <2>2
<1> QED
  BY <1>1, <1>2, PTL DEF Spec

----
(* A success is real.  The inductive invariant follows the claim "succeeded"  *)
(* back to the page action: from the ledger to the message, from the message  *)
(* to the stored result, from there to the adapter's return.                  *)

Ran(c) == executed[c] > 0

SuccessSent ==
    \A c \in Command, r \in Result :
        ResultMsg(c, r) \in toCore /\ r.status = "succeeded" => Ran(c) /\ r.evidence

SuccessStored ==
    \A c \in Command :
        pendingResult[c] # None /\ pendingResult[c].status = "succeeded"
        => Ran(c) /\ pendingResult[c].evidence

ExecutingRan == \A c \in Command : phase[c] = "executing" => Ran(c)

\* Evidence is dated with a session that was opened.
SessionOpened ==
    /\ SessionWelcome \in toBridge => session > 0
    /\ tokenFresh => session > 0
    /\ coreConn # "none" => session > 0

SuccessInv ==
    SuccessIsReal /\ SuccessSent /\ SuccessStored /\ ExecutingRan /\ SessionOpened

LEMMA ResultMsgInjective ==
    ASSUME NEW c, NEW d, NEW q, NEW r, ResultMsg(c, q) = ResultMsg(d, r)
    PROVE  c = d /\ q = r
BY DEF ResultMsg

\* The welcome is told from the messages about commands.
LEMMA WelcomeIsNoCommand ==
    ASSUME NEW c, NEW ok
    PROVE  /\ SessionWelcome # Dispatch(c) /\ SessionWelcome # CancelRequest(c)
           /\ SessionWelcome # ResultAck(c, ok) /\ SessionWelcome # EvidenceAck(c, ok)
           /\ SessionWelcome # SessionResume
BY DEF SessionWelcome, Dispatch, CancelRequest, ResultAck, EvidenceAck, SessionResume

LEMMA ResultIsNoOther ==
    ASSUME NEW c, NEW r, NEW d, NEW ok
    PROVE  /\ ResultMsg(c, r) # Ack(d, ok) /\ ResultMsg(c, r) # CancelEffective(d)
           /\ ResultMsg(c, r) # EvidenceMsg(d) /\ ResultMsg(c, r) # SessionHello
BY DEF ResultMsg, Ack, CancelEffective, EvidenceMsg, SessionHello

LEMMA InitSuccess == Init => SuccessInv
BY DEF Init, LinkInit, GatewayInit, BridgeInit, SuccessInv, SuccessIsReal, SuccessSent,
       SuccessStored, ExecutingRan, SessionOpened

\* A step that decides nothing "succeeded" and leaves the bridge's side alone.
LEMMA KeepsSuccess ==
    ASSUME SuccessInv,
           UNCHANGED <<executed, pendingResult, phase, evidence, session, tokenFresh>>,
           toCore' \subseteq toCore,
           \A c \in Command : state'[c] = "succeeded" => state[c] = "succeeded",
           SessionWelcome \in toBridge' => SessionWelcome \in toBridge,
           coreConn' # "none" => coreConn # "none"
    PROVE  SuccessInv'
BY DEF SuccessInv, SuccessIsReal, SuccessSent, SuccessStored, ExecutingRan, SessionOpened, Ran

\* Passes and cancellations decide no command "succeeded" and welcome nobody.
LEMMA CancelQueuedSuccess ==
    ASSUME NEW s, NEW runs, NEW c \in Command, CancelQueued(s, runs)[c] = "succeeded"
    PROVE  s[c] = "succeeded"
BY DEF CancelQueued

LEMMA TimeOutSuccess ==
    ASSUME NEW s, NEW c \in Command, TimeOut(s)[c] = "succeeded"
    PROVE  s[c] = "succeeded"
BY DEF TimeOut

LEMMA DispatchSuccess ==
    ASSUME NEW s, NEW pages, NEW fresh, NEW q, DispatchPending(s, pages, fresh, q)
    PROVE  /\ \A c \in Command : state'[c] = "succeeded" => s[c] = "succeeded"
           /\ SessionWelcome \in toBridge' => SessionWelcome \in toBridge
<1> DEFINE t == CancelQueued(s, cancelled)
<1>1. state' = DispatchPass(t, pages, fresh, q)
  BY DEF DispatchPending
<1>2. ASSUME NEW c \in Command, state'[c] = "succeeded" PROVE t[c] = "succeeded"
  <2> HIDE DEF t
  <2> QED BY <1>1, <1>2 DEF DispatchPass
<1>3. SessionWelcome \in toBridge' => SessionWelcome \in toBridge
  BY WelcomeIsNoCommand DEF DispatchPending
<1> QED
  BY <1>2, <1>3, CancelQueuedSuccess

LEMMA CoreSuccess ==
    ASSUME TypeOK, SuccessInv, CoreNext
    PROVE  SuccessInv'
<1>1. ASSUME NEW r \in Run, RunStarts(r) PROVE SuccessInv'
  BY <1>1, KeepsSuccess DEF RunStarts, StartRun, volatileVars, durableVars
<1>2. ASSUME NEW r \in Run, Cancels(r) PROVE SuccessInv'
  <2>1. /\ \A c \in Command : state'[c] = "succeeded" => state[c] = "succeeded"
        /\ SessionWelcome \in toBridge' => SessionWelcome \in toBridge
    BY <1>2, CancelQueuedSuccess, WelcomeIsNoCommand DEF Cancels, CancelRun, RequestCancel
  <2> QED
    BY <1>2, <2>1, KeepsSuccess
    DEF Cancels, CancelRun, timerFrame, bridgeVars, volatileVars, durableVars
<1>3. ASSUME NEW c \in Command, Drain(c) \/ Polls(c) PROVE SuccessInv'
  BY <1>3, KeepsSuccess
  DEF Drain, DrainExpired, DrainRefused, Polls, PollTerminal, timerFrame, bridgeVars,
      volatileVars, durableVars
<1>4. ASSUME NEW c \in Command, Invokes(c) PROVE SuccessInv'
  <2> PICK fresh \in SUBSET current : Invoke(c, fresh)
    BY <1>4 DEF Invokes
  <2> DEFINE s == IF state[c] = "absent"
                  THEN [state EXCEPT ![c] = "queued"] ELSE state
  <2>1. \A d \in Command : s[d] = "succeeded" => state[d] = "succeeded"
    BY DEF TypeOK, GatewayTypeOK
  <2>2. /\ \A d \in Command : state'[d] = "succeeded" => state[d] = "succeeded"
        /\ SessionWelcome \in toBridge' => SessionWelcome \in toBridge
    <3>1. CASE coreConn = "ready"
      <4>1. DispatchPending(s, current, fresh, commandSeq')
        BY <3>1 DEF Invoke
      <4> HIDE DEF s
      <4> QED BY <2>1, <4>1, DispatchSuccess
    <3>2. CASE coreConn # "ready"
      BY <2>1, <3>2 DEF Invoke
    <3> QED
      BY <3>1, <3>2
  <2> QED
    BY <1>4, <2>2, KeepsSuccess
    DEF Invokes, Invoke, timerFrame, bridgeVars, volatileVars, durableVars
<1>5. ASSUME NEW c \in Command, Aborts(c) PROVE SuccessInv'
  <2>1. /\ \A d \in Command : state'[d] = "succeeded" => state[d] = "succeeded"
        /\ SessionWelcome \in toBridge' => SessionWelcome \in toBridge
    BY <1>5, WelcomeIsNoCommand DEF Aborts, InvokeDeadline, TypeOK, GatewayTypeOK
  <2> QED
    BY <1>5, <2>1, KeepsSuccess
    DEF Aborts, InvokeDeadline, timerFrame, bridgeVars, volatileVars, durableVars
<1>6. CASE Ticks
  <2> PICK fresh \in SUBSET current : Tick(fresh)
    BY <1>6 DEF Ticks
  <2>1. /\ \A d \in Command : state'[d] = "succeeded" => state[d] = "succeeded"
        /\ SessionWelcome \in toBridge' => SessionWelcome \in toBridge
    BY DispatchSuccess, CancelQueuedSuccess, TimeOutSuccess DEF Tick
  <2> QED
    BY <1>6, <2>1, KeepsSuccess
    DEF Ticks, Tick, timerFrame, bridgeVars, volatileVars, durableVars
<1>7. CASE GetsReady
  BY <1>7, DispatchSuccess, KeepsSuccess
  DEF GetsReady, HandleCapabilities, timerFrame, bridgeVars, volatileVars, durableVars
<1>8. ASSUME NEW t \in Tab, Observes(t) PROVE SuccessInv'
  BY <1>8, DispatchSuccess, KeepsSuccess
  DEF Observes, HandleObservation, timerFrame, bridgeVars, volatileVars, durableVars
<1>9. CASE Hello
  BY <1>9
  DEF Hello, HandleHello, bridgeVars, volatileVars, durableVars, TypeOK, GatewayTypeOK,
      SuccessInv, SuccessIsReal, SuccessSent, SuccessStored, ExecutingRan, SessionOpened, Ran
<1>10. ASSUME NEW c \in Command, NEW ok \in BOOLEAN, GetsAck(c, ok) PROVE SuccessInv'
  <2>1. \A d \in Command : state'[d] = "succeeded" => state[d] = "succeeded"
    BY <1>10 DEF GetsAck, ReceiveAck, TypeOK, GatewayTypeOK
  <2> QED
    BY <1>10, <2>1, KeepsSuccess
    DEF GetsAck, ReceiveAck, Receive, handlerFrame, bridgeVars, volatileVars, durableVars
<1>11. ASSUME NEW c \in Command, NEW r \in Result, GetsResult(c, r) PROVE SuccessInv'
  <2>1. /\ UNCHANGED <<executed, pendingResult, phase, evidence, session, tokenFresh, coreConn>>
        /\ toCore' \subseteq toCore
        /\ ResultMsg(c, r) \in toCore
    BY <1>11
    DEF GetsResult, ReceiveResult, Receive, handlerFrame, bridgeVars, volatileVars, durableVars
  <2>2. SessionWelcome \in toBridge' => SessionWelcome \in toBridge
    BY <1>11, WelcomeIsNoCommand DEF GetsResult, ReceiveResult
  <2>3. ASSUME NEW d \in Command, state'[d] = "succeeded"
        PROVE  Ran(d) /\ evidence[d] # 0
    <3>1. CASE state[d] = "succeeded"
      BY <3>1 DEF SuccessInv, SuccessIsReal, Ran
    <3>2. CASE state[d] # "succeeded"
      <4>1. d = c /\ r.status = "succeeded" /\ Acceptable(c, r)
        BY <1>11, <2>3, <3>2 DEF GetsResult, ReceiveResult, TypeOK, GatewayTypeOK
      <4>2. Ran(c) /\ r.evidence
        BY <2>1, <4>1 DEF SuccessInv, SuccessSent
      <4> QED
        BY <4>1, <4>2 DEF Acceptable
    <3> QED
      BY <3>1, <3>2
  <2> QED
    BY <2>1, <2>2, <2>3
    DEF SuccessInv, SuccessIsReal, SuccessSent, SuccessStored, ExecutingRan, SessionOpened, Ran
<1>12. ASSUME NEW c \in Command, GetsStop(c) PROVE SuccessInv'
  <2>1. \A d \in Command : state'[d] = "succeeded" => state[d] = "succeeded"
    BY <1>12 DEF GetsStop, ReceiveCancelEffective, TypeOK, GatewayTypeOK
  <2> QED
    BY <1>12, <2>1, KeepsSuccess
    DEF GetsStop, ReceiveCancelEffective, Receive, handlerFrame, bridgeVars,
        volatileVars, durableVars
<1>13. ASSUME NEW c \in Command, GetsEvidence(c) PROVE SuccessInv'
  <2>1. /\ UNCHANGED <<executed, pendingResult, phase, state, session, tokenFresh, coreConn>>
        /\ toCore' \subseteq toCore
        /\ coreConn # "none"
    BY <1>13
    DEF GetsEvidence, ReceiveEvidence, Receive, handlerFrame, bridgeVars, volatileVars,
        durableVars
  <2>2. SessionWelcome \in toBridge' => SessionWelcome \in toBridge
    BY <1>13, WelcomeIsNoCommand DEF GetsEvidence, ReceiveEvidence
  <2>3. \A d \in Command : evidence[d] # 0 => evidence'[d] # 0
    BY <1>13, <2>1
    DEF GetsEvidence, ReceiveEvidence, SuccessInv, SessionOpened, TypeOK, GatewayTypeOK
  <2> QED
    BY <2>1, <2>2, <2>3
    DEF SuccessInv, SuccessIsReal, SuccessSent, SuccessStored, ExecutingRan, SessionOpened, Ran
<1> QED
  BY <1>1, <1>2, <1>3, <1>4, <1>5, <1>6, <1>7, <1>8, <1>9, <1>10, <1>11, <1>12, <1>13
  DEF CoreNext

\* A bridge step is harmless if what it stores and sends of successes ran.
LEMMA BridgeKeepsSuccess ==
    ASSUME SuccessInv, TypeOK,
           UNCHANGED gatewayVars,
           toBridge' \subseteq toBridge,
           tokenFresh' => tokenFresh \/ SessionWelcome \in toBridge,
           executed' \in [Command -> Nat],
           \A c \in Command : executed'[c] >= executed[c],
           SuccessSent', SuccessStored', ExecutingRan'
    PROVE  SuccessInv'
<1>1. SuccessIsReal'
  BY DEF gatewayVars, SuccessInv, SuccessIsReal, TypeOK, BridgeTypeOK
<1>2. SessionOpened'
  BY DEF gatewayVars, SuccessInv, SessionOpened
<1> QED
  BY <1>1, <1>2 DEF SuccessInv

LEMMA SendSuccess ==
    ASSUME SuccessInv, UNCHANGED executed, NEW msgs, Send(msgs),
           \A c \in Command, r \in Result :
              ResultMsg(c, r) \in msgs /\ r.status = "succeeded" => Ran(c) /\ r.evidence
    PROVE  SuccessSent'
BY DEF Send, SuccessInv, SuccessSent, Ran

LEMMA SentFrame ==
    ASSUME SuccessInv, UNCHANGED executed, toCore' \subseteq toCore
    PROVE  SuccessSent'
BY DEF SuccessInv, SuccessSent, Ran

LEMMA SaveResultSuccess ==
    ASSUME TypeOK, SuccessInv, UNCHANGED executed, NEW c \in Command,
           NEW status \in Status, SaveResult(c, status),
           status = "succeeded" => Ran(c)
    PROVE  SuccessStored' /\ ExecutingRan'
BY DEF SaveResult, Goto, SuccessInv, SuccessStored, ExecutingRan, Ran, TypeOK, BridgeTypeOK

\* A handler that starts no action and stores no result.
LEMMA StoredFrame ==
    ASSUME TypeOK, SuccessInv, UNCHANGED <<executed, pendingResult>>,
           \A c \in Command : phase'[c] = "executing" => phase[c] = "executing"
    PROVE  SuccessStored' /\ ExecutingRan'
BY DEF SuccessInv, SuccessStored, ExecutingRan, Ran

LEMMA GotoNotExecuting ==
    ASSUME TypeOK, NEW c \in Command, NEW p, p # "executing", Goto(c, p)
    PROVE  \A d \in Command : phase'[d] = "executing" => phase[d] = "executing"
BY DEF Goto, TypeOK, BridgeTypeOK

\* What recovery stores is uncertain.
LEMMA RecoveredSuccess ==
    ASSUME NEW c \in Command, RecoveredResults[c] # None,
           RecoveredResults[c].status = "succeeded"
    PROVE  RecoveredResults[c] = pendingResult[c]
BY DEF RecoveredResults, Interrupted

\* What a handler of the bridge that only moves messages leaves alone.
LEMMA HandlerKeepsSuccess ==
    ASSUME SuccessInv, TypeOK, UNCHANGED bridgeFrame, UNCHANGED executed,
           toBridge' \subseteq toBridge,
           SuccessSent', SuccessStored', ExecutingRan'
    PROVE  SuccessInv'
BY BridgeKeepsSuccess DEF bridgeFrame, portFrame, TypeOK, BridgeTypeOK

LEMMA HandlesDispatchSuccess ==
    ASSUME TypeOK, SuccessInv, NEW c \in Command, HandlesDispatch(c)
    PROVE  SuccessInv'
<1>1. /\ UNCHANGED bridgeFrame /\ UNCHANGED executed
      /\ toBridge' \subseteq toBridge
  BY DEF HandlesDispatch, ReceiveDispatch, Handle
<1>2. SuccessSent'
  <2>1. \/ UNCHANGED toCore
        \/ \E ok \in BOOLEAN : Send({Ack(c, ok)})
        \/ pendingResult[c] # None /\ Send({ResultMsg(c, pendingResult[c])})
        \/ Send({ResultMsg(c, Interrupted)})
    BY DEF HandlesDispatch, ReceiveDispatch
  <2>2. ASSUME NEW ok \in BOOLEAN, Send({Ack(c, ok)}) PROVE SuccessSent'
    BY <1>1, <2>2, SendSuccess, ResultIsNoOther
  <2>3. ASSUME pendingResult[c] # None, Send({ResultMsg(c, pendingResult[c])})
        PROVE  SuccessSent'
    <3>1. \A d \in Command, r \in Result :
             ResultMsg(d, r) \in {ResultMsg(c, pendingResult[c])} /\ r.status = "succeeded"
             => Ran(d) /\ r.evidence
      BY <2>3, ResultMsgInjective DEF SuccessInv, SuccessStored
    <3> QED
      BY <1>1, <2>3, <3>1, SendSuccess
  <2>4. ASSUME Send({ResultMsg(c, Interrupted)}) PROVE SuccessSent'
    <3>1. \A d \in Command, r \in Result :
             ResultMsg(d, r) \in {ResultMsg(c, Interrupted)} /\ r.status = "succeeded"
             => Ran(d) /\ r.evidence
      BY ResultMsgInjective DEF Interrupted
    <3> QED
      BY <1>1, <2>4, <3>1, SendSuccess
  <2> QED
    BY <1>1, <2>1, <2>2, <2>3, <2>4, SentFrame
<1>3. SuccessStored'
  BY <1>1, RecoveredSuccess
  DEF HandlesDispatch, ReceiveDispatch, SuccessInv, SuccessStored, Ran
<1>4. ExecutingRan'
  <2>1. UNCHANGED phase \/ Goto(c, "starting")
    BY DEF HandlesDispatch, ReceiveDispatch
  <2> QED
    BY <1>1, <2>1, GotoNotExecuting DEF SuccessInv, ExecutingRan, Ran
<1> QED
  BY <1>1, <1>2, <1>3, <1>4, HandlerKeepsSuccess

LEMMA ReplaysSuccess ==
    ASSUME TypeOK, SuccessInv, Replays
    PROVE  SuccessInv'
<1>1. /\ UNCHANGED bridgeFrame /\ UNCHANGED <<executed, phase>>
      /\ toBridge' \subseteq toBridge
  BY DEF Replays, FinishReplay
<1> DEFINE replay == {c \in Command : pendingResult[c] # None
                                       /\ commandSeq[c] > ackedSeq}
           ready == {d \in replay : pendingResult[d].evidence => d \notin withheld}
           msgs == {ResultMsg(c, pendingResult[c]) : c \in ready}
<1>2. SuccessSent'
  <2>1. Send(msgs)
    BY DEF Replays, FinishReplay
  <2>2. ASSUME NEW c \in Command, NEW r \in Result,
               ResultMsg(c, r) \in msgs, r.status = "succeeded"
        PROVE  Ran(c) /\ r.evidence
    <3>1. PICK d \in ready : ResultMsg(c, r) = ResultMsg(d, pendingResult[d])
      BY <2>2
    <3>2. c = d /\ r = pendingResult[c]
      BY <3>1, ResultMsgInjective
    <3> QED
      BY <2>2, <3>1, <3>2 DEF SuccessInv, SuccessStored
  <2> HIDE DEF msgs
  <2> QED
    BY <1>1, <2>1, <2>2, SendSuccess
<1>3. SuccessStored' /\ ExecutingRan'
  BY <1>1 DEF Replays, FinishReplay, SuccessInv, SuccessStored, ExecutingRan, Ran
<1> QED
  BY <1>1, <1>2, <1>3, HandlerKeepsSuccess

LEMMA BridgeSuccess ==
    ASSUME TypeOK, SuccessInv, BridgeNext
    PROVE  SuccessInv'
<1>1. ASSUME NEW c \in Command, HandlesDispatch(c) PROVE SuccessInv'
  BY <1>1, HandlesDispatchSuccess
<1>2. ASSUME NEW c \in Command, Starts(c) PROVE SuccessInv'
  <2>1. /\ UNCHANGED bridgeFrame /\ UNCHANGED <<executed, pendingResult, toBridge>>
        /\ Goto(c, "idle") \/ Goto(c, "pacing")
        /\ UNCHANGED toCore \/ Send({Ack(c, TRUE)})
    BY <1>2 DEF Starts, StartCommand, durableVars
  <2>2. SuccessSent'
    BY <2>1, SendSuccess, SentFrame, ResultIsNoOther
  <2>3. SuccessStored' /\ ExecutingRan'
    BY <2>1, GotoNotExecuting, StoredFrame
  <2> QED
    BY <2>1, <2>2, <2>3, HandlerKeepsSuccess
<1>3. ASSUME NEW c \in Command, StopsBefore(c) PROVE SuccessInv'
  <2>1. /\ UNCHANGED bridgeFrame /\ UNCHANGED <<executed, toBridge>>
        /\ UNCHANGED toCore \/ Send({CancelEffective(c)})
        /\ \/ SaveResult(c, "failed")
           \/ Goto(c, "idle") /\ UNCHANGED pendingResult
    BY <1>3 DEF StopsBefore, CancelBeforeAction
  <2>2. SuccessSent'
    BY <2>1, SendSuccess, SentFrame, ResultIsNoOther
  <2>3. SuccessStored' /\ ExecutingRan'
    BY <2>1, SaveResultSuccess, GotoNotExecuting, StoredFrame DEF Status
  <2> QED
    BY <2>1, <2>2, <2>3, HandlerKeepsSuccess
<1>4. ASSUME NEW c \in Command, NEW status \in {"rejected", "failed"}, Blocks(c, status)
      PROVE  SuccessInv'
  <2>1. SuccessSent' /\ SuccessStored' /\ ExecutingRan'
    BY <1>4, SentFrame, SaveResultSuccess DEF Blocks, StopBeforeAction, Status
  <2> QED
    BY <1>4, <2>1, HandlerKeepsSuccess DEF Blocks, StopBeforeAction
<1>5. ASSUME NEW c \in Command, Executes(c) PROVE SuccessInv'
  <2>1. /\ executed' = [executed EXCEPT ![c] = @ + 1]
        /\ phase' = [phase EXCEPT ![c] = "executing"]
        /\ UNCHANGED <<bridgeFrame, pendingResult, toBridge, toCore>>
    BY <1>5 DEF Executes, Execute, Goto, durableVars
  <2>2. /\ executed' \in [Command -> Nat]
        /\ \A d \in Command : executed'[d] >= executed[d] /\ (Ran(d) => Ran(d)')
        /\ Ran(c)'
    BY <2>1 DEF Ran, TypeOK, BridgeTypeOK
  <2>3. SuccessSent' /\ SuccessStored'
    BY <2>1, <2>2 DEF SuccessInv, SuccessSent, SuccessStored
  <2>4. ExecutingRan'
    BY <2>1, <2>2 DEF SuccessInv, ExecutingRan, TypeOK, BridgeTypeOK
  <2> QED
    BY <2>1, <2>2, <2>3, <2>4, BridgeKeepsSuccess DEF bridgeFrame, portFrame
<1>6. ASSUME NEW c \in Command, NEW status \in AdapterStatus, Returns(c, status)
      PROVE  SuccessInv'
  <2>1. status \in Status
    BY BridgeAssumption DEF Status
  <2>2. phase[c] = "executing" /\ SaveResult(c, status) /\ UNCHANGED executed
    BY <1>6 DEF Returns, AdapterReturns
  <2>3. Ran(c)
    BY <2>2 DEF SuccessInv, ExecutingRan
  <2>4. SuccessSent' /\ SuccessStored' /\ ExecutingRan'
    BY <1>6, <2>1, <2>2, <2>3, SentFrame, SaveResultSuccess DEF Returns, AdapterReturns
  <2> QED
    BY <1>6, <2>4, HandlerKeepsSuccess DEF Returns, AdapterReturns
<1>7. ASSUME NEW c \in Command, NEW b \in BOOLEAN, StopsAfter(c, b) PROVE SuccessInv'
  <2>1. /\ UNCHANGED bridgeFrame /\ UNCHANGED <<executed, toBridge>>
        /\ UNCHANGED toCore \/ Send({CancelEffective(c)})
        /\ \/ SaveResult(c, "failed")
           \/ Goto(c, "idle") /\ UNCHANGED pendingResult
    BY <1>7 DEF StopsAfter, CancelAfterAction
  <2>2. SuccessSent'
    BY <2>1, SendSuccess, SentFrame, ResultIsNoOther
  <2>3. SuccessStored' /\ ExecutingRan'
    BY <2>1, SaveResultSuccess, GotoNotExecuting, StoredFrame DEF Status
  <2> QED
    BY <2>1, <2>2, <2>3, HandlerKeepsSuccess
<1>8. ASSUME NEW c \in Command, Finishes(c) PROVE SuccessInv'
  <2>1. /\ UNCHANGED bridgeFrame /\ UNCHANGED <<executed, pendingResult, toBridge>>
        /\ Goto(c, "idle")
        /\ Send({EvidenceMsg(c)})
    BY <1>8 DEF Finishes, FinishCommand
  <2>2. SuccessSent'
    BY <2>1, SendSuccess, ResultIsNoOther
  <2>3. SuccessStored' /\ ExecutingRan'
    BY <2>1, GotoNotExecuting, StoredFrame
  <2> QED
    BY <2>1, <2>2, <2>3, HandlerKeepsSuccess
<1>9. ASSUME NEW c \in Command, HandlesCancel(c) PROVE SuccessInv'
  <2>1. /\ UNCHANGED bridgeFrame /\ UNCHANGED <<executed, pendingResult, phase>>
        /\ toBridge' \subseteq toBridge
        /\ Send({CancelEffective(c)}) \/ Send({})
    BY <1>9 DEF HandlesCancel, ReceiveCancel, Handle, durableVars
  <2>2. SuccessSent'
    BY <2>1, SendSuccess, ResultIsNoOther
  <2>3. SuccessStored' /\ ExecutingRan'
    BY <2>1, StoredFrame
  <2> QED
    BY <2>1, <2>2, <2>3, HandlerKeepsSuccess
<1>10. ASSUME NEW c \in Command, NEW b \in BOOLEAN, HandlesResultAck(c, b)
       PROVE  SuccessInv'
  <2>1. /\ UNCHANGED bridgeFrame /\ UNCHANGED <<executed, phase, toCore>>
        /\ toBridge' \subseteq toBridge
    BY <1>10 DEF HandlesResultAck, ReceiveResultAck, Handle, volatileVars
  <2>2. SuccessStored'
    BY <1>10, <2>1
    DEF HandlesResultAck, ReceiveResultAck, SuccessInv, SuccessStored, Ran, TypeOK, BridgeTypeOK
  <2>3. SuccessSent' /\ ExecutingRan'
    BY <2>1, SentFrame DEF SuccessInv, ExecutingRan, Ran
  <2> QED
    BY <2>1, <2>2, <2>3, HandlerKeepsSuccess
<1>11. ASSUME NEW c \in Command, NEW b \in BOOLEAN, HandlesEvidenceAck(c, b)
       PROVE  SuccessInv'
  <2>1. /\ UNCHANGED bridgeFrame /\ UNCHANGED <<executed, phase, pendingResult, toCore>>
        /\ toBridge' \subseteq toBridge
    BY <1>11 DEF HandlesEvidenceAck, ReceiveEvidenceAck, Handle
  <2> QED
    BY <2>1, SentFrame, StoredFrame, HandlerKeepsSuccess
<1>12. CASE TurnsToResults
  <2>1. UNCHANGED <<bridgeFrame, executed, phase, pendingResult, toCore, toBridge>>
    BY <1>12 DEF TurnsToResults, UploadsSent, durableVars
  <2> QED
    BY <2>1, SentFrame, StoredFrame, HandlerKeepsSuccess
<1>13. CASE Replays
  BY <1>13, ReplaysSuccess
<1>14. CASE Connects
  <2>1. /\ UNCHANGED <<gatewayVars, executed, phase, pendingResult, toBridge, tokenFresh>>
        /\ toCore' = toCore \cup {SessionHello}
    BY <1>14 DEF Connects, Connect, portFrame, volatileVars, durableVars
  <2>2. SuccessSent'
    BY <2>1, ResultIsNoOther DEF SuccessInv, SuccessSent, Ran
  <2>3. SuccessStored' /\ ExecutingRan'
    BY <2>1, StoredFrame
  <2> QED
    BY <2>1, <2>2, <2>3, BridgeKeepsSuccess DEF TypeOK, BridgeTypeOK
<1>15. CASE HandlesWelcome \/ HandlesResume
  <2>1. /\ UNCHANGED <<gatewayVars, executed, phase, pendingResult>>
        /\ toBridge' \subseteq toBridge
        /\ tokenFresh' => tokenFresh \/ SessionWelcome \in toBridge
        /\ BeginSendPending
    BY <1>15
    DEF HandlesWelcome, ReceiveWelcome, HandlesResume, ReceiveResume, Handle, bridgeFrame,
        portFrame, durableVars
  <2>2. SuccessSent'
    BY <2>1, ResultIsNoOther DEF BeginSendPending, SuccessInv, SuccessSent, Ran
  <2>3. SuccessStored' /\ ExecutingRan'
    BY <2>1, StoredFrame
  <2> QED
    BY <2>1, <2>2, <2>3, BridgeKeepsSuccess DEF TypeOK, BridgeTypeOK
<1>16. ASSUME NEW c \in Command, ChecksDeadline(c) \/ ChecksPage(c) PROVE SuccessInv'
  <2>1. /\ UNCHANGED <<bridgeFrame, executed, pendingResult, toCore, toBridge>>
        /\ Goto(c, "checked") \/ Goto(c, "cleared")
    BY <1>16 DEF ChecksDeadline, CheckDeadline, ChecksPage, CheckPage, durableVars
  <2>2. SuccessSent' /\ SuccessStored' /\ ExecutingRan'
    BY <2>1, GotoNotExecuting, StoredFrame, SentFrame
  <2> QED
    BY <2>1, <2>2, HandlerKeepsSuccess
<1> QED
  BY <1>1, <1>2, <1>3, <1>4, <1>5, <1>6, <1>7, <1>8, <1>9, <1>10, <1>11, <1>12, <1>13,
     <1>14, <1>15, <1>16 DEF BridgeNext

LEMMA EnvironmentSuccess ==
    ASSUME TypeOK, SuccessInv, EnvironmentNext
    PROVE  SuccessInv'
<1>1. ASSUME NEW c \in Command, Expire(c) PROVE SuccessInv'
  BY <1>1, KeepsSuccess DEF Expire, gatewayVars, bridgeVars, volatileVars, durableVars
<1>2. ASSUME NEW t \in Tab, PageChanges(t) PROVE SuccessInv'
  BY <1>2, KeepsSuccess DEF PageChanges, linkVars, gatewayVars, volatileVars, durableVars
<1>3. CASE LinkLost
  BY <1>3, KeepsSuccess DEF LinkLost, PipeBreaks, Detach, bridgeVars, volatileVars, durableVars
<1>4. CASE WorkerRestarts
  <2>1. SuccessStored' /\ ExecutingRan'
    BY <1>4, RecoveredSuccess
    DEF WorkerRestarts, WorkerRestart, SuccessInv, SuccessStored, ExecutingRan, Ran
  <2> QED
    BY <1>4, <2>1
    DEF WorkerRestarts, WorkerRestart, PipeBreaks, Detach, SuccessInv, SuccessIsReal,
        SuccessSent, SessionOpened
<1>5. CASE CoreRestarts
  BY <1>5, KeepsSuccess, CancelQueuedSuccess
  DEF CoreRestarts, CoreCrash, Restart, bridgeVars, volatileVars, durableVars
<1>6. ASSUME NEW c \in Command, CoreRestartsInPass(c) PROVE SuccessInv'
  <2>1. PICK s : /\ Restart(s)
                 /\ \A d \in Command : s[d] = "succeeded" => state[d] = "succeeded"
                 /\ toBridge' = toBridge \cup {Dispatch(c)}
    BY <1>6 DEF CoreRestartsInPass, CrashAfterSend, CrashInInvoke, TypeOK, GatewayTypeOK
  <2>2. SessionWelcome \in toBridge' => SessionWelcome \in toBridge
    BY <2>1, WelcomeIsNoCommand
  <2> QED
    BY <1>6, <2>1, <2>2, KeepsSuccess, CancelQueuedSuccess
    DEF CoreRestartsInPass, Restart, bridgeVars, volatileVars, durableVars
<1> QED
  BY <1>1, <1>2, <1>3, <1>4, <1>5, <1>6 DEF EnvironmentNext

\* What Core holds as succeeded was acted out in the page and its Evidence was
\* acknowledged, through every replay, reconnection, restart and late message.
THEOREM SuccessCorrect == Spec => []SuccessIsReal
<1> DEFINE Inv == TypeOK /\ SuccessInv
<1>1. Init => Inv
  BY InitTyped, InitSuccess
<1>2. Inv /\ [Next]_vars => Inv'
  <2> SUFFICES ASSUME Inv, [Next]_vars PROVE Inv'
    OBVIOUS
  <2>1. TypeOK'
    BY CoreTyped, BridgeTyped, EnvironmentTyped, StutterTyped DEF Next
  <2>2. CASE UNCHANGED vars
    BY <2>1, <2>2, KeepsSuccess
    DEF vars, linkVars, gatewayVars, bridgeVars, volatileVars, durableVars
  <2> QED
    BY <2>1, <2>2, CoreSuccess, BridgeSuccess, EnvironmentSuccess DEF Next
<1>3. Inv => SuccessIsReal
  BY DEF SuccessInv
<1> QED
  BY <1>1, <1>2, <1>3, PTL DEF Spec

====
