---- MODULE BrowserGateway ----
(***************************************************************************)
(* Local Core's side of command delivery: the SQLite gateway_commands      *)
(* ledger, LocalBrowserGateway (dispatch, acknowledgements, results,       *)
(* cancellation, timeouts, session hello and resume), the evidence check   *)
(* and the drain loop that calls LocalBrowserGateway.invoke.  Every action *)
(* is one synchronous handler: Core is single threaded and writes SQLite   *)
(* synchronously, so nothing interleaves inside it except a crash.         *)
(***************************************************************************)
EXTENDS BrowserLink

CONSTANTS
    Attempt,     \* the number of an attempt, unique within its run's call step
    RetryOn      \* outcomes the call step's retry policy retries

ASSUME GatewayAssumption ==
    /\ Attempt \in [Command -> Nat \ {0}]
    /\ \A c, d \in Command :
          RunOf[c] = RunOf[d] /\ Attempt[c] = Attempt[d] => c = d
    /\ RetryOn \subseteq {"failed", "timed_out"}

VARIABLES
    state,        \* gateway_commands.state, its result_json's status once terminal
    evidence,     \* the session in which Core acknowledged a command's Evidence; 0: none
    session,      \* the current browser session; 0: none was ever opened
    coreConn,     \* "none", "session" (hello answered) or "ready" (capabilities in)
    cancelSent,   \* connection.cancelRequests
    binding,      \* the session a run's page binding froze; 0: run not started
    current,      \* runs whose frozen page equals Core's latest observation of it
    cancelled,    \* runs cancelled in the engine
    outcome,      \* what the engine was told of an attempt; None: nothing yet
    invoking      \* the attempt whose invoke() promise the drain loop awaits

gatewayVars == <<state, evidence, session, coreConn, cancelSent, binding,
                 current, cancelled, outcome, invoking>>

InBrowser == {"delivered", "accepted"}
Pending   == {"queued"} \cup InBrowser
CommandState == {"absent"} \cup Pending \cup Status

\* "expired": timed_out before the provider was asked, which is never retried.
Outcome == Status \cup {"expired"}

GatewayTypeOK ==
    /\ state \in [Command -> CommandState]
    /\ evidence \in [Command -> Nat]
    /\ session \in Nat
    /\ coreConn \in {"none", "session", "ready"}
    /\ cancelSent \subseteq Command
    /\ binding \in [Run -> Nat]
    /\ current \subseteq Run
    /\ cancelled \subseteq Run
    /\ outcome \in [Command -> Outcome \cup {None}]
    /\ invoking \in Command \cup {None}

GatewayInit ==
    /\ state = [c \in Command |-> "absent"]
    /\ evidence = [c \in Command |-> 0]
    /\ session = 0
    /\ coreConn = "none"
    /\ cancelSent = {}
    /\ binding = [r \in Run |-> 0]
    /\ current = {}
    /\ cancelled = {}
    /\ outcome = [c \in Command |-> None]
    /\ invoking = None

----
(* The passes dispatchPending and tick make over the ledger.  Each takes the *)
(* ledger s it starts from and yields the ledger it leaves.                  *)

\* Commands of one session on one tab: #commandTabKey is equal.
SameTab(c, d) ==
    /\ TabOf[RunOf[c]] = TabOf[RunOf[d]]
    /\ binding[RunOf[c]] = binding[RunOf[d]]

\* The command's frozen session is the connected one (#connectionForCommand,
\* #assertCommandSession).
InSession(c) == binding[RunOf[c]] = session

\* Mutant: cancelling leaves queued commands to the browser.
CancelNothing(s, runs) == IF runs = {} THEN s ELSE s

\* Cancelling a command that was never sent is decided locally.
CancelQueued(s, runs) ==
    [c \in Command |->
        IF s[c] = "queued" /\ RunOf[c] \in runs THEN "cancelled" ELSE s[c]]

\* A command in the browser is sent one cancel.request per connection.
CancelTargets(s, runs) ==
    {c \in Command : /\ s[c] \in InBrowser
                     /\ RunOf[c] \in runs
                     /\ InSession(c)
                     /\ c \notin cancelSent}

\* Mutant: only what was never sent can time out.
TimeOutQueued(s) ==
    [c \in Command |->
        IF s[c] = "queued" /\ RunOf[c] \notin cancelled /\ c \in expired
        THEN "timed_out" ELSE s[c]]

\* tick fails every pending command past its deadline, whatever its state,
\* except those of cancelled runs.
TimeOut(s) ==
    [c \in Command |->
        IF s[c] \in Pending /\ RunOf[c] \notin cancelled /\ c \in expired
        THEN "timed_out" ELSE s[c]]

\* Mutant: a command occupies its tab from its acknowledgement on.
OccupiedOnceAccepted(s, c) == \E d \in Command : s[d] = "accepted" /\ SameTab(c, d)

Occupied(s, c) == \E d \in Command : s[d] \in InBrowser /\ SameTab(c, d)

\* Queued commands the dispatch pass examines when it reaches them.
Examined(s, c) ==
    s[c] = "queued" /\ RunOf[c] \notin cancelled /\ ~Occupied(s, c)

\* The pass runs in command_seq order (q) and marks a tab occupied as it sends:
\* the first command whose frozen page is current and was observed within 30 s
\* (its run is in fresh) wins its tab.
Sendable(s, fresh, c) == Examined(s, c) /\ RunOf[c] \in fresh /\ InSession(c)
Sent(s, fresh, q) ==
    {c \in Command :
        /\ Sendable(s, fresh, c)
        /\ \A d \in Command :
              Sendable(s, fresh, d) /\ SameTab(c, d) => q[c] <= q[d]}

\* A command whose frozen page differs from the observed one (its run is not in
\* pages) is rejected, unless the pass gave its tab away before reaching it.  A
\* page that is only old is probed again and its command stays queued.
Refused(s, pages, fresh, q) ==
    {c \in Command :
        /\ Examined(s, c)
        /\ RunOf[c] \notin pages
        /\ \A d \in Sent(s, fresh, q) : SameTab(c, d) => q[c] < q[d]}

DispatchPass(s, pages, fresh, q) ==
    [c \in Command |-> IF c \in Sent(s, fresh, q) THEN "delivered"
                       ELSE IF c \in Refused(s, pages, fresh, q)
                            THEN "rejected" ELSE s[c]]

\* dispatchPending on a ready connection: recoverCancellations, then the pass.
DispatchPending(s, pages, fresh, q) ==
    LET t == CancelQueued(s, cancelled)
        stops == CancelTargets(t, cancelled)
    IN  /\ state' = DispatchPass(t, pages, fresh, q)
        /\ cancelSent' = cancelSent \cup stops
        /\ toBridge' = toBridge \cup {Dispatch(c) : c \in Sent(t, fresh, q)}
                                \cup {CancelRequest(c) : c \in stops}

\* requestCancel, for the commands of the given runs.
RequestCancel(runs) ==
    LET stops == IF coreConn = "ready" THEN CancelTargets(state, runs) ELSE {}
    IN  /\ state' = CancelQueued(state, runs)
        /\ cancelSent' = cancelSent \cup stops
        /\ toBridge' = toBridge \cup {CancelRequest(c) : c \in stops}

----
(* The drain loop and invoke: one attempt at a time. *)

\* The engine has scheduled the attempt: the run started and the previous
\* attempt, if any, ended in a way the retry policy retries.
Scheduled(c) ==
    /\ binding[RunOf[c]] # 0
    /\ \/ Attempt[c] = 1
       \/ \E p \in Command : /\ RunOf[p] = RunOf[c]
                             /\ Attempt[p] + 1 = Attempt[c]
                             /\ outcome[p] \in RetryOn

\* acceptRuntimeResult: the engine ignores outcomes of a cancelled run.
Tell(c, o) ==
    outcome' = IF RunOf[c] \in cancelled THEN outcome
               ELSE [outcome EXCEPT ![c] = o]

\* Mutant: an attempt that a previous Core process enqueued is not drained again.
DrainableOnce(c) ==
    /\ invoking = None
    /\ Scheduled(c)
    /\ outcome[c] = None
    /\ state[c] = "absent"

\* The pass read the outbox earlier, so a run may have been cancelled since.  The
\* outbox is read in order of creation: an attempt a previous Core process had
\* enqueued comes before one that it had not.
Drainable(c) ==
    /\ invoking = None
    /\ \A d \in Command \ {c} :
          state[d] # "absent" /\ outcome[d] = None /\ RunOf[d] \notin cancelled
          => state[c] # "absent"
    /\ Scheduled(c)
    /\ outcome[c] = None
    /\ RunOf[c] \in cancelled => state[c] = "absent"

\* MAX(command_seq) + 1.
NextSeq(n) == \A d \in Command : commandSeq[d] < n
Enqueued(c) ==
    \E n \in {commandSeq[d] + 1 : d \in Command} :
        NextSeq(n) /\ commandSeq' = [commandSeq EXCEPT ![c] = n]

\* A run starts on the page its tab shows and freezes that binding.
StartRun(r) ==
    /\ coreConn = "ready"
    /\ binding[r] = 0
    /\ binding' = [binding EXCEPT ![r] = session]
    /\ current' = current \cup {r}
    /\ UNCHANGED <<state, evidence, session, coreConn, cancelSent, cancelled,
                   outcome, invoking, toBridge, commandSeq>>

\* Past its deadline the provider is not asked.
DrainExpired(c) ==
    /\ Drainable(c)
    /\ c \in expired
    /\ Tell(c, "expired")
    /\ UNCHANGED <<state, evidence, session, coreConn, cancelSent, binding,
                   current, cancelled, invoking, toBridge, commandSeq>>

\* ResourceValidatedRuntimeDispatcher: the frozen page must be the one observed
\* within 30 s, also when the attempt is already in the browser (after a Core
\* restart).
DrainRefused(c, fresh) ==
    /\ Drainable(c)
    /\ c \notin expired
    /\ RunOf[c] \notin fresh
    /\ Tell(c, "rejected")
    /\ UNCHANGED <<state, evidence, session, coreConn, cancelSent, binding,
                   current, cancelled, invoking, toBridge, commandSeq>>

\* invoke: enqueue the command unless a previous Core process did, dispatch
\* (dispatchPending does nothing without a ready connection), start polling.
Invoke(c, fresh) ==
    /\ Drainable(c)
    /\ c \notin expired
    /\ RunOf[c] \in fresh
    /\ LET s == IF state[c] = "absent"
                THEN [state EXCEPT ![c] = "queued"] ELSE state
       IN  /\ IF state[c] = "absent" THEN Enqueued(c)
              ELSE UNCHANGED commandSeq
           /\ IF coreConn = "ready" THEN DispatchPending(s, current, fresh, commandSeq')
              ELSE state' = s /\ UNCHANGED <<cancelSent, toBridge>>
    /\ invoking' = c
    /\ UNCHANGED <<evidence, session, coreConn, binding, current, cancelled,
                   outcome>>

\* Mutant: the poll returns whatever state it reads.
PollAnyState(c) ==
    /\ invoking = c
    /\ Tell(c, state[c])
    /\ invoking' = None
    /\ UNCHANGED <<state, evidence, session, coreConn, cancelSent, binding,
                   current, cancelled, toBridge, commandSeq>>

\* The poll finds the command terminal.
PollTerminal(c) ==
    /\ invoking = c
    /\ state[c] \in Status
    /\ Tell(c, state[c])
    /\ invoking' = None
    /\ UNCHANGED <<state, evidence, session, coreConn, cancelSent, binding,
                   current, cancelled, toBridge, commandSeq>>

\* The deadline aborts the invocation: the command is asked to stop, and the
\* engine is told timed_out without waiting for the answer (and without looking
\* at the ledger, so a result committed since the last poll is missed too).
InvokeDeadline(c) ==
    /\ invoking = c
    /\ c \in expired
    /\ LET stop == /\ coreConn = "ready"
                   /\ state[c] \in InBrowser
                   /\ InSession(c)
                   /\ c \notin cancelSent
       IN  /\ state' = IF state[c] = "queued"
                       THEN [state EXCEPT ![c] = "cancelled"] ELSE state
           /\ cancelSent' = IF stop THEN cancelSent \cup {c} ELSE cancelSent
           /\ toBridge' = IF stop THEN toBridge \cup {CancelRequest(c)}
                          ELSE toBridge
    /\ Tell(c, "timed_out")
    /\ invoking' = None
    /\ UNCHANGED <<evidence, session, coreConn, binding, current, cancelled,
                   commandSeq>>

\* The user cancels a run that is waiting for the browser: the cancelled
\* checkpoint is committed, then the gateway is asked to stop its commands.
CancelRun(r) ==
    /\ r \notin cancelled
    /\ \E c \in Command : RunOf[c] = r /\ Scheduled(c) /\ outcome[c] = None
    /\ cancelled' = cancelled \cup {r}
    /\ RequestCancel({r})
    /\ UNCHANGED <<evidence, session, coreConn, binding, current, outcome,
                   invoking, commandSeq>>

----
(* The 500 ms timer and the messages of the bridge. *)

\* tick: cancellations are recovered and deadlines enforced with or without a
\* connection; dispatch needs one.
Tick(fresh) ==
    /\ IF coreConn = "ready"
       THEN DispatchPending(TimeOut(state), current, fresh, commandSeq)
       ELSE /\ state' = CancelQueued(TimeOut(state), cancelled)
            /\ UNCHANGED <<cancelSent, toBridge>>
    /\ UNCHANGED <<evidence, session, coreConn, binding, current, cancelled,
                   outcome, invoking, commandSeq>>

\* session.hello: resume the session the presented token names, else open a new
\* one; the token rotates, and the page observations of a resumed session are
\* dropped (a new session has none, those a Core crash left to an old one stay).
HandleHello ==
    /\ coreConn = "none"
    /\ SessionHello \in toCore
    /\ toCore' = toCore \ {SessionHello}
    /\ coreConn' = "session"
    /\ session' = IF tokenFresh THEN session ELSE session + 1
    /\ tokenFresh' = FALSE
    /\ current' = IF tokenFresh THEN {} ELSE current
    /\ toBridge' = toBridge \cup {SessionWelcome}
                            \cup (IF tokenFresh THEN {SessionResume} ELSE {})
    /\ UNCHANGED <<state, evidence, cancelSent, binding, cancelled, outcome,
                   invoking, commandSeq>>

\* capability.report: the connection is ready and dispatches at once, before
\* any page has been observed.
HandleCapabilities(fresh) ==
    /\ bridgeConn = "open"
    /\ coreConn = "session"
    /\ coreConn' = "ready"
    /\ DispatchPending(state, current, fresh, commandSeq)
    /\ UNCHANGED <<evidence, session, binding, current, cancelled, outcome,
                   invoking, commandSeq>>

\* page.observation of tab t; intact are the runs whose frozen page is still
\* the page in their tab.
HandleObservation(t, intact, fresh) ==
    LET onTab == {r \in Run : TabOf[r] = t /\ binding[r] = session}
        seen == (current \ onTab) \cup (onTab \cap intact)
    IN  /\ coreConn = "ready"
        /\ fresh \subseteq seen
        /\ onTab \cap intact \subseteq fresh
        /\ current' = seen
        /\ DispatchPending(state, seen, fresh, commandSeq)
        /\ UNCHANGED <<evidence, session, coreConn, binding, cancelled,
                       outcome, invoking, commandSeq>>

\* A message of an established session; what a handler throws is answered with
\* session.error and the message is gone.
Receive(m) == coreConn # "none" /\ m \in toCore /\ toCore' = toCore \ {m}

\* command.ack: historical once the command is terminal, refused from another
\* session.
ReceiveAck(c, ok) ==
    /\ Receive(Ack(c, ok))
    /\ state' = IF state[c] \in Pending /\ InSession(c)
                THEN [state EXCEPT ![c] = IF ok THEN "accepted" ELSE "rejected"]
                ELSE state
    /\ UNCHANGED <<evidence, session, coreConn, cancelSent, binding, current,
                   cancelled, outcome, invoking, toBridge>>

\* Mutant: a result is accepted before its Evidence.
AcceptableUnlinked(c, r) == r.status \in Status

\* What #handleResult answers: an active command's result from another session
\* is an error and gets no answer; a result whose Evidence Core does not hold is
\* refused; anything else is committed or a duplicate.
Answered(c)     == state[c] \in Pending => InSession(c)
Acceptable(c, r) == r.evidence => evidence[c] # 0

\* Mutant: a late result replaces the decision.
ReceiveLateResult(c, r) ==
    /\ Receive(ResultMsg(c, r))
    /\ Answered(c) /\ Acceptable(c, r)
    /\ toBridge' = toBridge \cup {ResultAck(c, TRUE)}
    /\ cancelSent' = cancelSent \ {c}
    /\ state' = [state EXCEPT ![c] = r.status]
    /\ UNCHANGED <<evidence, session, coreConn, binding, current, cancelled,
                   outcome, invoking>>

ReceiveResult(c, r) ==
    /\ Receive(ResultMsg(c, r))
    /\ IF Answered(c)
       THEN /\ toBridge' = toBridge \cup {ResultAck(c, Acceptable(c, r))}
            /\ cancelSent' = cancelSent \ {c}
            /\ state' = IF state[c] \in Pending /\ Acceptable(c, r)
                        THEN [state EXCEPT ![c] = r.status] ELSE state
       ELSE UNCHANGED <<toBridge, cancelSent, state>>
    /\ UNCHANGED <<evidence, session, coreConn, binding, current, cancelled,
                   outcome, invoking>>

\* cancel.effective, always with status "cancelled".
ReceiveCancelEffective(c) ==
    /\ Receive(CancelEffective(c))
    /\ state' = IF state[c] \in Pending /\ InSession(c)
                THEN [state EXCEPT ![c] = "cancelled"] ELSE state
    /\ cancelSent' = IF Answered(c) THEN cancelSent \ {c} ELSE cancelSent
    /\ UNCHANGED <<evidence, session, coreConn, binding, current, cancelled,
                   outcome, invoking, toBridge>>

\* The upload's last message.  The transfer belongs to the session that began
\* it and to a command that was then in the browser; an upload begun in a lost
\* session may or may not have left a transfer behind.
ReceiveEvidence(c) ==
    /\ Receive(EvidenceMsg(c))
    /\ \E ok \in BOOLEAN :
          /\ evidence[c] # 0 => ok = (evidence[c] = session)
          /\ evidence[c] = 0 /\ state[c] \notin InBrowser => ~ok
          /\ evidence[c] = 0 /\ state[c] \in InBrowser /\ InSession(c) => ok
          /\ evidence' = IF ok THEN [evidence EXCEPT ![c] = session] ELSE evidence
          /\ toBridge' = toBridge \cup {EvidenceAck(c, ok)}
    /\ UNCHANGED <<state, session, coreConn, cancelSent, binding, current,
                   cancelled, outcome, invoking>>

----
(* Connection loss and process crashes. *)

\* detach: the session row is marked disconnected, its observations stale.
Detach ==
    /\ coreConn' = "none"
    /\ cancelSent' = {}
    /\ current' = IF coreConn = "none" THEN current
                  ELSE {r \in current : ~(binding[r] = session)}

\* A restarted Core reads the ledger, the checkpoints and the observations (its
\* session row still says connected), then recovers cancellations.
Restart(s) ==
    /\ state' = CancelQueued(s, cancelled)
    /\ coreConn' = "none"
    /\ cancelSent' = {}
    /\ invoking' = None
    /\ toCore' = {}
    /\ UNCHANGED <<evidence, session, binding, current, cancelled, outcome>>

CoreCrash == Restart(state) /\ UNCHANGED <<toBridge, commandSeq>>

\* The crash hits a dispatch pass after it sent a command and before it marked
\* the command delivered.
CrashAfterSend(c, fresh) ==
    /\ coreConn = "ready"
    /\ c \in Sent(state, fresh, commandSeq)
    /\ toBridge' = toBridge \cup {Dispatch(c)}
    /\ Restart(state)
    /\ UNCHANGED commandSeq

\* The same in the pass of invoke, which has just enqueued the command.
CrashInInvoke(c, fresh) ==
    /\ coreConn = "ready"
    /\ Drainable(c)
    /\ state[c] = "absent"
    /\ Enqueued(c)
    /\ LET s == [state EXCEPT ![c] = "queued"]
       IN  c \in Sent(s, fresh, commandSeq') /\ Restart(s)
    /\ toBridge' = toBridge \cup {Dispatch(c)}

====
