---- MODULE BrowserLink ----
(***************************************************************************)
(* What Local Core and the extension bridge share: the identity of the     *)
(* commands they exchange, the bpa.browser/2 messages in flight on the     *)
(* Native Host pipe, the resume token and the clock (both processes run on *)
(* one machine and compare Date.now() with the same frozen deadline).      *)
(*                                                                         *)
(* Each direction is a set of messages.  The pipe is FIFO, but the bridge  *)
(* starts a handler per message without awaiting the previous one, and the *)
(* first thing every handler does is await browser storage, so handlers of *)
(* different messages take effect in any order.  Towards Core the set      *)
(* allows more orders than the pipe has.                                   *)
(***************************************************************************)
EXTENDS Naturals

CONSTANTS
    Command,    \* gateway command ids, "ir2:<invocationId>": one per attempt
    Run,        \* workflow runs
    Tab,        \* browser tabs
    RunOf,      \* the run an attempt belongs to
    TabOf,      \* the tab a run's frozen page binding names
    None        \* "no value"

ASSUME LinkAssumption ==
    /\ RunOf \in [Command -> Run]
    /\ TabOf \in [Run -> Tab]
    /\ None \notin Command

VARIABLES
    toBridge,     \* messages Core has sent and the bridge has not handled
    toCore,       \* messages the bridge has sent and Core has not handled
    bridgeConn,   \* the bridge's Native port: see ConnState
    tokenFresh,   \* the bridge stores the resume token whose digest Core holds
    commandSeq,   \* command_seq, frozen in the command's payload; 0: not enqueued
    expired       \* commands whose frozen deadline has passed

linkVars == <<toBridge, toCore, bridgeConn, tokenFresh, commandSeq, expired>>

\* "none": no port; "hello": hello sent, no welcome yet (messages sent now carry
\* session "new" and Core refuses them); "open": welcome handled.
ConnState == {"none", "hello", "open"}

\* The terminal statuses of a command.
Status == {"succeeded", "failed", "rejected", "timed_out", "cancelled", "uncertain"}

\* The result a bridge stores or sends; evidence: it names an uploaded Evidence.
Result == [status : Status, evidence : BOOLEAN]

\* A result or an outcome is told from the absence of one.
ASSUME AnswerAssumption == None \notin Result /\ None \notin Status

Dispatch(c)        == [type |-> "command.dispatch", cmd |-> c]
CancelRequest(c)   == [type |-> "cancel.request", cmd |-> c]
ResultAck(c, ok)   == [type |-> "result.ack", cmd |-> c, accepted |-> ok]
EvidenceAck(c, ok) == [type |-> "evidence.ack", cmd |-> c, accepted |-> ok]
SessionWelcome     == [type |-> "session.welcome"]
SessionResume      == [type |-> "session.resume"]

SessionHello       == [type |-> "session.hello"]
Ack(c, ok)         == [type |-> "command.ack", cmd |-> c, accepted |-> ok]
ResultMsg(c, r)    == [type |-> "command.result", cmd |-> c, result |-> r]
CancelEffective(c) == [type |-> "cancel.effective", cmd |-> c]
EvidenceMsg(c)     == [type |-> "evidence.complete", cmd |-> c]

ToBridgeMsg ==
    {Dispatch(c) : c \in Command} \cup {CancelRequest(c) : c \in Command}
    \cup {ResultAck(c, ok) : c \in Command, ok \in BOOLEAN}
    \cup {EvidenceAck(c, ok) : c \in Command, ok \in BOOLEAN}
    \cup {SessionWelcome, SessionResume}

ToCoreMsg ==
    {Ack(c, ok) : c \in Command, ok \in BOOLEAN}
    \cup {ResultMsg(c, r) : c \in Command, r \in Result}
    \cup {CancelEffective(c) : c \in Command}
    \cup {EvidenceMsg(c) : c \in Command}
    \cup {SessionHello}

LinkTypeOK ==
    /\ toBridge \subseteq ToBridgeMsg
    /\ toCore \subseteq ToCoreMsg
    /\ bridgeConn \in ConnState
    /\ tokenFresh \in BOOLEAN
    /\ commandSeq \in [Command -> Nat]
    /\ expired \subseteq Command

LinkInit ==
    /\ toBridge = {}
    /\ toCore = {}
    /\ bridgeConn = "none"
    /\ tokenFresh = FALSE
    /\ commandSeq = [c \in Command |-> 0]
    /\ expired = {}

====
