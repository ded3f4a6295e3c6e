---- MODULE CommandLedger_proofs ----
(***************************************************************************)
(* Delivery implements the abstract command ledger, keeps one command per  *)
(* tab in the browser, keeps the commands of cancelled runs out of it, has *)
(* every started action on record and lets no attempt pass the bridge's    *)
(* deadline check once a later one is enqueued: for every set of commands, *)
(* runs and tabs, every set of events and any number of faults.  The first *)
(* three rest on what is known of a command that Core still holds as       *)
(* queued although a dispatch pass that crashed has sent it; the last two  *)
(* on what the bridge's stores and the messages in flight say.             *)
(***************************************************************************)
EXTENDS BrowserDelivery_proofs

(* The inductive invariant. *)

\* The phases of a handler that has not begun the action.
BeforeAction == {"starting", "pacing", "checked", "cleared"}

USE DEF BeforeAction

\* The bridge has a record of the command, or Core may receive one.
Recorded(c) ==
    \/ c \in starts
    \/ pendingResult[c] # None
    \/ \E r \in Result : ResultMsg(c, r) \in toCore

\* The bridge may have heard of the command: a copy of it, its handler, an
\* acknowledgement, a record or the trace of its page action is somewhere.
Touched(c) ==
    \/ Dispatch(c) \in toBridge
    \/ \E ok \in BOOLEAN : Ack(c, ok) \in toCore
    \/ phase[c] # "idle"
    \/ executed[c] > 0
    \/ Recorded(c)

\* A pass sent the command and crashed before it marked the command delivered.
Astray(c) == state[c] = "queued" /\ Touched(c)

AbsentUntouched == \A c \in Command : state[c] = "absent" => ~Touched(c)

\* A command that is not absent has a number of its own and a session.
Numbered ==
    /\ \A c \in Command :
          state[c] # "absent" => commandSeq[c] # 0 /\ binding[RunOf[c]] # 0
    /\ \A c, d \in Command :
          commandSeq[c] # 0 /\ commandSeq[c] = commandSeq[d] => c = d

\* Sessions only grow, and none of the pages Core knows is of a session that has
\* just been opened or resumed.
SessionsPast ==
    /\ \A r \in Run : binding[r] <= session
    /\ coreConn = "session" => \A r \in current : binding[r] # session

\* The bridge gets a command at most once and starts its action at most once.
DispatchedOnce ==
    \A c \in Command :
        /\ Dispatch(c) \in toBridge
           => phase[c] = "idle" /\ executed[c] = 0 /\ ~Recorded(c)
        /\ phase[c] \in BeforeAction => executed[c] = 0
        /\ executed[c] \in {0, 1}

\* A command astray in the current session is the only one of its tab that is
\* astray or in the browser, and it is decided before Core dispatches again.
AstrayAlone ==
    \A c \in Command : Astray(c) /\ InSession(c) =>
        /\ coreConn # "ready"
        /\ ~Occupied(state, c)
        /\ \A d \in Command : Astray(d) /\ SameTab(c, d) => c = d

AstrayUncancelled == \A c \in Command : Astray(c) => RunOf[c] \notin cancelled

\* The engine has not heard of the attempt the drain loop waits for.
Awaited == invoking # None => outcome[invoking] = None

OrderInv ==
    /\ AbsentUntouched /\ Numbered /\ SessionsPast /\ DispatchedOnce
    /\ AstrayAlone /\ AstrayUncancelled /\ Awaited /\ OneCommandPerTab

LEMMA InitOrder == Init => OrderInv
<1> SUFFICES ASSUME Init PROVE OrderInv
  OBVIOUS
<1>1. ASSUME NEW c \in Command PROVE state[c] = "absent" /\ ~Touched(c)
  <2>1. toBridge = {} /\ toCore = {}
    BY DEF Init, LinkInit
  <2>2. /\ state[c] = "absent" /\ phase[c] = "idle" /\ executed[c] = 0
        /\ c \notin starts /\ pendingResult[c] = None
    BY DEF Init, GatewayInit, BridgeInit
  <2>3. ~(executed[c] > 0)
    BY <2>2
  <2> QED
    BY <2>1, <2>2, <2>3 DEF Touched, Recorded
<1>2. AbsentUntouched /\ AstrayAlone /\ AstrayUncancelled
  BY <1>1 DEF AbsentUntouched, AstrayAlone, AstrayUncancelled, Astray
<1>3. Numbered /\ SessionsPast /\ Awaited
  BY <1>1 DEF Init, LinkInit, GatewayInit, Numbered, SessionsPast, Awaited
<1>4. DispatchedOnce
  BY DEF Init, LinkInit, BridgeInit, DispatchedOnce
<1>5. OneCommandPerTab
  BY <1>1 DEF OneCommandPerTab, InBrowser
<1> QED
  BY <1>2, <1>3, <1>4, <1>5 DEF OrderInv

----
(* Messages. *)

\* Dispatches and acknowledgements are told from everything else on the pipe.
LEMMA DispatchIsNoOther ==
    ASSUME NEW c, NEW d, NEW ok
    PROVE  /\ Dispatch(c) = Dispatch(d) => c = d
           /\ Dispatch(c) # CancelRequest(d)
           /\ Dispatch(c) # ResultAck(d, ok)
           /\ Dispatch(c) # EvidenceAck(d, ok)
           /\ Dispatch(c) # SessionWelcome
           /\ Dispatch(c) # SessionResume
BY DEF Dispatch, CancelRequest, ResultAck, EvidenceAck, SessionWelcome, SessionResume

LEMMA AckIsNoOther ==
    ASSUME NEW c, NEW ok, NEW d, NEW r
    PROVE  /\ Ack(c, ok) = Ack(d, r) => c = d
           /\ Ack(c, ok) # ResultMsg(d, r)
           /\ Ack(c, ok) # CancelEffective(d)
           /\ Ack(c, ok) # EvidenceMsg(d)
           /\ Ack(c, ok) # SessionHello
BY DEF Ack, ResultMsg, CancelEffective, EvidenceMsg, SessionHello

\* Core's own steps touch a command only by dispatching it.
LEMMA CoreTouches ==
    ASSUME UNCHANGED <<phase, executed, starts, pendingResult>>, toCore' \subseteq toCore,
           NEW c \in Command, Touched(c)'
    PROVE  Touched(c) \/ (Dispatch(c) \in toBridge' /\ Dispatch(c) \notin toBridge)
BY DEF Touched, Recorded

\* ... and record nothing.
LEMMA CoreRecords ==
    ASSUME UNCHANGED <<starts, pendingResult>>, toCore' \subseteq toCore,
           NEW c \in Command, Recorded(c)'
    PROVE  Recorded(c)
BY DEF Recorded

LEMMA CoreOnce ==
    ASSUME DispatchedOnce, UNCHANGED <<phase, executed, starts, pendingResult>>,
           toCore' \subseteq toCore,
           \A c \in Command : Dispatch(c) \in toBridge' => Dispatch(c) \in toBridge
    PROVE  DispatchedOnce'
BY CoreRecords DEF DispatchedOnce

----
(* Steps that dispatch nothing. *)

\* Nothing new is touched, no session is new to a command, and no command gets to
\* the browser but one that is astray in the current session.
LEMMA QuietOrder ==
    ASSUME TypeOK, OrderInv,
           \A c \in Command : Touched(c)' => Touched(c),
           \A c \in Command : state'[c] = "queued" => state[c] \in {"queued", "absent"},
           \A c \in Command : state'[c] = "absent" => state[c] = "absent",
           \A c \in Command : state'[c] \in InBrowser =>
                 state[c] \in InBrowser \/ (Astray(c) /\ InSession(c)),
           \A c \in Command : state'[c] # "absent" /\ InSession(c)' => InSession(c),
           \A c, d \in Command :
                 state'[c] # "absent" /\ state'[d] # "absent" /\ SameTab(c, d)'
                 => SameTab(c, d),
           \A c \in Command : state'[c] = "queued" /\ RunOf[c] \in cancelled'
                 => RunOf[c] \in cancelled,
           coreConn' = "ready" => coreConn = "ready"
    PROVE  AbsentUntouched' /\ AstrayAlone' /\ AstrayUncancelled' /\ OneCommandPerTab'
<1> USE DEF OrderInv
<1>1. AbsentUntouched'
  BY DEF AbsentUntouched
<1>2. \A c \in Command : Astray(c)' => Astray(c) /\ state'[c] = "queued"
  BY DEF Astray, AbsentUntouched
<1>3. AstrayUncancelled'
  BY <1>2 DEF AstrayUncancelled
<1>4. \A c, d \in Command : SameTab(c, d) => SameTab(d, c)
  BY DEF SameTab
<1>5. \A c, d \in Command :
         Astray(c) /\ InSession(c) /\ state[d] \in InBrowser => ~SameTab(c, d)
  BY DEF AstrayAlone, Occupied
<1>6. \A c, d \in Command :
         Astray(c) /\ InSession(c) /\ Astray(d) /\ SameTab(c, d) => c = d
  BY DEF AstrayAlone
<1>7. \A c \in Command : (state'[c] \in InBrowser => state'[c] # "absent")
                         /\ (Astray(c)' => state'[c] # "absent")
  BY <1>2 DEF InBrowser
<1>8. OneCommandPerTab'
  <2> SUFFICES ASSUME NEW c \in Command, NEW d \in Command,
                      state'[c] \in InBrowser, state'[d] \in InBrowser, SameTab(c, d)'
               PROVE  c = d
    BY DEF OneCommandPerTab
  <2>1. SameTab(c, d) /\ SameTab(d, c)
    BY <1>4, <1>7
  <2>2. CASE state[c] \in InBrowser /\ state[d] \in InBrowser
    BY <2>1, <2>2 DEF OneCommandPerTab
  <2>3. CASE Astray(c) /\ InSession(c)
    BY <2>1, <2>3, <1>5, <1>6
  <2>4. CASE Astray(d) /\ InSession(d)
    BY <2>1, <2>4, <1>5, <1>6
  <2> QED
    BY <2>2, <2>3, <2>4
<1>9. AstrayAlone'
  <2> SUFFICES ASSUME NEW c \in Command, Astray(c)', InSession(c)'
               PROVE  /\ coreConn' # "ready"
                      /\ ~Occupied(state, c)'
                      /\ \A d \in Command : Astray(d)' /\ SameTab(c, d)' => c = d
    BY DEF AstrayAlone
  <2>1. Astray(c) /\ InSession(c) /\ state'[c] = "queued"
    BY <1>2, <1>7
  <2>2. coreConn' # "ready"
    BY <2>1 DEF AstrayAlone
  <2>3. ASSUME NEW d \in Command, Astray(d)', SameTab(c, d)' PROVE c = d
    BY <2>1, <2>3, <1>2, <1>6, <1>7
  <2>4. ASSUME NEW d \in Command, state'[d] \in InBrowser, SameTab(c, d)' PROVE FALSE
    <3>1. SameTab(c, d)
      BY <2>1, <2>4, <1>7
    <3>2. c # d
      BY <2>1, <2>4 DEF InBrowser
    <3> QED
      BY <2>1, <2>4, <3>1, <3>2, <1>5, <1>6
  <2> QED
    BY <2>2, <2>3, <2>4 DEF Occupied
<1> QED
  BY <1>1, <1>3, <1>8, <1>9

----
(* Dispatch passes. *)

\* What a pass does to the ledger s: it marks the commands in sent delivered,
\* refuses some of the others, and leaves no queued command of a cancelled run.
PassMade(s, sent, pages, fresh) ==
    /\ sent \subseteq Command
    /\ \A c \in sent :
          /\ s[c] = "queued" /\ state'[c] = "delivered"
          /\ RunOf[c] \notin cancelled /\ RunOf[c] \in fresh
          /\ InSession(c) /\ ~Occupied(s, c)
    /\ \A c, d \in sent : SameTab(c, d) => c = d
    /\ \A c \in Command \ sent :
          \/ state'[c] = s[c]
          \/ s[c] = "queued" /\ state'[c] = "cancelled"
          \/ s[c] = "queued" /\ state'[c] = "rejected" /\ RunOf[c] \notin pages
    /\ \A c \in Command :
          s[c] = "queued" /\ RunOf[c] \in cancelled => state'[c] = "cancelled"
    /\ \A c \in Command :
          /\ s[c] = "queued" /\ RunOf[c] \notin cancelled /\ RunOf[c] \notin pages
          /\ ~Occupied(s, c)
          /\ \A d \in sent : ~SameTab(c, d)
          => state'[c] = "rejected"
    /\ \A c \in Command :
          Dispatch(c) \in toBridge' => Dispatch(c) \in toBridge \/ c \in sent

\* Cancelling queued commands empties no tab and fills none.
LEMMA CancelQueuedOccupied ==
    ASSUME NEW s, NEW runs, NEW c \in Command
    PROVE  /\ CancelQueued(s, runs)[c] \in InBrowser <=> s[c] \in InBrowser
           /\ Occupied(CancelQueued(s, runs), c) <=> Occupied(s, c)
BY DEF CancelQueued, InBrowser, Occupied

LEMMA PassIsMade ==
    ASSUME NEW s \in [Command -> CommandState], NEW pages, NEW fresh,
           NEW q \in [Command -> Nat],
           \A c, d \in Command : s[c] = "queued" /\ s[d] = "queued" /\ q[c] = q[d] => c = d,
           DispatchPending(s, pages, fresh, q)
    PROVE  \E sent : PassMade(s, sent, pages, fresh)
<1> DEFINE t == CancelQueued(s, cancelled)
           stops == CancelTargets(t, cancelled)
           sent == Sent(t, fresh, q)
<1>1. /\ state' = DispatchPass(t, pages, fresh, q)
      /\ toBridge' = toBridge \cup {Dispatch(c) : c \in sent}
                              \cup {CancelRequest(c) : c \in stops}
  BY DEF DispatchPending
<1>2. \A c \in Command :
         /\ t[c] = IF s[c] = "queued" /\ RunOf[c] \in cancelled THEN "cancelled" ELSE s[c]
         /\ Occupied(t, c) <=> Occupied(s, c)
  <2>1. \A c \in Command : Occupied(t, c) <=> Occupied(s, c)
    BY CancelQueuedOccupied
  <2>2. \A c \in Command :
           t[c] = IF s[c] = "queued" /\ RunOf[c] \in cancelled THEN "cancelled" ELSE s[c]
    BY DEF CancelQueued
  <2> QED
    BY <2>1, <2>2
<1> HIDE DEF t, stops
<1>3. sent \subseteq Command
  BY DEF Sent
<1>4. \A c \in sent :
         /\ s[c] = "queued"
         /\ RunOf[c] \notin cancelled /\ RunOf[c] \in fresh
         /\ InSession(c) /\ ~Occupied(s, c)
  BY <1>2, <1>3 DEF Sent, Sendable, Examined
<1>5. \A c, d \in sent : SameTab(c, d) => c = d
  <2> SUFFICES ASSUME NEW c \in sent, NEW d \in sent, SameTab(c, d) PROVE c = d
    OBVIOUS
  <2>1. c \in Command /\ d \in Command /\ SameTab(d, c)
    BY <1>3 DEF SameTab
  <2>2. q[c] <= q[d] /\ q[d] <= q[c]
    BY <2>1 DEF Sent
  <2>3. q[c] = q[d]
    BY <2>1, <2>2
  <2> QED
    BY <2>1, <2>3, <1>4
<1>6. \A c \in Command :
         state'[c] = IF c \in sent THEN "delivered"
                     ELSE IF c \in Refused(t, pages, fresh, q) THEN "rejected" ELSE t[c]
  BY <1>1 DEF DispatchPass
<1>7. \A c \in Refused(t, pages, fresh, q) : t[c] = "queued" /\ RunOf[c] \notin pages
  BY DEF Refused, Examined
<1>8. \A c \in Command : RunOf[c] \in cancelled => t[c] # "queued"
  BY <1>2
<1>9. ASSUME NEW c \in Command,
             s[c] = "queued", RunOf[c] \notin cancelled, RunOf[c] \notin pages,
             ~Occupied(s, c), \A d \in sent : ~SameTab(c, d)
      PROVE  state'[c] = "rejected"
  <2>1. Examined(t, c)
    BY <1>2, <1>9 DEF Examined
  <2>2. c \in Refused(t, pages, fresh, q)
    BY <1>9, <2>1 DEF Refused
  <2>3. c \notin sent
    BY <1>9 DEF SameTab
  <2> QED
    BY <1>6, <2>2, <2>3
<1>10. \A c \in Command :
          Dispatch(c) \in toBridge' => Dispatch(c) \in toBridge \/ c \in sent
  BY <1>1, DispatchIsNoOther
<1> HIDE DEF sent
<1>11. \A c \in Command :
          s[c] = "queued" /\ RunOf[c] \in cancelled => state'[c] = "cancelled"
  BY <1>2, <1>4, <1>6, <1>7, <1>8
<1>12. \A c \in Command \ sent :
          \/ state'[c] = s[c]
          \/ s[c] = "queued" /\ state'[c] = "cancelled"
          \/ s[c] = "queued" /\ state'[c] = "rejected" /\ RunOf[c] \notin pages
  BY <1>2, <1>6, <1>7
<1>13. \A c \in sent : state'[c] = "delivered"
  BY <1>3, <1>6
<1>14. PassMade(s, sent, pages, fresh)
  BY <1>3, <1>4, <1>5, <1>9, <1>10, <1>11, <1>12, <1>13 DEF PassMade
<1> QED
  BY <1>14

\* A pass that starts from a ledger with one command per tab, sends no command
\* that is astray and leaves none of those of the current session queued.
LEMMA PassOrder ==
    ASSUME TypeOK, OrderInv, UNCHANGED <<phase, executed, starts, pendingResult,
                                         session, binding, cancelled>>,
           toCore' \subseteq toCore,
           NEW s, NEW sent, NEW pages, NEW fresh, PassMade(s, sent, pages, fresh),
           \A c \in Command : s[c] = "absent" => state[c] = "absent",
           \A c \in Command : s[c] = "queued" => state[c] \in {"queued", "absent"},
           \A c \in Command : s[c] \in InBrowser => state[c] \in InBrowser,
           \A c \in Command : Astray(c) /\ InSession(c) =>
                 c \notin sent /\ state'[c] # "queued"
    PROVE  /\ AbsentUntouched' /\ DispatchedOnce' /\ AstrayAlone'
           /\ AstrayUncancelled' /\ OneCommandPerTab'
<1> USE DEF OrderInv
<1>0. \A c \in Command :
         /\ InSession(c)' <=> InSession(c)
         /\ \A d \in Command : SameTab(c, d)' <=> SameTab(c, d)
         /\ \A d \in Command : SameTab(c, d) <=> SameTab(d, c)
  BY DEF InSession, SameTab
<1>1. \A c \in Command : Touched(c)' => Touched(c) \/ c \in sent
  BY CoreTouches DEF PassMade
<1>2. \A c \in sent : ~Touched(c) /\ c \in Command
  <2> SUFFICES ASSUME NEW c \in sent PROVE ~Touched(c) /\ c \in Command
    OBVIOUS
  <2>1. c \in Command /\ s[c] = "queued" /\ InSession(c)
    BY DEF PassMade
  <2> QED
    BY <2>1 DEF Astray, AbsentUntouched
<1>3. \A c \in Command : state'[c] = "absent" => state[c] = "absent" /\ c \notin sent
  BY DEF PassMade
<1>4. AbsentUntouched'
  BY <1>1, <1>3 DEF AbsentUntouched
<1>5. DispatchedOnce'
  <2> SUFFICES ASSUME NEW c \in Command
               PROVE  /\ Dispatch(c) \in toBridge'
                         => phase'[c] = "idle" /\ executed'[c] = 0 /\ ~Recorded(c)'
                      /\ phase'[c] \in BeforeAction => executed'[c] = 0
                      /\ executed'[c] \in {0, 1}
    BY DEF DispatchedOnce
  <2>1. CASE c \in sent
    <3>1. phase[c] = "idle" /\ ~(executed[c] > 0) /\ ~Recorded(c)'
      BY <2>1, <1>2, CoreRecords DEF Touched
    <3>2. executed[c] \in Nat
      BY DEF TypeOK, BridgeTypeOK
    <3>3. executed[c] = 0
      BY <3>1, <3>2
    <3> QED
      BY <3>1, <3>3
  <2>2. CASE c \notin sent
    <3>1. Dispatch(c) \in toBridge' => Dispatch(c) \in toBridge
      BY <2>2 DEF PassMade
    <3> QED
      BY <3>1, CoreRecords DEF DispatchedOnce
  <2> QED
    BY <2>1, <2>2
<1>6. \A c \in Command : state'[c] = "queued" => s[c] = "queued" /\ c \notin sent
  BY DEF PassMade
<1>7. \A c \in Command : Astray(c)' => Astray(c) /\ state'[c] = "queued"
  BY <1>1, <1>6 DEF Astray, AbsentUntouched
<1>8. AstrayAlone'
  BY <1>0, <1>7 DEF AstrayAlone
<1>9. AstrayUncancelled'
  BY <1>6, <1>7 DEF AstrayUncancelled
<1>10. \A c \in Command : state'[c] \in InBrowser => c \in sent \/ s[c] \in InBrowser
  BY DEF PassMade, InBrowser
<1>11. \A c \in sent, d \in Command : s[d] \in InBrowser => ~SameTab(c, d)
  BY DEF PassMade, Occupied
<1>12. \A c, d \in sent : SameTab(c, d) => c = d
  BY DEF PassMade
<1>13. OneCommandPerTab'
  <2> SUFFICES ASSUME NEW c \in Command, NEW d \in Command, SameTab(c, d),
                      state'[c] \in InBrowser, state'[d] \in InBrowser
               PROVE  c = d
    BY <1>0 DEF OneCommandPerTab
  <2> QED
    BY <1>0, <1>10, <1>11, <1>12 DEF OneCommandPerTab
<1> QED
  BY <1>4, <1>5, <1>8, <1>9, <1>13

----
(* What a step does to one command, apart from the invariant. *)

\* Its life goes forward.
LifeMoves(c) ==
    \/ state'[c] = state[c]
    \/ state[c] \in Pending /\ state'[c] \in Pending \cup Status
    \/ state[c] = "absent" /\ state'[c] \in Pending \cup {"cancelled"}

\* Its page action is started at most once, and only after it was enqueued.
ActMoves(c) ==
    \/ executed'[c] = executed[c]
    \/ state[c] # "absent" /\ executed[c] = 0 /\ executed'[c] = 1

\* The engine hears of it once, and a confirmed outcome is the decision.
ToldMoves(c) ==
    \/ outcome'[c] = outcome[c]
    \/ /\ outcome[c] = None
       /\ \/ outcome'[c] \notin Ledger!Confirmed
          \/ outcome'[c] = state[c] /\ state[c] \in Status

\* It does not get to the browser once its run is cancelled.
StaysOut(c) ==
    RunOf[c] \in cancelled /\ state[c] \in {"absent", "queued"}
    => state'[c] \notin InBrowser

Moves == \A c \in Command : LifeMoves(c) /\ ActMoves(c) /\ ToldMoves(c) /\ StaysOut(c)

\* A step that only decides commands.
Settles == \A c \in Command : \/ state'[c] = state[c]
                              \/ state[c] \in Pending /\ state'[c] \in Status

LEMMA SettlesOut ==
    ASSUME Settles, NEW c \in Command
    PROVE  /\ LifeMoves(c)
           /\ StaysOut(c)
           /\ state'[c] = "queued" => state[c] = "queued"
           /\ state'[c] = "absent" => state[c] = "absent"
           /\ state[c] = "absent" => state'[c] = "absent"
           /\ state'[c] \in InBrowser => state[c] \in InBrowser
BY DEF Settles, LifeMoves, StaysOut, Pending, InBrowser, Status

\* A step of Core that sends no dispatch and lets no page in.
LEMMA CoreQuiet ==
    ASSUME TypeOK, OrderInv, UNCHANGED <<phase, executed, starts, pendingResult,
                                         binding, session, commandSeq>>,
           toCore' \subseteq toCore,
           \A c \in Command : Dispatch(c) \in toBridge' => Dispatch(c) \in toBridge,
           coreConn' \in {coreConn, "none"}, current' \subseteq current,
           \A c \in Command : state'[c] = "queued" => state[c] = "queued",
           \A c \in Command : state'[c] = "absent" => state[c] = "absent",
           \A c \in Command : state[c] = "absent" => state'[c] = "absent",
           \A c \in Command : state'[c] \in InBrowser =>
                 state[c] \in InBrowser \/ (Astray(c) /\ InSession(c)),
           \A c \in Command : state'[c] = "queued" /\ RunOf[c] \in cancelled'
                 => RunOf[c] \in cancelled,
           Awaited'
    PROVE  OrderInv'
<1>1. /\ \A c \in Command : Touched(c)' => Touched(c)
      /\ \A c \in Command : InSession(c)' => InSession(c)
      /\ \A c, d \in Command : SameTab(c, d)' => SameTab(c, d)
      /\ coreConn' = "ready" => coreConn = "ready"
  BY CoreTouches DEF InSession, SameTab
<1>2. AbsentUntouched' /\ AstrayAlone' /\ AstrayUncancelled' /\ OneCommandPerTab'
  BY <1>1, QuietOrder
<1>3. Numbered'
  BY DEF OrderInv, Numbered
<1>4. SessionsPast'
  BY DEF OrderInv, SessionsPast
<1>5. DispatchedOnce'
  BY CoreOnce DEF OrderInv
<1> QED
  BY <1>2, <1>3, <1>4, <1>5 DEF OrderInv

\* ... and only decides commands.
LEMMA CoreSettles ==
    ASSUME TypeOK, OrderInv, UNCHANGED <<phase, executed, starts, pendingResult,
                                         binding, session, commandSeq>>,
           toCore' \subseteq toCore,
           \A c \in Command : Dispatch(c) \in toBridge' => Dispatch(c) \in toBridge,
           coreConn' \in {coreConn, "none"}, current' \subseteq current, Settles,
           \A c \in Command : state'[c] = "queued" /\ RunOf[c] \in cancelled'
                 => RunOf[c] \in cancelled,
           Awaited', \A c \in Command : ToldMoves(c)
    PROVE  OrderInv' /\ Moves
<1>1. OrderInv'
  BY SettlesOut, CoreQuiet
<1>2. Moves
  BY SettlesOut DEF Moves, ActMoves
<1> QED
  BY <1>1, <1>2

\* The engine is told of an attempt it has not heard of.
LEMMA TellMoves ==
    ASSUME TypeOK, NEW c \in Command, NEW o, Tell(c, o), outcome[c] = None,
           o \notin Ledger!Confirmed \/ (o = state[c] /\ state[c] \in Status)
    PROVE  \A d \in Command : ToldMoves(d)
BY DEF Tell, ToldMoves, TypeOK, GatewayTypeOK

LEMMA UntoldMoves ==
    ASSUME UNCHANGED outcome
    PROVE  \A d \in Command : ToldMoves(d)
BY DEF ToldMoves

LEMMA RunStartsOrder ==
    ASSUME TypeOK, OrderInv, NEW r \in Run, RunStarts(r)
    PROVE  OrderInv' /\ Moves
<1>1. /\ coreConn = "ready" /\ binding[r] = 0
      /\ binding' = [binding EXCEPT ![r] = session]
      /\ UNCHANGED <<state, session, coreConn, cancelled, outcome, invoking, toBridge,
                     toCore, commandSeq, phase, executed, starts, pendingResult>>
  BY DEF RunStarts, StartRun, volatileVars, durableVars
<1>2. \A c \in Command : state[c] # "absent" => RunOf[c] # r /\ RunOf[c] \in Run
  BY <1>1, LinkAssumption DEF OrderInv, Numbered
<1>3. \A c \in Command : state[c] # "absent" => binding'[RunOf[c]] = binding[RunOf[c]]
  BY <1>1, <1>2 DEF TypeOK, GatewayTypeOK
<1>4. \A c \in Command : Touched(c)' => Touched(c)
  BY <1>1 DEF Touched, Recorded
<1>5. \A c \in Command : state'[c] # "absent" /\ InSession(c)' => InSession(c)
  BY <1>1, <1>3 DEF InSession
<1>6. \A c, d \in Command :
          state'[c] # "absent" /\ state'[d] # "absent" /\ SameTab(c, d)' => SameTab(c, d)
  BY <1>1, <1>3 DEF SameTab
<1>7. AbsentUntouched' /\ AstrayAlone' /\ AstrayUncancelled' /\ OneCommandPerTab'
  BY <1>1, <1>4, <1>5, <1>6, QuietOrder
<1>8. Numbered'
  BY <1>1, <1>3 DEF OrderInv, Numbered
<1>9. SessionsPast'
  <2>1. \A q \in Run : binding'[q] <= session
    BY <1>1 DEF OrderInv, SessionsPast, TypeOK, GatewayTypeOK
  <2> QED
    BY <1>1, <2>1 DEF SessionsPast
<1>10. DispatchedOnce' /\ Awaited'
  BY <1>1, CoreOnce DEF OrderInv, Awaited
<1>11. Moves
  BY <1>1 DEF Moves, LifeMoves, ActMoves, ToldMoves, StaysOut, InBrowser
<1> QED
  BY <1>7, <1>8, <1>9, <1>10, <1>11 DEF OrderInv

LEMMA TellsOrder ==
    ASSUME TypeOK, OrderInv, NEW c \in Command, NEW o, Tell(c, o),
           invoking \in {c, None}, outcome[c] = None, invoking' = None,
           o \notin Ledger!Confirmed \/ (o = state[c] /\ state[c] \in Status),
           UNCHANGED <<state, session, coreConn, binding, current, cancelled, toBridge,
                       toCore, commandSeq, phase, executed, starts, pendingResult>>
    PROVE  OrderInv' /\ Moves
<1>1. \A d \in Command : ToldMoves(d)
  BY TellMoves
<1>2. Settles /\ Awaited'
  BY DEF Settles, Awaited
<1> QED
  BY <1>1, <1>2, CoreSettles

LEMMA DrainOrder ==
    ASSUME TypeOK, OrderInv, NEW c \in Command, Drain(c)
    PROVE  OrderInv' /\ Moves
<1>1. /\ \E o \in {"expired", "rejected"} : Tell(c, o)
      /\ Drainable(c)
      /\ UNCHANGED <<state, session, coreConn, binding, current, cancelled, invoking,
                     toBridge, toCore, commandSeq, phase, executed, starts, pendingResult>>
  BY DEF Drain, DrainExpired, DrainRefused, timerFrame, bridgeVars, volatileVars, durableVars
<1>2. invoking = None /\ outcome[c] = None
  BY <1>1 DEF Drainable
<1>3. PICK o \in {"expired", "rejected"} : Tell(c, o)
  BY <1>1
<1>4. o \notin Ledger!Confirmed
  BY DEF Ledger!Confirmed
<1> QED
  BY <1>1, <1>2, <1>3, <1>4, TellsOrder

LEMMA PollsOrder ==
    ASSUME TypeOK, OrderInv, NEW c \in Command, Polls(c)
    PROVE  OrderInv' /\ Moves
<1>1. /\ invoking = c /\ invoking' = None /\ state[c] \in Status /\ Tell(c, state[c])
      /\ UNCHANGED <<state, session, coreConn, binding, current, cancelled,
                     toBridge, toCore, commandSeq, phase, executed, starts, pendingResult>>
  BY DEF Polls, PollTerminal, timerFrame, bridgeVars, volatileVars, durableVars
<1>2. outcome[c] = None
  BY <1>1, LinkAssumption DEF OrderInv, Awaited
<1> QED
  BY <1>1, <1>2, TellsOrder

LEMMA AbortsOrder ==
    ASSUME TypeOK, OrderInv, NEW c \in Command, Aborts(c)
    PROVE  OrderInv' /\ Moves
<1>1. /\ invoking = c /\ invoking' = None /\ Tell(c, "timed_out")
      /\ state' = IF state[c] = "queued" THEN [state EXCEPT ![c] = "cancelled"] ELSE state
      /\ toBridge' = toBridge \/ toBridge' = toBridge \cup {CancelRequest(c)}
      /\ UNCHANGED <<session, coreConn, binding, current, cancelled,
                     toCore, commandSeq, phase, executed, starts, pendingResult>>
  BY DEF Aborts, InvokeDeadline, timerFrame, bridgeVars, volatileVars, durableVars
<1>2. outcome[c] = None
  BY <1>1, LinkAssumption DEF OrderInv, Awaited
<1>3. "timed_out" \notin Ledger!Confirmed
  BY DEF Ledger!Confirmed
<1>4. \A d \in Command : ToldMoves(d)
  BY <1>1, <1>2, <1>3, TellMoves
<1>5. Settles
  BY <1>1 DEF Settles, Pending, Status, TypeOK, GatewayTypeOK
<1>6. \A d \in Command : Dispatch(d) \in toBridge' => Dispatch(d) \in toBridge
  BY <1>1, DispatchIsNoOther
<1>7. Awaited'
  BY <1>1 DEF Awaited
<1> QED
  BY <1>1, <1>4, <1>5, <1>6, <1>7, CoreSettles

LEMMA CancelsOrder ==
    ASSUME TypeOK, OrderInv, NEW r \in Run, Cancels(r)
    PROVE  OrderInv' /\ Moves
<1>1. /\ cancelled' = cancelled \cup {r} /\ RequestCancel({r})
      /\ UNCHANGED <<session, coreConn, binding, current, outcome, invoking,
                     toCore, commandSeq, phase, executed, starts, pendingResult>>
  BY DEF Cancels, CancelRun, timerFrame, bridgeVars, volatileVars, durableVars
<1>2. \A d \in Command :
         state'[d] = IF state[d] = "queued" /\ RunOf[d] = r THEN "cancelled" ELSE state[d]
  BY <1>1 DEF RequestCancel, CancelQueued
<1>3. \A d \in Command : Dispatch(d) \in toBridge' => Dispatch(d) \in toBridge
  BY <1>1, DispatchIsNoOther DEF RequestCancel
<1>4. Settles
  BY <1>2 DEF Settles, Pending, Status
<1>5. \A d \in Command : state'[d] = "queued" /\ RunOf[d] \in cancelled'
                         => RunOf[d] \in cancelled
  BY <1>1, <1>2
<1>6. Awaited' /\ \A d \in Command : ToldMoves(d)
  BY <1>1, UntoldMoves DEF OrderInv, Awaited
<1> QED
  BY <1>1, <1>3, <1>4, <1>5, <1>6, CoreSettles

\* What a pass does to each command, when it starts from what it finds.
LEMMA PassMoves ==
    ASSUME NEW s, NEW sent, NEW pages, NEW fresh, PassMade(s, sent, pages, fresh),
           NEW c \in Command,
           \/ s[c] = state[c]
           \/ state[c] \in Pending /\ s[c] \in Status
           \/ state[c] = "absent" /\ s[c] = "queued" /\ RunOf[c] \in pages
    PROVE  LifeMoves(c) /\ StaysOut(c)
<1>1. CASE c \in sent
  BY <1>1 DEF PassMade, LifeMoves, StaysOut, Pending, InBrowser, Status
<1>2. CASE c \notin sent
  <2>1. \/ state'[c] = s[c]
        \/ s[c] = "queued" /\ state'[c] = "cancelled"
        \/ s[c] = "queued" /\ state'[c] = "rejected" /\ RunOf[c] \notin pages
    BY <1>2 DEF PassMade
  <2> QED
    BY <2>1 DEF LifeMoves, StaysOut, Pending, InBrowser, Status
<1> QED
  BY <1>1, <1>2

\* A step that makes a pass over the ledger s: what it found, after deadlines or
\* with one command enqueued.
LEMMA PassStep ==
    ASSUME TypeOK, OrderInv,
           UNCHANGED <<phase, executed, starts, pendingResult,
                       session, binding, cancelled, outcome, toCore>>,
           NEW s \in [Command -> CommandState], NEW pages, NEW fresh,
           DispatchPending(s, pages, fresh, commandSeq'),
           commandSeq' \in [Command -> Nat],
           \A c, d \in Command :
              commandSeq'[c] # 0 /\ commandSeq'[c] = commandSeq'[d] => c = d,
           \A c \in Command :
              s[c] # "absent" => commandSeq'[c] # 0 /\ binding[RunOf[c]] # 0,
           \A c \in Command :
              \/ s[c] = state[c]
              \/ state[c] \in Pending /\ s[c] \in Status
              \/ state[c] = "absent" /\ s[c] = "queued" /\ RunOf[c] \in pages,
           \A c \in Command, sent \in SUBSET Command :
              Astray(c) /\ InSession(c) /\ PassMade(s, sent, pages, fresh)
              => c \notin sent /\ state'[c] # "queued",
           SessionsPast', Awaited'
    PROVE  OrderInv' /\ Moves
<1>1. \A c, d \in Command :
         s[c] = "queued" /\ s[d] = "queued" /\ commandSeq'[c] = commandSeq'[d] => c = d
  OBVIOUS
<1>2. PICK sent : PassMade(s, sent, pages, fresh)
  BY <1>1, PassIsMade
<1>3. sent \in SUBSET Command
  BY <1>2 DEF PassMade
<1>4. \A c \in Command :
         /\ s[c] = "absent" => state[c] = "absent"
         /\ s[c] = "queued" => state[c] \in {"queued", "absent"}
         /\ s[c] \in InBrowser => state[c] \in InBrowser
  BY DEF InBrowser, Status
<1>5. /\ AbsentUntouched' /\ DispatchedOnce' /\ AstrayAlone'
      /\ AstrayUncancelled' /\ OneCommandPerTab'
  BY <1>2, <1>3, <1>4, PassOrder
<1>6. \A c \in Command : state'[c] # "absent" => s[c] # "absent"
  BY <1>2 DEF PassMade
<1>7. Numbered'
  BY <1>6 DEF Numbered
<1>8. Moves
  BY <1>2, PassMoves, UntoldMoves DEF Moves, ActMoves
<1> QED
  BY <1>5, <1>7, <1>8 DEF OrderInv

\* On a ready connection nothing is astray in the current session.
LEMMA ReadyIsClear ==
    ASSUME OrderInv, coreConn = "ready"
    PROVE  \A c \in Command : ~(Astray(c) /\ InSession(c))
BY DEF OrderInv, AstrayAlone

LEMMA TimeOutMoves ==
    ASSUME NEW c \in Command
    PROVE  TimeOut(state)[c] = state[c]
           \/ (state[c] \in Pending /\ TimeOut(state)[c] = "timed_out")
BY DEF TimeOut

LEMMA TicksOrder ==
    ASSUME TypeOK, OrderInv, Ticks
    PROVE  OrderInv' /\ Moves
<1>1. PICK fresh \in SUBSET current : Tick(fresh)
  BY DEF Ticks
<1>2. UNCHANGED <<session, coreConn, binding, current, cancelled, outcome, invoking,
                  toCore, commandSeq, phase, executed, starts, pendingResult>>
  BY <1>1 DEF Ticks, Tick, timerFrame, bridgeVars, volatileVars, durableVars
<1> DEFINE s == TimeOut(state)
<1>3. s \in [Command -> CommandState]
  BY TimeOutTyped DEF TypeOK, GatewayTypeOK
<1>4. \A c \in Command : s[c] = state[c] \/ (state[c] \in Pending /\ s[c] = "timed_out")
  BY TimeOutMoves
<1>5. SessionsPast' /\ Awaited'
  BY <1>2 DEF OrderInv, SessionsPast, Awaited
<1>6. CASE coreConn = "ready"
  <2>1. DispatchPending(s, current, fresh, commandSeq')
    BY <1>1, <1>2, <1>6 DEF Tick
  <2> HIDE DEF s
  <2>2. commandSeq' \in [Command -> Nat]
    BY <1>2 DEF TypeOK, LinkTypeOK
  <2>3. \A c \in Command : state[c] # "absent" => commandSeq'[c] # 0 /\ binding[RunOf[c]] # 0
    BY <1>2 DEF OrderInv, Numbered
  <2>4. \A c, d \in Command :
           commandSeq'[c] # 0 /\ commandSeq'[c] = commandSeq'[d] => c = d
    BY <1>2 DEF OrderInv, Numbered
  <2>5. \A c \in Command : s[c] # "absent" => state[c] # "absent"
    BY <1>4 DEF Pending, InBrowser
  <2>6. \A c \in Command : s[c] = state[c] \/ (state[c] \in Pending /\ s[c] \in Status)
    BY <1>4 DEF Status
  <2> QED
    BY <1>2, <1>3, <1>5, <1>6, <2>1, <2>2, <2>3, <2>4, <2>5, <2>6, ReadyIsClear, PassStep
<1>7. CASE coreConn # "ready"
  <2>1. state' = CancelQueued(s, cancelled) /\ UNCHANGED toBridge
    BY <1>1, <1>7 DEF Tick
  <2> HIDE DEF s
  <2>2. \A c \in Command :
           state'[c] = IF s[c] = "queued" /\ RunOf[c] \in cancelled THEN "cancelled" ELSE s[c]
    BY <2>1 DEF CancelQueued
  <2>3. Settles
    BY <1>4, <2>2 DEF Settles, Pending, Status
  <2> QED
    BY <1>2, <1>5, <2>1, <2>3, UntoldMoves, CoreSettles
<1> QED
  BY <1>6, <1>7

\* A pass that starts from the ledger as it is.
LEMMA PlainPass ==
    ASSUME TypeOK, OrderInv,
           UNCHANGED <<phase, executed, starts, pendingResult,
                       session, binding, cancelled, outcome, toCore, commandSeq>>,
           NEW pages, NEW fresh, DispatchPending(state, pages, fresh, commandSeq'),
           \A c \in Command, sent \in SUBSET Command :
              Astray(c) /\ InSession(c) /\ PassMade(state, sent, pages, fresh)
              => c \notin sent /\ state'[c] # "queued",
           SessionsPast', Awaited'
    PROVE  OrderInv' /\ Moves
<1>1. state \in [Command -> CommandState] /\ commandSeq' \in [Command -> Nat]
  BY DEF TypeOK, GatewayTypeOK, LinkTypeOK
<1>2. \A c \in Command : state[c] # "absent" => commandSeq'[c] # 0 /\ binding[RunOf[c]] # 0
  BY DEF OrderInv, Numbered
<1>3. \A c, d \in Command :
         commandSeq'[c] # 0 /\ commandSeq'[c] = commandSeq'[d] => c = d
  BY DEF OrderInv, Numbered
<1> QED
  BY <1>1, <1>2, <1>3, PassStep

LEMMA ObservesOrder ==
    ASSUME TypeOK, OrderInv, NEW t \in Tab, Observes(t)
    PROVE  OrderInv' /\ Moves
<1>1. PICK fresh \in SUBSET Run : HandleObservation(t, intact, fresh)
  BY DEF Observes
<1>2. /\ coreConn = "ready"
      /\ UNCHANGED <<session, coreConn, binding, cancelled, outcome, invoking,
                     toCore, commandSeq, phase, executed, starts, pendingResult>>
  BY <1>1 DEF Observes, HandleObservation, timerFrame, bridgeVars, volatileVars, durableVars
<1>3. SessionsPast' /\ Awaited'
  BY <1>2 DEF OrderInv, SessionsPast, Awaited
<1>4. PICK pages : DispatchPending(state, pages, fresh, commandSeq')
  BY <1>1, <1>2 DEF HandleObservation
<1> QED
  BY <1>2, <1>3, <1>4, ReadyIsClear, PlainPass

\* The first pass of a connection finds no page of its session current: it sends
\* nothing, and refuses what is astray.
LEMMA GetsReadyOrder ==
    ASSUME TypeOK, OrderInv, GetsReady
    PROVE  OrderInv' /\ Moves
<1>1. PICK fresh \in SUBSET current : HandleCapabilities(fresh)
  BY DEF GetsReady
<1>2. /\ coreConn = "session" /\ coreConn' = "ready"
      /\ DispatchPending(state, current, fresh, commandSeq')
      /\ UNCHANGED <<session, binding, current, cancelled, outcome, invoking,
                     toCore, commandSeq, phase, executed, starts, pendingResult>>
  BY <1>1 DEF GetsReady, HandleCapabilities, timerFrame, bridgeVars, volatileVars, durableVars
<1>3. SessionsPast' /\ Awaited'
  BY <1>2 DEF OrderInv, SessionsPast, Awaited
<1>4. ASSUME NEW c \in Command, NEW sent \in SUBSET Command,
             Astray(c), InSession(c), PassMade(state, sent, current, fresh)
      PROVE  c \notin sent /\ state'[c] # "queued"
  <2>1. \A d \in Command : InSession(d) => RunOf[d] \notin current
    BY <1>2 DEF OrderInv, SessionsPast, InSession
  <2>2. sent = {}
    BY <1>4, <2>1 DEF PassMade
  <2>3. state[c] = "queued" /\ RunOf[c] \notin cancelled /\ ~Occupied(state, c)
    BY <1>4 DEF Astray, OrderInv, AstrayUncancelled, AstrayAlone
  <2>4. state'[c] = "rejected"
    BY <1>4, <2>1, <2>2, <2>3 DEF PassMade
  <2> QED
    BY <2>2, <2>4
<1> QED
  BY <1>2, <1>3, <1>4, PlainPass

\* MAX(command_seq) + 1 is nobody's.
LEMMA EnqueuedNumber ==
    ASSUME TypeOK, OrderInv, NEW c \in Command, Enqueued(c)
    PROVE  /\ commandSeq' \in [Command -> Nat]
           /\ \A d \in Command : d = c \/ commandSeq[d] # 0 => commandSeq'[d] # 0
           /\ \A d, e \in Command :
                 commandSeq'[d] # 0 /\ commandSeq'[d] = commandSeq'[e] => d = e
<1>1. commandSeq \in [Command -> Nat]
  BY DEF TypeOK, LinkTypeOK
<1>2. PICK n \in {commandSeq[d] + 1 : d \in Command} :
         NextSeq(n) /\ commandSeq' = [commandSeq EXCEPT ![c] = n]
  BY DEF Enqueued
<1>3. \A d \in Command : commandSeq[d] \in Nat /\ commandSeq[d] < n
  BY <1>1, <1>2 DEF NextSeq
<1>4. n \in Nat
  BY <1>1
<1>5. n # 0 /\ \A d \in Command : commandSeq[d] # n
  BY <1>4, <1>3
<1>6. \A d \in Command : commandSeq'[d] = IF d = c THEN n ELSE commandSeq[d]
  BY <1>1, <1>2
<1> QED
  BY <1>1, <1>2, <1>4, <1>5, <1>6 DEF OrderInv, Numbered

LEMMA InvokesOrder ==
    ASSUME TypeOK, OrderInv, NEW c \in Command, Invokes(c)
    PROVE  OrderInv' /\ Moves
<1>1. PICK fresh \in SUBSET current : Invoke(c, fresh)
  BY DEF Invokes
<1>2. /\ Drainable(c) /\ RunOf[c] \in current /\ invoking' = c
      /\ UNCHANGED <<session, coreConn, binding, current, cancelled, outcome,
                     toCore, phase, executed, starts, pendingResult>>
  BY <1>1 DEF Invokes, Invoke, timerFrame, bridgeVars, volatileVars, durableVars
<1> DEFINE s == IF state[c] = "absent" THEN [state EXCEPT ![c] = "queued"] ELSE state
<1>3. s \in [Command -> CommandState]
  BY DEF TypeOK, GatewayTypeOK, CommandState, Pending
<1>4. \A d \in Command :
         \/ s[d] = state[d]
         \/ state[d] = "absent" /\ s[d] = "queued" /\ d = c
  BY DEF TypeOK, GatewayTypeOK
<1>5. /\ IF state[c] = "absent" THEN Enqueued(c) ELSE UNCHANGED commandSeq
      /\ IF coreConn = "ready" THEN DispatchPending(s, current, fresh, commandSeq')
         ELSE state' = s /\ UNCHANGED <<cancelSent, toBridge>>
  BY <1>1 DEF Invoke
<1>6. /\ commandSeq' \in [Command -> Nat]
      /\ \A d \in Command : s[d] # "absent" => commandSeq'[d] # 0 /\ binding[RunOf[d]] # 0
      /\ \A d, e \in Command :
            commandSeq'[d] # 0 /\ commandSeq'[d] = commandSeq'[e] => d = e
  <2>1. binding[RunOf[c]] # 0
    BY <1>2 DEF Drainable, Scheduled
  <2>2. \A d \in Command : state[d] # "absent" => commandSeq[d] # 0 /\ binding[RunOf[d]] # 0
    BY DEF OrderInv, Numbered
  <2> HIDE DEF s
  <2>3. CASE state[c] = "absent"
    BY <1>4, <1>5, <2>1, <2>2, <2>3, EnqueuedNumber
  <2>4. CASE state[c] # "absent"
    <3>1. \A d \in Command : s[d] = state[d]
      BY <1>4, <2>4
    <3>2. UNCHANGED commandSeq
      BY <1>5, <2>4
    <3> QED
      BY <2>2, <3>1, <3>2 DEF TypeOK, LinkTypeOK, OrderInv, Numbered
  <2> QED
    BY <2>3, <2>4
<1>7. SessionsPast' /\ Awaited'
  BY <1>2 DEF OrderInv, SessionsPast, Awaited, Drainable
<1> HIDE DEF s
<1>8. CASE coreConn = "ready"
  <2>1. DispatchPending(s, current, fresh, commandSeq')
    BY <1>5, <1>8
  <2>2. \A d \in Command :
           \/ s[d] = state[d]
           \/ state[d] = "absent" /\ s[d] = "queued" /\ RunOf[d] \in current
    BY <1>2, <1>4
  <2> QED
    BY <1>2, <1>3, <1>6, <1>7, <1>8, <2>1, <2>2, ReadyIsClear, PassStep
<1>9. CASE coreConn # "ready"
  <2>1. state' = s /\ UNCHANGED toBridge
    BY <1>5, <1>9
  <2>2. \A d \in Command : Touched(d)' => Touched(d)
    BY <1>2, <2>1 DEF Touched, Recorded
  <2>3. /\ \A d \in Command : InSession(d)' => InSession(d)
        /\ \A d, e \in Command : SameTab(d, e)' => SameTab(d, e)
    BY <1>2 DEF InSession, SameTab
  <2>4. \A d \in Command : /\ state'[d] = "queued" => state[d] \in {"queued", "absent"}
                           /\ state'[d] = "absent" => state[d] = "absent"
                           /\ state'[d] \in InBrowser => state[d] \in InBrowser
    BY <1>4, <2>1 DEF InBrowser
  <2>5. AbsentUntouched' /\ AstrayAlone' /\ AstrayUncancelled' /\ OneCommandPerTab'
    BY <1>2, <1>9, <2>2, <2>3, <2>4, QuietOrder
  <2>6. Numbered'
    BY <1>2, <1>6, <2>1 DEF Numbered
  <2>7. DispatchedOnce'
    BY <1>2, <2>1, CoreOnce DEF OrderInv
  <2>8. Moves
    BY <1>2, <1>4, <2>1, UntoldMoves
    DEF Moves, LifeMoves, ActMoves, StaysOut, Pending, InBrowser
  <2> QED
    BY <1>7, <2>5, <2>6, <2>7, <2>8 DEF OrderInv
<1> QED
  BY <1>8, <1>9

\* A resumed session starts without pages; a new one has no commands.
LEMMA HelloOrder ==
    ASSUME TypeOK, OrderInv, Hello
    PROVE  OrderInv' /\ Moves
<1>1. /\ toCore' \subseteq toCore /\ coreConn' = "session"
      /\ session' = IF tokenFresh THEN session ELSE session + 1
      /\ current' = IF tokenFresh THEN {} ELSE current
      /\ toBridge' \subseteq toBridge \cup {SessionWelcome, SessionResume}
      /\ UNCHANGED <<state, binding, cancelled, outcome, invoking, commandSeq,
                     phase, executed, starts, pendingResult>>
  BY DEF Hello, HandleHello, bridgeVars, volatileVars, durableVars
<1>2. \A c \in Command : Dispatch(c) \in toBridge' => Dispatch(c) \in toBridge
  BY <1>1, DispatchIsNoOther
<1>3. \A c \in Command : Touched(c)' => Touched(c)
  BY <1>1, <1>2, CoreTouches
<1>4. \A r \in Run : binding[r] <= session /\ binding[r] \in Nat /\ session \in Nat
  BY DEF OrderInv, SessionsPast, TypeOK, GatewayTypeOK
<1>5. \A r \in Run : binding[r] # session + 1 /\ binding[r] <= session + 1
  BY <1>4
<1>6. \A c \in Command : InSession(c)' => InSession(c)
  BY <1>1, <1>5, LinkAssumption DEF InSession
<1>7. \A c, d \in Command : SameTab(c, d)' => SameTab(c, d)
  BY <1>1 DEF SameTab
<1>8. \A c \in Command : state'[c] \in InBrowser => state[c] \in InBrowser
  BY <1>1
<1>9. AbsentUntouched' /\ AstrayAlone' /\ AstrayUncancelled' /\ OneCommandPerTab'
  BY <1>1, <1>3, <1>6, <1>7, <1>8, QuietOrder
<1>10. SessionsPast'
  <2>1. current \subseteq Run
    BY DEF TypeOK, GatewayTypeOK
  <2> QED
    BY <1>1, <1>4, <1>5, <2>1 DEF SessionsPast
<1>11. Numbered' /\ DispatchedOnce' /\ Awaited'
  BY <1>1, <1>2, CoreOnce DEF OrderInv, Numbered, Awaited
<1>12. Moves
  BY <1>1, UntoldMoves DEF Moves, LifeMoves, ActMoves, StaysOut, InBrowser
<1> QED
  BY <1>9, <1>10, <1>11, <1>12 DEF OrderInv

\* An acknowledgement brings a command to the browser that is there already or is
\* astray in the current session.
LEMMA GetsAckOrder ==
    ASSUME TypeOK, OrderInv, NEW c \in Command, NEW ok \in BOOLEAN, GetsAck(c, ok)
    PROVE  OrderInv' /\ Moves
<1>1. /\ Ack(c, ok) \in toCore /\ toCore' \subseteq toCore
      /\ state' = IF state[c] \in Pending /\ InSession(c)
                  THEN [state EXCEPT ![c] = IF ok THEN "accepted" ELSE "rejected"]
                  ELSE state
      /\ UNCHANGED <<session, coreConn, binding, current, cancelled, outcome, invoking,
                     toBridge, commandSeq, phase, executed, starts, pendingResult>>
  BY DEF GetsAck, ReceiveAck, Receive, handlerFrame, bridgeVars, volatileVars, durableVars
<1>2. \A d \in Command :
         \/ state'[d] = state[d]
         \/ /\ d = c /\ state[d] \in Pending /\ InSession(d)
            /\ state'[d] \in {"accepted", "rejected"}
  BY <1>1 DEF TypeOK, GatewayTypeOK
<1>3. Touched(c)
  BY <1>1 DEF Touched
<1>4. \A d \in Command : state'[d] \in InBrowser =>
         state[d] \in InBrowser \/ (Astray(d) /\ InSession(d))
  BY <1>2, <1>3 DEF Astray, Pending, InBrowser
<1>5. \A d \in Command : /\ state'[d] = "queued" => state[d] = "queued"
                         /\ state'[d] = "absent" => state[d] = "absent"
                         /\ state[d] = "absent" => state'[d] = "absent"
  BY <1>2 DEF Pending, InBrowser
<1>6. Awaited'
  BY <1>1 DEF OrderInv, Awaited
<1>7. OrderInv'
  BY <1>1, <1>4, <1>5, <1>6, CoreQuiet
<1>8. \A d \in Command : LifeMoves(d)
  BY <1>2 DEF LifeMoves, Pending, InBrowser, Status
<1>9. \A d \in Command : StaysOut(d)
  <2>1. \A d \in Command : Astray(d) => RunOf[d] \notin cancelled
    BY DEF OrderInv, AstrayUncancelled
  <2> QED
    BY <1>4, <2>1 DEF StaysOut, InBrowser
<1> QED
  BY <1>1, <1>7, <1>8, <1>9, UntoldMoves DEF Moves, ActMoves

LEMMA GetsResultOrder ==
    ASSUME TypeOK, OrderInv, NEW c \in Command, NEW r \in Result, GetsResult(c, r)
    PROVE  OrderInv' /\ Moves
<1>1. /\ toCore' \subseteq toCore
      /\ toBridge' \subseteq toBridge \cup {ResultAck(c, Acceptable(c, r))}
      /\ state' = state \/ (state[c] \in Pending /\ state' = [state EXCEPT ![c] = r.status])
      /\ UNCHANGED <<session, coreConn, binding, current, cancelled, outcome, invoking,
                     commandSeq, phase, executed, starts, pendingResult>>
  BY DEF GetsResult, ReceiveResult, Receive, handlerFrame, bridgeVars, volatileVars, durableVars
<1>2. \A d \in Command : Dispatch(d) \in toBridge' => Dispatch(d) \in toBridge
  BY <1>1, DispatchIsNoOther
<1>3. Settles
  BY <1>1 DEF Settles, Result, TypeOK, GatewayTypeOK
<1>4. Awaited'
  BY <1>1 DEF OrderInv, Awaited
<1> QED
  BY <1>1, <1>2, <1>3, <1>4, UntoldMoves, CoreSettles

LEMMA GetsStopOrder ==
    ASSUME TypeOK, OrderInv, NEW c \in Command, GetsStop(c)
    PROVE  OrderInv' /\ Moves
<1>1. /\ toCore' \subseteq toCore
      /\ state' = state \/ (state[c] \in Pending /\ state' = [state EXCEPT ![c] = "cancelled"])
      /\ UNCHANGED <<session, coreConn, binding, current, cancelled, outcome, invoking,
                     toBridge, commandSeq, phase, executed, starts, pendingResult>>
  BY DEF GetsStop, ReceiveCancelEffective, Receive, handlerFrame, bridgeVars, volatileVars,
         durableVars
<1>2. Settles
  BY <1>1 DEF Settles, Status, TypeOK, GatewayTypeOK
<1>3. Awaited'
  BY <1>1 DEF OrderInv, Awaited
<1> QED
  BY <1>1, <1>2, <1>3, UntoldMoves, CoreSettles

LEMMA GetsEvidenceOrder ==
    ASSUME TypeOK, OrderInv, NEW c \in Command, GetsEvidence(c)
    PROVE  OrderInv' /\ Moves
<1>1. /\ toCore' \subseteq toCore
      /\ \E ok \in BOOLEAN : toBridge' = toBridge \cup {EvidenceAck(c, ok)}
      /\ UNCHANGED <<state, session, coreConn, binding, current, cancelled, outcome,
                     invoking, commandSeq, phase, executed, starts, pendingResult>>
  BY DEF GetsEvidence, ReceiveEvidence, Receive, handlerFrame, bridgeVars, volatileVars, durableVars
<1>2. \A d \in Command : Dispatch(d) \in toBridge' => Dispatch(d) \in toBridge
  BY <1>1, DispatchIsNoOther
<1>3. Settles /\ Awaited'
  BY <1>1 DEF Settles, OrderInv, Awaited
<1> QED
  BY <1>1, <1>2, <1>3, UntoldMoves, CoreSettles

LEMMA CoreOrder ==
    ASSUME TypeOK, OrderInv, CoreNext
    PROVE  OrderInv' /\ Moves
BY RunStartsOrder, CancelsOrder, DrainOrder, InvokesOrder, PollsOrder, AbortsOrder,
   GetsStopOrder, GetsEvidenceOrder, GetsAckOrder, GetsResultOrder, ObservesOrder,
   TicksOrder, HelloOrder, GetsReadyOrder
DEF CoreNext

----
(* What the steps of the bridge do to a command. *)

\* A result with this status is stored or on its way to Core.
Says(c, status) ==
    \/ pendingResult[c] # None /\ pendingResult[c].status = status
    \/ \E r \in Result : ResultMsg(c, r) \in toCore /\ r.status = status

\* The bridge records only what it has heard of.
RecordFollows(c) ==
    Recorded(c)' => \/ Recorded(c)
                    \/ phase[c] # "idle"
                    \/ Dispatch(c) \in toBridge /\ Dispatch(c) \notin toBridge'

\* The phases of a handler without a stored result.
Unanswered == BeforeAction \cup {"executing"}

USE DEF Unanswered

BridgeMoves(c) ==
    \* Results come from handlers that end.
    /\ Says(c, "failed")'
       => Says(c, "failed") \/ (phase[c] # "idle" /\ phase'[c] = "saved")
    /\ Says(c, "timed_out")' => Says(c, "timed_out")
    /\ RecordFollows(c)
    \* A handler starts with a dispatch, leaves a record at every stage, and passes
    \* the deadline check before the deadline.
    /\ phase'[c] \in BeforeAction
       => phase[c] \in BeforeAction \/ Dispatch(c) \in toBridge
    /\ phase'[c] \in Unanswered => phase[c] \in Unanswered \/ c \in starts'
    /\ phase'[c] = "saved" => phase[c] = "saved" \/ pendingResult'[c] # None
    /\ phase'[c] = "checked" => phase[c] = "checked"
                                \/ (phase[c] = "pacing" /\ c \notin expired)
    /\ executed'[c] # executed[c]
       => /\ phase[c] = "cleared" /\ phase'[c] = "executing"
          /\ c \in GuardedCommand => c \notin expired
    \* A start record goes when the result is stored, or before the action.
    /\ c \in starts /\ c \notin starts'
       => \/ pendingResult'[c] # None
          \/ phase[c] = "saved"
          \/ phase[c] = "pacing" /\ phase'[c] = "idle"
    /\ pendingResult[c] # None /\ pendingResult'[c] = None
       => ResultAck(c, TRUE) \in toBridge \/ commandSeq[c] <= ackedSeq
    /\ c \in cancelMarks' => c \in cancelMarks \/ CancelRequest(c) \in toBridge

\* No result gets on its way but stored ones and those of interrupted commands.
Sends(c) ==
    \A r \in Result : ResultMsg(c, r) \in toCore' =>
        \/ ResultMsg(c, r) \in toCore
        \/ pendingResult[c] # None /\ r = pendingResult[c]
        \/ c \in starts /\ r.status = "uncertain"

\* No result is stored but those of interrupted commands.
Keeps(c) ==
    \/ pendingResult'[c] = pendingResult[c]
    \/ pendingResult'[c] = None
    \/ c \in starts /\ pendingResult'[c] = Interrupted

LEMMA InterruptedIsResult == Interrupted \in Result /\ Interrupted # None
<1>1. Interrupted \in Result
  BY DEF Interrupted, Result, Status
<1> QED
  BY <1>1, AnswerAssumption

LEMMA SavedIsResult ==
    ASSUME NEW status \in Status
    PROVE  [status |-> status, evidence |-> TRUE] # None
<1>1. [status |-> status, evidence |-> TRUE] \in Result
  BY DEF Result
<1> QED
  BY <1>1, AnswerAssumption

LEMMA SaysNothingNew ==
    ASSUME NEW c \in Command, Sends(c), Keeps(c)
    PROVE  /\ Says(c, "failed")' => Says(c, "failed")
           /\ Says(c, "timed_out")' => Says(c, "timed_out")
           /\ Recorded(c)' => Recorded(c) \/ c \in starts'
<1>1. Interrupted.status = "uncertain"
  BY DEF Interrupted
<1>2. ASSUME NEW s \in {"failed", "timed_out"}, Says(c, s)' PROVE Says(c, s)
  <2>1. CASE pendingResult'[c] # None /\ pendingResult'[c].status = s
    BY <1>1, <2>1 DEF Keeps, Says
  <2>2. ASSUME NEW r \in Result, ResultMsg(c, r) \in toCore', r.status = s PROVE Says(c, s)
    BY <2>2 DEF Sends, Says
  <2> QED
    BY <1>2, <2>1, <2>2 DEF Says
<1>3. ASSUME Recorded(c)', c \notin starts' PROVE Recorded(c)
  BY <1>3 DEF Recorded, Sends, Keeps
<1> QED
  BY <1>2, <1>3

\* A handler that stores nothing, starts nothing and finishes nothing.
LEMMA MessageMoves ==
    ASSUME NEW c \in Command, Sends(c), Keeps(c),
           UNCHANGED <<phase, executed, starts>>,
           pendingResult[c] # None /\ pendingResult'[c] = None
           => ResultAck(c, TRUE) \in toBridge \/ commandSeq[c] <= ackedSeq,
           c \in cancelMarks' => c \in cancelMarks \/ CancelRequest(c) \in toBridge
    PROVE  BridgeMoves(c)
<1>1. Recorded(c)' => Recorded(c)
  BY SaysNothingNew DEF Recorded
<1> QED
  BY <1>1, SaysNothingNew DEF BridgeMoves, RecordFollows

\* A handler at work on c leaves the others alone.
LEMMA AsideMoves ==
    ASSUME NEW c \in Command, Sends(c),
           phase'[c] = phase[c], executed'[c] = executed[c],
           pendingResult'[c] = pendingResult[c],
           c \in starts' <=> c \in starts, c \in cancelMarks' => c \in cancelMarks
    PROVE  BridgeMoves(c)
<1>1. Recorded(c)' => Recorded(c)
  BY SaysNothingNew DEF Recorded, Keeps
<1>2. /\ Says(c, "failed")' => Says(c, "failed")
      /\ Says(c, "timed_out")' => Says(c, "timed_out")
  BY SaysNothingNew DEF Keeps
<1> QED
  BY <1>1, <1>2 DEF BridgeMoves, RecordFollows

\* A handler stores a result.
LEMMA SaveMoves ==
    ASSUME TypeOK, NEW d \in Command, NEW status \in Status, status # "timed_out",
           SaveResult(d, status), phase[d] # "idle",
           UNCHANGED executed, toCore' \subseteq toCore,
           starts' \in {starts, starts \ {d}}, cancelMarks' \subseteq cancelMarks
    PROVE  \A c \in Command : BridgeMoves(c)
<1> SUFFICES ASSUME NEW c \in Command PROVE BridgeMoves(c)
  OBVIOUS
<1>1. Sends(c)
  BY DEF Sends
<1>2. CASE c # d
  <2>1. phase'[c] = phase[c] /\ pendingResult'[c] = pendingResult[c]
    BY <1>2 DEF SaveResult, Goto, TypeOK, BridgeTypeOK
  <2> QED
    BY <1>1, <1>2, <2>1, AsideMoves
<1>3. CASE c = d
  <2>1. /\ phase'[c] = "saved" /\ pendingResult'[c] = [status |-> status, evidence |-> TRUE]
    BY <1>3 DEF SaveResult, Goto, TypeOK, BridgeTypeOK
  <2>2. pendingResult'[c] # None /\ pendingResult'[c].status = status
    BY <2>1, SavedIsResult
  <2>3. \A s : Says(c, s)' => Says(c, s) \/ s = status
    BY <2>2 DEF Says
  <2> QED
    BY <1>3, <2>1, <2>2, <2>3 DEF BridgeMoves, RecordFollows
<1> QED
  BY <1>2, <1>3

\* A handler goes on without storing a result.
LEMMA GotoMoves ==
    ASSUME TypeOK, NEW d \in Command,
           NEW p \in {"idle", "pacing", "checked", "cleared", "executing"}, Goto(d, p),
           p # "idle" => phase[d] \in BeforeAction,
           p = "checked" => phase[d] = "pacing" /\ d \notin expired,
           UNCHANGED pendingResult,
           \A c \in Command : c # d => executed'[c] = executed[c],
           executed'[d] # executed[d]
           => /\ phase[d] = "cleared" /\ p = "executing"
              /\ d \in GuardedCommand => d \notin expired,
           \A c \in Command, r \in Result :
              ResultMsg(c, r) \in toCore' => ResultMsg(c, r) \in toCore,
           \/ starts' = starts
           \/ starts' = starts \ {d} /\ p = "idle" /\ phase[d] \in {"pacing", "saved"},
           cancelMarks' \subseteq cancelMarks
    PROVE  \A c \in Command : BridgeMoves(c)
<1> SUFFICES ASSUME NEW c \in Command PROVE BridgeMoves(c)
  OBVIOUS
<1>1. Sends(c) /\ Keeps(c)
  BY DEF Sends, Keeps
<1>2. CASE c # d
  <2>1. phase'[c] = phase[c]
    BY <1>2 DEF Goto, TypeOK, BridgeTypeOK
  <2>2. c \in starts' <=> c \in starts
    BY <1>2
  <2> QED
    BY <1>1, <1>2, <2>1, <2>2, AsideMoves
<1>3. CASE c = d
  <2>1. phase'[c] = p
    BY <1>3 DEF Goto, TypeOK, BridgeTypeOK
  <2>2. Recorded(c)' => Recorded(c)
    BY <1>1, SaysNothingNew DEF Recorded
  <2> QED
    BY <1>1, <1>3, <2>1, <2>2, SaysNothingNew DEF BridgeMoves, RecordFollows
<1> QED
  BY <1>2, <1>3

LEMMA DispatchMoves ==
    ASSUME TypeOK, NEW d \in Command, HandlesDispatch(d)
    PROVE  \A c \in Command : BridgeMoves(c)
<1> SUFFICES ASSUME NEW c \in Command PROVE BridgeMoves(c)
  OBVIOUS
<1>1. /\ Dispatch(d) \in toBridge /\ Dispatch(d) \notin toBridge'
      /\ UNCHANGED <<executed, cancelMarks>>
  BY DEF HandlesDispatch, ReceiveDispatch, Handle
<1>2. CASE /\ starts' = starts \cup {d} /\ Goto(d, "starting")
           /\ UNCHANGED <<pendingResult, toCore>>
  <2>1. Sends(c) /\ Keeps(c)
    BY <1>2 DEF Sends, Keeps
  <2>2. CASE c # d
    <3>1. phase'[c] = phase[c] /\ (c \in starts' <=> c \in starts)
      BY <1>2, <2>2 DEF Goto, TypeOK, BridgeTypeOK
    <3> QED
      BY <1>1, <1>2, <2>1, <3>1, AsideMoves
  <2>3. CASE c = d
    <3>1. phase'[c] = "starting" /\ c \in starts'
      BY <1>2, <2>3 DEF Goto, TypeOK, BridgeTypeOK
    <3> QED
      BY <1>1, <1>2, <2>1, <2>3, <3>1, SaysNothingNew DEF BridgeMoves, RecordFollows
  <2> QED
    BY <2>2, <2>3
<1>3. CASE /\ pendingResult' = RecoveredResults /\ starts' = {} /\ d \in starts
           /\ Send({ResultMsg(d, Interrupted)}) /\ UNCHANGED phase
  <2>1. pendingResult'[c] = IF c \in starts /\ pendingResult[c] = None
                            THEN Interrupted ELSE pendingResult[c]
    BY <1>3 DEF RecoveredResults
  <2>2. Keeps(c)
    BY <2>1 DEF Keeps
  <2>3. Sends(c)
    BY <1>3, ResultMsgInjective DEF Sends, Send, Interrupted
  <2>4. /\ c \in starts => pendingResult'[c] # None
        /\ pendingResult[c] # None => pendingResult'[c] # None
    BY <2>1, InterruptedIsResult
  <2>5. Recorded(c)' => Recorded(c)
    BY <1>3, <2>2, <2>3, SaysNothingNew
  <2> QED
    BY <1>1, <1>3, <2>2, <2>3, <2>4, <2>5, SaysNothingNew DEF BridgeMoves, RecordFollows
<1>4. CASE /\ UNCHANGED <<phase, starts, pendingResult>>
           /\ \/ \E ok \in BOOLEAN : Send({Ack(d, ok)})
              \/ pendingResult[d] # None /\ Send({ResultMsg(d, pendingResult[d])})
  <2>1. Sends(c)
    <3>1. ASSUME NEW ok \in BOOLEAN, Send({Ack(d, ok)}) PROVE Sends(c)
      BY <3>1, ResultIsNoOther DEF Sends, Send
    <3>2. ASSUME pendingResult[d] # None, Send({ResultMsg(d, pendingResult[d])}) PROVE Sends(c)
      BY <3>2, ResultMsgInjective DEF Sends, Send
    <3> QED
      BY <1>4, <3>1, <3>2
  <2>2. Keeps(c)
    BY <1>4 DEF Keeps
  <2> QED
    BY <1>1, <1>4, <2>1, <2>2, MessageMoves
<1> QED
  BY <1>2, <1>3, <1>4 DEF HandlesDispatch, ReceiveDispatch

LEMMA BridgeNextMoves ==
    ASSUME TypeOK, BridgeNext
    PROVE  \A c \in Command : BridgeMoves(c)
<1>1. ASSUME NEW d \in Command, HandlesDispatch(d) PROVE \A c \in Command : BridgeMoves(c)
  BY <1>1, DispatchMoves
<1>2. ASSUME NEW d \in Command, Starts(d) PROVE \A c \in Command : BridgeMoves(c)
  <2>1. /\ phase[d] = "starting" /\ \E p \in {"idle", "pacing"} : Goto(d, p)
        /\ UNCHANGED <<pendingResult, executed, starts, cancelMarks>>
        /\ UNCHANGED toCore \/ Send({Ack(d, TRUE)})
    BY <1>2 DEF Starts, StartCommand, durableVars
  <2>2. \A c \in Command, r \in Result : ResultMsg(c, r) \in toCore' => ResultMsg(c, r) \in toCore
    <3>1. \A c \in Command, r \in Result : ResultMsg(c, r) # Ack(d, TRUE)
      BY ResultIsNoOther
    <3>2. toCore' \subseteq toCore \cup {Ack(d, TRUE)}
      BY <2>1 DEF Send
    <3> QED
      BY <3>1, <3>2
  <2> QED
    BY <2>1, <2>2, GotoMoves
<1>3. ASSUME NEW d \in Command, StopsBefore(d) PROVE \A c \in Command : BridgeMoves(c)
  <2>1. /\ phase[d] = "pacing" /\ d \in cancelMarks
        /\ UNCHANGED executed /\ starts' = starts \ {d} /\ cancelMarks' \subseteq cancelMarks
        /\ \/ SaveResult(d, "failed") /\ UNCHANGED toCore
           \/ Send({CancelEffective(d)}) /\ Goto(d, "idle") /\ UNCHANGED pendingResult
    BY <1>3 DEF StopsBefore, CancelBeforeAction, Release
  <2>2. CASE SaveResult(d, "failed") /\ UNCHANGED toCore
    BY <2>1, <2>2, SaveMoves DEF Status
  <2>3. CASE Send({CancelEffective(d)}) /\ Goto(d, "idle") /\ UNCHANGED pendingResult
    <3>1. \A c \in Command, r \in Result : ResultMsg(c, r) \in toCore' => ResultMsg(c, r) \in toCore
      BY <2>3, ResultIsNoOther DEF Send
    <3> QED
      BY <2>1, <2>3, <3>1, GotoMoves
  <2> QED
    BY <2>1, <2>2, <2>3
<1>4. ASSUME NEW d \in Command, NEW status \in {"rejected", "failed"}, Blocks(d, status)
      PROVE  \A c \in Command : BridgeMoves(c)
  <2>1. /\ status \in Status /\ status # "timed_out" /\ phase[d] # "idle"
        /\ SaveResult(d, status) /\ UNCHANGED <<executed, toCore, starts, cancelMarks>>
    BY <1>4 DEF Blocks, StopBeforeAction, Barred, Status
  <2> QED
    BY <2>1, SaveMoves
<1>5. ASSUME NEW d \in Command, Executes(d) PROVE \A c \in Command : BridgeMoves(c)
  <2>1. /\ phase[d] = "cleared" /\ Goto(d, "executing")
        /\ d \in GuardedCommand => d \notin expired
        /\ executed' = [executed EXCEPT ![d] = @ + 1]
        /\ UNCHANGED <<pendingResult, starts, cancelMarks, toCore>>
    BY <1>5 DEF Executes, Execute, durableVars
  <2>2. \A c \in Command : c # d => executed'[c] = executed[c]
    BY <2>1 DEF TypeOK, BridgeTypeOK
  <2> QED
    BY <2>1, <2>2, GotoMoves
<1>6. ASSUME NEW d \in Command, NEW status \in AdapterStatus, Returns(d, status)
      PROVE  \A c \in Command : BridgeMoves(c)
  <2>1. status \in Status /\ status # "timed_out"
    BY BridgeAssumption DEF Status
  <2> QED
    BY <1>6, <2>1, SaveMoves DEF Returns, AdapterReturns
<1>7. ASSUME NEW d \in Command, NEW b \in BOOLEAN, StopsAfter(d, b)
      PROVE  \A c \in Command : BridgeMoves(c)
  <2>1. UNCHANGED <<executed, starts>> /\ phase[d] # "idle"
    BY <1>7 DEF StopsAfter, CancelAfterAction, Barred
  <2>2. CASE b
    <3>1. /\ Send({CancelEffective(d)}) /\ Goto(d, "idle") /\ UNCHANGED pendingResult
          /\ cancelMarks' \subseteq cancelMarks
      BY <1>7, <2>2 DEF StopsAfter, CancelAfterAction, Release
    <3>2. \A c \in Command, r \in Result : ResultMsg(c, r) \in toCore' => ResultMsg(c, r) \in toCore
      BY <3>1, ResultIsNoOther DEF Send
    <3> QED
      BY <2>1, <3>1, <3>2, GotoMoves
  <2>3. CASE ~b
    <3>1. /\ phase[d] = "executing" /\ SaveResult(d, "failed") /\ UNCHANGED toCore
          /\ cancelMarks' \subseteq cancelMarks
      BY <1>7, <2>3 DEF StopsAfter, CancelAfterAction
    <3> QED
      BY <2>1, <3>1, SaveMoves DEF Status
  <2> QED
    BY <2>2, <2>3
<1>8. ASSUME NEW d \in Command, Finishes(d) PROVE \A c \in Command : BridgeMoves(c)
  <2>1. /\ phase[d] = "saved" /\ Goto(d, "idle") /\ starts' = starts \ {d}
        /\ Send({EvidenceMsg(d)}) /\ UNCHANGED <<pendingResult, executed>>
        /\ cancelMarks' \subseteq cancelMarks
    BY <1>8 DEF Finishes, FinishCommand, Release
  <2>2. \A c \in Command, r \in Result : ResultMsg(c, r) \in toCore' => ResultMsg(c, r) \in toCore
    BY <2>1, ResultIsNoOther DEF Send
  <2> QED
    BY <2>1, <2>2, GotoMoves
<1>9. ASSUME NEW d \in Command, HandlesCancel(d) PROVE \A c \in Command : BridgeMoves(c)
  <2>1. /\ UNCHANGED <<phase, executed, starts, pendingResult>>
        /\ CancelRequest(d) \in toBridge /\ cancelMarks' \subseteq cancelMarks \cup {d}
        /\ Send({CancelEffective(d)}) \/ Send({})
    BY <1>9 DEF HandlesCancel, ReceiveCancel, Handle, durableVars
  <2>2. \A c \in Command : Sends(c) /\ Keeps(c)
    BY <2>1, ResultIsNoOther DEF Sends, Keeps, Send
  <2>3. \A c \in Command :
           c \in cancelMarks' => c \in cancelMarks \/ CancelRequest(c) \in toBridge
    BY <2>1
  <2> QED
    BY <2>1, <2>2, <2>3, MessageMoves
<1>10. ASSUME NEW d \in Command, NEW b \in BOOLEAN, HandlesResultAck(d, b)
       PROVE  \A c \in Command : BridgeMoves(c)
  <2>1. /\ UNCHANGED <<phase, executed, starts, cancelMarks, toCore>>
        /\ ResultAck(d, b) \in toBridge
        /\ \/ pendingResult' = pendingResult
           \/ b /\ pendingResult' = [pendingResult EXCEPT ![d] = None]
    BY <1>10 DEF HandlesResultAck, ReceiveResultAck, Handle, volatileVars
  <2>2. ASSUME NEW c \in Command PROVE BridgeMoves(c)
    <3>1. \/ pendingResult'[c] = pendingResult[c]
          \/ c = d /\ b /\ pendingResult'[c] = None
      BY <2>1 DEF TypeOK, BridgeTypeOK
    <3>2. Keeps(c)
      BY <3>1 DEF Keeps
    <3>3. Sends(c)
      BY <2>1 DEF Sends
    <3>4. pendingResult[c] # None /\ pendingResult'[c] = None => ResultAck(c, TRUE) \in toBridge
      BY <2>1, <3>1
    <3> QED
      BY <2>1, <3>2, <3>3, <3>4, MessageMoves
  <2> QED
    BY <2>2
<1>11. ASSUME \/ \E d \in Command, b \in BOOLEAN : HandlesEvidenceAck(d, b)
              \/ TurnsToResults
       PROVE  \A c \in Command : BridgeMoves(c)
  <2>1. UNCHANGED <<phase, executed, starts, cancelMarks, toCore, pendingResult>>
    BY <1>11
    DEF HandlesEvidenceAck, ReceiveEvidenceAck, TurnsToResults, UploadsSent, durableVars
  <2>2. \A c \in Command : Sends(c) /\ Keeps(c)
    BY <2>1 DEF Sends, Keeps
  <2> QED
    BY <2>1, <2>2, MessageMoves
<1>12. ASSUME HandlesResume \/ HandlesWelcome \/ Connects
       PROVE  \A c \in Command : BridgeMoves(c)
  <2>1. /\ UNCHANGED <<phase, executed, starts, cancelMarks, pendingResult>>
        /\ BeginSendPending \/ toCore' = toCore \cup {SessionHello}
    BY <1>12
    DEF HandlesResume, ReceiveResume, HandlesWelcome, ReceiveWelcome, Connects, Connect,
        durableVars, volatileVars
  <2>2. \A c \in Command : Sends(c) /\ Keeps(c)
    BY <2>1, ResultIsNoOther DEF Sends, Keeps, BeginSendPending
  <2> QED
    BY <2>1, <2>2, MessageMoves
<1>13. ASSUME Replays PROVE \A c \in Command : BridgeMoves(c)
  <2> DEFINE replay == {d \in Command : pendingResult[d] # None /\ commandSeq[d] > ackedSeq}
             ready == {d \in replay : pendingResult[d].evidence => d \notin withheld}
             msgs == {ResultMsg(d, pendingResult[d]) : d \in ready}
  <2>1. /\ UNCHANGED <<phase, executed, starts, cancelMarks>> /\ Send(msgs)
        /\ pendingResult' = [d \in Command |-> IF d \in replay THEN pendingResult[d] ELSE None]
    BY <1>13 DEF Replays, FinishReplay
  <2>2. ASSUME NEW c \in Command PROVE BridgeMoves(c)
    <3>1. Keeps(c)
      BY <2>1 DEF Keeps
    <3>2. Sends(c)
      <4>1. \A r \in Result :
               ResultMsg(c, r) \in msgs => pendingResult[c] # None /\ r = pendingResult[c]
        BY ResultMsgInjective
      <4> HIDE DEF msgs
      <4> QED
        BY <2>1, <4>1 DEF Sends, Send
    <3>3. pendingResult[c] # None /\ pendingResult'[c] = None => commandSeq[c] <= ackedSeq
      <4>1. pendingResult[c] # None /\ pendingResult'[c] = None => ~(commandSeq[c] > ackedSeq)
        BY <2>1
      <4>2. commandSeq[c] \in Nat /\ ackedSeq \in Nat
        BY DEF TypeOK, LinkTypeOK, BridgeTypeOK
      <4> QED
        BY <4>1, <4>2
    <3> QED
      BY <2>1, <3>1, <3>2, <3>3, MessageMoves
  <2> QED
    BY <2>2
<1>14. ASSUME NEW d \in Command, ChecksDeadline(d) \/ ChecksPage(d)
       PROVE  \A c \in Command : BridgeMoves(c)
  <2>1. /\ \/ phase[d] = "pacing" /\ d \notin expired /\ Goto(d, "checked")
           \/ phase[d] = "checked" /\ Goto(d, "cleared")
        /\ UNCHANGED <<pendingResult, executed, starts, cancelMarks, toCore>>
    BY <1>14 DEF ChecksDeadline, CheckDeadline, ChecksPage, CheckPage, durableVars
  <2> QED
    BY <2>1, GotoMoves
<1> QED
  BY <1>1, <1>2, <1>3, <1>4, <1>5, <1>6, <1>7, <1>8, <1>9, <1>10, <1>11, <1>12, <1>13,
     <1>14
  DEF BridgeNext

\* A restarted worker turns every start record into a result.
LEMMA WorkerMoves ==
    ASSUME TypeOK, WorkerRestarts
    PROVE  \A c \in Command : BridgeMoves(c)
<1> SUFFICES ASSUME NEW c \in Command PROVE BridgeMoves(c)
  OBVIOUS
<1>1. /\ phase'[c] = "idle" /\ starts' = {} /\ cancelMarks' = {} /\ toCore' = {}
      /\ UNCHANGED executed
      /\ pendingResult'[c] = IF c \in starts /\ pendingResult[c] = None
                             THEN Interrupted ELSE pendingResult[c]
  BY DEF WorkerRestarts, WorkerRestart, PipeBreaks, RecoveredResults
<1>2. Keeps(c) /\ Sends(c)
  BY <1>1 DEF Keeps, Sends
<1>3. /\ c \in starts => pendingResult'[c] # None
      /\ pendingResult[c] # None => pendingResult'[c] # None
  BY <1>1, InterruptedIsResult
<1> QED
  BY <1>1, <1>2, <1>3, SaysNothingNew DEF BridgeMoves, RecordFollows

----
(* The bridge's steps. *)

LEMMA BridgeKeepsOrder ==
    ASSUME TypeOK, OrderInv, UNCHANGED <<gatewayVars, commandSeq>>,
           \A c \in Command : Touched(c)' => Touched(c),
           DispatchedOnce', \A c \in Command : ActMoves(c)
    PROVE  OrderInv' /\ Moves
<1>1. UNCHANGED <<state, session, coreConn, binding, current, cancelled, outcome, invoking>>
  BY DEF gatewayVars
<1>2. /\ \A c \in Command : InSession(c)' => InSession(c)
      /\ \A c, d \in Command : SameTab(c, d)' => SameTab(c, d)
  BY <1>1 DEF InSession, SameTab
<1>3. \A c \in Command : /\ state'[c] = "queued" => state[c] \in {"queued", "absent"}
                         /\ state'[c] = "absent" => state[c] = "absent"
                         /\ state'[c] \in InBrowser => state[c] \in InBrowser
  BY <1>1
<1>4. AbsentUntouched' /\ AstrayAlone' /\ AstrayUncancelled' /\ OneCommandPerTab'
  BY <1>1, <1>2, <1>3, QuietOrder
<1>5. Numbered' /\ SessionsPast' /\ Awaited'
  BY <1>1 DEF OrderInv, Numbered, SessionsPast, Awaited
<1>6. Moves
  BY <1>1, UntoldMoves DEF Moves, LifeMoves, StaysOut, InBrowser
<1> QED
  BY <1>4, <1>5, <1>6 DEF OrderInv

\* A handler that works for a command the bridge has heard of.
LEMMA HandlerOrder ==
    ASSUME TypeOK, OrderInv, UNCHANGED <<gatewayVars, commandSeq>>,
           NEW c \in Command, Touched(c), toBridge' \subseteq toBridge,
           \A d \in Command : d # c => phase'[d] = phase[d] /\ executed'[d] = executed[d],
           \A d \in Command, ok \in BOOLEAN :
              Ack(d, ok) \in toCore' => d = c \/ Ack(d, ok) \in toCore,
           Dispatch(c) \notin toBridge', \A d \in Command : RecordFollows(d),
           phase'[c] \in BeforeAction => executed'[c] = 0,
           executed'[c] = executed[c] \/ (executed[c] = 0 /\ executed'[c] = 1)
    PROVE  OrderInv' /\ Moves
<1>1. state[c] # "absent"
  BY DEF OrderInv, AbsentUntouched
<1>2. \A d \in Command : Touched(d)' => Touched(d)
  <2> SUFFICES ASSUME NEW d \in Command, d # c, Touched(d)' PROVE Touched(d)
    OBVIOUS
  <2>1. Recorded(d)' => Recorded(d) \/ phase[d] # "idle" \/ Dispatch(d) \in toBridge
    BY DEF RecordFollows
  <2> QED
    BY <2>1 DEF Touched
<1>3. DispatchedOnce'
  BY DEF OrderInv, DispatchedOnce, RecordFollows
<1>4. \A d \in Command : ActMoves(d)
  BY <1>1 DEF ActMoves
<1> QED
  BY <1>2, <1>3, <1>4, BridgeKeepsOrder

\* A handler that moves messages and stores, but no command.
LEMMA MessageOrder ==
    ASSUME TypeOK, OrderInv, UNCHANGED <<gatewayVars, commandSeq, phase, executed>>,
           toBridge' \subseteq toBridge, \A c \in Command : RecordFollows(c),
           \A c \in Command, ok \in BOOLEAN : Ack(c, ok) \in toCore' => Ack(c, ok) \in toCore
    PROVE  OrderInv' /\ Moves
<1>1. \A c \in Command : Touched(c)' => Touched(c)
  BY DEF Touched, RecordFollows
<1>2. DispatchedOnce'
  BY DEF OrderInv, DispatchedOnce, RecordFollows
<1>3. \A c \in Command : ActMoves(c)
  BY DEF ActMoves
<1> QED
  BY <1>1, <1>2, <1>3, BridgeKeepsOrder

LEMMA HandlesDispatchOrder ==
    ASSUME TypeOK, OrderInv, NEW c \in Command, HandlesDispatch(c),
           \A d \in Command : RecordFollows(d)
    PROVE  OrderInv' /\ Moves
<1>1. /\ Dispatch(c) \in toBridge /\ toBridge' = toBridge \ {Dispatch(c)}
      /\ UNCHANGED <<gatewayVars, commandSeq, executed>>
      /\ UNCHANGED phase \/ Goto(c, "starting")
  BY DEF HandlesDispatch, ReceiveDispatch, Handle, bridgeFrame, portFrame
<1>2. \/ UNCHANGED toCore
      \/ \E ok \in BOOLEAN : Send({Ack(c, ok)})
      \/ \E r : Send({ResultMsg(c, r)})
  BY DEF HandlesDispatch, ReceiveDispatch
<1>3. \A d \in Command, ok \in BOOLEAN :
         Ack(d, ok) \in toCore' => d = c \/ Ack(d, ok) \in toCore
  BY <1>2, AckIsNoOther DEF Send
<1>4. executed[c] = 0
  BY <1>1 DEF OrderInv, DispatchedOnce
<1>5. Touched(c) /\ Dispatch(c) \notin toBridge'
  BY <1>1 DEF Touched
<1>6. \A d \in Command : d # c => phase'[d] = phase[d] /\ executed'[d] = executed[d]
  BY <1>1 DEF Goto, TypeOK, BridgeTypeOK
<1> QED
  BY <1>1, <1>3, <1>4, <1>5, <1>6, HandlerOrder

\* A command in one of these phases is not dispatched again.
LEMMA PhaseOnce ==
    ASSUME TypeOK, OrderInv, NEW c \in Command, phase[c] # "idle"
    PROVE  Touched(c) /\ Dispatch(c) \notin toBridge
BY DEF OrderInv, DispatchedOnce, Touched

\* A handler past its dispatch that does not start the action.
LEMMA AdvanceOrder ==
    ASSUME TypeOK, OrderInv, UNCHANGED <<gatewayVars, commandSeq, executed>>,
           toBridge' = toBridge, NEW c \in Command, phase[c] # "idle",
           NEW p, Goto(c, p), p \in BeforeAction => phase[c] \in BeforeAction,
           \A d \in Command : RecordFollows(d),
           \A d \in Command, ok \in BOOLEAN :
              Ack(d, ok) \in toCore' => d = c \/ Ack(d, ok) \in toCore
    PROVE  OrderInv' /\ Moves
<1>1. Touched(c) /\ Dispatch(c) \notin toBridge'
  BY PhaseOnce
<1>2. \A d \in Command : phase'[d] = IF d = c THEN p ELSE phase[d]
  BY DEF Goto, TypeOK, BridgeTypeOK
<1>3. phase'[c] \in BeforeAction => executed'[c] = 0
  BY <1>2 DEF OrderInv, DispatchedOnce
<1> QED
  BY <1>1, <1>2, <1>3, HandlerOrder

LEMMA BridgeOrder ==
    ASSUME TypeOK, OrderInv, BridgeNext
    PROVE  OrderInv' /\ Moves
<1> USE DEF bridgeFrame, portFrame
<1>0. \A d \in Command : RecordFollows(d)
  BY BridgeNextMoves DEF BridgeMoves
<1>1. ASSUME NEW c \in Command, Starts(c) PROVE OrderInv' /\ Moves
  <2>1. /\ phase[c] = "starting" /\ toBridge' = toBridge
        /\ UNCHANGED <<gatewayVars, commandSeq, executed>>
        /\ \E p \in {"idle", "pacing"} : Goto(c, p)
        /\ UNCHANGED toCore \/ \E ok \in BOOLEAN : Send({Ack(c, ok)})
    BY <1>1 DEF Starts, StartCommand
  <2>2. \A d \in Command, ok \in BOOLEAN :
           Ack(d, ok) \in toCore' => d = c \/ Ack(d, ok) \in toCore
    BY <2>1, AckIsNoOther DEF Send
  <2> QED
    BY <1>0, <2>1, <2>2, AdvanceOrder
<1>2. ASSUME NEW c \in Command, StopsBefore(c) PROVE OrderInv' /\ Moves
  <2>1. /\ phase[c] = "pacing" /\ toBridge' = toBridge
        /\ UNCHANGED <<gatewayVars, commandSeq, executed>>
        /\ \E p \in {"idle", "saved"} : Goto(c, p)
        /\ UNCHANGED toCore \/ Send({CancelEffective(c)})
    BY <1>2 DEF StopsBefore, CancelBeforeAction, SaveResult
  <2>2. \A d \in Command, ok \in BOOLEAN :
           Ack(d, ok) \in toCore' => d = c \/ Ack(d, ok) \in toCore
    BY <2>1, AckIsNoOther DEF Send
  <2> QED
    BY <1>0, <2>1, <2>2, AdvanceOrder
<1>3. ASSUME NEW c \in Command, NEW status \in {"rejected", "failed"}, Blocks(c, status)
      PROVE  OrderInv' /\ Moves
  <2>1. /\ phase[c] # "idle" /\ Goto(c, "saved") /\ UNCHANGED <<toBridge, toCore>>
        /\ UNCHANGED <<gatewayVars, commandSeq, executed>>
    BY <1>3 DEF Blocks, StopBeforeAction, Barred, SaveResult
  <2> QED
    BY <1>0, <2>1, AdvanceOrder
<1>4. ASSUME NEW c \in Command, Executes(c) PROVE OrderInv' /\ Moves
  <2>1. /\ phase[c] = "cleared" /\ toBridge' = toBridge /\ toCore' = toCore
        /\ UNCHANGED <<gatewayVars, commandSeq>>
        /\ Goto(c, "executing") /\ executed' = [executed EXCEPT ![c] = @ + 1]
    BY <1>4 DEF Executes, Execute
  <2>2. executed[c] = 0 /\ Touched(c) /\ Dispatch(c) \notin toBridge
    BY <2>1, PhaseOnce DEF OrderInv, DispatchedOnce
  <2>3. \A d \in Command :
           /\ phase'[d] = IF d = c THEN "executing" ELSE phase[d]
           /\ d # c => executed'[d] = executed[d]
           /\ d = c => executed'[d] = executed[d] + 1
    BY <2>1 DEF Goto, TypeOK, BridgeTypeOK
  <2>4. executed'[c] = 1
    BY <2>2, <2>3
  <2> QED
    BY <1>0, <2>1, <2>2, <2>3, <2>4, HandlerOrder
<1>5. ASSUME NEW c \in Command, NEW status \in AdapterStatus, Returns(c, status)
      PROVE  OrderInv' /\ Moves
  BY <1>0, <1>5, AdvanceOrder DEF Returns, AdapterReturns, SaveResult
<1>6. ASSUME NEW c \in Command, NEW b \in BOOLEAN, StopsAfter(c, b)
      PROVE  OrderInv' /\ Moves
  <2>1. /\ phase[c] # "idle" /\ toBridge' = toBridge
        /\ UNCHANGED <<gatewayVars, commandSeq, executed>>
        /\ \E p \in {"idle", "saved"} : Goto(c, p)
        /\ UNCHANGED toCore \/ Send({CancelEffective(c)})
    BY <1>6 DEF StopsAfter, CancelAfterAction, Barred, SaveResult
  <2>2. \A d \in Command, ok \in BOOLEAN :
           Ack(d, ok) \in toCore' => d = c \/ Ack(d, ok) \in toCore
    BY <2>1, AckIsNoOther DEF Send
  <2> QED
    BY <1>0, <2>1, <2>2, AdvanceOrder
<1>7. ASSUME NEW c \in Command, Finishes(c) PROVE OrderInv' /\ Moves
  <2>1. \A d \in Command, ok \in BOOLEAN : Ack(d, ok) \in toCore' => Ack(d, ok) \in toCore
    BY <1>7, AckIsNoOther DEF Finishes, FinishCommand, Send
  <2> QED
    BY <1>0, <1>7, <2>1, AdvanceOrder DEF Finishes, FinishCommand
<1>8. ASSUME NEW c \in Command, HandlesCancel(c) PROVE OrderInv' /\ Moves
  <2>1. \A d \in Command, ok \in BOOLEAN : Ack(d, ok) \in toCore' => Ack(d, ok) \in toCore
    BY <1>8, AckIsNoOther DEF HandlesCancel, ReceiveCancel, Send
  <2> QED
    BY <1>0, <1>8, <2>1, MessageOrder DEF HandlesCancel, ReceiveCancel, Handle
<1>9. ASSUME NEW c \in Command, NEW b \in BOOLEAN,
             HandlesResultAck(c, b) \/ HandlesEvidenceAck(c, b)
      PROVE  OrderInv' /\ Moves
  BY <1>0, <1>9, MessageOrder
  DEF HandlesResultAck, ReceiveResultAck, HandlesEvidenceAck, ReceiveEvidenceAck, Handle,
      volatileVars
<1>10. ASSUME HandlesResume \/ HandlesWelcome PROVE OrderInv' /\ Moves
  <2>1. \A d \in Command, ok \in BOOLEAN : Ack(d, ok) \in toCore' => Ack(d, ok) \in toCore
    BY <1>10, AckIsNoOther
    DEF HandlesResume, ReceiveResume, HandlesWelcome, ReceiveWelcome, BeginSendPending
  <2> QED
    BY <1>0, <1>10, <2>1, MessageOrder
    DEF HandlesResume, ReceiveResume, HandlesWelcome, ReceiveWelcome, Handle
<1>11. ASSUME TurnsToResults PROVE OrderInv' /\ Moves
  BY <1>0, <1>11, MessageOrder DEF TurnsToResults, UploadsSent
<1>12. ASSUME Replays PROVE OrderInv' /\ Moves
  <2>1. \A d \in Command, ok \in BOOLEAN : Ack(d, ok) \in toCore' => Ack(d, ok) \in toCore
    BY <1>12, AckIsNoOther DEF Replays, FinishReplay, Send
  <2> QED
    BY <1>0, <1>12, <2>1, MessageOrder DEF Replays, FinishReplay
<1>13. ASSUME Connects PROVE OrderInv' /\ Moves
  <2>1. \A d \in Command, ok \in BOOLEAN : Ack(d, ok) \in toCore' => Ack(d, ok) \in toCore
    BY <1>13, AckIsNoOther DEF Connects, Connect
  <2> QED
    BY <1>0, <1>13, <2>1, MessageOrder DEF Connects, Connect, volatileVars
<1>14. ASSUME NEW c \in Command, ChecksDeadline(c) \/ ChecksPage(c)
       PROVE  OrderInv' /\ Moves
  <2>1. /\ \/ phase[c] = "pacing" /\ Goto(c, "checked")
           \/ phase[c] = "checked" /\ Goto(c, "cleared")
        /\ UNCHANGED <<gatewayVars, commandSeq, executed, toBridge, toCore>>
    BY <1>14 DEF ChecksDeadline, CheckDeadline, ChecksPage, CheckPage
  <2> QED
    BY <1>0, <2>1, AdvanceOrder
<1> QED
  BY <1>0, <1>1, <1>2, <1>3, <1>4, <1>5, <1>6, <1>7, <1>8, <1>9, <1>10, <1>11, <1>12,
     <1>13, <1>14, HandlesDispatchOrder DEF BridgeNext

----
(* The environment's steps. *)

LEMMA LinkLostOrder ==
    ASSUME TypeOK, OrderInv, LinkLost
    PROVE  OrderInv' /\ Moves
<1>1. /\ toBridge' = {} /\ toCore' = {} /\ coreConn' = "none" /\ current' \subseteq current
      /\ UNCHANGED <<state, session, binding, cancelled, outcome, invoking, commandSeq,
                     phase, executed, starts, pendingResult>>
  BY DEF LinkLost, PipeBreaks, Detach, bridgeVars, volatileVars, durableVars
<1>2. Settles /\ Awaited'
  BY <1>1 DEF Settles, OrderInv, Awaited
<1> QED
  BY <1>1, <1>2, UntoldMoves, CoreSettles

\* A restarted worker has forgotten its handlers.
LEMMA WorkerRestartsOrder ==
    ASSUME TypeOK, OrderInv, WorkerRestarts
    PROVE  OrderInv' /\ Moves
<1>1. /\ toBridge' = {} /\ toCore' = {} /\ coreConn' = "none" /\ current' \subseteq current
      /\ phase' = [c \in Command |-> "idle"]
      /\ UNCHANGED <<state, session, binding, cancelled, outcome, invoking, commandSeq,
                     executed>>
  BY DEF WorkerRestarts, WorkerRestart, PipeBreaks, Detach
<1>2. \A c \in Command : Touched(c)' => Touched(c)
  BY <1>1, WorkerMoves DEF Touched, BridgeMoves, RecordFollows
<1>3. /\ \A c \in Command : InSession(c)' => InSession(c)
      /\ \A c, d \in Command : SameTab(c, d)' => SameTab(c, d)
      /\ \A c \in Command : state'[c] \in InBrowser => state[c] \in InBrowser
  BY <1>1 DEF InSession, SameTab
<1>4. AbsentUntouched' /\ AstrayAlone' /\ AstrayUncancelled' /\ OneCommandPerTab'
  BY <1>1, <1>2, <1>3, QuietOrder
<1>5. Numbered' /\ SessionsPast' /\ DispatchedOnce' /\ Awaited'
  BY <1>1 DEF OrderInv, Numbered, SessionsPast, DispatchedOnce, Awaited
<1>6. Moves
  BY <1>1, UntoldMoves DEF Moves, LifeMoves, ActMoves, StaysOut, InBrowser
<1> QED
  BY <1>4, <1>5, <1>6 DEF OrderInv

LEMMA CoreRestartsOrder ==
    ASSUME TypeOK, OrderInv, CoreRestarts
    PROVE  OrderInv' /\ Moves
<1>1. /\ state' = CancelQueued(state, cancelled) /\ toCore' = {} /\ coreConn' = "none"
      /\ invoking' = None
      /\ UNCHANGED <<toBridge, session, binding, current, cancelled, outcome, commandSeq,
                     phase, executed, starts, pendingResult>>
  BY DEF CoreRestarts, CoreCrash, Restart, bridgeVars, volatileVars, durableVars
<1>2. Settles /\ Awaited'
  BY <1>1 DEF CancelQueued, Settles, Pending, Status, Awaited
<1> QED
  BY <1>1, <1>2, UntoldMoves, CoreSettles

\* A pass crashes after it sent c, which it found queued in s: c is astray, alone
\* on its tab, and nothing else is astray in this session.
LEMMA CrashOrder ==
    ASSUME TypeOK, OrderInv, coreConn = "ready", coreConn' = "none",
           NEW c \in Command, NEW s, NEW fresh, NEW q, c \in Sent(s, fresh, q),
           \A d \in Command :
              s[d] = state[d] \/ (d = c /\ state[d] = "absent" /\ s[d] = "queued"),
           \A d \in Command :
              state'[d] = IF s[d] = "queued" /\ RunOf[d] \in cancelled
                          THEN "cancelled" ELSE s[d],
           toBridge' = toBridge \cup {Dispatch(c)}, toCore' = {}, invoking' = None,
           UNCHANGED <<session, binding, current, cancelled, outcome,
                       phase, executed, starts, pendingResult>>,
           Numbered'
    PROVE  OrderInv' /\ Moves
<1> USE DEF OrderInv
<1>1. /\ s[c] = "queued" /\ RunOf[c] \notin cancelled /\ InSession(c)
      /\ ~Occupied(s, c) /\ state'[c] = "queued"
  BY DEF Sent, Sendable, Examined
<1>2. \A d \in Command : Astray(d) => ~InSession(d)
  BY ReadyIsClear
<1>3. ~Touched(c)
  BY <1>1, <1>2 DEF Astray, AbsentUntouched
<1>4. \A d \in Command : Dispatch(d) \in toBridge' => d = c \/ Dispatch(d) \in toBridge
  BY DispatchIsNoOther
<1>5. \A d \in Command : Touched(d)' => d = c \/ Touched(d)
  BY <1>4, CoreTouches
<1>6. \A d \in Command : Astray(d)' => d = c \/ Astray(d)
  BY <1>5 DEF Astray
<1>7. \A d \in Command :
         /\ InSession(d)' <=> InSession(d)
         /\ \A e \in Command : SameTab(d, e)' <=> SameTab(d, e)
  BY DEF InSession, SameTab
<1>8. \A d \in Command : /\ state'[d] \in InBrowser <=> s[d] \in InBrowser
                         /\ state'[d] \in InBrowser => state[d] \in InBrowser
  BY DEF InBrowser
<1>9. AbsentUntouched'
  BY <1>1, <1>5 DEF AbsentUntouched
<1>10. DispatchedOnce'
  <2>1. executed[c] = 0 /\ phase[c] = "idle" /\ ~Recorded(c)
    <3>1. /\ ~(executed[c] > 0) /\ executed[c] \in Nat
          /\ phase[c] = "idle" /\ ~Recorded(c)
      BY <1>3 DEF Touched, TypeOK, BridgeTypeOK
    <3> QED
      BY <3>1
  <2>2. \A d \in Command : Recorded(d)' => Recorded(d)
    BY CoreRecords
  <2> QED
    BY <1>4, <2>1, <2>2 DEF DispatchedOnce
<1>11. AstrayAlone'
  <2> SUFFICES ASSUME NEW d \in Command, Astray(d)', InSession(d)
               PROVE  /\ ~Occupied(state, d)'
                      /\ \A e \in Command : Astray(e)' /\ SameTab(d, e) => d = e
    BY <1>7 DEF AstrayAlone
  <2>1. d = c
    BY <1>2, <1>6
  <2>2. ~Occupied(state, d)'
    BY <1>1, <1>7, <1>8, <2>1 DEF Occupied
  <2>3. ASSUME NEW e \in Command, Astray(e)', SameTab(d, e) PROVE d = e
    <3>1. InSession(e)
      BY <1>1, <2>1, <2>3 DEF InSession, SameTab
    <3> QED
      BY <1>2, <1>6, <2>1, <2>3, <3>1
  <2> QED
    BY <2>2, <2>3
<1>12. AstrayUncancelled'
  BY <1>1, <1>6 DEF AstrayUncancelled
<1>13. OneCommandPerTab'
  BY <1>7, <1>8 DEF OneCommandPerTab
<1>14. SessionsPast' /\ Awaited'
  BY DEF SessionsPast, Awaited
<1>15. \A d \in Command : LifeMoves(d) /\ StaysOut(d)
  BY <1>8 DEF LifeMoves, StaysOut, Pending, InBrowser, Status
<1>16. Moves
  BY <1>15, UntoldMoves DEF Moves, ActMoves
<1> QED
  BY <1>9, <1>10, <1>11, <1>12, <1>13, <1>14, <1>16

LEMMA CoreRestartsInPassOrder ==
    ASSUME TypeOK, OrderInv, NEW c \in Command, CoreRestartsInPass(c)
    PROVE  OrderInv' /\ Moves
<1>1. UNCHANGED <<phase, executed, starts, pendingResult>>
  BY DEF CoreRestartsInPass, bridgeVars, volatileVars, durableVars
<1>2. PICK fresh \in SUBSET current : CrashAfterSend(c, fresh) \/ CrashInInvoke(c, fresh)
  BY DEF CoreRestartsInPass
<1>3. CASE CrashAfterSend(c, fresh)
  <2>1. /\ coreConn = "ready" /\ coreConn' = "none"
        /\ c \in Sent(state, fresh, commandSeq)
        /\ state' = CancelQueued(state, cancelled)
        /\ toBridge' = toBridge \cup {Dispatch(c)} /\ toCore' = {} /\ invoking' = None
        /\ UNCHANGED <<session, binding, current, cancelled, outcome, commandSeq>>
    BY <1>3 DEF CrashAfterSend, Restart
  <2>2. \A d \in Command :
           state'[d] = IF state[d] = "queued" /\ RunOf[d] \in cancelled
                       THEN "cancelled" ELSE state[d]
    BY <2>1 DEF CancelQueued
  <2>3. Numbered'
    BY <2>1, <2>2 DEF OrderInv, Numbered
  <2> QED
    BY <1>1, <2>1, <2>2, <2>3, CrashOrder
<1>4. CASE CrashInInvoke(c, fresh)
  <2> DEFINE s == [state EXCEPT ![c] = "queued"]
  <2>1. /\ coreConn = "ready" /\ coreConn' = "none"
        /\ state[c] = "absent" /\ Drainable(c) /\ Enqueued(c)
        /\ c \in Sent(s, fresh, commandSeq')
        /\ state' = CancelQueued(s, cancelled)
        /\ toBridge' = toBridge \cup {Dispatch(c)} /\ toCore' = {} /\ invoking' = None
        /\ UNCHANGED <<session, binding, current, cancelled, outcome>>
    BY <1>4 DEF CrashInInvoke, Restart
  <2>2. \A d \in Command : s[d] = state[d] \/ (d = c /\ state[d] = "absent" /\ s[d] = "queued")
    BY <2>1 DEF TypeOK, GatewayTypeOK
  <2>3. \A d \in Command :
           state'[d] = IF s[d] = "queued" /\ RunOf[d] \in cancelled THEN "cancelled" ELSE s[d]
    BY <2>1 DEF CancelQueued
  <2> HIDE DEF s
  <2>4. binding[RunOf[c]] # 0
    BY <2>1 DEF Drainable, Scheduled
  <2>5. Numbered'
    BY <2>1, <2>2, <2>3, <2>4, EnqueuedNumber DEF OrderInv, Numbered
  <2> QED
    BY <1>1, <2>1, <2>2, <2>3, <2>5, CrashOrder
<1> QED
  BY <1>2, <1>3, <1>4

LEMMA EnvironmentOrder ==
    ASSUME TypeOK, OrderInv, EnvironmentNext
    PROVE  OrderInv' /\ Moves
<1>1. ASSUME \/ \E c \in Command : Expire(c)
             \/ \E t \in Tab : PageChanges(t)
      PROVE  OrderInv' /\ Moves
  <2>1. UNCHANGED <<gatewayVars, toBridge, toCore, commandSeq,
                    phase, executed, starts, pendingResult>>
    BY <1>1 DEF Expire, PageChanges, linkVars, bridgeVars, volatileVars, durableVars
  <2>2. \A c \in Command : RecordFollows(c)
    BY <2>1 DEF RecordFollows, Recorded
  <2> QED
    BY <2>1, <2>2, MessageOrder
<1> QED
  BY <1>1, LinkLostOrder, WorkerRestartsOrder, CoreRestartsOrder, CoreRestartsInPassOrder
  DEF EnvironmentNext

----
(* The theorems. *)

DeliveryInv == TypeOK /\ SuccessInv /\ OrderInv

LEMMA InitDelivery == Init => DeliveryInv
BY InitTyped, InitSuccess, InitOrder DEF DeliveryInv

LEMMA StutterOrder ==
    ASSUME OrderInv, UNCHANGED vars
    PROVE  OrderInv' /\ Moves
<1>1. UNCHANGED <<toBridge, toCore, commandSeq, state, session, coreConn, binding, current,
                  cancelled, outcome, invoking, phase, executed, starts, pendingResult>>
  BY DEF vars, linkVars, gatewayVars, bridgeVars, volatileVars, durableVars
<1>2. \A c \in Command : /\ Touched(c)' <=> Touched(c)
                         /\ Recorded(c)' <=> Recorded(c)
  BY <1>1 DEF Touched, Recorded
<1>3. /\ \A c \in Command : (InSession(c)' <=> InSession(c)) /\ (Astray(c)' <=> Astray(c))
                            /\ (Occupied(state, c)' <=> Occupied(state, c))
      /\ \A c, d \in Command : SameTab(c, d)' <=> SameTab(c, d)
  BY <1>1, <1>2 DEF InSession, SameTab, Astray, Occupied
<1>4. AbsentUntouched' /\ AstrayAlone' /\ AstrayUncancelled' /\ OneCommandPerTab'
  BY <1>1, <1>2, <1>3
  DEF OrderInv, AbsentUntouched, AstrayAlone, AstrayUncancelled, OneCommandPerTab
<1>5. Numbered' /\ SessionsPast' /\ DispatchedOnce' /\ Awaited'
  BY <1>1, <1>2 DEF OrderInv, Numbered, SessionsPast, DispatchedOnce, Awaited
<1>6. Moves
  BY <1>1 DEF Moves, LifeMoves, ActMoves, ToldMoves, StaysOut, InBrowser
<1> QED
  BY <1>4, <1>5, <1>6 DEF OrderInv

LEMMA DeliveryStep ==
    ASSUME DeliveryInv, [Next]_vars
    PROVE  DeliveryInv' /\ Moves
<1>1. TypeOK'
  BY CoreTyped, BridgeTyped, EnvironmentTyped, StutterTyped DEF Next, DeliveryInv
<1>2. SuccessInv'
  <2>1. CASE UNCHANGED vars
    BY <2>1, KeepsSuccess
    DEF DeliveryInv, vars, linkVars, gatewayVars, bridgeVars, volatileVars, durableVars
  <2> QED
    BY <2>1, CoreSuccess, BridgeSuccess, EnvironmentSuccess DEF Next, DeliveryInv
<1>3. OrderInv' /\ Moves
  BY CoreOrder, BridgeOrder, EnvironmentOrder, StutterOrder DEF Next, DeliveryInv
<1> QED
  BY <1>1, <1>2, <1>3 DEF DeliveryInv

\* One command per tab and session is in the browser, for any number of commands,
\* runs, tabs, faults and messages in flight: a command that a crashed pass sent
\* can still be acknowledged into the browser, but it then has its tab for itself.
THEOREM TabCorrect == Spec => []OneCommandPerTab
<1>1. DeliveryInv /\ [Next]_vars => DeliveryInv'
  BY DeliveryStep
<1>2. DeliveryInv => OneCommandPerTab
  BY DEF DeliveryInv, OrderInv
<1> QED
  BY <1>1, <1>2, InitDelivery, PTL DEF Spec

\* Nothing of a cancelled run gets to the browser once it is out of it: neither by
\* a pass nor by the late acknowledgement of a copy sent before a crash.
THEOREM CancelledCorrect == Spec => CancelledRunStaysOut
<1> DEFINE Out == \A c \in Command :
                     RunOf[c] \in cancelled /\ state[c] \in {"absent", "queued"}
                     => state'[c] \notin InBrowser
<1>1. DeliveryInv /\ [Next]_vars => DeliveryInv'
  BY DeliveryStep
<1>2. DeliveryInv /\ [Next]_vars => [Out]_vars
  BY DeliveryStep DEF Moves, StaysOut
<1>3. Spec => [][Out]_vars
  BY <1>1, <1>2, InitDelivery, PTL DEF Spec
<1> QED
  BY <1>3 DEF CancelledRunStaysOut

\* Core decides and the bridge acts in different steps.
LEMMA DecidesOrActs == [Next]_vars => UNCHANGED state \/ UNCHANGED executed
<1> SUFFICES ASSUME [Next]_vars PROVE UNCHANGED state \/ UNCHANGED executed
  OBVIOUS
<1>1. CASE CoreNext
  BY <1>1
  DEF CoreNext, RunStarts, Cancels, Drain, Invokes, Polls, Aborts, GetsStop, GetsEvidence,
      GetsAck, GetsResult, Observes, Ticks, Hello, GetsReady, timerFrame, handlerFrame, bridgeVars
<1>2. CASE BridgeNext
  BY <1>2
  DEF BridgeNext, HandlesDispatch, Starts, StopsBefore, ChecksDeadline, ChecksPage, Blocks,
      Executes, Returns, StopsAfter,
      Finishes, HandlesCancel, HandlesResultAck, HandlesEvidenceAck, HandlesResume,
      TurnsToResults, Replays, Connects, HandlesWelcome, bridgeFrame, portFrame, gatewayVars
<1>3. CASE EnvironmentNext
  BY <1>3
  DEF EnvironmentNext, Expire, PageChanges, LinkLost, WorkerRestarts, WorkerRestart,
      CoreRestarts, CoreRestartsInPass, bridgeVars
<1>4. CASE UNCHANGED vars
  BY <1>4 DEF vars, gatewayVars
<1> QED
  BY <1>1, <1>2, <1>3, <1>4 DEF Next

\* The life of a command in the abstract ledger.
Life(c) == IF state[c] \in Pending THEN "pending" ELSE state[c]

LEMMA InitLedger == Init => Ledger!LedgerInit
BY DEF Init, GatewayInit, BridgeInit, Ledger!LedgerInit, Pending, InBrowser

\* A step, seen through the mapping: every command moves or stays.
LEMMA LedgerStep ==
    ASSUME DeliveryInv, [Next]_vars
    PROVE  Ledger!LedgerNext
<1>1. DeliveryInv' /\ Moves
  BY DeliveryStep
<1> SUFFICES ASSUME NEW c \in Command
             PROVE  /\ \/ Life(c)' = Life(c)
                       \/ Life(c) = "absent" /\ Life(c)' \in {"pending", "cancelled"}
                       \/ /\ Life(c) = "pending" /\ Life(c)' \in Status
                          /\ Life(c)' = "succeeded" => executed[c] = 1
                    /\ \/ executed'[c] = executed[c]
                       \/ Life(c) # "absent" /\ executed[c] = 0 /\ executed'[c] = 1
                    /\ \/ outcome'[c] = outcome[c]
                       \/ /\ outcome[c] = None
                          /\ outcome'[c] \in Ledger!Confirmed => outcome'[c] = Life(c)
  BY DEF Ledger!LedgerNext, Ledger!Submit, Ledger!Decide, Ledger!Act, Ledger!Tell,
         Ledger!Decision, Life, Status
<1>2. LifeMoves(c) /\ ActMoves(c) /\ ToldMoves(c)
  BY <1>1 DEF Moves
<1>3. state'[c] = "succeeded" /\ state[c] # "succeeded" => executed[c] = 1
  <2> SUFFICES ASSUME state'[c] = "succeeded", state[c] # "succeeded"
               PROVE  executed[c] = 1
    OBVIOUS
  <2>1. executed' = executed
    BY DecidesOrActs
  <2>2. executed'[c] > 0
    BY <1>1 DEF DeliveryInv, SuccessInv, SuccessIsReal
  <2>3. executed[c] = 0 \/ executed[c] = 1
    BY DEF DeliveryInv, OrderInv, DispatchedOnce
  <2> QED
    BY <2>1, <2>2, <2>3
<1>4. \/ Life(c)' = Life(c)
      \/ Life(c) = "absent" /\ Life(c)' \in {"pending", "cancelled"}
      \/ /\ Life(c) = "pending" /\ Life(c)' \in Status
         /\ Life(c)' = "succeeded" => executed[c] = 1
  BY <1>2, <1>3 DEF LifeMoves, Life, Pending, InBrowser, Status
<1>5. \/ executed'[c] = executed[c]
      \/ Life(c) # "absent" /\ executed[c] = 0 /\ executed'[c] = 1
  BY <1>2 DEF ActMoves, Life, Pending
<1>6. \/ outcome'[c] = outcome[c]
      \/ /\ outcome[c] = None
         /\ outcome'[c] \in Ledger!Confirmed => outcome'[c] = Life(c)
  BY <1>2 DEF ToldMoves, Life, Pending, InBrowser, Status
<1> QED
  BY <1>4, <1>5, <1>6

\* Delivery implements the abstract ledger: whatever is lost, repeated, reordered or
\* restarted, a command is submitted once, started at most once, decided once,
\* "succeeded" only if it was started, and answered once.
THEOREM LedgerCorrect == Spec => ImplementsLedger
<1>1. DeliveryInv /\ [Next]_vars => DeliveryInv'
  BY DeliveryStep
<1>2. DeliveryInv /\ [Next]_vars => [Ledger!LedgerNext]_(Ledger!ledgerVars)
  BY LedgerStep
<1>3. Spec => Ledger!LedgerSpec
  BY <1>1, <1>2, InitDelivery, InitLedger, PTL DEF Spec, Ledger!LedgerSpec
<1> QED
  BY <1>3 DEF ImplementsLedger

----
(* Traces and attempts. *)

\* What Core acknowledged, and the watermark of what it acknowledged, is decided.
AckedIsDecided ==
    /\ \A c \in Command : ResultAck(c, TRUE) \in toBridge => state[c] \in Status
    /\ ackedSeq = 0 \/ \E d \in Command : state[d] \in Status /\ commandSeq[d] = ackedSeq

\* Nothing more is asked of the bridge, or its answer is stored.
Traced(c) == state[c] \in Status \/ pendingResult[c] # None \/ Overtaken(c)

\* From its start record to the stored result a command never goes unrecorded.
TraceKept ==
    \A c \in Command :
        /\ phase[c] \in Unanswered \/ executed[c] > 0 => c \in starts \/ Traced(c)
        /\ phase[c] = "saved" => Traced(c)

TraceInv == AckedIsDecided /\ TraceKept

\* A command that Core was asked to stop was in the browser.
StopsWhatWasSent ==
    \A c \in Command :
        CancelRequest(c) \in toBridge \/ c \in cancelMarks
        => state[c] \notin {"absent", "queued"}

\* A failure is reported by a handler that ends, and no other begins.
FailedIsOver ==
    \A c \in Command : Says(c, "failed") \/ state[c] = "failed" =>
        phase[c] \notin BeforeAction /\ Dispatch(c) \notin toBridge

\* Only the deadline times a command out.
TimedOutIsDue ==
    \A c \in Command :
        /\ ~Says(c, "timed_out")
        /\ state[c] = "timed_out" \/ outcome[c] = "timed_out" => c \in expired

\* The engine is told of enqueued commands that they failed or timed out.
ToldOfEnqueued ==
    \A c \in Command :
        /\ outcome[c] = "failed" => state[c] = "failed"
        /\ outcome[c] = "timed_out" \/ invoking = c => state[c] # "absent"

SameStep(c, d) == RunOf[c] = RunOf[d] /\ Attempt[c] < Attempt[d]

\* A retry is enqueued once every attempt before it ended in a way to retry.
RetriesFollow ==
    \A c, d \in Command :
        SameStep(c, d) /\ state[d] # "absent" => outcome[c] \in RetryOn

AttemptInv ==
    StopsWhatWasSent /\ FailedIsOver /\ TimedOutIsDue /\ ToldOfEnqueued /\ RetriesFollow

LEMMA InitEffects == Init => TraceInv /\ AttemptInv
<1> SUFFICES ASSUME Init PROVE TraceInv /\ AttemptInv
  OBVIOUS
<1>1. /\ toBridge = {} /\ toCore = {} /\ starts = {} /\ cancelMarks = {} /\ ackedSeq = 0
      /\ invoking = None
      /\ \A c \in Command : /\ state[c] = "absent" /\ outcome[c] = None /\ phase[c] = "idle"
                            /\ pendingResult[c] = None /\ executed[c] = 0
  BY DEF Init, LinkInit, GatewayInit, BridgeInit
<1>2. \A s : \A c \in Command : ~Says(c, s) /\ ~Recorded(c)
  BY <1>1 DEF Says, Recorded
<1>3. TraceInv
  BY <1>1, <1>2 DEF TraceInv, AckedIsDecided, TraceKept
<1>4. StopsWhatWasSent /\ FailedIsOver /\ RetriesFollow
  BY <1>1, <1>2 DEF StopsWhatWasSent, FailedIsOver, RetriesFollow
<1>5. None # "failed" /\ None # "timed_out"
  BY AnswerAssumption DEF Status
<1>6. TimedOutIsDue /\ ToldOfEnqueued
  BY <1>1, <1>2, <1>5, LinkAssumption DEF TimedOutIsDue, ToldOfEnqueued
<1> QED
  BY <1>3, <1>4, <1>6 DEF AttemptInv

----
(* What the steps of Core and of the environment do to a command. *)

CoreMoves(c) ==
    /\ state'[c] = "failed" => state[c] = "failed" \/ Says(c, "failed")
    /\ state'[c] = "timed_out"
       => state[c] = "timed_out" \/ c \in expired \/ Says(c, "timed_out")
    /\ outcome'[c] = "timed_out"
       => outcome[c] = "timed_out" \/ state[c] = "timed_out"
          \/ (c \in expired /\ invoking = c)
    /\ CancelRequest(c) \in toBridge'
       => CancelRequest(c) \in toBridge \/ state'[c] \in InBrowser
    /\ Dispatch(c) \in toBridge'
       => \/ Dispatch(c) \in toBridge
          \/ state[c] \in {"absent", "queued"} /\ state'[c] # "failed"
    /\ ResultAck(c, TRUE) \in toBridge'
       => ResultAck(c, TRUE) \in toBridge \/ state'[c] \in {"absent"} \cup Status
    /\ ResultAck(c, TRUE) \in toBridge' /\ state'[c] = "absent"
       => ResultAck(c, TRUE) \in toBridge \/ Recorded(c)
    /\ state[c] = "absent" /\ state'[c] # "absent" => Scheduled(c)
    /\ state'[c] = "queued" => state[c] \in {"absent", "queued"}
    /\ commandSeq'[c] # commandSeq[c] => state[c] = "absent"
    /\ invoking' = c => invoking = c \/ state'[c] # "absent"

BridgeSide ==
    /\ UNCHANGED <<phase, cancelMarks, starts, pendingResult, ackedSeq, executed>>
    /\ toCore' \subseteq toCore \cup {SessionHello}
    /\ expired \subseteq expired'

\* Core's side of the invariants.
LEMMA CoreEffects ==
    ASSUME DeliveryInv, DeliveryInv', Moves, TraceInv, AttemptInv,
           \A c \in Command : CoreMoves(c), BridgeSide
    PROVE  TraceInv' /\ AttemptInv'
<1> USE DEF BridgeSide
<1>1. \A c \in Command : LifeMoves(c) /\ ToldMoves(c)
  BY DEF Moves
<1>2. \A c \in Command : state[c] \in Status => state'[c] = state[c]
  BY <1>1 DEF LifeMoves, Pending, InBrowser, Status
<1>3. \A c \in Command : state'[c] = "absent" => state[c] = "absent"
  BY <1>1 DEF LifeMoves, Pending, InBrowser, Status
<1>4. \A s : \A c \in Command : /\ Says(c, s)' => Says(c, s)
                                /\ Recorded(c)' => Recorded(c)
  BY ResultIsNoOther DEF Says, Recorded
<1>5. \A c \in Command : state[c] = "absent" => ~Recorded(c)
  BY DEF DeliveryInv, OrderInv, AbsentUntouched, Touched
<1>6. AckedIsDecided'
  <2>1. \A c \in Command : ResultAck(c, TRUE) \in toBridge' => state'[c] \in Status
    <3> SUFFICES ASSUME NEW c \in Command, ResultAck(c, TRUE) \in toBridge'
                 PROVE  state'[c] \in Status
      OBVIOUS
    <3>1. CASE ResultAck(c, TRUE) \in toBridge
      BY <3>1, <1>2 DEF TraceInv, AckedIsDecided
    <3>2. CASE ResultAck(c, TRUE) \notin toBridge
      <4>1. state'[c] # "absent"
        BY <3>2, <1>3, <1>5 DEF CoreMoves
      <4> QED
        BY <3>2, <4>1 DEF CoreMoves
    <3> QED
      BY <3>1, <3>2
  <2>2. ackedSeq' = 0 \/ \E d \in Command : state'[d] \in Status /\ commandSeq'[d] = ackedSeq'
    <3>1. CASE ackedSeq = 0
      BY <3>1
    <3>2. CASE ackedSeq # 0
      <4>1. PICK d \in Command : state[d] \in Status /\ commandSeq[d] = ackedSeq
        BY <3>2 DEF TraceInv, AckedIsDecided
      <4>2. state'[d] \in Status /\ commandSeq'[d] = commandSeq[d]
        BY <4>1, <1>2 DEF CoreMoves, Status
      <4> QED
        BY <4>1, <4>2
    <3> QED
      BY <3>1, <3>2
  <2> QED
    BY <2>1, <2>2 DEF AckedIsDecided
<1>7. \A c \in Command : Traced(c) /\ state[c] # "absent" => Traced(c)'
  <2> SUFFICES ASSUME NEW c \in Command, Traced(c), state[c] # "absent" PROVE Traced(c)'
    OBVIOUS
  <2>1. CASE state[c] \in Status \/ pendingResult[c] # None
    BY <2>1, <1>2 DEF Traced
  <2>2. CASE Overtaken(c)
    <3>1. PICK d \in Command : /\ state[d] \in Status /\ commandSeq[c] < commandSeq[d]
                               /\ commandSeq[d] <= ackedSeq
      BY <2>2 DEF Overtaken
    <3>2. state'[d] \in Status /\ commandSeq'[d] = commandSeq[d]
          /\ commandSeq'[c] = commandSeq[c]
      BY <3>1, <1>2 DEF CoreMoves, Status
    <3> QED
      BY <3>1, <3>2 DEF Traced, Overtaken
  <2> QED
    BY <2>1, <2>2 DEF Traced
<1>8. \A c \in Command : phase[c] # "idle" \/ executed[c] > 0 => state[c] # "absent"
  BY DEF DeliveryInv, OrderInv, AbsentUntouched, Touched
<1>9. TraceKept'
  <2> SUFFICES ASSUME NEW c \in Command
               PROVE  /\ phase[c] \in Unanswered \/ executed[c] > 0
                         => c \in starts \/ Traced(c)'
                      /\ phase[c] = "saved" => Traced(c)'
    BY DEF TraceKept
  <2> QED
    BY <1>7, <1>8 DEF TraceInv, TraceKept
<1>10. \A c \in Command :
          state[c] \notin {"absent", "queued"} => state'[c] \notin {"absent", "queued"}
  BY <1>3 DEF CoreMoves
<1>11. StopsWhatWasSent'
  BY <1>10 DEF AttemptInv, StopsWhatWasSent, CoreMoves, InBrowser
<1>12. FailedIsOver'
  <2> SUFFICES ASSUME NEW c \in Command, Says(c, "failed")' \/ state'[c] = "failed"
               PROVE  phase[c] \notin BeforeAction /\ Dispatch(c) \notin toBridge'
    BY DEF FailedIsOver
  <2>1. Says(c, "failed") \/ state[c] = "failed"
    BY <1>4 DEF CoreMoves
  <2>2. phase[c] \notin BeforeAction /\ Dispatch(c) \notin toBridge
    BY <2>1 DEF AttemptInv, FailedIsOver
  <2>3. CASE Says(c, "failed")'
    <3>1. Recorded(c)'
      BY <2>3 DEF Says, Recorded
    <3> QED
      BY <2>2, <3>1 DEF DeliveryInv, OrderInv, DispatchedOnce
  <2>4. CASE state'[c] = "failed"
    BY <2>2, <2>4 DEF CoreMoves
  <2> QED
    BY <2>3, <2>4
<1>13. TimedOutIsDue'
  <2> SUFFICES ASSUME NEW c \in Command
               PROVE  /\ ~Says(c, "timed_out")'
                      /\ state'[c] = "timed_out" \/ outcome'[c] = "timed_out" => c \in expired'
    BY DEF TimedOutIsDue
  <2>1. ~Says(c, "timed_out")
    BY DEF AttemptInv, TimedOutIsDue
  <2>2. state[c] = "timed_out" \/ outcome[c] = "timed_out" => c \in expired
    BY DEF AttemptInv, TimedOutIsDue
  <2> QED
    BY <2>1, <2>2, <1>4 DEF CoreMoves
<1>14. ToldOfEnqueued'
  <2> SUFFICES ASSUME NEW c \in Command
               PROVE  /\ outcome'[c] = "failed" => state'[c] = "failed"
                      /\ outcome'[c] = "timed_out" \/ invoking' = c => state'[c] # "absent"
    BY DEF ToldOfEnqueued
  <2>1. /\ outcome[c] = "failed" => state[c] = "failed"
        /\ outcome[c] = "timed_out" \/ invoking = c => state[c] # "absent"
    BY DEF AttemptInv, ToldOfEnqueued
  <2>2. outcome'[c] = "failed" => state[c] = "failed"
    BY <2>1, <1>1 DEF ToldMoves, Ledger!Confirmed
  <2>3. state[c] = "failed" => state'[c] = "failed"
    BY <1>2 DEF Status
  <2>4. outcome'[c] = "timed_out" => state'[c] # "absent"
    BY <2>1, <1>3 DEF CoreMoves
  <2>5. invoking' = c => state'[c] # "absent"
    BY <2>1, <1>3 DEF CoreMoves
  <2> QED
    BY <2>2, <2>3, <2>4, <2>5
<1>15. RetriesFollow'
  <2> SUFFICES ASSUME NEW c \in Command, NEW d \in Command, SameStep(c, d),
                      state'[d] # "absent"
               PROVE  outcome'[c] \in RetryOn
    BY DEF RetriesFollow, SameStep
  <2>1. RetryOn \subseteq {"failed", "timed_out"} /\ None \notin RetryOn
    BY GatewayAssumption, AnswerAssumption DEF Status
  <2>2. \A e \in Command : outcome[e] \in RetryOn => state[e] # "absent"
    BY <2>1 DEF AttemptInv, ToldOfEnqueued
  <2>3. outcome[c] \in RetryOn
    <3>1. CASE state[d] # "absent"
      BY <3>1 DEF AttemptInv, RetriesFollow
    <3>2. CASE state[d] = "absent"
      <4>1. Scheduled(d)
        BY <3>2 DEF CoreMoves
      <4>2. Attempt \in [Command -> Nat \ {0}]
        BY GatewayAssumption
      <4>3. Attempt[d] # 1
        BY <4>2 DEF SameStep
      <4>4. PICK p \in Command : /\ RunOf[p] = RunOf[d] /\ Attempt[p] + 1 = Attempt[d]
                                 /\ outcome[p] \in RetryOn
        BY <4>1, <4>3 DEF Scheduled
      <4>5. RunOf[c] = RunOf[p] /\ (Attempt[c] = Attempt[p] \/ Attempt[c] < Attempt[p])
        BY <4>2, <4>4 DEF SameStep
      <4>6. CASE Attempt[c] = Attempt[p]
        BY <4>4, <4>5, <4>6, GatewayAssumption
      <4>7. CASE Attempt[c] < Attempt[p]
        BY <4>4, <4>5, <4>7, <2>2 DEF AttemptInv, RetriesFollow, SameStep
      <4> QED
        BY <4>5, <4>6, <4>7
    <3> QED
      BY <3>1, <3>2
  <2>4. outcome'[c] = outcome[c]
    BY <2>1, <2>3, <1>1 DEF ToldMoves
  <2> QED
    BY <2>3, <2>4
<1> QED
  BY <1>6, <1>9, <1>11, <1>12, <1>13, <1>14, <1>15 DEF TraceInv, AttemptInv

\* What a pass over the ledger s decides and sends.
LEMMA PassEffects ==
    ASSUME NEW s, NEW pages, NEW fresh, NEW q, DispatchPending(s, pages, fresh, q),
           NEW c \in Command
    PROVE  /\ \/ state'[c] = s[c]
              \/ s[c] = "queued" /\ state'[c] \in {"delivered", "rejected", "cancelled"}
           /\ CancelRequest(c) \in toBridge'
              => CancelRequest(c) \in toBridge \/ state'[c] \in InBrowser
           /\ Dispatch(c) \in toBridge' => Dispatch(c) \in toBridge \/ s[c] = "queued"
           /\ ResultAck(c, TRUE) \in toBridge' => ResultAck(c, TRUE) \in toBridge
<1> DEFINE t == CancelQueued(s, cancelled)
           sent == Sent(t, fresh, q)
           stops == CancelTargets(t, cancelled)
<1>1. /\ state' = DispatchPass(t, pages, fresh, q)
      /\ toBridge' = toBridge \cup {Dispatch(d) : d \in sent}
                              \cup {CancelRequest(d) : d \in stops}
  BY DEF DispatchPending
<1>2. t[c] = IF s[c] = "queued" /\ RunOf[c] \in cancelled THEN "cancelled" ELSE s[c]
  BY DEF CancelQueued
<1>3. c \in sent => t[c] = "queued"
  BY DEF Sent, Sendable, Examined
<1>4. c \in Refused(t, pages, fresh, q) => t[c] = "queued"
  BY DEF Refused, Examined
<1>5. c \in stops => t[c] \in InBrowser
  BY DEF CancelTargets
<1>6. state'[c] = IF c \in sent THEN "delivered"
                  ELSE IF c \in Refused(t, pages, fresh, q) THEN "rejected" ELSE t[c]
  BY <1>1 DEF DispatchPass
<1> HIDE DEF t, sent, stops
<1>7. CancelRequest(c) \in toBridge' => CancelRequest(c) \in toBridge \/ c \in stops
  <2>1. \A d : CancelRequest(c) # Dispatch(d) /\ (CancelRequest(c) = CancelRequest(d) => c = d)
    BY DEF CancelRequest, Dispatch
  <2> QED
    BY <1>1, <2>1
<1>8. Dispatch(c) \in toBridge' => Dispatch(c) \in toBridge \/ c \in sent
  BY <1>1, DispatchIsNoOther
<1>9. ResultAck(c, TRUE) \in toBridge' => ResultAck(c, TRUE) \in toBridge
  <2>1. \A d : ResultAck(c, TRUE) # Dispatch(d) /\ ResultAck(c, TRUE) # CancelRequest(d)
    BY DEF ResultAck, CancelRequest, Dispatch
  <2> QED
    BY <1>1, <2>1
<1>10. t[c] \in InBrowser => state'[c] = t[c]
  BY <1>3, <1>4, <1>6 DEF InBrowser
<1>11. \/ state'[c] = s[c]
       \/ s[c] = "queued" /\ state'[c] \in {"delivered", "rejected", "cancelled"}
  BY <1>2, <1>3, <1>4, <1>6
<1>12. c \in sent => s[c] = "queued"
  BY <1>2, <1>3
<1> QED
  BY <1>5, <1>7, <1>8, <1>9, <1>10, <1>11, <1>12

LEMMA PassCoreMoves ==
    ASSUME NEW s, NEW pages, NEW fresh, NEW q, DispatchPending(s, pages, fresh, q),
           NEW c \in Command,
           \/ s[c] = state[c]
           \/ state[c] \in Pending /\ s[c] = "timed_out" /\ c \in expired
           \/ state[c] = "absent" /\ s[c] = "queued" /\ Scheduled(c),
           UNCHANGED outcome,
           commandSeq'[c] # commandSeq[c] => state[c] = "absent",
           invoking' = c => invoking = c \/ s[c] # "absent"
    PROVE  CoreMoves(c)
<1>1. /\ \/ state'[c] = s[c]
         \/ s[c] = "queued" /\ state'[c] \in {"delivered", "rejected", "cancelled"}
      /\ CancelRequest(c) \in toBridge'
         => CancelRequest(c) \in toBridge \/ state'[c] \in InBrowser
      /\ Dispatch(c) \in toBridge' => Dispatch(c) \in toBridge \/ s[c] = "queued"
      /\ ResultAck(c, TRUE) \in toBridge' => ResultAck(c, TRUE) \in toBridge
  BY PassEffects
<1> QED
  BY <1>1 DEF CoreMoves, Pending, InBrowser

\* A step that decides at most one command on its own and sends nothing but what a
\* cancellation needs.
LEMMA PlainCoreMoves ==
    ASSUME NEW c \in Command,
           \/ state'[c] = state[c]
           \/ state[c] \in Pending
              /\ state'[c] \in {"accepted", "rejected", "cancelled"},
           outcome'[c] = "timed_out" =>
              outcome[c] = "timed_out" \/ state[c] = "timed_out"
              \/ (c \in expired /\ invoking = c),
           CancelRequest(c) \in toBridge' =>
              CancelRequest(c) \in toBridge \/ state'[c] \in InBrowser,
           Dispatch(c) \in toBridge' => Dispatch(c) \in toBridge,
           ResultAck(c, TRUE) \in toBridge' => ResultAck(c, TRUE) \in toBridge,
           UNCHANGED commandSeq, invoking' = c => invoking = c
    PROVE  CoreMoves(c)
BY DEF CoreMoves, Pending, InBrowser

\* Requests to stop and acknowledgements of results are told from the rest.
LEMMA BridgeMessageKinds ==
    ASSUME NEW c, NEW d, NEW ok
    PROVE  /\ CancelRequest(c) = CancelRequest(d) => c = d
           /\ CancelRequest(c) # Dispatch(d) /\ CancelRequest(c) # ResultAck(d, ok)
           /\ CancelRequest(c) # EvidenceAck(d, ok)
           /\ CancelRequest(c) # SessionWelcome /\ CancelRequest(c) # SessionResume
           /\ ResultAck(c, TRUE) = ResultAck(d, ok) => c = d /\ ok = TRUE
           /\ ResultAck(c, TRUE) # Dispatch(d) /\ ResultAck(c, TRUE) # CancelRequest(d)
           /\ ResultAck(c, TRUE) # EvidenceAck(d, ok)
           /\ ResultAck(c, TRUE) # SessionWelcome /\ ResultAck(c, TRUE) # SessionResume
BY DEF CancelRequest, Dispatch, ResultAck, EvidenceAck, SessionWelcome, SessionResume

\* Frames.
LEMMA TimerSide == UNCHANGED timerFrame => BridgeSide
BY DEF timerFrame, bridgeVars, volatileVars, durableVars, BridgeSide

LEMMA HandlerSide ==
    UNCHANGED handlerFrame /\ toCore' \subseteq toCore => BridgeSide
BY DEF handlerFrame, bridgeVars, volatileVars, durableVars, BridgeSide

LEMMA CoreNextMoves ==
    ASSUME TypeOK, CoreNext
    PROVE  BridgeSide /\ \A c \in Command : CoreMoves(c)
<1>1. ASSUME NEW r \in Run, RunStarts(r) PROVE BridgeSide /\ \A c \in Command : CoreMoves(c)
  BY <1>1, PlainCoreMoves DEF RunStarts, StartRun, volatileVars, durableVars, BridgeSide
<1>2. ASSUME NEW r \in Run, Cancels(r) PROVE BridgeSide /\ \A c \in Command : CoreMoves(c)
  <2>1. /\ RequestCancel({r}) /\ UNCHANGED <<outcome, invoking, commandSeq>>
        /\ UNCHANGED timerFrame
    BY <1>2 DEF Cancels, CancelRun
  <2> DEFINE stops == IF coreConn = "ready" THEN CancelTargets(state, {r}) ELSE {}
  <2>2. /\ state' = CancelQueued(state, {r})
        /\ toBridge' = toBridge \cup {CancelRequest(c) : c \in stops}
    BY <2>1 DEF RequestCancel
  <2>3. \A c \in stops : state[c] \in InBrowser
    BY DEF CancelTargets
  <2> HIDE DEF stops
  <2>4. ASSUME NEW c \in Command PROVE CoreMoves(c)
    <3>1. state'[c] = IF state[c] = "queued" /\ RunOf[c] \in {r} THEN "cancelled" ELSE state[c]
      BY <2>2 DEF CancelQueued
    <3>2. CancelRequest(c) \in toBridge' => CancelRequest(c) \in toBridge \/ c \in stops
      BY <2>2, BridgeMessageKinds
    <3>3. CancelRequest(c) \in toBridge' => CancelRequest(c) \in toBridge \/ state'[c] \in InBrowser
      BY <2>3, <3>1, <3>2 DEF InBrowser
    <3>4. /\ Dispatch(c) \in toBridge' => Dispatch(c) \in toBridge
          /\ ResultAck(c, TRUE) \in toBridge' => ResultAck(c, TRUE) \in toBridge
      BY <2>2, BridgeMessageKinds
    <3> QED
      BY <2>1, <3>1, <3>3, <3>4, PlainCoreMoves DEF Pending
  <2> QED
    BY <2>1, <2>4, TimerSide
<1>3. ASSUME NEW d \in Command, Drain(d) \/ Polls(d)
      PROVE  BridgeSide /\ \A c \in Command : CoreMoves(c)
  <2>1. \E o : /\ Tell(d, o)
               /\ o = "timed_out" => state[d] = "timed_out"
    BY <1>3 DEF Drain, DrainExpired, DrainRefused, Polls, PollTerminal
  <2>2. \A c \in Command : outcome'[c] = "timed_out" =>
           outcome[c] = "timed_out" \/ state[c] = "timed_out"
    BY <2>1 DEF Tell, TypeOK, GatewayTypeOK
  <2>3. /\ UNCHANGED <<state, toBridge, commandSeq, timerFrame>>
        /\ invoking' = invoking \/ invoking' = None
    BY <1>3 DEF Drain, DrainExpired, DrainRefused, Polls, PollTerminal
  <2>4. \A c \in Command : invoking' = c => invoking = c
    BY <2>3, LinkAssumption
  <2> QED
    BY <2>2, <2>3, <2>4, TimerSide, PlainCoreMoves
<1>4. ASSUME NEW d \in Command, Invokes(d)
      PROVE  BridgeSide /\ \A c \in Command : CoreMoves(c)
  <2>1. PICK fresh \in SUBSET current : Invoke(d, fresh) /\ UNCHANGED timerFrame
    BY <1>4 DEF Invokes
  <2> DEFINE s == IF state[d] = "absent" THEN [state EXCEPT ![d] = "queued"] ELSE state
  <2>2. /\ Drainable(d) /\ invoking' = d /\ UNCHANGED outcome
        /\ IF state[d] = "absent" THEN Enqueued(d) ELSE UNCHANGED commandSeq
        /\ IF coreConn = "ready" THEN DispatchPending(s, current, fresh, commandSeq')
           ELSE state' = s /\ UNCHANGED <<cancelSent, toBridge>>
    BY <2>1 DEF Invoke
  <2>3. \A c \in Command : s[c] = IF c = d /\ state[c] = "absent" THEN "queued" ELSE state[c]
    BY DEF TypeOK, GatewayTypeOK
  <2> HIDE DEF s
  <2>4. \A c \in Command : commandSeq'[c] # commandSeq[c] => state[c] = "absent"
    <3>1. CASE state[d] = "absent"
      <4>1. \A c \in Command : c # d => commandSeq'[c] = commandSeq[c]
        BY <2>2, <3>1 DEF Enqueued, TypeOK, LinkTypeOK
      <4> QED
        BY <3>1, <4>1
    <3>2. CASE state[d] # "absent"
      BY <2>2, <3>2
    <3> QED
      BY <3>1, <3>2
  <2>5. Scheduled(d)
    BY <2>2 DEF Drainable
  <2>6. \A c \in Command : invoking' = c => s[c] # "absent"
    BY <2>2, <2>3
  <2>7. ASSUME NEW c \in Command PROVE CoreMoves(c)
    <3>1. \/ s[c] = state[c]
          \/ state[c] = "absent" /\ s[c] = "queued" /\ Scheduled(c)
      BY <2>3, <2>5
    <3>2. CASE coreConn = "ready"
      <4>1. DispatchPending(s, current, fresh, commandSeq')
        BY <2>2, <3>2
      <4> QED
        BY <2>2, <2>4, <2>6, <3>1, <4>1, PassCoreMoves
    <3>3. CASE coreConn # "ready"
      <4>1. state' = s /\ UNCHANGED <<toBridge, outcome>>
        BY <2>2, <3>3
      <4> QED
        BY <2>4, <2>6, <3>1, <4>1 DEF CoreMoves
    <3> QED
      BY <3>2, <3>3
  <2> QED
    BY <2>1, <2>7, TimerSide
<1>5. ASSUME NEW d \in Command, Aborts(d)
      PROVE  BridgeSide /\ \A c \in Command : CoreMoves(c)
  <2>1. /\ invoking = d /\ d \in expired /\ invoking' = None /\ Tell(d, "timed_out")
        /\ state' = IF state[d] = "queued" THEN [state EXCEPT ![d] = "cancelled"] ELSE state
        /\ toBridge' = toBridge
           \/ (state[d] \in InBrowser /\ toBridge' = toBridge \cup {CancelRequest(d)})
        /\ UNCHANGED <<commandSeq, timerFrame>>
    BY <1>5 DEF Aborts, InvokeDeadline
  <2>2. ASSUME NEW c \in Command PROVE CoreMoves(c)
    <3>1. \/ state'[c] = state[c]
          \/ state[c] = "queued" /\ state'[c] = "cancelled"
      BY <2>1 DEF TypeOK, GatewayTypeOK
    <3>2. outcome'[c] = "timed_out" => outcome[c] = "timed_out" \/ (c \in expired /\ invoking = c)
      BY <2>1 DEF Tell, TypeOK, GatewayTypeOK
    <3>3. CancelRequest(c) \in toBridge' => CancelRequest(c) \in toBridge \/ state'[c] \in InBrowser
      <4>1. state[d] \in InBrowser => state' = state
        BY <2>1 DEF InBrowser
      <4>2. CancelRequest(c) \in toBridge' =>
               CancelRequest(c) \in toBridge \/ (c = d /\ state[d] \in InBrowser)
        <5>1. CancelRequest(c) = CancelRequest(d) => c = d
          BY BridgeMessageKinds
        <5>2. \/ toBridge' = toBridge
              \/ state[d] \in InBrowser /\ toBridge' = toBridge \cup {CancelRequest(d)}
          BY <2>1
        <5> QED
          BY <5>1, <5>2
      <4> QED
        BY <4>1, <4>2
    <3>4. /\ Dispatch(c) \in toBridge' => Dispatch(c) \in toBridge
          /\ ResultAck(c, TRUE) \in toBridge' => ResultAck(c, TRUE) \in toBridge
      BY <2>1, BridgeMessageKinds
    <3>5. invoking' = c => invoking = c
      BY <2>1, LinkAssumption
    <3> QED
      BY <2>1, <3>1, <3>2, <3>3, <3>4, <3>5, PlainCoreMoves DEF Pending
  <2> QED
    BY <2>1, <2>2, TimerSide
<1>6. CASE Ticks
  <2>1. PICK fresh \in SUBSET current : Tick(fresh) /\ UNCHANGED timerFrame
    BY <1>6 DEF Ticks
  <2>2. ASSUME NEW c \in Command
        PROVE  TimeOut(state)[c] = state[c]
               \/ (state[c] \in Pending /\ TimeOut(state)[c] = "timed_out" /\ c \in expired)
    BY DEF TimeOut
  <2>3. CASE coreConn = "ready"
    <3>1. DispatchPending(TimeOut(state), current, fresh, commandSeq)
          /\ UNCHANGED <<outcome, invoking, commandSeq>>
      BY <2>1, <2>3 DEF Tick
    <3> QED
      BY <2>1, <2>2, <3>1, PassCoreMoves, TimerSide
  <2>4. CASE coreConn # "ready"
    <3>1. state' = CancelQueued(TimeOut(state), cancelled)
          /\ UNCHANGED <<toBridge, outcome, invoking, commandSeq>>
      BY <2>1, <2>4 DEF Tick
    <3>2. ASSUME NEW c \in Command PROVE CoreMoves(c)
      <4>1. \/ state'[c] = TimeOut(state)[c]
            \/ TimeOut(state)[c] = "queued" /\ state'[c] = "cancelled"
        BY <3>1 DEF CancelQueued
      <4> QED
        BY <2>2, <3>1, <4>1 DEF CoreMoves, Pending, InBrowser
    <3> QED
      BY <2>1, <3>2, TimerSide
  <2> QED
    BY <2>3, <2>4
<1>7. CASE GetsReady
  BY <1>7, PassCoreMoves, TimerSide DEF GetsReady, HandleCapabilities
<1>8. ASSUME NEW t \in Tab, Observes(t) PROVE BridgeSide /\ \A c \in Command : CoreMoves(c)
  <2>1. PICK fresh \in SUBSET Run : HandleObservation(t, intact, fresh) /\ UNCHANGED timerFrame
    BY <1>8 DEF Observes
  <2>2. UNCHANGED <<outcome, invoking, commandSeq>>
        /\ \E seen : DispatchPending(state, seen, fresh, commandSeq)
    BY <2>1 DEF HandleObservation
  <2> QED
    BY <2>1, <2>2, PassCoreMoves, TimerSide
<1>9. CASE Hello
  <2>1. /\ UNCHANGED <<state, outcome, invoking, commandSeq, bridgeVars, expired>>
        /\ toCore' \subseteq toCore
        /\ toBridge' \subseteq toBridge \cup {SessionWelcome, SessionResume}
    BY <1>9 DEF Hello, HandleHello
  <2>2. \A c \in Command :
           /\ CancelRequest(c) \in toBridge' => CancelRequest(c) \in toBridge
           /\ Dispatch(c) \in toBridge' => Dispatch(c) \in toBridge
           /\ ResultAck(c, TRUE) \in toBridge' => ResultAck(c, TRUE) \in toBridge
    BY <2>1, BridgeMessageKinds, DispatchIsNoOther
  <2> QED
    BY <2>1, <2>2, PlainCoreMoves DEF bridgeVars, volatileVars, durableVars, BridgeSide
<1>10. ASSUME NEW d \in Command, NEW ok \in BOOLEAN, GetsAck(d, ok)
       PROVE  BridgeSide /\ \A c \in Command : CoreMoves(c)
  <2>1. /\ state' = IF state[d] \in Pending /\ InSession(d)
                    THEN [state EXCEPT ![d] = IF ok THEN "accepted" ELSE "rejected"]
                    ELSE state
        /\ UNCHANGED <<toBridge, outcome, invoking, handlerFrame>> /\ toCore' \subseteq toCore
    BY <1>10 DEF GetsAck, ReceiveAck, Receive
  <2>2. \A c \in Command : \/ state'[c] = state[c]
                           \/ state[c] \in Pending /\ state'[c] \in {"accepted", "rejected"}
    BY <2>1 DEF TypeOK, GatewayTypeOK
  <2> QED
    BY <2>1, <2>2, PlainCoreMoves, HandlerSide DEF handlerFrame
<1>11. ASSUME NEW d \in Command, NEW r \in Result, GetsResult(d, r)
       PROVE  BridgeSide /\ \A c \in Command : CoreMoves(c)
  <2>1. /\ ResultMsg(d, r) \in toCore /\ toCore' \subseteq toCore
        /\ UNCHANGED <<outcome, invoking, handlerFrame>>
        /\ \/ UNCHANGED <<toBridge, state>>
           \/ /\ toBridge' = toBridge \cup {ResultAck(d, Acceptable(d, r))}
              /\ state' = IF state[d] \in Pending /\ Acceptable(d, r)
                          THEN [state EXCEPT ![d] = r.status] ELSE state
    BY <1>11 DEF GetsResult, ReceiveResult, Receive
  <2>2. Recorded(d) /\ Says(d, r.status) /\ r.status \in Status
    BY <2>1 DEF Recorded, Says, Result
  <2>3. ASSUME NEW c \in Command PROVE CoreMoves(c)
    <3>1. \/ state'[c] = state[c]
          \/ c = d /\ state[c] \in Pending /\ state'[c] = r.status
      BY <2>1 DEF TypeOK, GatewayTypeOK
    <3>2. /\ CancelRequest(c) \in toBridge' => CancelRequest(c) \in toBridge
          /\ Dispatch(c) \in toBridge' => Dispatch(c) \in toBridge
      BY <2>1, BridgeMessageKinds, DispatchIsNoOther
    <3>3. ResultAck(c, TRUE) \in toBridge' =>
             \/ ResultAck(c, TRUE) \in toBridge
             \/ c = d /\ state'[c] \notin Pending
      <4>1. CASE UNCHANGED <<toBridge, state>>
        BY <4>1
      <4>2. CASE /\ toBridge' = toBridge \cup {ResultAck(d, Acceptable(d, r))}
                 /\ state' = IF state[d] \in Pending /\ Acceptable(d, r)
                             THEN [state EXCEPT ![d] = r.status] ELSE state
        <5>1. ResultAck(c, TRUE) \in toBridge' =>
                 ResultAck(c, TRUE) \in toBridge \/ (c = d /\ Acceptable(d, r))
          <6>1. ResultAck(c, TRUE) = ResultAck(d, Acceptable(d, r))
                => c = d /\ Acceptable(d, r) = TRUE
            BY BridgeMessageKinds
          <6> QED
            BY <4>2, <6>1
        <5>2. Acceptable(d, r) => state'[d] \notin Pending
          BY <4>2, <2>2 DEF TypeOK, GatewayTypeOK, Status, Pending, InBrowser
        <5> QED
          BY <5>1, <5>2
      <4> QED
        BY <2>1, <4>1, <4>2
    <3>4. state'[c] \in CommandState
      BY <3>1, <2>2 DEF TypeOK, GatewayTypeOK, CommandState
    <3>5. ResultAck(c, TRUE) \in toBridge' => ResultAck(c, TRUE) \in toBridge
             \/ (Recorded(c) /\ state'[c] \in {"absent"} \cup Status)
      BY <2>2, <3>3, <3>4 DEF CommandState
    <3>6. commandSeq' = commandSeq
      BY <2>1 DEF handlerFrame
    <3> HIDE DEF CoreMoves
    <3>7. state'[c] # state[c] => Says(c, state'[c]) /\ state'[c] \in Status /\ state[c] \in Pending
      BY <2>2, <3>1
    <3> QED
      BY <2>1, <3>2, <3>5, <3>6, <3>7 DEF CoreMoves, Pending, InBrowser, Status
  <2> QED
    BY <2>1, <2>3, HandlerSide
<1>12. ASSUME NEW d \in Command, GetsStop(d)
       PROVE  BridgeSide /\ \A c \in Command : CoreMoves(c)
  <2>1. /\ state' = IF state[d] \in Pending /\ InSession(d)
                    THEN [state EXCEPT ![d] = "cancelled"] ELSE state
        /\ UNCHANGED <<toBridge, outcome, invoking, handlerFrame>> /\ toCore' \subseteq toCore
    BY <1>12 DEF GetsStop, ReceiveCancelEffective, Receive
  <2>2. \A c \in Command : \/ state'[c] = state[c]
                           \/ state[c] \in Pending /\ state'[c] = "cancelled"
    BY <2>1 DEF TypeOK, GatewayTypeOK
  <2> QED
    BY <2>1, <2>2, PlainCoreMoves, HandlerSide DEF handlerFrame
<1>13. ASSUME NEW d \in Command, GetsEvidence(d)
       PROVE  BridgeSide /\ \A c \in Command : CoreMoves(c)
  <2>1. /\ \E ok \in BOOLEAN : toBridge' = toBridge \cup {EvidenceAck(d, ok)}
        /\ UNCHANGED <<state, outcome, invoking, handlerFrame>> /\ toCore' \subseteq toCore
    BY <1>13 DEF GetsEvidence, ReceiveEvidence, Receive
  <2>2. \A c \in Command :
           /\ CancelRequest(c) \in toBridge' => CancelRequest(c) \in toBridge
           /\ Dispatch(c) \in toBridge' => Dispatch(c) \in toBridge
           /\ ResultAck(c, TRUE) \in toBridge' => ResultAck(c, TRUE) \in toBridge
    BY <2>1, BridgeMessageKinds, DispatchIsNoOther
  <2> QED
    BY <2>1, <2>2, PlainCoreMoves, HandlerSide DEF handlerFrame
<1> QED
  BY <1>1, <1>2, <1>3, <1>4, <1>5, <1>6, <1>7, <1>8, <1>9, <1>10, <1>11, <1>12, <1>13
  DEF CoreNext

\* A crash of Core cancels what is queued of cancelled runs.
LEMMA RestartMoves ==
    ASSUME NEW s, Restart(s), NEW c \in Command,
           \/ s[c] = state[c]
           \/ state[c] = "absent" /\ s[c] = "queued" /\ Scheduled(c),
           commandSeq'[c] # commandSeq[c] => state[c] = "absent",
           CancelRequest(c) \in toBridge' => CancelRequest(c) \in toBridge,
           Dispatch(c) \in toBridge' => Dispatch(c) \in toBridge \/ s[c] = "queued",
           ResultAck(c, TRUE) \in toBridge' => ResultAck(c, TRUE) \in toBridge
    PROVE  CoreMoves(c)
<1>1. \/ state'[c] = s[c]
      \/ s[c] = "queued" /\ state'[c] = "cancelled"
  BY DEF Restart, CancelQueued
<1>2. invoking' # c /\ UNCHANGED outcome
  BY LinkAssumption DEF Restart
<1> QED
  BY <1>1, <1>2 DEF CoreMoves, Pending, InBrowser

LEMMA EnvironmentMoves ==
    ASSUME TypeOK, EnvironmentNext, ~WorkerRestarts
    PROVE  BridgeSide /\ \A c \in Command : CoreMoves(c)
<1>1. ASSUME \/ \E d \in Command : Expire(d)
             \/ \E t \in Tab : PageChanges(t)
      PROVE  BridgeSide /\ \A c \in Command : CoreMoves(c)
  <2>1. /\ UNCHANGED <<state, outcome, invoking, toBridge, toCore, commandSeq, phase,
                       cancelMarks, starts, pendingResult, ackedSeq, executed>>
        /\ expired \subseteq expired'
    BY <1>1
    DEF Expire, PageChanges, linkVars, gatewayVars, bridgeVars, volatileVars, durableVars
  <2> QED
    BY <2>1, PlainCoreMoves DEF BridgeSide
<1>2. CASE LinkLost
  <2>1. /\ UNCHANGED <<state, outcome, invoking, commandSeq, expired, phase, cancelMarks,
                       starts, pendingResult, ackedSeq, executed>>
        /\ toBridge' = {} /\ toCore' = {}
    BY <1>2 DEF LinkLost, PipeBreaks, bridgeVars, volatileVars, durableVars
  <2> QED
    BY <2>1, PlainCoreMoves DEF BridgeSide
<1>3. ASSUME CoreRestarts \/ \E d \in Command : CoreRestartsInPass(d) PROVE BridgeSide
  BY <1>3
  DEF CoreRestarts, CoreCrash, CoreRestartsInPass, CrashAfterSend, CrashInInvoke, Restart,
      bridgeVars, volatileVars, durableVars, BridgeSide
<1>4. CASE CoreRestarts
  BY <1>3, <1>4, RestartMoves DEF CoreRestarts, CoreCrash
<1>5. ASSUME NEW d \in Command, CoreRestartsInPass(d)
      PROVE  BridgeSide /\ \A c \in Command : CoreMoves(c)
  <2>1. PICK fresh \in SUBSET current : CrashAfterSend(d, fresh) \/ CrashInInvoke(d, fresh)
    BY <1>5 DEF CoreRestartsInPass
  <2>2. toBridge' = toBridge \cup {Dispatch(d)}
    BY <2>1 DEF CrashAfterSend, CrashInInvoke
  <2>3. ASSUME NEW c \in Command
        PROVE  /\ CancelRequest(c) \in toBridge' => CancelRequest(c) \in toBridge
               /\ Dispatch(c) \in toBridge' => Dispatch(c) \in toBridge \/ c = d
               /\ ResultAck(c, TRUE) \in toBridge' => ResultAck(c, TRUE) \in toBridge
    BY <2>2, BridgeMessageKinds, DispatchIsNoOther
  <2>4. CASE CrashAfterSend(d, fresh)
    <3>1. Restart(state) /\ UNCHANGED commandSeq /\ state[d] = "queued"
      BY <2>4 DEF CrashAfterSend, Sent, Sendable, Examined
    <3>2. \A c \in Command : CoreMoves(c)
      BY <2>3, <3>1, RestartMoves
    <3> QED
      BY <1>3, <1>5, <3>2
  <2>5. CASE CrashInInvoke(d, fresh)
    <3> DEFINE s == [state EXCEPT ![d] = "queued"]
    <3>1. Restart(s) /\ state[d] = "absent" /\ Enqueued(d) /\ Scheduled(d)
      BY <2>5 DEF CrashInInvoke, Drainable
    <3>2. \A c \in Command : s[c] = IF c = d THEN "queued" ELSE state[c]
      BY DEF TypeOK, GatewayTypeOK
    <3>3. \A c \in Command : c # d => commandSeq'[c] = commandSeq[c]
      BY <3>1 DEF Enqueued, TypeOK, LinkTypeOK
    <3> HIDE DEF s
    <3>4. \A c \in Command : CoreMoves(c)
      BY <2>3, <3>1, <3>2, <3>3, RestartMoves
    <3> QED
      BY <1>3, <1>5, <3>4
  <2> QED
    BY <2>1, <2>4, <2>5
<1> QED
  BY <1>1, <1>2, <1>3, <1>4, <1>5 DEF EnvironmentNext

----
(* What the bridge's steps do to the invariants. *)

Watermark ==
    \/ ackedSeq' = ackedSeq
    \/ /\ ackedSeq < ackedSeq'
       /\ \E c \in Command : ResultAck(c, TRUE) \in toBridge /\ ackedSeq' = commandSeq[c]

CoreSide ==
    /\ UNCHANGED <<state, outcome, invoking, commandSeq, expired>>
    /\ toBridge' \subseteq toBridge

LEMMA BridgeEffects ==
    ASSUME DeliveryInv, DeliveryInv', Moves, TraceInv, AttemptInv,
           \A c \in Command : BridgeMoves(c), Watermark, CoreSide
    PROVE  TraceInv' /\ AttemptInv'
<1> USE DEF CoreSide
<1>1. \A c \in Command : Recorded(c) => state[c] # "absent"
  BY DEF DeliveryInv, OrderInv, AbsentUntouched, Touched
<1>2. AckedIsDecided'
  BY DEF Watermark, TraceInv, AckedIsDecided
<1>3. /\ commandSeq \in [Command -> Nat] /\ ackedSeq \in Nat /\ ackedSeq' \in Nat
      /\ ackedSeq <= ackedSeq'
  <2>1. commandSeq \in [Command -> Nat] /\ ackedSeq \in Nat /\ ackedSeq' \in Nat
    BY DEF DeliveryInv, TypeOK, LinkTypeOK, BridgeTypeOK
  <2>2. ackedSeq' = ackedSeq \/ ackedSeq < ackedSeq'
    BY DEF Watermark
  <2> QED
    BY <2>1, <2>2
<1>4. ASSUME NEW c \in Command, pendingResult[c] # None, pendingResult'[c] = None
      PROVE  Traced(c)'
  <2>1. ResultAck(c, TRUE) \in toBridge \/ commandSeq[c] <= ackedSeq
    BY <1>4 DEF BridgeMoves
  <2>2. CASE ResultAck(c, TRUE) \in toBridge
    BY <2>2 DEF TraceInv, AckedIsDecided, Traced
  <2>3. CASE commandSeq[c] <= ackedSeq
    <3>1. state[c] # "absent"
      BY <1>1, <1>4 DEF Recorded
    <3>2. commandSeq[c] # 0
      BY <3>1 DEF DeliveryInv, OrderInv, Numbered
    <3>3. ackedSeq # 0
      BY <2>3, <3>2, <1>3
    <3>4. PICK d \in Command : state[d] \in Status /\ commandSeq[d] = ackedSeq
      BY <3>3 DEF TraceInv, AckedIsDecided
    <3>5. CASE commandSeq[c] = commandSeq[d]
      <4>1. c = d
        BY <3>2, <3>5 DEF DeliveryInv, OrderInv, Numbered
      <4> QED
        BY <3>4, <4>1 DEF Traced
    <3>6. CASE commandSeq[c] # commandSeq[d]
      <4>1. commandSeq[c] < commandSeq[d] /\ commandSeq[d] <= ackedSeq'
        BY <2>3, <3>4, <3>6, <1>3
      <4> QED
        BY <3>4, <4>1 DEF Traced, Overtaken
    <3> QED
      BY <3>5, <3>6
  <2> QED
    BY <2>1, <2>2, <2>3
<1>5. \A c \in Command : Traced(c) => Traced(c)'
  <2> SUFFICES ASSUME NEW c \in Command, Traced(c) PROVE Traced(c)'
    OBVIOUS
  <2>1. CASE state[c] \in Status
    BY <2>1 DEF Traced
  <2>2. CASE pendingResult[c] # None
    BY <2>2, <1>4 DEF Traced
  <2>3. CASE Overtaken(c)
    <3>1. PICK d \in Command : /\ state[d] \in Status /\ commandSeq[c] < commandSeq[d]
                               /\ commandSeq[d] <= ackedSeq
      BY <2>3 DEF Overtaken
    <3>2. commandSeq[d] <= ackedSeq'
      BY <3>1, <1>3
    <3> QED
      BY <3>1, <3>2 DEF Traced, Overtaken
  <2> QED
    BY <2>1, <2>2, <2>3 DEF Traced
<1>6. TraceKept'
  <2> SUFFICES ASSUME NEW c \in Command
               PROVE  /\ phase'[c] \in Unanswered \/ executed'[c] > 0
                         => c \in starts' \/ Traced(c)'
                      /\ phase'[c] = "saved" => Traced(c)'
    BY DEF TraceKept
  <2>1. /\ phase[c] \in Unanswered \/ executed[c] > 0 => c \in starts \/ Traced(c)
        /\ phase[c] = "saved" => Traced(c)
    BY DEF TraceInv, TraceKept
  <2>2. phase'[c] = "saved" => Traced(c)'
    BY <2>1, <1>5 DEF BridgeMoves, Traced
  <2>3. /\ phase'[c] \in Unanswered => phase[c] \in Unanswered \/ c \in starts'
        /\ executed'[c] # executed[c] => phase'[c] = "executing"
        /\ c \in starts /\ c \notin starts'
           => \/ pendingResult'[c] # None \/ phase[c] = "saved"
              \/ phase[c] = "pacing" /\ phase'[c] = "idle"
    BY DEF BridgeMoves
  <2>4. phase[c] = "pacing" => ~(executed[c] > 0)
    BY DEF DeliveryInv, OrderInv, DispatchedOnce
  <2>5. ASSUME phase'[c] \in Unanswered \/ executed'[c] > 0
        PROVE  c \in starts' \/ Traced(c)'
    <3>1. CASE c \in starts /\ c \notin starts'
      <4>1. CASE pendingResult'[c] # None
        BY <4>1 DEF Traced
      <4>2. CASE phase[c] = "saved"
        BY <4>2, <2>1, <1>5
      <4>3. CASE phase[c] = "pacing" /\ phase'[c] = "idle"
        <5>1. executed'[c] > 0 /\ executed'[c] # executed[c]
          BY <2>5, <2>4, <4>3
        <5> QED
          BY <5>1, <4>3, <2>3
      <4> QED
        BY <3>1, <2>3, <4>1, <4>2, <4>3
    <3>2. CASE c \notin starts
      <4>1. phase[c] \in Unanswered \/ executed[c] > 0 \/ c \in starts'
        BY <2>3, <2>5
      <4> QED
        BY <4>1, <3>2, <2>1, <1>5
    <3> QED
      BY <3>1, <3>2
  <2> QED
    BY <2>2, <2>5
<1>7. StopsWhatWasSent'
  BY DEF BridgeMoves, AttemptInv, StopsWhatWasSent
<1>8. FailedIsOver'
  <2> SUFFICES ASSUME NEW c \in Command, Says(c, "failed")' \/ state[c] = "failed"
               PROVE  phase'[c] \notin BeforeAction /\ Dispatch(c) \notin toBridge'
    BY DEF FailedIsOver
  <2>1. CASE Says(c, "failed") \/ state[c] = "failed"
    <3>1. phase[c] \notin BeforeAction /\ Dispatch(c) \notin toBridge
      BY <2>1 DEF AttemptInv, FailedIsOver
    <3> QED
      BY <3>1 DEF BridgeMoves
  <2>2. CASE phase[c] # "idle" /\ phase'[c] = "saved"
    BY <2>2 DEF DeliveryInv, OrderInv, DispatchedOnce
  <2> QED
    BY <2>1, <2>2 DEF BridgeMoves
<1>9. TimedOutIsDue' /\ ToldOfEnqueued' /\ RetriesFollow'
  BY DEF BridgeMoves, AttemptInv, TimedOutIsDue, ToldOfEnqueued, RetriesFollow
<1> QED
  BY <1>2, <1>6, <1>7, <1>8, <1>9 DEF TraceInv, AttemptInv

LEMMA BridgeFrames ==
    ASSUME TypeOK, BridgeNext \/ WorkerRestarts
    PROVE  Watermark /\ CoreSide
<1>1. ASSUME NEW d \in Command, NEW b \in BOOLEAN, HandlesResultAck(d, b)
      PROVE  Watermark /\ CoreSide
  <2>1. CoreSide
    BY <1>1
    DEF HandlesResultAck, ReceiveResultAck, Handle, bridgeFrame, portFrame, gatewayVars,
        CoreSide
  <2>2. ResultAck(d, b) \in toBridge
    BY <1>1 DEF HandlesResultAck, ReceiveResultAck, Handle
  <2>3. \/ ackedSeq' = ackedSeq
        \/ b /\ commandSeq[d] > ackedSeq /\ ackedSeq' = commandSeq[d]
    BY <1>1 DEF HandlesResultAck, ReceiveResultAck
  <2>4. CASE b /\ commandSeq[d] > ackedSeq /\ ackedSeq' = commandSeq[d]
    <3>1. ackedSeq < ackedSeq'
      BY <2>4 DEF TypeOK, LinkTypeOK, BridgeTypeOK
    <3> QED
      BY <2>1, <2>2, <2>4, <3>1 DEF Watermark
  <2> QED
    BY <2>1, <2>3, <2>4 DEF Watermark
<1>2. ASSUME ~(\E d \in Command, b \in BOOLEAN : HandlesResultAck(d, b))
      PROVE  ackedSeq' = ackedSeq /\ CoreSide
  <2>1. CASE \E d \in Command : \/ HandlesDispatch(d) \/ Starts(d) \/ StopsBefore(d)
                               \/ ChecksDeadline(d) \/ ChecksPage(d) \/ Executes(d)
                               \/ Finishes(d) \/ HandlesCancel(d)
                               \/ \E status \in {"rejected", "failed"} : Blocks(d, status)
    <3>1. UNCHANGED bridgeFrame /\ ackedSeq' = ackedSeq /\ toBridge' \subseteq toBridge
      BY <2>1
      DEF HandlesDispatch, ReceiveDispatch, Starts, StartCommand, StopsBefore,
          CancelBeforeAction, ChecksDeadline, CheckDeadline, ChecksPage, CheckPage,
          Blocks, StopBeforeAction, Executes, Execute, Finishes, FinishCommand,
          HandlesCancel, ReceiveCancel, Handle, durableVars
    <3> QED
      BY <3>1 DEF bridgeFrame, portFrame, gatewayVars, CoreSide
  <2>2. CASE \E d \in Command : \/ \E status \in AdapterStatus : Returns(d, status)
                               \/ \E b \in BOOLEAN : \/ StopsAfter(d, b)
                                                     \/ HandlesEvidenceAck(d, b)
    <3>1. UNCHANGED bridgeFrame /\ ackedSeq' = ackedSeq /\ toBridge' \subseteq toBridge
      BY <2>2
      DEF Returns, AdapterReturns, StopsAfter, CancelAfterAction, HandlesEvidenceAck,
          ReceiveEvidenceAck, Handle
    <3> QED
      BY <3>1 DEF bridgeFrame, portFrame, gatewayVars, CoreSide
  <2>3. CASE HandlesResume \/ TurnsToResults \/ Replays
    <3>1. UNCHANGED bridgeFrame /\ ackedSeq' = ackedSeq /\ toBridge' \subseteq toBridge
      BY <2>3
      DEF HandlesResume, ReceiveResume, TurnsToResults, UploadsSent, Replays,
          FinishReplay, Handle, durableVars
    <3> QED
      BY <3>1 DEF bridgeFrame, portFrame, gatewayVars, CoreSide
  <2>4. CASE Connects \/ HandlesWelcome
    <3>1. UNCHANGED portFrame /\ ackedSeq' = ackedSeq /\ toBridge' \subseteq toBridge
      BY <2>4 DEF Connects, Connect, HandlesWelcome, ReceiveWelcome, durableVars
    <3> QED
      BY <3>1 DEF portFrame, gatewayVars, CoreSide
  <2>5. CASE WorkerRestarts
    BY <2>5 DEF WorkerRestarts, WorkerRestart, PipeBreaks, CoreSide
  <2> QED
    BY <1>2, <2>1, <2>2, <2>3, <2>4, <2>5 DEF BridgeNext
<1> QED
  BY <1>1, <1>2 DEF Watermark

----
(* The theorems. *)

EffectInv == DeliveryInv /\ TraceInv /\ AttemptInv

LEMMA EffectStep ==
    ASSUME EffectInv, [Next]_vars
    PROVE  EffectInv'
<1> USE DEF EffectInv
<1>1. DeliveryInv' /\ Moves /\ TypeOK
  BY DeliveryStep DEF DeliveryInv
<1>2. CASE CoreNext
  BY <1>1, <1>2, CoreNextMoves, CoreEffects
<1>3. CASE BridgeNext \/ WorkerRestarts
  BY <1>1, <1>3, BridgeNextMoves, WorkerMoves, BridgeFrames, BridgeEffects
<1>4. CASE EnvironmentNext /\ ~WorkerRestarts
  BY <1>1, <1>4, EnvironmentMoves, CoreEffects
<1>5. CASE UNCHANGED vars
  <2>1. /\ UNCHANGED <<state, outcome, invoking, toBridge, toCore, commandSeq, expired, phase,
                       cancelMarks, starts, pendingResult, ackedSeq, executed>>
    BY <1>5 DEF vars, linkVars, gatewayVars, bridgeVars, volatileVars, durableVars
  <2> QED
    BY <1>1, <2>1, PlainCoreMoves, CoreEffects DEF BridgeSide
<1> QED
  BY <1>2, <1>3, <1>4, <1>5 DEF Next, EnvironmentNext

\* A page action that was started and is not decided stays on record in the bridge,
\* unless the decision of a later command was acknowledged: for any commands, runs,
\* tabs, events and number of faults.
THEOREM TraceCorrect == Spec => []EffectLeavesTrace
<1>1. Init => EffectInv
  BY InitDelivery, InitEffects DEF EffectInv
<1>2. EffectInv /\ [Next]_vars => EffectInv'
  BY EffectStep
<1>3. EffectInv => EffectLeavesTrace
  BY DEF EffectInv, TraceInv, TraceKept, Traced, EffectLeavesTrace
<1> QED
  BY <1>1, <1>2, <1>3, PTL DEF Spec

\* Once Core has enqueued a retry, the earlier attempt no longer passes the bridge's
\* deadline check, and if its page looks at the deadline it no longer begins to act:
\* one that timed out is past its deadline, one that failed has no handler before
\* the action left.
THEOREM AttemptsCorrect == Spec => AttemptsActInOrder
<1> DEFINE InOrder == \A c \in Command :
                         Retried(c) =>
                            /\ phase'[c] = "checked" => phase[c] = "checked"
                            /\ c \in GuardedCommand => executed'[c] = executed[c]
<1>1. Init => EffectInv
  BY InitDelivery, InitEffects DEF EffectInv
<1>2. EffectInv /\ [Next]_vars => EffectInv'
  BY EffectStep
<1>3. EffectInv /\ [Next]_vars => [InOrder]_vars
  <2> SUFFICES ASSUME EffectInv, [Next]_vars, NEW c \in Command, Retried(c)
               PROVE  /\ phase'[c] = "checked" => phase[c] = "checked"
                      /\ c \in GuardedCommand => executed'[c] = executed[c]
    OBVIOUS
  <2>1. phase[c] \in {"pacing", "cleared"} => c \in expired
    <3>1. PICK d \in Command : SameStep(c, d) /\ state[d] # "absent"
      BY DEF Retried, SameStep
    <3>2. outcome[c] = "failed" \/ outcome[c] = "timed_out"
      BY <3>1, GatewayAssumption DEF EffectInv, AttemptInv, RetriesFollow
    <3>3. CASE outcome[c] = "failed"
      <4>1. state[c] = "failed"
        BY <3>3 DEF EffectInv, AttemptInv, ToldOfEnqueued
      <4> QED
        BY <4>1 DEF EffectInv, AttemptInv, FailedIsOver
    <3>4. CASE outcome[c] = "timed_out"
      BY <3>4 DEF EffectInv, AttemptInv, TimedOutIsDue
    <3> QED
      BY <3>2, <3>3, <3>4
  <2>2. /\ phase'[c] = "checked" =>
              phase[c] = "checked" \/ (phase[c] = "pacing" /\ c \notin expired)
        /\ executed'[c] # executed[c] =>
              phase[c] = "cleared" /\ (c \in GuardedCommand => c \notin expired)
    <3>1. TypeOK
      BY DEF EffectInv, DeliveryInv
    <3>2. CASE BridgeNext
      BY <3>1, <3>2, BridgeNextMoves DEF BridgeMoves
    <3>3. CASE WorkerRestarts
      BY <3>1, <3>3, WorkerMoves DEF BridgeMoves
    <3>4. CASE CoreNext \/ (EnvironmentNext /\ ~WorkerRestarts)
      BY <3>1, <3>4, CoreNextMoves, EnvironmentMoves DEF BridgeSide
    <3>5. CASE UNCHANGED vars
      BY <3>5 DEF vars, bridgeVars, volatileVars
    <3> QED
      BY <3>2, <3>3, <3>4, <3>5 DEF Next
  <2> QED
    BY <2>1, <2>2
<1>4. Spec => [][InOrder]_vars
  BY <1>1, <1>2, <1>3, PTL DEF Spec
<1> QED
  BY <1>4 DEF AttemptsActInOrder

====
