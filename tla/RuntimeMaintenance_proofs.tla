---- MODULE RuntimeMaintenance_proofs ----
(***************************************************************************)
(* Theorems about RuntimeMaintenance, for all runs, browser sessions,      *)
(* lease times and bounds.  Each component is argued about on its own: a   *)
(* step of the system is a move of each component (StepMoves), and the     *)
(* invariant of a component is kept by its moves.                          *)
(***************************************************************************)
EXTENDS RuntimeMaintenance, TLAPS

USE DEF SessionRecord, PageRecord

AttentionMove ==
    \/ UNCHANGED attentionVars
    \/ \E r \in Run : StartRun(r) \/ EndQuietly(r) \/ EndWithAttention(r) \/ Acknowledge(r)
    \/ \E r \in Run : Accept(r) \/ Drop(r)
    \/ \E r \in Run, outcome \in Settled : Answer(r, outcome)
    \/ sender = None /\ ExpireDeliveries
    \/ ClaimNext
    \/ AttentionTick
    \/ AttentionCrash

BrowserMove ==
    \/ OpenBrowser
    \/ ResumeBrowser
    \/ \E b \in BrowserSession :
          \/ \E epoch \in Epoch, login \in {"blocked", "proven", "unproven"} :
                Observe(b, epoch, login)
          \/ Detach(b)

RecoveryMove ==
    \/ UNCHANGED recoveryVars
    \/ RecoveryCall
    \/ BrowserMove
    \/ RecoveryTick
    \/ RecoveryCrash

StagingMove ==
    \/ UNCHANGED stagingVars
    \/ IssueStaging
    \/ \E part \in Parts : Store(part)
    \/ Consume
    \/ StagingCrash

(* The inductive invariant. *)

\* A message is on its way only while its delivery can still be told of it.
DeliveryGood(r) ==
    /\ heard[r] \in {0, 1}
    /\ r \in wire => heard[r] = 0 /\ delivery[r].state \in {"delivering", "uncertain"}
    /\ heard[r] = 1 => delivery[r].state \in {"delivering", "delivered", "uncertain"}
    /\ run[r] # "ended" => delivery[r].state = "none"

AttentionInv ==
    /\ AttentionTypeOK
    /\ InFlightIsDelivering
    /\ \A r \in Run : DeliveryGood(r)

\* A session whose time is over and that no sweep has seen holds no lease either.
SessionGood(r) ==
    IF session[r].state \in Live
    THEN /\ session[r].left > 0 => lease = [owner |-> r, left |-> session[r].left]
         /\ session[r].left = 0 => lease.owner # r
         /\ session[r].browser \in connected
    ELSE lease.owner # r

RecoveryInv ==
    /\ RecoveryTypeOK
    /\ LeaseFree => lease.owner = None
    /\ \A r \in Run : SessionGood(r)

StagingInv == StagingTypeOK /\ ConsumedIsComplete

TurnInv ==
    /\ turn \in {"dispatch", "claim"} => sender = None
    /\ installer # "idle" => lock

CoreTypeOK ==
    /\ up \in BOOLEAN
    /\ turn \in {"none", "control", "dispatch", "claim", "upload"}
    /\ lock \in BOOLEAN
    /\ installer \in {"idle", "waiting", "ready", "swapping"}
    /\ mutations \in 0..MaxMutations
    /\ crashes \in Nat
    /\ upgrades \in Nat

IInv ==
    /\ AttentionInv
    /\ RecoveryInv
    /\ StagingInv
    /\ CoreTypeOK
    /\ TurnInv
    /\ QuietSwap

----
(* The initial states. *)

LEMMA InitGood == Init => IInv
<1> SUFFICES ASSUME Init PROVE IInv
  OBVIOUS
<1>1. AttentionInv
  BY AttentionAssumption
  DEF Init, AttentionInit, AttentionInv, AttentionTypeOK, InFlightIsDelivering,
      DeliveryGood, NoDelivery, Settled
<1>2. RecoveryInv
  BY RecoveryAssumption, AttentionAssumption
  DEF Init, RecoveryInit, RecoveryInv, RecoveryTypeOK, SessionGood, NoSession, NoLease,
      NoPage, Live, LeaseFree
<1>3. StagingInv
  BY DEF Init, StagingInit, StagingInv, StagingTypeOK, ConsumedIsComplete
<1>4. CoreTypeOK
  <2>1. mutations \in 0..MaxMutations /\ crashes \in Nat /\ upgrades \in Nat
    BY MaintenanceAssumption DEF Init
  <2> QED BY <2>1 DEF Init, CoreTypeOK
<1>5. TurnInv /\ QuietSwap
  BY DEF Init, TurnInv, QuietSwap
<1> QED BY <1>1, <1>2, <1>3, <1>4, <1>5 DEF IInv

----
(* A step of the system is a move of each component. *)

LEMMA StepMoves ==
    ASSUME TurnInv, [Next]_vars
    PROVE  AttentionMove /\ RecoveryMove /\ StagingMove
<1>1. CASE UNCHANGED vars
  BY <1>1 DEF vars, AttentionMove, RecoveryMove, StagingMove
<1>2. CASE EnterControl \/ BeginMutation \/ EnterDispatch \/ EndMutation \/ BeginUpload
  BY <1>2 DEF EnterControl, BeginMutation, EnterDispatch, EndMutation, BeginUpload, Enter,
              AttentionMove, RecoveryMove, StagingMove
<1>3. CASE ControlCall
  BY <1>3 DEF ControlCall, AttentionMove, RecoveryMove, StagingMove
<1>4. CASE Dispatch \/ Claim
  BY <1>4 DEF Dispatch, Claim, In, TurnInv, AttentionMove, RecoveryMove, StagingMove
<1>5. CASE EndRun \/ ReceiveAnswer \/ Channel
  BY <1>5 DEF EndRun, ReceiveAnswer, Channel, AttentionMove, RecoveryMove, StagingMove
<1>6. CASE Sweep \/ Gateway
  BY <1>6 DEF Sweep, Gateway, RecoveryCall, BrowserMove, AttentionMove, RecoveryMove,
              StagingMove
<1>7. CASE UploadStep
  BY <1>7 DEF UploadStep, AttentionMove, RecoveryMove, StagingMove
<1>8. CASE TakeLock \/ HearReady \/ StartCore \/ Unlock
  BY <1>8 DEF TakeLock, HearReady, StartCore, Unlock, unchangedCore,
              AttentionMove, RecoveryMove, StagingMove
<1>9. CASE StopCore \/ CoreCrash
  BY <1>9 DEF StopCore, CoreCrash, Halt, AttentionMove, RecoveryMove, StagingMove
<1>10. CASE Tick
  BY <1>10 DEF Tick, AttentionMove, RecoveryMove, StagingMove
<1> QED
  BY <1>1, <1>2, <1>3, <1>4, <1>5, <1>6, <1>7, <1>8, <1>9, <1>10 DEF Next

----
(* Deliveries. *)

LEMMA AttentionKept ==
    ASSUME AttentionInv, AttentionMove
    PROVE  AttentionInv'
<1> USE AttentionAssumption DEF AttentionInv, AttentionTypeOK, InFlightIsDelivering,
        DeliveryGood, Settled
<1>1. CASE UNCHANGED attentionVars
  BY <1>1 DEF attentionVars
<1>2. ASSUME NEW r \in Run, StartRun(r) \/ EndQuietly(r) \/ Acknowledge(r)
      PROVE  AttentionInv'
  <2>1. CASE StartRun(r) \/ EndQuietly(r)
    <3>1. /\ run' \in [Run -> {"absent", "active", "ended"}]
          /\ \A q \in Run : run[q] = "ended" => run'[q] = "ended"
          /\ UNCHANGED <<attention, outbox, delivery, sender, wire, heard>>
      BY <2>1 DEF StartRun, EndQuietly
    <3> QED BY <3>1
  <2>2. CASE Acknowledge(r)
    BY <2>2 DEF Acknowledge
  <2> QED BY <1>2, <2>1, <2>2
<1>3. ASSUME NEW r \in Run, EndWithAttention(r)
      PROVE  AttentionInv'
  BY <1>3 DEF EndWithAttention
<1>4. ASSUME NEW r \in Run, Accept(r) \/ Drop(r)
      PROVE  AttentionInv'
  <2>1. CASE Accept(r)
    <3>1. /\ heard' \in [Run -> Nat]
          /\ heard'[r] = 1
          /\ \A q \in Run : q # r => heard'[q] = heard[q]
      BY <2>1 DEF Accept
    <3> QED BY <2>1, <3>1 DEF Accept
  <2>2. CASE Drop(r)
    BY <2>2 DEF Drop
  <2> QED BY <1>4, <2>1, <2>2
<1>5. ASSUME NEW r \in Run, NEW outcome \in Settled, Answer(r, outcome)
      PROVE  AttentionInv'
  BY <1>5 DEF Answer, Answered, Complete
<1>6. CASE sender = None /\ ExpireDeliveries
  BY <1>6 DEF ExpireDeliveries, Overdue
<1>7. CASE ClaimNext
  BY <1>7 DEF ClaimNext, Oldest, IsPending
<1>8. CASE AttentionTick
  BY <1>8 DEF AttentionTick, DeliveryTick
<1>9. CASE AttentionCrash
  BY <1>9 DEF AttentionCrash
<1> QED
  BY <1>1, <1>2, <1>3, <1>4, <1>5, <1>6, <1>7, <1>8, <1>9 DEF AttentionMove

----
(* Recovery sessions. *)

LEMMA SweptGood ==
    ASSUME RecoveryInv
    PROVE  /\ Swept \in [Run -> SessionRecord]
           /\ \A r \in Run :
                 /\ Swept[r].state \in Live =>
                       Swept[r] = session[r] /\ session[r].left > 0
                 /\ Swept[r].state \notin Live => lease.owner # r
                 /\ session[r].state \notin Live => Swept[r] = session[r]
  BY RecoveryAssumption
  DEF RecoveryInv, RecoveryTypeOK, Swept, Lapsed, EndAs, NoSession, SessionGood, Live

\* Whoever holds the lease for a while longer is the only one.
LEMMA OneHolder ==
    ASSUME RecoveryInv, NEW r \in Run, session[r].state \in Live, session[r].left > 0
    PROVE  /\ lease.owner = r
           /\ lease.left = session[r].left
           /\ ~LeaseFree
  BY DEF RecoveryInv, SessionGood, LeaseFree

LEMMA CallKept ==
    ASSUME RecoveryInv, RecoveryCall
    PROVE  RecoveryInv'
<1> USE RecoveryAssumption, AttentionAssumption, SweptGood DEF unchangedBrowser
<1>1. CASE SweepExpired
  BY <1>1 DEF SweepExpired, RecoveryInv, RecoveryTypeOK, SessionGood, LeaseFree
<1>2. ASSUME NEW r \in Run, NEW b \in BrowserSession, Issue(r, b)
      PROVE  RecoveryInv'
  <2>1. \A q \in Run : Swept[q].state \notin Live
    BY <1>2, OneHolder DEF Issue, Issuable
  <2>2. RecoveryTypeOK'
    BY <1>2 DEF Issue, Issuable, Held, RecoveryInv, RecoveryTypeOK, Live
  <2>3. ASSUME NEW q \in Run PROVE SessionGood(q)'
    BY <1>2, <2>1 DEF Issue, Issuable, Held, RecoveryInv, RecoveryTypeOK, SessionGood, Live
  <2> QED BY <1>2, <2>2, <2>3 DEF Issue, Held, RecoveryInv, LeaseFree
<1>3. ASSUME NEW r \in Run, NEW state \in {"completed", "revoked", "invalidated"},
             Swept[r].state \in Live, Finish(r, state)
      PROVE  RecoveryInv'
  <2>1. lease.owner = r /\ lease' = NoLease
    BY <1>3, OneHolder DEF Finish, Released
  <2>2. \A q \in Run : q # r => Swept[q].state \notin Live
    BY <2>1, OneHolder
  <2>3. RecoveryTypeOK'
    BY <1>3, <2>1 DEF Finish, EndAs, NoSession, NoLease, RecoveryInv, RecoveryTypeOK
  <2>4. ASSUME NEW q \in Run PROVE SessionGood(q)'
    BY <1>3, <2>1, <2>2 DEF Finish, EndAs, NoSession, NoLease, SessionGood, Live
  <2> QED BY <2>1, <2>3, <2>4 DEF RecoveryInv, NoLease
<1>4. ASSUME NEW r \in Run, Activate(r)
      PROVE  RecoveryInv'
  BY <1>4 DEF Activate, InState, RecoveryInv, RecoveryTypeOK, SessionGood, LeaseFree, Live
<1>5. ASSUME NEW r \in Run, CompleteSession(r) \/ Revoke(r) \/ LoseBinding(r)
      PROVE  RecoveryInv'
  BY <1>3, <1>5 DEF CompleteSession, Revoke, LoseBinding, InState, Live
<1>6. CASE OutsiderLease
  <2>1. \A r \in Run : session[r].state \in Live => session[r].left = 0
    BY <1>6, OneHolder DEF OutsiderLease, RecoveryInv, RecoveryTypeOK
  <2>2. \A r \in Run : lease'.owner # r
    BY <1>6 DEF OutsiderLease, Held, NoLease
  <2> QED
    BY <1>6, <2>1, <2>2
    DEF OutsiderLease, Held, NoLease, RecoveryInv, RecoveryTypeOK, SessionGood, LeaseFree
<1> QED
  BY <1>1, <1>2, <1>4, <1>5, <1>6 DEF RecoveryCall

LEMMA BrowserKept ==
    ASSUME RecoveryInv, BrowserMove
    PROVE  RecoveryInv'
<1> USE RecoveryAssumption, AttentionAssumption
<1>1. CASE OpenBrowser \/ ResumeBrowser
  <2>1. /\ connected \subseteq connected'
        /\ connected' \in SUBSET BrowserSession
        /\ attached' \in SUBSET BrowserSession
        /\ opened' \in BrowserSession \cup {0}
        /\ UNCHANGED <<session, lease>>
    <3>1. opened > 0 => opened \in BrowserSession
      BY DEF RecoveryInv, RecoveryTypeOK
    <3>2. CASE OpenBrowser
      BY <3>2 DEF OpenBrowser, RecoveryInv, RecoveryTypeOK
    <3>3. CASE ResumeBrowser
      BY <3>1, <3>3 DEF ResumeBrowser, RecoveryInv, RecoveryTypeOK
    <3> QED BY <1>1, <3>2, <3>3
  <2>2. page' \in [BrowserSession -> PageRecord]
    BY <1>1 DEF OpenBrowser, ResumeBrowser, NoPage, RecoveryInv, RecoveryTypeOK
  <2>3. RecoveryTypeOK'
    BY <2>1, <2>2 DEF RecoveryInv, RecoveryTypeOK
  <2> QED BY <2>1, <2>3 DEF RecoveryInv, SessionGood, LeaseFree
<1>2. ASSUME NEW b \in BrowserSession, NEW epoch \in Epoch,
             NEW login \in {"blocked", "proven", "unproven"}, Observe(b, epoch, login)
      PROVE  RecoveryInv'
  BY <1>2 DEF Observe, RecoveryInv, RecoveryTypeOK, SessionGood, LeaseFree
<1>3. ASSUME NEW b \in BrowserSession, Detach(b)
      PROVE  RecoveryInv'
  <2>1. lease' \in {lease, NoLease}
    BY <1>3 DEF Detach
  <2>2. RecoveryTypeOK'
    BY <1>3, <2>1 DEF Detach, NoPage, NoLease, EndAs, NoSession, RecoveryInv, RecoveryTypeOK
  <2>3. ASSUME NEW r \in Run PROVE SessionGood(r)'
    <3>1. CASE OfBrowser(b, r)
      BY <1>3, <3>1 DEF Detach, OfBrowser, EndAs, NoSession, NoLease, SessionGood, Live,
                        RecoveryInv, RecoveryTypeOK
    <3>2. CASE ~OfBrowser(b, r)
      <4>1. session'[r] = session[r]
        BY <1>3, <3>2 DEF Detach
      <4>2. CASE session[r].state \in Live
        <5>1. session[r].browser \in connected'
          BY <1>3, <3>2, <4>2 DEF Detach, OfBrowser, RecoveryInv, SessionGood
        <5>2. session[r].left > 0 => lease' = lease
          BY <1>3, <3>2, <4>2, OneHolder DEF Detach
        <5> QED
          BY <2>1, <4>1, <4>2, <5>1, <5>2
          DEF NoLease, RecoveryInv, RecoveryTypeOK, SessionGood
      <4>3. CASE session[r].state \notin Live
        BY <2>1, <4>1, <4>3 DEF NoLease, RecoveryInv, SessionGood
      <4> QED BY <4>2, <4>3
    <3> QED BY <3>1, <3>2
  <2> QED BY <2>1, <2>2, <2>3 DEF RecoveryInv, NoLease, LeaseFree
<1> QED BY <1>1, <1>2, <1>3 DEF BrowserMove

\* The hour strikes for one session and for one page.
LEMMA OlderSession ==
    ASSUME NEW s \in SessionRecord,
           NEW n \in 0..SessionTtl
    PROVE  /\ [s EXCEPT !.left = n] \in SessionRecord
           /\ [s EXCEPT !.left = n].state = s.state
           /\ [s EXCEPT !.left = n].browser = s.browser
           /\ [s EXCEPT !.left = n].left = n
  OBVIOUS

LEMMA OlderPage ==
    ASSUME NEW p \in PageRecord,
           NEW n \in 0..MaxAge + 1
    PROVE  [p EXCEPT !.age = n] \in PageRecord
  OBVIOUS

LEMMA RecoveryKept ==
    ASSUME RecoveryInv, RecoveryMove
    PROVE  RecoveryInv'
<1> USE RecoveryAssumption, AttentionAssumption
<1>1. CASE UNCHANGED recoveryVars \/ RecoveryCrash
  BY <1>1 DEF recoveryVars, RecoveryCrash, RecoveryInv, RecoveryTypeOK, SessionGood, LeaseFree
<1>2. CASE RecoveryTick
  <2>1. ASSUME NEW r \in Run
        PROVE  /\ session'[r] \in SessionRecord
               /\ session'[r].state = session[r].state
               /\ session'[r].browser = session[r].browser
               /\ session'[r].left = Less(session[r].left)
    <3> DEFINE n == Less(session[r].left)
    <3>1. session'[r] = [session[r] EXCEPT !.left = n]
      BY <1>2 DEF RecoveryTick
    <3>2. n \in 0..SessionTtl
      BY DEF Less, RecoveryInv, RecoveryTypeOK
    <3>3. session[r] \in SessionRecord
      BY DEF RecoveryInv, RecoveryTypeOK
    <3> HIDE DEF n
    <3>4. /\ session'[r] \in SessionRecord
          /\ session'[r].state = session[r].state
          /\ session'[r].browser = session[r].browser
          /\ session'[r].left = n
      BY <3>1, <3>2, <3>3, OlderSession
    <3> QED BY <3>4 DEF n
  <2>2. \/ lease' = NoLease
        \/ /\ lease.left > 1
           /\ lease' = [owner |-> lease.owner, left |-> lease.left - 1]
    BY <1>2 DEF RecoveryTick, RecoveryInv, RecoveryTypeOK
  <2>3. lease' \in [owner : Run \cup {None, Outsider}, left : 0..SessionTtl]
    BY <2>2 DEF NoLease, RecoveryInv, RecoveryTypeOK
  <2>4. \A b \in BrowserSession :
           \E n \in 0..MaxAge + 1 : page'[b] = [page[b] EXCEPT !.age = n]
    <3>1. ASSUME NEW b \in BrowserSession
          PROVE  \E n \in 0..MaxAge + 1 : page'[b] = [page[b] EXCEPT !.age = n]
      <4> DEFINE n == IF page[b].age > MaxAge THEN page[b].age ELSE page[b].age + 1
      <4>1. n \in 0..MaxAge + 1
        BY DEF RecoveryInv, RecoveryTypeOK
      <4>2. page'[b] = [page[b] EXCEPT !.age = n]
        BY <1>2 DEF RecoveryTick
      <4> QED BY <4>1, <4>2
    <3> QED BY <3>1
  <2>5. page' \in [BrowserSession -> PageRecord]
    <3>1. \A b \in BrowserSession :
             page'[b] \in PageRecord
      <4> TAKE b \in BrowserSession
      <4>1. PICK n \in 0..MaxAge + 1 : page'[b] = [page[b] EXCEPT !.age = n]
        BY <2>4
      <4>2. page[b] \in PageRecord
        BY DEF RecoveryInv, RecoveryTypeOK
      <4> QED BY <4>1, <4>2, OlderPage
    <3> QED BY <1>2, <3>1 DEF RecoveryTick
  <2>6. session' \in [Run -> SessionRecord]
    BY <1>2, <2>1 DEF RecoveryTick
  <2>7. RecoveryTypeOK'
    BY <1>2, <2>3, <2>5, <2>6 DEF RecoveryTick, RecoveryInv, RecoveryTypeOK
  <2>8. ASSUME NEW r \in Run PROVE SessionGood(r)'
    <3>1. /\ session'[r].state = session[r].state
          /\ session'[r].browser = session[r].browser
          /\ session'[r].left = Less(session[r].left)
      BY <2>1
    <3>2. connected' = connected
      BY <1>2 DEF RecoveryTick
    <3>3. lease'.owner = r => lease.owner = r
      BY <2>2 DEF NoLease
    <3>4. CASE session[r].state \notin Live
      BY <3>1, <3>3, <3>4 DEF RecoveryInv, SessionGood
    <3>5. CASE session[r].state \in Live /\ session[r].left = 0
      BY <3>1, <3>2, <3>3, <3>5 DEF RecoveryInv, SessionGood, Less
    <3>6. CASE session[r].state \in Live /\ session[r].left > 0
      <4>1. lease.owner = r /\ lease.left = session[r].left
        BY <3>6, OneHolder
      <4>2. session[r].left \in Nat /\ r # None
        BY DEF RecoveryInv, RecoveryTypeOK
      <4>3. session'[r].left = session[r].left - 1
        BY <3>1, <3>6, <4>2 DEF Less
      <4>4. CASE session[r].left = 1
        BY <2>2, <3>1, <3>2, <3>6, <4>1, <4>2, <4>3, <4>4
        DEF NoLease, RecoveryInv, SessionGood
      <4>5. CASE session[r].left > 1
        <5>1. lease' = [owner |-> lease.owner, left |-> lease.left - 1]
          BY <1>2, <4>1, <4>5 DEF RecoveryTick, RecoveryInv, RecoveryTypeOK
        <5> QED
          BY <3>1, <3>2, <3>6, <4>1, <4>2, <4>3, <4>5, <5>1 DEF RecoveryInv, SessionGood
      <4> QED BY <3>6, <4>2, <4>4, <4>5
    <3> QED
      BY <3>4, <3>5, <3>6 DEF RecoveryInv, RecoveryTypeOK
  <2> QED BY <2>2, <2>7, <2>8 DEF NoLease, RecoveryInv, RecoveryTypeOK, LeaseFree
<1> QED BY <1>1, <1>2, CallKept, BrowserKept DEF RecoveryMove

----
(* Uploads. *)

LEMMA StagingKept ==
    ASSUME StagingInv, StagingMove
    PROVE  StagingInv'
<1> USE DEF StagingInv, StagingTypeOK, ConsumedIsComplete
<1>1. Parts = {"file", "blob", "source", "asset"}
  BY DEF Parts, Before
<1>2. \A part \in Parts : Before[part] # Parts /\ Before[part] \subseteq Parts
  BY <1>1 DEF Before
<1>3. ASSUME NEW part \in Parts, Store(part) PROVE StagingInv'
  BY <1>2, <1>3 DEF Store
<1>4. CASE IssueStaging \/ Consume \/ StagingCrash \/ UNCHANGED stagingVars
  BY <1>4 DEF IssueStaging, Consume, StagingCrash, stagingVars
<1> QED BY <1>3, <1>4 DEF StagingMove

----
(* Core and the installer. *)

LEMMA CoreKept ==
    ASSUME CoreTypeOK, TurnInv, [Next]_vars
    PROVE  CoreTypeOK' /\ TurnInv'
<1> USE MaintenanceAssumption DEF CoreTypeOK, TurnInv
<1>1. CASE UNCHANGED vars
  BY <1>1 DEF vars, attentionVars, maintenanceVars
<1>2. CASE EnterControl \/ EnterDispatch \/ BeginUpload
  BY <1>2 DEF EnterControl, EnterDispatch, BeginUpload, Enter, othersThanTurn, attentionVars
<1>3. CASE ControlCall \/ Claim
  BY <1>3 DEF ControlCall, Claim, Return, othersThanTurn
<1>4. CASE BeginMutation \/ EndMutation
  BY <1>4 DEF BeginMutation, EndMutation, attentionVars
<1>5. CASE Dispatch
  BY <1>5 DEF Dispatch, In, ExpireDeliveries, othersThanTurn
<1>6. CASE EndRun \/ Channel
  BY <1>6 DEF EndRun, Channel, EndQuietly, EndWithAttention, Accept, Drop, maintenanceVars
<1>7. CASE Sweep \/ Gateway \/ Tick
  BY <1>7 DEF Sweep, Gateway, Tick, AttentionTick, attentionVars, maintenanceVars
<1>8. CASE ReceiveAnswer
  BY <1>8 DEF ReceiveAnswer, Answer, CoreIdle, maintenanceVars
<1>9. CASE UploadStep
  BY <1>9 DEF UploadStep, In, othersThanTurn, attentionVars
<1>10. CASE TakeLock \/ HearReady
  <2>1. UNCHANGED <<turn, sender, up, mutations, crashes>>
    BY <1>10 DEF TakeLock, HearReady, unchangedCore, attentionVars
  <2>2. /\ upgrades' \in Nat
        /\ installer' \in {"waiting", "ready"}
        /\ installer = "idle" \/ installer = "waiting"
    BY <1>10 DEF TakeLock, HearReady
  <2>3. lock' = TRUE
    BY <1>10 DEF TakeLock, HearReady, Ready
  <2> QED BY <2>1, <2>2, <2>3
<1>11. CASE StartCore \/ Unlock
  BY <1>11 DEF StartCore, Unlock, unchangedCore, attentionVars
<1>12. CASE StopCore
  <2>1. turn' = "none" /\ up' = FALSE /\ mutations' = 0 /\ lock' = lock
    BY <1>12, Zenon DEF StopCore, Halt
  <2>2. /\ installer = "ready" /\ installer' = "swapping"
        /\ UNCHANGED <<crashes, upgrades>>
    BY <1>12 DEF StopCore
  <2>3. up' \in BOOLEAN /\ lock' \in BOOLEAN /\ lock'
    BY <2>1, <2>2, Zenon
  <2> QED BY <2>1, <2>2, <2>3
<1>13. CASE CoreCrash
  <2>1. turn' = "none" /\ up' = FALSE /\ mutations' = 0 /\ lock' = lock
    BY <1>13, Zenon DEF CoreCrash, Halt
  <2>2. crashes' \in Nat /\ UNCHANGED <<installer, upgrades>>
    BY <1>13 DEF CoreCrash
  <2>3. up' \in BOOLEAN /\ lock' \in BOOLEAN /\ (installer' # "idle" => lock')
    BY <2>1, <2>2, Zenon
  <2> QED BY <2>1, <2>2, <2>3
<1> QED
  BY <1>1, <1>2, <1>3, <1>4, <1>5, <1>6, <1>7, <1>8, <1>9, <1>10, <1>11, <1>12, <1>13
  DEF Next

----
(* What the installer was told stays true. *)

\* What QuietSwap says of the moments it is about.
Calm ==
    /\ \A r \in Run : /\ run[r] # "active"
                      /\ delivery[r].state # "delivering"
                      /\ session[r].state \notin Live
    /\ LeaseFree
    /\ staging # "active"
    /\ mutations = 0
    /\ sender = None
    /\ turn = "none"

\* The lock is there, and what still runs under it has nothing left to do.
LEMMA CalmKept ==
    ASSUME AttentionInv, RecoveryInv, Calm, lock, installer # "idle",
           [Next]_vars, installer' # "idle"
    PROVE  Calm'
<1> USE AttentionAssumption, RecoveryAssumption
<1>1. CASE UNCHANGED vars
  BY <1>1 DEF vars, attentionVars, recoveryVars, stagingVars, maintenanceVars, Calm, LeaseFree
<1>2. ~EnterControl /\ ~EnterDispatch /\ ~TakeLock /\ ~Unlock
  BY DEF EnterControl, EnterDispatch, Enter, TakeLock, Unlock
<1>3. ~ControlCall /\ ~BeginMutation /\ ~Dispatch /\ ~Claim /\ ~UploadStep
  BY DEF ControlCall, BeginMutation, Dispatch, Claim, UploadStep, In, Calm
<1>4. ~EndRun
  BY DEF EndRun, EndQuietly, EndWithAttention, Calm
<1>5. ~ReceiveAnswer
  BY DEF ReceiveAnswer, Answer, Calm
<1>6. ~EndMutation /\ ~BeginUpload
  BY DEF EndMutation, BeginUpload, UploadAllowed, Calm
<1>7. CASE Sweep
  <2>1. \A r \in Run : session'[r].state \notin Live
    BY <1>7 DEF Sweep, SweepExpired, Swept, Lapsed, Calm
  <2> QED
    BY <1>7, <2>1 DEF Sweep, SweepExpired, attentionVars, stagingVars, maintenanceVars, Calm,
                      LeaseFree
<1>8. CASE Gateway
  <2>1. \A r \in Run : session'[r].state \notin Live
    BY <1>8
    DEF Gateway, OpenBrowser, ResumeBrowser, Observe, Detach, OfBrowser, Calm
  <2>2. lease' \in {lease, NoLease}
    BY <1>8 DEF Gateway, OpenBrowser, ResumeBrowser, Observe, Detach
  <2> QED
    BY <1>8, <2>1, <2>2
    DEF Gateway, attentionVars, stagingVars, maintenanceVars, Calm, LeaseFree, NoLease
<1>9. CASE HearReady \/ StartCore
  BY <1>9 DEF HearReady, StartCore, unchangedCore, attentionVars, recoveryVars, stagingVars,
              Calm, LeaseFree
<1>10. CASE StopCore \/ CoreCrash
  <2>1. turn' = "none" /\ mutations' = 0 /\ sender' = None
    BY <1>10 DEF StopCore, CoreCrash, Halt, AttentionCrash
  <2>2. UNCHANGED <<run, delivery, session, lease, staging>>
    BY <1>10 DEF StopCore, CoreCrash, Halt, AttentionCrash, RecoveryCrash, StagingCrash
  <2> QED BY <2>1, <2>2 DEF Calm, LeaseFree
<1>11. CASE Channel
  BY <1>11 DEF Channel, Accept, Drop, recoveryVars, stagingVars, maintenanceVars, Calm,
               LeaseFree
<1>12. CASE Tick
  <2>1. \A r \in Run : delivery'[r].state = delivery[r].state
    BY <1>12 DEF Tick, AttentionTick, DeliveryTick, AttentionInv, AttentionTypeOK
  <2>2. \A r \in Run : session'[r].state = session[r].state
    BY <1>12 DEF Tick, RecoveryTick, RecoveryInv, RecoveryTypeOK
  <2>3. LeaseFree'
    BY <1>12 DEF Tick, RecoveryTick, Calm, LeaseFree, NoLease
  <2> QED
    BY <1>12, <2>1, <2>2, <2>3
    DEF Tick, AttentionTick, stagingVars, maintenanceVars, Calm
<1> QED
  BY <1>1, <1>2, <1>3, <1>4, <1>5, <1>6, <1>7, <1>8, <1>9, <1>10, <1>11, <1>12 DEF Next

LEMMA QuietKept ==
    ASSUME AttentionInv, RecoveryInv, CoreTypeOK, TurnInv, QuietSwap, [Next]_vars
    PROVE  QuietSwap'
<1> SUFFICES ASSUME installer' \in {"ready", "swapping"}
             PROVE  Calm'
  BY DEF QuietSwap, Calm, LeaseFree
<1>1. CASE installer \in {"ready", "swapping"}
  <2>1. Calm /\ lock /\ installer # "idle"
    BY <1>1 DEF QuietSwap, Calm, TurnInv
  <2> QED BY <2>1, CalmKept
<1>2. CASE installer \notin {"ready", "swapping"}
  <2>1. HearReady
    BY <1>2
    DEF Next, vars, maintenanceVars, othersThanTurn, Return, EnterControl, EnterDispatch,
        Enter, ControlCall, BeginMutation, Dispatch, Claim, EndRun, Sweep, ReceiveAnswer,
        Gateway, EndMutation, BeginUpload, UploadStep, TakeLock, StopCore, StartCore,
        Unlock, CoreCrash, Channel, Tick
  <2>2. sender = None
    BY <2>1 DEF HearReady, Ready, AttentionInv, InFlightIsDelivering, AttentionTypeOK
  <2> QED
    BY <2>1, <2>2
    DEF HearReady, Ready, CoreIdle, unchangedCore, attentionVars, recoveryVars, stagingVars,
        Calm, LeaseFree
<1> QED BY <1>1, <1>2

LEMMA StepGood == IInv /\ [Next]_vars => IInv'
<1> SUFFICES ASSUME IInv, [Next]_vars PROVE IInv'
  OBVIOUS
<1> USE DEF IInv
<1>1. AttentionMove /\ RecoveryMove /\ StagingMove
  BY StepMoves
<1>2. AttentionInv'
  BY <1>1, AttentionKept
<1>3. RecoveryInv'
  BY <1>1, RecoveryKept
<1>4. StagingInv'
  BY <1>1, StagingKept
<1>5. CoreTypeOK' /\ TurnInv'
  BY CoreKept
<1>6. QuietSwap'
  BY QuietKept
<1> QED BY <1>2, <1>3, <1>4, <1>5, <1>6

LEMMA Invariance == Spec => []IInv
  BY InitGood, StepGood, PTL DEF Spec

----
(* The theorems. *)

\* Type correctness of the lock, the deliveries, the recovery sessions and the uploads.
THEOREM TypeCorrect == Spec => []TypeOK
<1>1. IInv => TypeOK
  BY DEF IInv, AttentionInv, RecoveryInv, StagingInv, CoreTypeOK, TypeOK
<1> QED BY <1>1, Invariance, PTL

\* A recovery session holds the lease of the browser for as long as it has time
\* left, and none afterwards, whichever of its ends it comes to.
THEOREM SessionsHoldTheBrowser == Spec => []SessionHoldsBrowser
<1>1. IInv => SessionHoldsBrowser
  BY DEF IInv, RecoveryInv, SessionGood, SessionHoldsBrowser
<1> QED BY <1>1, Invariance, PTL

\* From the answer "ready" to the end of the lock nothing begins: every handler
\* that looked at the lock before it was made has shown up in the readiness.
THEOREM SwapIsQuiet == Spec => []QuietSwap
<1>1. IInv => QuietSwap
  BY DEF IInv
<1> QED BY <1>1, Invariance, PTL

\* A consumed staging lease stands for a complete upload.
THEOREM UploadsAreComplete == Spec => []ConsumedIsComplete
<1>1. IInv => ConsumedIsComplete
  BY DEF IInv, StagingInv
<1> QED BY <1>1, Invariance, PTL

\* No outcome of the channel is lost to the expiry of the delivery's lease.
THEOREM AnswersFindTheirDelivery == Spec => []InFlightIsDelivering
<1>1. IInv => InFlightIsDelivering
  BY DEF IInv, AttentionInv
<1> QED BY <1>1, Invariance, PTL

----
(* The deliveries implement NoticeOutbox. *)

LEMMA NoticeInitial == Init => Outbox!NoticeInit
  BY DEF Init, AttentionInit, NoDelivery, Notice, Outbox!NoticeInit

LEMMA NoticeStep ==
    ASSUME AttentionInv, AttentionMove
    PROVE  [Outbox!NoticeNext]_(Outbox!noticeVars)
<1> USE AttentionAssumption DEF AttentionInv, AttentionTypeOK, InFlightIsDelivering,
        DeliveryGood, Settled, Notice
<1>1. CASE \/ UNCHANGED attentionVars
           \/ \E r \in Run : StartRun(r) \/ EndQuietly(r) \/ Acknowledge(r) \/ Drop(r)
           \/ AttentionCrash
  <2>1. UNCHANGED <<delivery, heard>>
    BY <1>1 DEF attentionVars, StartRun, EndQuietly, Acknowledge, Drop, AttentionCrash
  <2> QED BY <2>1 DEF Outbox!noticeVars
<1>2. CASE ClaimNext \/ AttentionTick
  <2>1. \A r \in Run : Notice(r)' = Notice(r)
    <3>1. CASE ClaimNext
      BY <3>1 DEF ClaimNext, Oldest, IsPending
    <3>2. CASE AttentionTick
      <4>1. \A r \in Run : delivery'[r].state = delivery[r].state
        BY <3>2 DEF AttentionTick, DeliveryTick
      <4> QED BY <4>1
    <3> QED BY <1>2, <3>1, <3>2
  <2>2. UNCHANGED heard
    BY <1>2 DEF ClaimNext, AttentionTick
  <2> QED BY <2>1, <2>2 DEF Outbox!noticeVars
<1>3. ASSUME NEW r \in Run, EndWithAttention(r)
      PROVE  Outbox!Raise(r)
  <2>1. delivery[r].state = "none" /\ delivery'[r].state = "pending" /\ UNCHANGED heard
    BY <1>3 DEF EndWithAttention
  <2>2. \A q \in Run : q # r => delivery'[q] = delivery[q]
    BY <1>3 DEF EndWithAttention
  <2>3. \A q \in Run : Notice(q)' = IF q = r THEN "due" ELSE Notice(q)
    BY <2>1, <2>2
  <2>4. Notice(r) = "none"
    BY <2>1
  <2> HIDE DEF Notice
  <2> QED BY <2>1, <2>3, <2>4 DEF Outbox!Raise, Outbox!Become
<1>4. ASSUME NEW r \in Run, Accept(r)
      PROVE  Outbox!Hear(r)
  <2>1. heard[r] = 0 /\ heard' = [heard EXCEPT ![r] = 1] /\ UNCHANGED delivery
    <3>1. heard[r] = 0
      BY <1>4 DEF Accept
    <3> QED BY <1>4, <3>1 DEF Accept
  <2>2. Notice(r) \in {"due", "uncertain"}
    BY <1>4 DEF Accept
  <2> QED BY <2>1, <2>2 DEF Outbox!Hear
<1>5. ASSUME NEW r \in Run, NEW outcome \in Settled, Answer(r, outcome)
      PROVE  Outbox!Settle(r) \/ Outbox!GiveUp({r})
  <2>1. /\ Notice(r) = "due"
        /\ delivery'[r].state = outcome
        /\ UNCHANGED heard
    BY <1>5 DEF Answer, Complete
  <2>2. \A q \in Run : q # r => delivery'[q] = delivery[q]
    BY <1>5 DEF Answer, Complete
  <2>3. CASE outcome = "uncertain"
    BY <2>1, <2>2, <2>3 DEF Outbox!GiveUp
  <2>4. CASE outcome \in {"delivered", "failed"}
    <3>1. IF outcome = "delivered" THEN heard[r] = 1 ELSE heard[r] = 0
      BY <1>5, <2>4 DEF Answer, Answered
    <3>2. \A q \in Run : Notice(q)' = IF q = r THEN outcome ELSE Notice(q)
      BY <2>1, <2>2, <2>4
    <3> HIDE DEF Notice
    <3> QED BY <2>1, <2>4, <3>1, <3>2 DEF Outbox!Settle, Outbox!Become
  <2> QED BY <2>3, <2>4
<1>6. CASE ExpireDeliveries
  <2>1. PICK late \in SUBSET Run : late = {r \in Run : Overdue(r)}
    OBVIOUS
  <2>2. \A r \in Run : Notice(r)' = IF r \in late THEN "uncertain" ELSE Notice(r)
    BY <1>6, <2>1 DEF ExpireDeliveries, Overdue
  <2>3. \A r \in late : Notice(r) = "due"
    BY <2>1 DEF Overdue
  <2>4. UNCHANGED heard
    BY <1>6 DEF ExpireDeliveries
  <2>5. Outbox!GiveUp(late)
    BY <2>2, <2>3, <2>4 DEF Outbox!GiveUp
  <2> QED BY <2>5 DEF Outbox!NoticeNext
<1> QED
  BY <1>1, <1>2, <1>3, <1>4, <1>5, <1>6 DEF AttentionMove, Outbox!NoticeNext

\* A person hears of a run that ended badly at most once, and what Core has on
\* record of it is true: the deliveries implement NoticeOutbox through crashes,
\* expired leases, late answers and installations.
THEOREM NoticesAreDelivered == Spec => DeliversNotices
<1>1. IInv /\ [Next]_vars => [Outbox!NoticeNext]_(Outbox!noticeVars)
  BY StepMoves, NoticeStep DEF IInv
<1> QED
  BY <1>1, NoticeInitial, Invariance, PTL DEF Spec, DeliversNotices, Outbox!NoticeSpec
====
