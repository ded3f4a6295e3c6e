---- MODULE LeaseGrants_proofs ----
(***************************************************************************)
(* What the leases give: theorems about the domain lease that the remote   *)
(* service grants and about the control leases under which runs act, for   *)
(* every value of the constants of TriggerLeases.                          *)
(***************************************************************************)
EXTENDS TriggerLeases_proofs

(* The domain lease.  The coordinator's record, the call in flight and the row  *)
(* of the remote service agree, whichever of them a step changes.               *)

LiveFor(o)   == remote.holder = o /\ remote.left > 0
Accounted(o) == Unreleased(o) \/ run[o] = "uncertain"

\* The service grants only what Core asked for and has a record of.
OnRecord(o) == LiveFor(o) => o \in known /\ Accounted(o)

\* The window of a record in use, as WindowInsideGrant says it.
InsideGrant(o) ==
    ext[o].state = "bound" /\ ext[o].anchored /\ ~ShouldRelease(o) =>
        ext[o].window <= Remaining(o)

\* Between the request and the handling of the answer the record stays, an answer
\* in the negative stays true, and the granted time less the age of the request is
\* never more than what the service still grants.  What gives the lease back is
\* sent for a record that no run may use any more.
CallAccounted == call # None => Accounted(call.occ)
RefusedForGood ==
    call # None /\ call.answer \in {"inactive", "busy", "lost"} => ~LiveFor(call.occ)
GrantCounted ==
    call # None /\ call.answer = "grant" =>
        call.granted <= Remaining(call.occ) + call.age
GivesBackUnused ==
    /\ call # None /\ call.kind = "release" => ShouldRelease(call.occ)
    /\ call # None /\ call.kind \in {"inspect", "clear"} =>
          ext[call.occ].state \in {"reconciliation", "released"}

GrantsInv ==
    /\ \A o \in Occurrence : OnRecord(o) /\ InsideGrant(o)
    /\ CallAccounted
    /\ RefusedForGood
    /\ GrantCounted
    /\ GivesBackUnused

(* A step that leaves the service alone.                                         *)

\* The record of p, and the run and attempt it belongs to, only move forward.
Kept(p) ==
    /\ Accounted(p) => Accounted(p)'
    /\ ShouldRelease(p) => ShouldRelease(p)'
    /\ ext'[p].state = "bound" /\ ext'[p].anchored =>
          /\ ext[p].state = "bound" /\ ext[p].anchored
          /\ ext'[p].window = ext[p].window
    /\ ext[p].state \in {"reconciliation", "released"} =>
          ext'[p].state \in {"reconciliation", "released"}

LEMMA KeptGrants ==
    ASSUME TypeOK, GrantsInv, UNCHANGED <<remote, known>>, call' \in {call, None},
           \A p \in Occurrence : Kept(p)
    PROVE  GrantsInv'
<1>1. ASSUME NEW o \in Occurrence PROVE OnRecord(o)' /\ InsideGrant(o)'
  BY DEF GrantsInv, OnRecord, InsideGrant, LiveFor, Remaining, Kept
<1>2. CASE call' = None
  BY <1>1, <1>2
  DEF GrantsInv, CallAccounted, RefusedForGood, GrantCounted, GivesBackUnused
<1>3. CASE call' = call /\ call # None
  <2>1. call.occ \in Occurrence
    BY <1>3 DEF TypeOK, LeaseTypeOK, CallRecord
  <2> QED
    BY <1>1, <1>3, <2>1
    DEF GrantsInv, CallAccounted, RefusedForGood, GrantCounted, GivesBackUnused, LiveFor,
        Remaining, Kept
<1> QED
  BY <1>2, <1>3

\* Why a record is kept: its run and attempt do not start over, and it stays as it
\* is, is blocked, or is let go under an uncertain run.
Forward(p) ==
    /\ run'[p] = run[p] \/ ~Ended(p)
    /\ attempt'[p] = attempt[p] \/ attempt[p] # "terminal"
    /\ \/ ext'[p] = ext[p]
       \/ /\ ext'[p].linked = ext[p].linked
          /\ \/ ext'[p].state = "reconciliation"
             \/ ext'[p].state = "released" /\ run'[p] = "uncertain"

LEMMA ForwardKept ==
    ASSUME NEW p \in Occurrence, Forward(p)
    PROVE  Kept(p)
<1>1. Accounted(p) => Accounted(p)'
  BY DEF Forward, Accounted, Unreleased, Ended, EndedRun
<1>2. ShouldRelease(p) => ShouldRelease(p)'
  BY DEF Forward, ShouldRelease, Ended, EndedRun
<1> QED
  BY <1>1, <1>2 DEF Forward, Kept

LEMMA MarkForward ==
    ASSUME TypeOK, NEW o \in Occurrence, NEW late \in BOOLEAN,
           MarkReconciliationRequired(o, late), UNCHANGED <<run, attempt>>
    PROVE  \A p \in Occurrence : Forward(p)
BY DEF MarkReconciliationRequired, Forward, TypeOK, StoreTypeOK

LEMMA ReconcilesForward ==
    ASSUME TypeOK, LeasesInv, NEW o \in Occurrence, ReconcileSteps(o)
    PROVE  /\ UNCHANGED <<call, remote, known>>
           /\ \A p \in Occurrence : Forward(p)
<1>1. CASE ReconcileLostExternal(o)
  BY <1>1, MarkForward DEF ReconcileLostExternal
<1>2. CASE ReconcileLostControl(o)
  <2>1. \A p \in Occurrence : run'[p] = run[p] \/ ~Ended(p)
    BY <1>2 DEF ReconcileLostControl, Active, Ended, ActiveRun, EndedRun, TypeOK, StoreTypeOK
  <2> QED
    BY <1>2, <2>1 DEF ReconcileLostControl, Forward, leaseVars
<1>3. CASE ReconcileEnded(o) \/ ReconcileFenced(o) \/ ReconcileRunning(o) \/ ReleaseLeases(o)
  BY <1>3
  DEF ReconcileEnded, ReconcileFenced, ReconcileRunning, ReleaseLeases, Forward, leaseVars
<1>4. CASE MarkUncertain(o)
  <2>1. \A p \in Occurrence : run'[p] = run[p] \/ ~Ended(p)
    BY <1>4 DEF MarkUncertain, Ended, EndedRun, TypeOK, StoreTypeOK
  <2> QED
    BY <1>4, <2>1 DEF MarkUncertain, Forward, leaseVars
<1>5. CASE FinishAttempt(o)
  BY <1>5 DEF FinishAttempt, FinishTriggerAttempt, rest, leaseVars, Forward, TypeOK, StoreTypeOK
<1> QED
  BY <1>1, <1>2, <1>3, <1>4, <1>5 DEF ReconcileSteps

LEMMA StartsForward ==
    ASSUME TypeOK, LeasesInv, NEW o \in Occurrence,
           StartSteps(o) \/ CreateRunFails(o), ~Request(o), ~CreateRun(o)
    PROVE  /\ UNCHANGED <<call, remote, known>>
           /\ \A p \in Occurrence : Forward(p)
<1> Good(o)
  BY DEF LeasesInv
<1>1. CASE StartNext(o) \/ RequestConflict(o) \/ NotYet(o)
  BY <1>1 DEF StartNext, RequestConflict, NotYet, storeVars, leaseVars, Forward
<1>2. CASE TriggerBusy(o) \/ Yield(o) \/ CreateRunFails(o)
  <2>1. UNCHANGED <<attempt, run, call, remote, known>>
    BY <1>2 DEF TriggerBusy, Yield, GiveWay, CreateRunFails
  <2>2. ext' = ext \/ MarkReconciliationRequired(o, FALSE)
    BY <1>2 DEF TriggerBusy, Yield, GiveWay, CreateRunFails
  <2> QED
    BY <2>1, <2>2, MarkForward DEF Forward
<1>3. CASE AcquireTriggerLease(o) \/ BrowserBusy(o) \/ AcquireBrowserLease(o)
  BY <1>3 DEF AcquireTriggerLease, BrowserBusy, AcquireBrowserLease, rest, leaseVars, Forward
<1>4. CASE CreateTriggerAttempt(o) \/ StoreTokens(o) \/ BlockAttempt(o)
  <2>1. attempt[o] # "terminal"
    BY <1>4
    DEF CreateTriggerAttempt, StoreTokens, BlockAttempt, At, Good, Committed, InOrder
  <2> QED
    BY <1>4, <2>1
    DEF CreateTriggerAttempt, StoreTokens, BlockAttempt, FinishTriggerAttempt, rest, leaseVars,
        Forward, TypeOK, StoreTypeOK
<1> QED
  BY <1>1, <1>2, <1>3, <1>4 DEF StartSteps

\* A run is created for an attempt under way: nothing is to be released yet.
LEMMA CreateRunKept ==
    ASSUME TypeOK, LeasesInv, NEW o \in Occurrence, CreateRun(o)
    PROVE  /\ UNCHANGED <<call, remote, known>>
           /\ \A p \in Occurrence : Kept(p)
<1> Good(o)
  BY DEF LeasesInv
<1>1. attempt[o] = "running" /\ run[o] = None
  BY DEF CreateRun, At, Good, Committed
<1>2. ~ShouldRelease(o) /\ run[o] # "uncertain"
  BY <1>1, StoreAssumption DEF ShouldRelease, Ended, EndedRun
<1>3. ASSUME NEW p \in Occurrence \ {o} PROVE Forward(p)
  BY <1>3 DEF CreateRun, Forward, TypeOK, StoreTypeOK
<1>4. CASE o \in External
  <2>1. /\ ext'[o].state = ext[o].state
        /\ ~ext'[o].anchored
    BY <1>4 DEF CreateRun, TypeOK, StoreTypeOK, ExtRecord
  <2>2. Kept(o)
    BY <1>2, <2>1 DEF Kept, Accounted, Unreleased
  <2> QED
    BY <1>3, <2>2, ForwardKept DEF CreateRun, leaseVars
<1>5. CASE o \notin External
  <2>1. Forward(o)
    BY <1>1, <1>5, StoreAssumption DEF CreateRun, Forward, Ended, EndedRun
  <2> QED
    BY <1>3, <2>1, ForwardKept DEF CreateRun, leaseVars
<1> QED
  BY <1>4, <1>5

\* A new request is made when the domain has no unreleased record, so no call is in
\* flight for this one.
LEMMA RequestGrants ==
    ASSUME TypeOK, LeasesInv, GrantsInv, NEW o \in Occurrence, Request(o)
    PROVE  GrantsInv'
<1> Good(o)
  BY DEF LeasesInv
<1>1. run[o] = None /\ UNCHANGED <<run, attempt, call, remote>>
  BY DEF Request, At, Good, Committed, InOrder
<1>2. ~Accounted(o)
  BY <1>1, StoreAssumption DEF Request, Accounted, EndedRun
<1>3. call = None \/ (call.occ \in Occurrence /\ call.occ # o)
  BY <1>2 DEF GrantsInv, CallAccounted, TypeOK, LeaseTypeOK, CallRecord
<1>4. /\ ext'[o].state = "acquiring"
      /\ \A p \in Occurrence \ {o} : ext'[p] = ext[p] /\ (p \in known => p \in known')
  BY DEF Request, BeginAcquisition, TypeOK, StoreTypeOK, NoRequest
<1>5. ASSUME NEW p \in Occurrence \ {o}
      PROVE  /\ Accounted(p)' <=> Accounted(p)
             /\ ShouldRelease(p)' <=> ShouldRelease(p)
  BY <1>1, <1>4 DEF Accounted, Unreleased, ShouldRelease, Ended
<1>6. OnRecord(o)' /\ InsideGrant(o)'
  BY <1>1, <1>2, <1>4 DEF GrantsInv, OnRecord, LiveFor, InsideGrant
<1>7. ASSUME NEW p \in Occurrence \ {o} PROVE OnRecord(p)' /\ InsideGrant(p)'
  BY <1>1, <1>4, <1>5 DEF GrantsInv, OnRecord, LiveFor, InsideGrant, Remaining
<1>8. CallAccounted' /\ RefusedForGood' /\ GrantCounted' /\ GivesBackUnused'
  BY <1>1, <1>3, <1>4, <1>5
  DEF GrantsInv, CallAccounted, RefusedForGood, GrantCounted, GivesBackUnused, LiveFor, Remaining
<1> QED
  BY <1>6, <1>7, <1>8 DEF GrantsInv

(* The coordinator, the service, time.                                          *)

LEMMA SendGrants ==
    ASSUME TypeOK, GrantsInv, NEW o \in Occurrence, NEW kind \in CallKind, Send(kind, o),
           UNCHANGED storeVars, Unreleased(o),
           kind = "release" => ShouldRelease(o),
           kind \in {"inspect", "clear"} => ext[o].state = "reconciliation"
    PROVE  GrantsInv'
<1>1. /\ call'.occ = o /\ call'.kind = kind /\ call'.answer = "sent"
      /\ UNCHANGED <<remote, known, ext, run, attempt>>
  BY DEF Send, storeVars
<1>2. \A p \in Occurrence : OnRecord(p)' /\ InsideGrant(p)'
  BY <1>1
  DEF GrantsInv, OnRecord, LiveFor, Accounted, Unreleased, InsideGrant, ShouldRelease, Ended,
      Remaining
<1>3. CallAccounted'
  BY <1>1 DEF CallAccounted, Accounted, Unreleased
<1>4. GivesBackUnused'
  BY <1>1 DEF GivesBackUnused, ShouldRelease, Ended
<1>5. RefusedForGood' /\ GrantCounted'
  BY <1>1 DEF RefusedForGood, GrantCounted
<1> QED
  BY <1>2, <1>3, <1>4, <1>5 DEF GrantsInv

LEMMA SendsGrants ==
    ASSUME TypeOK, GrantsInv, NEW o \in Occurrence, Sends(o)
    PROVE  GrantsInv'
<1>1. CASE ExpiredBeforeRenewal(o)
  <2>1. \A p \in Occurrence : Forward(p)
    BY <1>1, MarkForward DEF ExpiredBeforeRenewal
  <2> QED
    BY <1>1, <2>1, ForwardKept, KeptGrants DEF ExpiredBeforeRenewal
<1>2. CASE ~ExpiredBeforeRenewal(o)
  <2>1. \E kind \in CallKind :
            /\ Send(kind, o) /\ Unreleased(o)
            /\ kind = "release" => ShouldRelease(o)
            /\ kind \in {"inspect", "clear"} => ext[o].state = "reconciliation"
    BY <1>2
    DEF Sends, Acquire, VerifyBound, Release, RenewIfDue, Reconcile, CallKind, Unreleased
  <2> QED
    BY <2>1, SendGrants DEF Send
<1> QED
  BY <1>1, <1>2

\* The service answers a call about one of Core's requests.
LEMMA ServeGrants ==
    ASSUME TypeOK, GrantsInv, Serve
    PROVE  GrantsInv'
<1>1. /\ call # None /\ call \in CallRecord /\ call.answer = "sent"
      /\ UNCHANGED <<ext, run, attempt>>
  BY DEF Serve, ServeAcquire, ServeRenew, ServeRelease, ServeRead, Sent, storeVars, TypeOK,
         LeaseTypeOK
<1> PICK o \in Occurrence : call.occ = o
  BY <1>1 DEF CallRecord
<1>2. o # Outsider /\ remote.left \in Nat /\ RemoteTtl \in Nat
  BY StoreAssumption DEF TypeOK, LeaseTypeOK
<1>3. call'.occ = o /\ call'.kind = call.kind /\ call'.age = call.age
  <2>1. \E answer, n : Answered(answer, n)
    BY DEF Serve, ServeAcquire, ServeRenew, ServeRelease, ServeRead, AnswerStatus
  <2> QED
    BY <1>1, <2>1 DEF Answered, CallRecord
<1>4. \/ UNCHANGED <<remote, known>>
      \/ /\ o \notin known /\ known' = known \cup {o} /\ remote.left = 0
         /\ remote' = [holder |-> o, left |-> RemoteTtl]
      \/ /\ remote.holder = o /\ remote.left > 0 /\ UNCHANGED known
         /\ remote' = [holder |-> o, left |-> RemoteTtl]
      \/ /\ call.kind \in {"release", "clear"} /\ remote.holder = o /\ UNCHANGED known
         /\ remote' = [holder |-> o, left |-> 0]
  BY <1>2
  DEF Serve, ServeAcquire, ServeRenew, ServeRelease, ServeRead, Sent, Mine, Live, TypeOK, LeaseTypeOK
<1>5. ASSUME NEW answer, NEW n, Answered(answer, n)
      PROVE  call'.answer = answer /\ call'.granted = n
  BY <1>1, <1>5 DEF Answered, CallRecord
<1>6. /\ call'.answer \in {"inactive", "busy", "lost"} => ~LiveFor(o)'
      /\ call'.answer = "grant" => call'.granted <= Remaining(o)'
  <2>1. CASE UNCHANGED remote /\ AnswerStatus
    BY <1>2, <1>5, <2>1 DEF AnswerStatus, Mine, Live, LiveFor, Remaining
  <2>2. CASE remote' = [holder |-> o, left |-> RemoteTtl] /\ Answered("grant", RemoteTtl)
    BY <1>2, <1>5, <2>2 DEF Remaining
  <2>3. CASE UNCHANGED remote /\ ~LiveFor(o) /\ \E answer : Answered(answer, 0)
    BY <1>2, <1>5, <2>3 DEF LiveFor, Remaining
  <2>4. CASE Mine /\ remote' = [remote EXCEPT !.left = 0] /\ Answered("inactive", 0)
    <3>1. remote'.left = 0
      BY <2>4 DEF TypeOK, LeaseTypeOK
    <3> QED
      BY <1>5, <2>4, <3>1 DEF LiveFor
  <2>5. ServeAcquire => \/ UNCHANGED remote /\ AnswerStatus
                        \/ UNCHANGED remote /\ o \notin known /\ Answered("busy", 0)
                        \/ remote' = [holder |-> o, left |-> RemoteTtl] /\ Answered("grant", RemoteTtl)
    BY DEF ServeAcquire
  <2>6. ServeRenew => \/ UNCHANGED remote /\ ~LiveFor(o) /\ Answered("lost", 0)
                      \/ remote' = [holder |-> o, left |-> RemoteTtl] /\ Answered("grant", RemoteTtl)
    <3>1. Mine => [remote EXCEPT !.left = RemoteTtl] = [holder |-> o, left |-> RemoteTtl]
      BY <1>2 DEF Mine, TypeOK, LeaseTypeOK
    <3> QED
      BY <3>1 DEF ServeRenew, LiveFor, Mine, Live
  <2>7. ServeRelease => \/ Mine /\ remote' = [remote EXCEPT !.left = 0] /\ Answered("inactive", 0)
                        \/ UNCHANGED remote /\ ~LiveFor(o) /\ Answered("lost", 0)
    BY DEF ServeRelease, LiveFor, Mine
  <2>8. o \notin known => ~LiveFor(o)
    BY <1>2 DEF GrantsInv, OnRecord
  <2> QED
    BY <2>1, <2>2, <2>3, <2>4, <2>5, <2>6, <2>7, <2>8 DEF Serve, ServeRead
<1>7. \A p \in Occurrence :
          /\ Accounted(p)' <=> Accounted(p)
          /\ ShouldRelease(p)' <=> ShouldRelease(p)
  BY <1>1 DEF Accounted, Unreleased, ShouldRelease, Ended
<1>8. CallAccounted' /\ RefusedForGood' /\ GrantCounted' /\ GivesBackUnused'
  <2>1. CallAccounted' /\ GivesBackUnused'
    BY <1>1, <1>2, <1>3, <1>7 DEF GrantsInv, CallAccounted, GivesBackUnused
  <2>2. RefusedForGood'
    BY <1>2, <1>3, <1>6 DEF RefusedForGood, LiveFor
  <2>3. call'.age \in Nat
    BY <1>1, <1>3, StoreAssumption DEF CallRecord
  <2>4. call'.granted \in Nat
    <3>1. \E answer \in Answer, n \in 0 .. RemoteTtl : Answered(answer, n)
      <4>1. 0 \in 0 .. RemoteTtl /\ RemoteTtl \in 0 .. RemoteTtl /\ remote.left \in 0 .. RemoteTtl
        BY <1>2 DEF TypeOK, LeaseTypeOK
      <4> QED
        BY <4>1
        DEF Serve, ServeAcquire, ServeRenew, ServeRelease, ServeRead, AnswerStatus, Answer
    <3> QED
      BY <1>2, <1>5, <3>1
  <2>5. Remaining(o)' \in Nat
    BY <1>2, <1>4 DEF Remaining
  <2>6. GrantCounted'
    BY <1>3, <1>6, <2>3, <2>4, <2>5 DEF GrantCounted, Remaining
  <2> QED
    BY <2>1, <2>2, <2>6
<1>9. ASSUME NEW p \in Occurrence PROVE OnRecord(p)'
  <2>1. LiveFor(p)' => LiveFor(p) \/ (p = o /\ o \in known')
    BY <1>2, <1>4 DEF LiveFor
  <2>2. known \subseteq known' /\ Accounted(o)
    BY <1>1, <1>4 DEF GrantsInv, CallAccounted
  <2> QED
    BY <1>7, <2>1, <2>2 DEF GrantsInv, OnRecord
<1>10. ASSUME NEW p \in Occurrence PROVE InsideGrant(p)'
  <2>1. ext[p].window \in 0 .. RemoteTtl
    BY DEF TypeOK, StoreTypeOK, ExtRecord
  <2>2. CASE Remaining(p)' >= Remaining(p)
    BY <1>1, <1>2, <1>4, <1>7, <2>1, <2>2 DEF GrantsInv, InsideGrant, Remaining
  <2>3. CASE ~(Remaining(p)' >= Remaining(p))
    <3>1. call.kind \in {"release", "clear"} /\ p = o
      <4>1. remote.left <= RemoteTtl
        BY <1>2 DEF TypeOK, LeaseTypeOK
      <4> QED
        BY <1>2, <1>4, <2>3, <4>1 DEF Remaining
    <3> QED
      BY <1>1, <1>7, <3>1 DEF GrantsInv, GivesBackUnused, InsideGrant
  <2> QED
    BY <2>2, <2>3
<1> QED
  BY <1>8, <1>9, <1>10 DEF GrantsInv

\* Handling an answer binds the record within the grant that the answer brought, or
\* lets it go when the service no longer grants it.
LEMMA AnswersGrants ==
    ASSUME TypeOK, LeasesInv, GrantsInv, NEW o \in Occurrence,
           Answers(o) \/ AnswerLost(o) \/ Refused(o)
    PROVE  GrantsInv'
<1>1. call # None /\ call.occ = o /\ call \in CallRecord /\ UNCHANGED <<attempt, run, remote, known>>
  BY DEF Answers, AnswerLost, Refused, Got, AcquireGranted, AcquireInactive, AcquireBusy, Verified,
         NotVerified, RenewGranted, RenewLost, ReleaseConfirmed, ReleaseLost, NothingToClear,
         Clear, Cleared, NotCleared, storeVars, TypeOK, LeaseTypeOK
<1>2. CASE Clear(o)
  <2>1. /\ call'.occ = o /\ call'.kind = "clear" /\ call'.answer = "sent"
        /\ call.kind = "inspect" /\ UNCHANGED ext
    BY <1>1, <1>2 DEF Clear, CallRecord, storeVars
  <2>2. \A p \in Occurrence : OnRecord(p)' /\ InsideGrant(p)'
    BY <1>1, <2>1
    DEF GrantsInv, OnRecord, LiveFor, Accounted, Unreleased, InsideGrant, ShouldRelease, Ended,
        Remaining
  <2> QED
    BY <1>1, <2>1, <2>2
    DEF GrantsInv, CallAccounted, Accounted, Unreleased, RefusedForGood, GrantCounted,
        GivesBackUnused
<1>3. CASE ~Clear(o)
  <2>1. call' = None
    BY <1>3
    DEF Answers, AnswerLost, Refused, Got, AcquireGranted, AcquireInactive, AcquireBusy, Verified,
        NotVerified, RenewGranted, RenewLost, ReleaseConfirmed, ReleaseLost, NothingToClear,
        Cleared, NotCleared
  <2>2. CallAccounted' /\ RefusedForGood' /\ GrantCounted' /\ GivesBackUnused'
    BY <2>1 DEF CallAccounted, RefusedForGood, GrantCounted, GivesBackUnused
  <2>3. \/ UNCHANGED ext
        \/ ReleaseLocal(o) /\ call.answer \in {"inactive", "busy"}
        \/ Bind(o) /\ call.answer = "grant"
        \/ \E late \in BOOLEAN : MarkReconciliationRequired(o, late)
    <3>1. ShouldRelease(o) \in BOOLEAN
      <4>1. Ended(o) \in BOOLEAN /\ (attempt[o] = "terminal") \in BOOLEAN
        BY DEF Ended
      <4>2. ShouldRelease(o) = Ended(o) \/ ShouldRelease(o) = (attempt[o] = "terminal")
        BY DEF ShouldRelease
      <4> QED
        BY <4>1, <4>2
    <3> QED
      BY <1>3, <3>1
      DEF Answers, AnswerLost, Refused, Got, AcquireGranted, AcquireInactive, AcquireBusy,
          Verified, NotVerified, RenewGranted, RenewLost, ReleaseConfirmed, ReleaseLost,
          NothingToClear, Cleared, NotCleared
  <2>4. CASE UNCHANGED ext \/ \E late \in BOOLEAN : MarkReconciliationRequired(o, late)
    <3>1. \A p \in Occurrence : Forward(p)
      BY <1>1, <2>4, MarkForward DEF Forward
    <3> QED
      BY <1>1, <2>1, <3>1, ForwardKept, KeptGrants
  <2>5. CASE ReleaseLocal(o) /\ call.answer \in {"inactive", "busy"}
    <3>1. ~LiveFor(o)'
      BY <1>1, <2>5 DEF GrantsInv, RefusedForGood, LiveFor
    <3>2. /\ \A p \in Occurrence \ {o} : ext'[p] = ext[p]
          /\ ext'[o].state \notin {"acquiring", "bound", "reconciliation"}
      BY <2>5 DEF ReleaseLocal, Unreleased, TypeOK, StoreTypeOK, ExtRecord, ExtState
    <3>3. OnRecord(o)' /\ InsideGrant(o)'
      BY <3>1, <3>2 DEF OnRecord, InsideGrant
    <3>4. \A p \in Occurrence \ {o} : OnRecord(p)' /\ InsideGrant(p)'
      BY <1>1, <3>2
      DEF GrantsInv, OnRecord, LiveFor, Accounted, Unreleased, InsideGrant, ShouldRelease, Ended,
          Remaining
    <3> QED
      BY <2>2, <3>3, <3>4 DEF GrantsInv
  <2>6. CASE Bind(o) /\ call.answer = "grant"
    <3>1. /\ ext'[o].state = "bound" /\ ext'[o].window = Window(call.granted, call.age)
          /\ \A p \in Occurrence \ {o} : ext'[p] = ext[p]
      BY <2>6 DEF Bind, TypeOK, StoreTypeOK, ExtRecord
    <3>2. call.granted \in Nat /\ call.age \in Nat /\ Remaining(o) \in Nat
      BY <1>1, StoreAssumption DEF CallRecord, Remaining, TypeOK, LeaseTypeOK
    <3>3. Window(call.granted, call.age) <= Remaining(o)
      BY <1>1, <2>6, <3>2 DEF GrantsInv, GrantCounted, Window
    <3>4. OnRecord(o)' /\ InsideGrant(o)'
      BY <1>1, <3>1, <3>3
      DEF GrantsInv, OnRecord, LiveFor, Accounted, Unreleased, InsideGrant, Remaining
    <3>5. \A p \in Occurrence \ {o} : OnRecord(p)' /\ InsideGrant(p)'
      BY <1>1, <3>1
      DEF GrantsInv, OnRecord, LiveFor, Accounted, Unreleased, InsideGrant, ShouldRelease, Ended,
          Remaining
    <3> QED
      BY <2>2, <3>4, <3>5 DEF GrantsInv
  <2> QED
    BY <2>3, <2>4, <2>5, <2>6
<1> QED
  BY <1>2, <1>3

\* Every clock moves by the same unit: a call's age grows as fast as what the
\* service grants shrinks.
LEMMA ElapseGrants ==
    ASSUME TypeOK, GrantsInv, Elapse
    PROVE  GrantsInv'
<1>1. /\ UNCHANGED <<run, attempt, known>>
      /\ remote'.holder = remote.holder /\ remote'.left = Less(remote.left)
      /\ remote.left \in Nat
  BY DEF Elapse, LeasesAge, TypeOK, LeaseTypeOK
<1>2. ASSUME NEW p \in Occurrence
      PROVE  /\ ext'[p].state = ext[p].state /\ ext'[p].linked = ext[p].linked
             /\ ext'[p].anchored = ext[p].anchored
             /\ ext'[p].window = Less(ext[p].window) /\ ext[p].window \in Nat
             /\ Remaining(p) \in Nat /\ Remaining(p)' = Less(Remaining(p))
  <2>1. ext[p] \in ExtRecord
    BY DEF TypeOK, StoreTypeOK
  <2>2. ext'[p] = [ext[p] EXCEPT !.window = Less(@)]
    BY DEF Elapse, LeasesAge
  <2>3. Remaining(p) \in Nat /\ Remaining(p)' = Less(Remaining(p))
    BY <1>1 DEF Remaining, Less
  <2> QED
    BY <2>1, <2>2, <2>3, StoreAssumption DEF ExtRecord
<1>3. ASSUME NEW p \in Occurrence
      PROVE  /\ Accounted(p)' <=> Accounted(p)
             /\ ShouldRelease(p)' <=> ShouldRelease(p)
             /\ LiveFor(p)' => LiveFor(p)
  BY <1>1, <1>2 DEF Accounted, Unreleased, ShouldRelease, Ended, LiveFor, Less
<1>4. ASSUME NEW p \in Occurrence PROVE OnRecord(p)' /\ InsideGrant(p)'
  <2>1. OnRecord(p)'
    BY <1>1, <1>3 DEF GrantsInv, OnRecord
  <2>2. ext[p].window <= Remaining(p) => ext'[p].window <= Remaining(p)'
    BY <1>2 DEF Less
  <2> QED
    BY <1>2, <1>3, <2>1, <2>2 DEF GrantsInv, InsideGrant
<1>5. CASE call = None
  <2>1. call' = None
    BY <1>5 DEF Elapse, LeasesAge
  <2> QED
    BY <1>4, <2>1 DEF GrantsInv, CallAccounted, RefusedForGood, GrantCounted, GivesBackUnused
<1>6. CASE call # None
  <2>1. call \in CallRecord
    BY <1>6 DEF TypeOK, LeaseTypeOK
  <2> PICK o \in Occurrence : call.occ = o
    BY <2>1 DEF CallRecord
  <2>2. /\ call' = [call EXCEPT !.age = IF @ < RemoteTtl THEN @ + 1 ELSE @]
    BY <1>6 DEF Elapse, LeasesAge
  <2>3. /\ call'.occ = o /\ call'.kind = call.kind
        /\ call'.answer = call.answer /\ call'.granted = call.granted
        /\ call'.age = IF call.age < RemoteTtl THEN call.age + 1 ELSE call.age
    BY <2>1, <2>2 DEF CallRecord
  <2>4. CallAccounted' /\ RefusedForGood' /\ GivesBackUnused'
    BY <1>2, <1>3, <1>6, <2>1, <2>3
    DEF GrantsInv, CallAccounted, RefusedForGood, GivesBackUnused, LiveFor
  <2>5. GrantCounted'
    <3>1. /\ call.granted \in Nat /\ call.granted <= RemoteTtl
          /\ call.age \in Nat /\ call.age <= RemoteTtl /\ RemoteTtl \in Nat
      BY <2>1, StoreAssumption DEF CallRecord
    <3>2. Remaining(o)' = Less(Remaining(o)) /\ Remaining(o) \in Nat
      BY <1>2, <2>1
    <3>3. call.granted <= Remaining(o) + call.age =>
              call'.granted <= Less(Remaining(o)) + call'.age
      BY <2>3, <3>1, <3>2 DEF Less
    <3> QED
      BY <1>6, <2>3, <3>2, <3>3 DEF GrantsInv, GrantCounted, Remaining
  <2> QED
    BY <1>4, <2>4, <2>5 DEF GrantsInv
<1> QED
  BY <1>5, <1>6

\* Other clients of the service never touch what it grants to Core.
LEMMA OthersGrants ==
    ASSUME TypeOK, GrantsInv, OutsiderTakes \/ OutsiderReleases
    PROVE  GrantsInv'
<1>1. UNCHANGED <<ext, run, attempt, call, known>>
  BY DEF OutsiderTakes, OutsiderReleases, storeVars
<1>2. ASSUME NEW p \in Occurrence
      PROVE  /\ Remaining(p)' = Remaining(p)
             /\ LiveFor(p)' => LiveFor(p)
  BY StoreAssumption
  DEF OutsiderTakes, OutsiderReleases, Live, Remaining, LiveFor, TypeOK, LeaseTypeOK
<1>3. ASSUME NEW p \in Occurrence
      PROVE  /\ Accounted(p)' <=> Accounted(p)
             /\ ShouldRelease(p)' <=> ShouldRelease(p)
             /\ OnRecord(p)' /\ InsideGrant(p)'
  BY <1>1, <1>2
  DEF GrantsInv, OnRecord, Accounted, Unreleased, InsideGrant, ShouldRelease, Ended
<1>4. call # None => call.occ \in Occurrence
  BY DEF TypeOK, LeaseTypeOK, CallRecord
<1>5. CallAccounted' /\ GivesBackUnused'
  BY <1>1, <1>3, <1>4 DEF GrantsInv, CallAccounted, GivesBackUnused
<1>6. RefusedForGood' /\ GrantCounted'
  BY <1>1, <1>2, <1>4 DEF GrantsInv, RefusedForGood, GrantCounted, LiveFor, Remaining
<1> QED
  BY <1>3, <1>5, <1>6 DEF GrantsInv

(* The rest of the environment.                                                 *)

LEMMA RunsForward ==
    ASSUME TypeOK, LeasesInv, NEW o \in Occurrence,
           \/ Dispatches(o) \/ CallReturns(o) \/ Calls(o)
           \/ \E status \in Endings : Ends(o, status)
           \/ DoubtsWrite(o) \/ Resolves(o) \/ DeferralEnds(o) \/ Borrows(o) \/ Fires(o)
    PROVE  /\ UNCHANGED <<call, remote, known>>
           /\ \A p \in Occurrence : Forward(p)
<1>1. CASE \/ Dispatches(o) \/ CallReturns(o) \/ Calls(o)
           \/ \E status \in Endings : Ends(o, status)
  <2>1. ~Ended(o) /\ \E status : RunChanges(o, status)
    BY <1>1
    DEF Dispatches, CallReturns, Calls, Ends, Active, Ended, ActiveRun, EndedRun
  <2> QED
    BY <2>1 DEF RunChanges, leaseVars, Forward, TypeOK, StoreTypeOK
<1>2. CASE DoubtsWrite(o)
  <2>1. ~Ended(o)
    BY <1>2 DEF DoubtsWrite, WriteUncertain, Ended, EndedRun
  <2> QED
    BY <1>2, <2>1
    DEF DoubtsWrite, WriteUncertain, leaseVars, Forward, TypeOK, StoreTypeOK
<1>3. CASE Resolves(o)
  BY <1>3 DEF Resolves, OperatorReconciles, leaseVars, Forward, TypeOK, StoreTypeOK
<1>4. CASE DeferralEnds(o) \/ Borrows(o) \/ Fires(o)
  BY <1>4 DEF DeferralEnds, Borrows, Fires, Fire, leaseVars, Forward
<1> QED
  BY <1>1, <1>2, <1>3, <1>4

LEMMA CrashForward ==
    ASSUME TypeOK, Crash
    PROVE  /\ UNCHANGED <<remote, known>> /\ call' = None
           /\ \A p \in Occurrence : Forward(p)
<1>1. \A p \in Occurrence : run'[p] = run[p] \/ ~Ended(p)
  BY DEF Crash, Ended, EndedRun
<1> QED
  BY <1>1 DEF Crash, CoordinatorRestart, Forward

LEMMA LoopsForward ==
    ASSUME \/ Tick \/ Reconciled \/ EndPass
           \/ \E new, kept : Materialise(new, kept)
    PROVE  /\ UNCHANGED <<call, remote, known>>
           /\ \A p \in Occurrence : Forward(p)
BY DEF Tick, Reconciled, EndPass, Materialise, storeVars, leaseVars, Forward

LEMMA NextGrants ==
    ASSUME TypeOK, LeasesInv, GrantsInv, [Next]_vars
    PROVE  GrantsInv'
<1>1. CASE UNCHANGED vars
  <2>1. \A p \in Occurrence : Forward(p)
    BY <1>1 DEF vars, storeVars, Forward
  <2> QED
    BY <1>1, <2>1, ForwardKept, KeptGrants DEF vars, leaseVars
<1>2. ASSUME NEW o \in Occurrence, Reconciles(o)
      PROVE  GrantsInv'
  BY <1>2, ReconcilesForward, ForwardKept, KeptGrants DEF Reconciles
<1>3. ASSUME NEW o \in Occurrence, Starts(o) \/ FailsToStart(o)
      PROVE  GrantsInv'
  <2>1. StartSteps(o) \/ CreateRunFails(o)
    BY <1>3 DEF Starts, FailsToStart
  <2>2. CASE Request(o)
    BY <2>2, RequestGrants
  <2>3. CASE CreateRun(o)
    BY <2>3, CreateRunKept, KeptGrants
  <2>4. CASE ~Request(o) /\ ~CreateRun(o)
    BY <2>1, <2>4, StartsForward, ForwardKept, KeptGrants
  <2> QED
    BY <2>2, <2>3, <2>4
<1>4. CASE \/ Ticks \/ Sweeps \/ EndsPass
           \/ \E new, kept : Materialises(new, kept)
  BY <1>4, LoopsForward, ForwardKept, KeptGrants DEF Ticks, Sweeps, EndsPass, Materialises
<1>5. ASSUME NEW o \in Occurrence,
             Coordinates(o) \/ LosesAnswer(o) \/ GetsRefusal(o)
      PROVE  GrantsInv'
  BY <1>5, SendsGrants, AnswersGrants
  DEF Coordinates, SendsCall, GetsAnswer, LosesAnswer, GetsRefusal
<1>6. CASE Serves
  BY <1>6, ServeGrants DEF Serves
<1>7. ASSUME NEW o \in Occurrence,
             \/ Dispatches(o) \/ CallReturns(o) \/ Calls(o)
             \/ \E status \in Endings : Ends(o, status)
             \/ DoubtsWrite(o) \/ Resolves(o) \/ DeferralEnds(o) \/ Borrows(o) \/ Fires(o)
      PROVE  GrantsInv'
  BY <1>7, RunsForward, ForwardKept, KeptGrants
<1>8. CASE Crash
  BY <1>8, CrashForward, ForwardKept, KeptGrants
<1>9. CASE OthersUseDomain \/ Elapse
  BY <1>9, OthersGrants, ElapseGrants DEF OthersUseDomain
<1> QED
  BY <1>1, <1>2, <1>3, <1>4, <1>5, <1>6, <1>7, <1>8, <1>9 DEF Next, CoreStep, Environment

LEMMA InitGrants == Init => GrantsInv
BY StoreAssumption
   DEF Init, StoreInit, LeaseInit, NoRequest, GrantsInv, OnRecord, LiveFor, InsideGrant,
       CallAccounted, RefusedForGood, GrantCounted, GivesBackUnused

----
(* The control leases.  Nothing interrupts a tick, so what its reconciliation   *)
(* found of a run, and the leases it renewed for the run, still stand when the  *)
(* tick starts another one.                                                     *)

HoldsAll(o) == \A r \in Needs(o) : Holds(o, r)

\* The tick has been past p: it may act only with every lease it needs.
Reviewed(p) ==
    \/ pass \in {"materialise", "start"}
    \/ pass = "reconcile" /\ p \notin todo
InControl(p) == Reviewed(p) /\ MayAct(p) => HoldsAll(p)

\* What the transactions before the next one have made sure of.
Equipped(o) ==
    cur = o =>
        /\ step = "browser" => BrowserOf[o] # None /\ Holds(o, KeyOf[o])
        /\ step \in {"attempt", "tokens", "run"} => HoldsAll(o)
        /\ step = "lost" => ~AllowsEffects(o)
        /\ step = "unlease" => ~MayAct(o)

ControlInv == \A o \in Occurrence : InControl(o) /\ Equipped(o)

LEMMA InitControl == Init => ControlInv
BY StoreAssumption DEF Init, TaskInit, ControlInv, InControl, Reviewed, Equipped

\* A lease that p holds is not touched: renewing and releasing change only the rows
\* of their owner, and only a row that is free changes its owner.
Untouched(p) == \A r \in Resource : Holds(p, r) => Holds(p, r)'

LEMMA NeedsResources ==
    ASSUME NEW o \in Occurrence
    PROVE  Needs(o) \subseteq Resource
BY StoreAssumption DEF Needs

LEMMA SetLeftUntouched ==
    ASSUME TypeOK, NEW o \in Occurrence, NEW S, NEW n, lease' = SetLeft(o, S, n)
    PROVE  \A p \in Occurrence \ {o} : Untouched(p)
BY DEF SetLeft, Untouched, Holds, Free

LEMMA RenewUntouched ==
    ASSUME TypeOK, NEW o \in Occurrence, FindOrRenewLeases(o)
    PROVE  /\ \A p \in Occurrence : Untouched(p)
           /\ ~LostControl(o) => HoldsAll(o)'
<1>1. CASE attempt[o] = "pending"
  BY <1>1 DEF FindOrRenewLeases, LostControl, Untouched, Holds, Free
<1>2. CASE attempt[o] # "pending"
  <2>1. lease' = SetLeft(o, Needs(o), LeaseTtl)
    BY <1>2 DEF FindOrRenewLeases, Renewed
  <2>2. Untouched(o)
    BY <2>1, StoreAssumption DEF SetLeft, Untouched, Holds, Free
  <2>3. ~LostControl(o) => HoldsAll(o)'
    BY <2>2, NeedsResources DEF LostControl, HoldsAll, Untouched, Needs
  <2> QED
    BY <2>1, <2>2, <2>3, SetLeftUntouched
<1> QED
  BY <1>1, <1>2

LEMMA AcquiredUntouched ==
    ASSUME TypeOK, NEW o \in Occurrence, NEW r \in Resource, Free(r), lease' = Acquired(o, r)
    PROVE  /\ \A p \in Occurrence : Untouched(p)
           /\ Holds(o, r)'
BY StoreAssumption DEF Acquired, Untouched, Holds, Free, TypeOK, StoreTypeOK

LEMMA SweepUntouched ==
    ASSUME TypeOK, Sweep
    PROVE  \A p \in Occurrence : attempt[p] # "terminal" => Untouched(p)
BY DEF Sweep, Untouched, Holds, Free

LEMMA KeepsAll ==
    ASSUME NEW p \in Occurrence, Untouched(p), HoldsAll(p)
    PROVE  HoldsAll(p)'
BY NeedsResources DEF Untouched, HoldsAll, Needs

\* An occurrence that the step does not concern.
LEMMA BystanderControl ==
    ASSUME ControlInv, NEW p \in Occurrence, Reviewed(p)' => Reviewed(p),
           MayAct(p)' => MayAct(p), Untouched(p), cur' = p => step' \in {"none", "start", "finish"}
    PROVE  InControl(p)' /\ Equipped(p)'
BY KeepsAll DEF ControlInv, InControl, Equipped

LEMMA MarkedMayNotAct ==
    ASSUME TypeOK, NEW o \in External, MarkReconciliationRequired(o, FALSE)
    PROVE  ~AllowsEffects(o)' /\ verified' \subseteq verified
           /\ \A p \in Occurrence \ {o} : ext'[p] = ext[p]
BY StoreAssumption DEF MarkReconciliationRequired, Markable, AllowsEffects, TypeOK, StoreTypeOK

\* The record and the run of p stay, or p may do less than before.
LEMMA MayActLess ==
    ASSUME NEW p \in Occurrence, run'[p] = run[p], ext'[p] = ext[p], verified' \subseteq verified
    PROVE  MayAct(p)' => MayAct(p)
BY DEF MayAct, Active, AllowsEffects

(* The reconciliation. *)

LEMMA ReconcilesBystanders ==
    ASSUME TypeOK, LeasesInv, ControlInv, NEW o \in Occurrence, ReconcileSteps(o)
    PROVE  \A p \in Occurrence \ {o} : InControl(p)' /\ Equipped(p)'
<1>1. \/ lease' = lease \/ FindOrRenewLeases(o) \/ lease' = SetLeft(o, Needs(o), 0)
  BY DEF ReconcileSteps, ReconcileLostExternal, ReconcileLostControl, ReconcileEnded,
     ReconcileFenced, ReconcileRunning, MarkUncertain, FinishAttempt, FinishTriggerAttempt,
     ReleaseLeases, Released
<1>2. \A p \in Occurrence \ {o} : Untouched(p)
  <2>1. lease' = lease => \A p \in Occurrence : Untouched(p)
    BY DEF Untouched, Holds, Free
  <2> QED
    BY <1>1, <2>1, RenewUntouched, SetLeftUntouched
<1>3. /\ pass' = pass /\ todo \ {o} \subseteq todo'
      /\ \A p \in Occurrence \ {o} : cur' # p
  BY StoreAssumption
  DEF ReconcileSteps, ReconcileLostExternal, ReconcileLostControl, ReconcileEnded,
      ReconcileFenced, ReconcileRunning, MarkUncertain, FinishAttempt, ReleaseLeases, Visit, Take,
      LeaveAlone, Then, Done
<1>4. /\ \A p \in Occurrence \ {o} : ext'[p] = ext[p] /\ run'[p] = run[p]
      /\ verified' \subseteq verified
  BY MarkedMayNotAct
  DEF ReconcileSteps, ReconcileLostExternal, ReconcileLostControl, ReconcileEnded,
      ReconcileFenced, ReconcileRunning, MarkUncertain, FinishAttempt, ReleaseLeases, rest,
      leaseVars, TypeOK, StoreTypeOK
<1> QED
  BY <1>2, <1>3, <1>4, MayActLess, BystanderControl DEF Reviewed

LEMMA ReconcilesOwn ==
    ASSUME TypeOK, LeasesInv, ControlInv, NEW o \in Occurrence, ReconcileSteps(o)
    PROVE  InControl(o)' /\ Equipped(o)'
<1> Good(o) /\ InControl(o) /\ Equipped(o)
  BY DEF LeasesInv, ControlInv
<1>1. CASE ReconcileLostExternal(o)
  <2>1. ~MayAct(o)' /\ step' = "lost"
    BY <1>1, MarkedMayNotAct DEF ReconcileLostExternal, Take, MayAct
  <2> QED
    BY <1>1, <2>1, MarkedMayNotAct DEF ReconcileLostExternal, InControl, Equipped
<1>2. CASE ReconcileLostControl(o)
  <2>1. ~MayAct(o)' /\ step' = "finish"
    BY <1>2
    DEF ReconcileLostControl, Take, MayAct, Active, ActiveRun, TypeOK, StoreTypeOK
  <2> QED
    BY <2>1 DEF InControl, Equipped
<1>3. CASE ReconcileEnded(o) \/ ReconcileFenced(o) \/ ReconcileRunning(o)
  <2>1. HoldsAll(o)' /\ step' \in {"finish", "fence", "none"}
    BY <1>3, RenewUntouched
    DEF ReconcileEnded, ReconcileFenced, ReconcileRunning, Take, LeaveAlone, Visit, LeasesInv,
        TaskInOrder
  <2> QED
    BY <2>1 DEF InControl, Equipped
<1>4. CASE MarkUncertain(o)
  <2>1. MayAct(o)' => MayAct(o)
    BY <1>4
    DEF MarkUncertain, MayAct, Active, ActiveRun, AllowsEffects, leaseVars, TypeOK, StoreTypeOK
  <2>2. step = "lost" => ~MayAct(o)
    BY <1>4 DEF MarkUncertain, At, Equipped, MayAct
  <2>3. /\ lease' = lease /\ UNCHANGED <<pass, todo>>
        /\ step' = "unlease" => step = "lost"
        /\ step' \in {"unlease", "none"}
    BY <1>4 DEF MarkUncertain, Then, Done
  <2>4. HoldsAll(o) => HoldsAll(o)'
    BY <2>3 DEF HoldsAll, Holds, Free
  <2> QED
    BY <2>1, <2>2, <2>3, <2>4 DEF InControl, Reviewed, Equipped
<1>5. CASE FinishAttempt(o) \/ ReleaseLeases(o)
  <2>1. ~MayAct(o)
    BY <1>5 DEF FinishAttempt, ReleaseLeases, At, Good, Committed, Equipped, MayAct
  <2>2. ~MayAct(o)'
    BY <1>5, <2>1, MayActLess DEF FinishAttempt, ReleaseLeases, rest, leaseVars
  <2>3. step' \in {"unlease", "none"}
    BY <1>5 DEF FinishAttempt, ReleaseLeases, Then, Done
  <2> QED
    BY <2>2, <2>3 DEF InControl, Equipped
<1> QED
  BY <1>1, <1>2, <1>3, <1>4, <1>5 DEF ReconcileSteps

(* The start of an occurrence. *)

LEMMA StartsBystanders ==
    ASSUME TypeOK, LeasesInv, ControlInv, NEW o \in Occurrence,
           StartSteps(o) \/ CreateRunFails(o)
    PROVE  \A p \in Occurrence \ {o} : InControl(p)' /\ Equipped(p)'
<1>1. \/ lease' = lease
      \/ \E r \in Resource : Free(r) /\ lease' = Acquired(o, r)
      \/ \E S : lease' = SetLeft(o, S, 0)
  <2>1. KeyOf[o] \in Resource /\ BrowserOf[o] \in Resource \cup {None}
    BY StoreAssumption
  <2>2. CASE AcquireBrowserLease(o)
    <3>1. BrowserOf[o] \in Resource
      BY <2>1, <2>2 DEF AcquireBrowserLease, At, ControlInv, Equipped
    <3> QED
      BY <2>2, <3>1 DEF AcquireBrowserLease
  <2>3. CASE ~AcquireBrowserLease(o)
    BY <2>1, <2>3
    DEF StartSteps, StartNext, Request, RequestConflict, NotYet, TriggerBusy, AcquireTriggerLease,
        BrowserBusy, Yield, CreateTriggerAttempt, StoreTokens, CreateRun, CreateRunFails,
        BlockAttempt, Released, rest, storeVars
  <2> QED
    BY <2>2, <2>3
<1>2. \A p \in Occurrence \ {o} : Untouched(p)
  <2>1. lease' = lease => \A p \in Occurrence : Untouched(p)
    BY DEF Untouched, Holds, Free
  <2> QED
    BY <1>1, <2>1, AcquiredUntouched, SetLeftUntouched
<1>3. /\ pass' = "idle" \/ (pass' = pass /\ todo \ {o} \subseteq todo')
      /\ \A p \in Occurrence \ {o} : cur' # p
  BY StoreAssumption
  DEF StartSteps, StartNext, Request, RequestConflict, NotYet, TriggerBusy, AcquireTriggerLease,
      BrowserBusy, Yield, AcquireBrowserLease, GiveWay, CreateTriggerAttempt, StoreTokens,
      CreateRun, CreateRunFails, BlockAttempt, Take, Then, Done
<1>4. /\ \A p \in Occurrence \ {o} : ext'[p] = ext[p] /\ run'[p] = run[p]
      /\ verified' \subseteq verified
  BY MarkedMayNotAct
  DEF StartSteps, StartNext, Request, RequestConflict, NotYet, TriggerBusy, AcquireTriggerLease,
      BrowserBusy, Yield, AcquireBrowserLease, GiveWay, CreateTriggerAttempt, StoreTokens,
      CreateRun, CreateRunFails, BlockAttempt, BeginAcquisition, rest, storeVars, leaseVars,
      TypeOK, StoreTypeOK
<1> QED
  BY <1>2, <1>3, <1>4, MayActLess, BystanderControl DEF Reviewed

LEMMA StartsOwn ==
    ASSUME TypeOK, LeasesInv, ControlInv, NEW o \in Occurrence,
           StartSteps(o) \/ CreateRunFails(o)
    PROVE  InControl(o)' /\ Equipped(o)'
<1> Good(o) /\ InControl(o) /\ Equipped(o)
  BY DEF LeasesInv, ControlInv
<1>1. lease' = lease => (HoldsAll(o) => HoldsAll(o)')
  BY DEF HoldsAll, Holds, Free
<1>2. CASE NotYet(o) \/ RequestConflict(o)
  <2>1. run[o] = None
    BY <1>2 DEF NotYet, RequestConflict, At, Good, Committed, InOrder
  <2>2. ~MayAct(o)' /\ step' = "none"
    BY <1>2, <2>1, StoreAssumption
    DEF NotYet, RequestConflict, Done, storeVars, MayAct, Active
  <2> QED
    BY <2>2 DEF InControl, Equipped
<1>3. CASE StartNext(o) \/ Request(o) \/ TriggerBusy(o) \/ BrowserBusy(o) \/ Yield(o) \/ CreateRunFails(o)
  <2>1. run[o] = None
    BY <1>3
    DEF StartNext, Request, TriggerBusy, BrowserBusy, Yield, CreateRunFails, Visit, First, At,
        Good, StillWaits, Committed, InOrder
  <2>2. run' = run /\ step' \in {"none", "start", "yield", "block"}
    BY <1>3
    DEF StartNext, Request, TriggerBusy, BrowserBusy, Yield, GiveWay, CreateRunFails, Take, Then,
        Done, rest, storeVars
  <2>3. ~MayAct(o)'
    BY <2>1, <2>2, StoreAssumption DEF MayAct, Active
  <2> QED
    BY <2>2, <2>3 DEF InControl, Equipped
<1>4. CASE AcquireTriggerLease(o) \/ AcquireBrowserLease(o)
  <2>1. run[o] = None /\ run' = run
    BY <1>4
    DEF AcquireTriggerLease, AcquireBrowserLease, At, Good, Committed, InOrder, rest
  <2>2. ~MayAct(o)'
    BY <2>1, StoreAssumption DEF MayAct, Active
  <2>3. KeyOf[o] \in Resource /\ BrowserOf[o] \in Resource \cup {None}
    BY StoreAssumption
  <2>4. CASE AcquireTriggerLease(o)
    <3>1. Holds(o, KeyOf[o])'
      BY <2>3, <2>4, AcquiredUntouched DEF AcquireTriggerLease
    <3>2. /\ step' \in {"attempt", "browser"}
          /\ step' = "attempt" => BrowserOf[o] = None
          /\ step' = "browser" => BrowserOf[o] # None
      BY <2>4 DEF AcquireTriggerLease, Then
    <3>3. BrowserOf[o] = None => HoldsAll(o)'
      BY <3>1 DEF HoldsAll, Needs
    <3> QED
      BY <2>2, <3>1, <3>2, <3>3 DEF InControl, Equipped
  <2>5. CASE AcquireBrowserLease(o)
    <3>1. BrowserOf[o] \in Resource /\ Holds(o, KeyOf[o])
      BY <2>3, <2>5 DEF AcquireBrowserLease, At, Equipped
    <3>2. Holds(o, KeyOf[o])' /\ Holds(o, BrowserOf[o])'
      BY <2>3, <2>5, <3>1, AcquiredUntouched DEF AcquireBrowserLease, Untouched
    <3>3. HoldsAll(o)'
      BY <3>2 DEF HoldsAll, Needs
    <3> QED
      BY <2>2, <2>5, <3>3 DEF AcquireBrowserLease, Then, InControl, Equipped
  <2> QED
    BY <1>4, <2>4, <2>5
<1>5. CASE CreateTriggerAttempt(o) \/ StoreTokens(o)
  <2>1. HoldsAll(o)' /\ step' \in {"tokens", "run"}
    BY <1>1, <1>5 DEF CreateTriggerAttempt, StoreTokens, At, Equipped, Then
  <2> QED
    BY <2>1 DEF InControl, Equipped
<1>6. CASE CreateRun(o)
  <2>1. HoldsAll(o)' /\ step' = "none"
    BY <1>1, <1>6 DEF CreateRun, At, Equipped, Done
  <2> QED
    BY <2>1 DEF InControl, Equipped
<1>7. CASE BlockAttempt(o)
  <2>1. run[o] = None /\ run' = run /\ step' = "unlease"
    BY <1>7 DEF BlockAttempt, At, Good, Committed, rest, Then
  <2>2. ~MayAct(o)'
    BY <2>1, StoreAssumption DEF MayAct, Active
  <2> QED
    BY <2>1, <2>2 DEF InControl, Equipped
<1> QED
  BY <1>2, <1>3, <1>4, <1>5, <1>6, <1>7 DEF StartSteps

(* The loops of a tick, and what happens between two passes.                    *)

\* Between two passes, or in a fire, nothing is claimed of the runs.
LEMMA IdleControl ==
    ASSUME pass' \in {"idle", "fire"}, step' \in {"none", "start"}
    PROVE  ControlInv'
BY DEF ControlInv, InControl, Reviewed, Equipped

LEMMA LoopsControl ==
    ASSUME TypeOK, LeasesInv, ControlInv,
           \/ Tick \/ Reconciled \/ EndPass
           \/ \E o \in Occurrence : Fire(o)
           \/ \E new, kept : Materialise(new, kept)
    PROVE  ControlInv'
<1> TaskInOrder
  BY DEF LeasesInv
<1>1. CASE EndPass \/ \E o \in Occurrence : Fire(o)
  <2>1. pass' \in {"idle", "fire"} /\ step' \in {"none", "start"}
    BY <1>1 DEF EndPass, Fire, TaskInOrder
  <2> QED
    BY <2>1, IdleControl
<1>2. CASE Tick
  <2>1. /\ pass' = "reconcile" /\ step' = "none" /\ UNCHANGED <<run, ext, verified>>
        /\ \A p \in Occurrence : p \notin todo' => ~Active(p)
    BY <1>2 DEF Tick, NoTask, TaskInOrder, leaseVars, LeasesInv, Good, Supervised
  <2> QED
    BY <2>1 DEF ControlInv, InControl, Reviewed, Equipped, MayAct, Active
<1>3. CASE Reconciled
  <2>1. /\ step' = "none" /\ UNCHANGED <<run, ext, verified>>
        /\ \A p \in Occurrence : Reviewed(p)
    BY <1>3 DEF Reconciled, TaskInOrder, leaseVars, Reviewed
  <2>2. ASSUME NEW p \in Occurrence, MayAct(p) PROVE Untouched(p)
    <3>1. attempt[p] = "running"
      BY <2>2 DEF LeasesInv, Good, Supervised, MayAct
    <3> QED
      BY <1>3, <3>1, SweepUntouched DEF Reconciled
  <2> QED
    BY <2>1, <2>2, MayActLess, KeepsAll DEF ControlInv, InControl, Equipped
<1>4. CASE \E new, kept : Materialise(new, kept)
  <2>1. /\ pass = "materialise" /\ step' = "none"
        /\ UNCHANGED <<run, ext, verified, lease>>
    BY <1>4 DEF Materialise, TaskInOrder, leaseVars
  <2>2. \A p \in Occurrence : Untouched(p)
    BY <2>1 DEF Untouched, Holds, Free
  <2> QED
    BY <2>1, <2>2, MayActLess, BystanderControl DEF ControlInv, Reviewed
<1> QED
  BY <1>1, <1>2, <1>3, <1>4

\* The service and its other clients go on while a tick is under way.
LEMMA ServiceControl ==
    ASSUME ControlInv, Serve \/ OutsiderTakes \/ OutsiderReleases \/ UNCHANGED <<storeVars, verified>>,
           UNCHANGED taskVars
    PROVE  ControlInv'
<1>1. UNCHANGED <<run, ext, verified, lease, pass, todo, cur, step>>
  BY DEF Serve, ServeAcquire, ServeRenew, ServeRelease, ServeRead, OutsiderTakes,
         OutsiderReleases, storeVars, taskVars
<1>2. ASSUME NEW p \in Occurrence
      PROVE  /\ MayAct(p)' <=> MayAct(p)
             /\ AllowsEffects(p)' <=> AllowsEffects(p)
             /\ HoldsAll(p)' <=> HoldsAll(p)
             /\ Holds(p, KeyOf[p])' <=> Holds(p, KeyOf[p])
  BY <1>1 DEF MayAct, Active, AllowsEffects, HoldsAll, Holds, Free
<1> QED
  BY <1>1, <1>2 DEF ControlInv, InControl, Reviewed, Equipped

LEMMA NextControl ==
    ASSUME TypeOK, LeasesInv, ControlInv, [Next]_vars
    PROVE  ControlInv'
<1>1. CASE UNCHANGED vars
  BY <1>1, ServiceControl DEF vars, leaseVars
<1>2. ASSUME NEW o \in Occurrence, Reconciles(o)
      PROVE  ControlInv'
  BY <1>2, ReconcilesBystanders, ReconcilesOwn DEF Reconciles, ControlInv
<1>3. ASSUME NEW o \in Occurrence, Starts(o) \/ FailsToStart(o)
      PROVE  ControlInv'
  BY <1>3, StartsBystanders, StartsOwn DEF Starts, FailsToStart, ControlInv
<1>4. CASE \/ Ticks \/ Sweeps \/ EndsPass
           \/ \E o \in Occurrence : Fires(o)
           \/ \E new, kept : Materialises(new, kept)
  BY <1>4, LoopsControl DEF Ticks, Sweeps, EndsPass, Fires, Materialises
<1>5. CASE Serves \/ OthersUseDomain
  BY <1>5, ServiceControl DEF Serves, OthersUseDomain, frame
<1>6. ASSUME NEW o \in Occurrence,
             \/ Coordinates(o) \/ LosesAnswer(o) \/ GetsRefusal(o)
             \/ Dispatches(o) \/ CallReturns(o) \/ Calls(o)
             \/ \E status \in Endings : Ends(o, status)
             \/ DoubtsWrite(o) \/ Resolves(o) \/ DeferralEnds(o) \/ Borrows(o)
      PROVE  ControlInv'
  <2>1. NoTask /\ UNCHANGED taskVars
    BY <1>6
    DEF Coordinates, SendsCall, GetsAnswer, LosesAnswer, GetsRefusal, Dispatches, CallReturns,
        Calls, Ends, RunChanges, DoubtsWrite, Resolves, DeferralEnds, Borrows, frame
  <2> QED
    BY <2>1, IdleControl DEF NoTask, taskVars, LeasesInv, TaskInOrder
<1>7. CASE Elapse \/ Crash
  <2>1. pass' = "idle" /\ step' = "none"
    BY <1>7 DEF Elapse, Crash, NoTask, frame, taskVars, TaskRestart, LeasesInv, TaskInOrder
  <2> QED
    BY <2>1, IdleControl
<1> QED
  BY <1>1, <1>2, <1>3, <1>4, <1>5, <1>6, <1>7 DEF Next, CoreStep, Environment

----
(* The theorems. *)

LEMMA GrantsInductive == Spec => [](TypeOK /\ LeasesInv /\ GrantsInv /\ ControlInv)
<1>1. Init => GrantsInv /\ ControlInv
  BY InitGrants, InitControl
<1>2. TypeOK /\ LeasesInv /\ GrantsInv /\ ControlInv /\ [Next]_vars
          => GrantsInv' /\ ControlInv'
  BY NextGrants, NextControl
<1> QED
  BY <1>1, <1>2, LeasesInductive, PTL DEF Spec

\* What the lease service still grants to one of Core's requests, Core has a record
\* of: no lost or late answer, crash or release makes the coordinator forget a lease
\* that the service holds for it, except where an operator let the record go under
\* an uncertain run.
THEOREM KnownCorrect == Spec => []RemoteLeaseIsKnown
<1>1. GrantsInv => RemoteLeaseIsKnown
  BY StoreAssumption DEF GrantsInv, OnRecord, LiveFor, Accounted, RemoteLeaseIsKnown
<1> QED
  BY <1>1, GrantsInductive, PTL

\* A window counted from a request ends before the grant does, for every lease
\* duration and however long the answer took: estimatedRemainingMilliseconds never
\* lets Core act on time that the service has not given.
THEOREM WindowCorrect == Spec => []WindowInsideGrant
<1>1. GrantsInv => WindowInsideGrant
  BY StoreAssumption DEF GrantsInv, InsideGrant, WindowInsideGrant
<1> QED
  BY <1>1, GrantsInductive, PTL

\* A tick starts a run only where no other run with one of its leases may act.
LEMMA StartIsAlone ==
    ASSUME TypeOK, LeasesInv, ControlInv, [Next]_vars, NEW o \in Occurrence,
           NEW p \in Occurrence, pass = "start", run[o] = None, run'[o] # None, o # p,
           Needs(o) \cap Needs(p) # {}
    PROVE  ~MayAct(p)
<1>1. CreateRun(o)
  <2>1. ~NoTask
    BY DEF NoTask
  <2>2. ASSUME NEW q \in Occurrence, ReconcileSteps(q) PROVE run'[o] = None
    BY <2>2, StoreAssumption
    DEF ReconcileSteps, ReconcileLostExternal, ReconcileLostControl, ReconcileEnded,
        ReconcileFenced, ReconcileRunning, MarkUncertain, FinishAttempt, ReleaseLeases, Visit,
        Active, ActiveRun, rest, TypeOK, StoreTypeOK
  <2>3. ASSUME NEW q \in Occurrence, StartSteps(q) \/ CreateRunFails(q)
        PROVE  run'[o] = None \/ CreateRun(o)
    BY <2>3
    DEF StartSteps, StartNext, Request, RequestConflict, NotYet, TriggerBusy, AcquireTriggerLease,
        BrowserBusy, Yield, AcquireBrowserLease, GiveWay, CreateTriggerAttempt, StoreTokens,
        CreateRun, CreateRunFails, BlockAttempt, rest, storeVars, TypeOK, StoreTypeOK
  <2>4. \/ run' = run
        \/ \E q \in Occurrence :
              ReconcileSteps(q) \/ StartSteps(q) \/ CreateRunFails(q)
        \/ Crash
    BY <2>1
    DEF Next, CoreStep, Environment, Ticks, Tick, Sweeps, Reconciled, EndsPass, EndPass,
        Materialises, Materialise, Reconciles, Starts, FailsToStart, Fires, Fire, Coordinates,
        SendsCall, GetsAnswer, LosesAnswer, GetsRefusal, Serves, Serve, ServeAcquire, ServeRenew,
        ServeRelease, ServeRead, Dispatches, CallReturns, Calls, Ends, RunChanges, DoubtsWrite,
        Resolves, DeferralEnds, Borrows, OthersUseDomain, OutsiderTakes, OutsiderReleases, Elapse,
        vars, storeVars
  <2>5. Crash => run'[o] = None
    BY StoreAssumption DEF Crash, ActiveRun
  <2> QED
    BY <2>2, <2>3, <2>4, <2>5
<1>2. HoldsAll(o)
  BY <1>1 DEF CreateRun, At, ControlInv, Equipped
<1>3. MayAct(p) => HoldsAll(p)
  BY DEF ControlInv, InControl, Reviewed
<1> QED
  BY <1>2, <1>3 DEF HoldsAll, Holds

\* A tick starts a run only where no run that shares a key or a browser with it may
\* act: whoever lost its leases was cancelled or blocked earlier in the same tick,
\* and whoever kept them keeps the new one waiting.
THEOREM StartsCorrect == Spec => StartsAlone
<1>1. TypeOK /\ LeasesInv /\ ControlInv /\ [Next]_vars =>
          [\A o, p \in Occurrence :
              /\ pass = "start"
              /\ run[o] = None /\ run'[o] # None
              /\ o # p /\ Needs(o) \cap Needs(p) # {}
              => ~MayAct(p)]_vars
  BY StartIsAlone
<1> QED
  BY <1>1, GrantsInductive, PTL DEF Spec, StartsAlone

====
