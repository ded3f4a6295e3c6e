---- MODULE DomainLease ----
(***************************************************************************)
(* The external domain lease: Core's coordinator                           *)
(* (external-domain-lease-coordinator.ts) and the remote service that      *)
(* grants it (repository.ts of the inventory monitor).  One domain, so at  *)
(* most one record is unreleased and the coordinator awaits one call at a  *)
(* time.  A call is three steps: Core sends it, the service carries it     *)
(* out, Core handles the answer; it may be lost before or after the        *)
(* service carried it out.                                                 *)
(***************************************************************************)
EXTENDS LeaseStore

VARIABLES
    verified,   \* volatile: #verifiedRequestIds
    call,       \* volatile: the provider call the coordinator awaits, or None
    remote,     \* the row of ops.lease: holder and remaining time
    known       \* the rows of ops.lease_acquisition_request: granted requests

leaseVars == <<verified, call, remote, known>>

\* "verify" and "inspect" read; "clear" is the release after "inspect".
CallKind == {"acquire", "verify", "renew", "release", "inspect", "clear"}
Answer   == {"sent", "grant", "inactive", "busy", "lost"}

\* The state of the record whose revision a call will expect.
Revision(o) == <<ext[o].state, ext[o].linked>>

CallRecord ==
    [kind : CallKind, occ : Occurrence, answer : Answer, granted : 0..RemoteTtl,
     age : 0..RemoteTtl, seen : ExtState \X BOOLEAN]

LeaseTypeOK ==
    /\ verified \subseteq Occurrence
    /\ call \in CallRecord \cup {None}
    /\ remote \in [holder : Occurrence \cup {None, Outsider}, left : 0..RemoteTtl]
    /\ known \subseteq Occurrence

LeaseInit ==
    /\ verified = {}
    /\ call = None
    /\ remote = [holder |-> None, left |-> 0]
    /\ known = {}

----
(* The records. *)

\* The intent, persisted before anything is asked of the service.
BeginAcquisition(o) ==
    /\ ext' = [ext EXCEPT ![o] = [NoRequest EXCEPT !.state = "acquiring"]]
    /\ known' = known \ {o}

\* A request still acquiring or bound becomes a blocker that only a reconciliation
\* removes.
Markable(o) == ext[o].state \in {"acquiring", "bound"}
MarkReconciliationRequired(o, late) ==
    /\ ext' = IF Markable(o)
              THEN [ext EXCEPT ![o].state = "reconciliation", ![o].late = late]
              ELSE ext
    /\ verified' = IF Markable(o) THEN verified \ {o} ELSE verified

\* Binding and renewing count the granted time from the moment of the request.
Window(granted, age) == IF granted > age THEN granted - age ELSE 0
Bind(o) ==
    /\ ext' = [ext EXCEPT ![o] =
                  [@ EXCEPT !.state = "bound", !.granted = call.granted,
                            !.window = Window(call.granted, call.age),
                            !.anchored = TRUE]]
    /\ verified' = verified \cup {o}

\* releaseLocal: an occurrence that has no attempt yet is deferred.
ReleaseLocal(o) ==
    IF ~Unreleased(o)
    THEN UNCHANGED <<ext, verified, occ, due>>
    ELSE /\ ext' = [ext EXCEPT ![o].state = "released"]
         /\ verified' = verified \ {o}
         /\ IF attempt[o] = "none" /\ occ[o] \in Waiting
            THEN DeferOccurrence(o)
            ELSE UNCHANGED <<occ, due>>

ShouldRelease(o) ==
    IF ext[o].linked THEN Ended(o) ELSE attempt[o] = "terminal"

CanStart(o) == o \in verified

\* externalLeaseAllowsRunEffects.
AllowsEffects(o) ==
    o \in External => ext[o].state = "bound" /\ ext[o].window > 0 /\ o \in verified

----
(* The coordinator's tick, up to the call it awaits. *)

Send(kind, o) ==
    /\ call = None
    /\ call' = [kind |-> kind, occ |-> o, answer |-> "sent", granted |-> 0,
                age |-> 0, seen |-> Revision(o)]
    /\ UNCHANGED <<storeVars, verified, remote, known>>

Acquire(o) == ext[o].state = "acquiring" /\ Send("acquire", o)

VerifyBound(o) ==
    ext[o].state = "bound" /\ o \notin verified /\ Send("verify", o)

Release(o) ==
    ext[o].state = "bound" /\ o \in verified /\ ShouldRelease(o) /\ Send("release", o)

\* A third of the granted time or the last unit is left.
RenewIfDue(o) ==
    /\ ext[o].state = "bound" /\ o \in verified /\ ~ShouldRelease(o)
    /\ ext[o].window > 0
    /\ 3 * ext[o].window <= RemoteTtl \/ ext[o].window = 1
    /\ Send("renew", o)

ExpiredBeforeRenewal(o) ==
    /\ ext[o].state = "bound" /\ o \in verified /\ ~ShouldRelease(o)
    /\ ext[o].window = 0
    /\ call = None
    /\ MarkReconciliationRequired(o, FALSE)
    /\ UNCHANGED <<occ, due, attempt, run, lease, call, remote, known>>

\* A linked run has to end first, and then only what the coordinator itself could
\* not release is its to clear: everything else waits for the operator.
Reconcile(o) ==
    /\ ext[o].state = "reconciliation"
    /\ run[o] # None => Ended(o) /\ ext[o].late
    /\ Send("inspect", o)

----
(* The service. *)

Answered(answer, granted) ==
    call' = [call EXCEPT !.answer = answer, !.granted = granted]

Sent(kinds) == call # None /\ call.answer = "sent" /\ call.kind \in kinds

\* The caller is the current holder, by its fencing token, whether or not expired.
Mine == remote.holder = call.occ
Live == remote.left > 0
AnswerStatus ==
    IF Mine /\ Live THEN Answered("grant", remote.left) ELSE Answered("inactive", 0)

\* A request is granted once; its replay returns the original grant.
ServeAcquire ==
    /\ Sent({"acquire"})
    /\ \/ /\ call.occ \in known
          /\ AnswerStatus
          /\ UNCHANGED <<remote, known>>
       \/ /\ call.occ \notin known /\ Live
          /\ Answered("busy", 0)
          /\ UNCHANGED <<remote, known>>
       \/ /\ call.occ \notin known /\ ~Live
          /\ remote' = [holder |-> call.occ, left |-> RemoteTtl]
          /\ known' = known \cup {call.occ}
          /\ Answered("grant", RemoteTtl)
    /\ UNCHANGED <<storeVars, verified>>

ServeRenew ==
    /\ Sent({"renew"})
    /\ \/ Mine /\ Live
          /\ remote' = [remote EXCEPT !.left = RemoteTtl]
          /\ Answered("grant", RemoteTtl)
       \/ ~(Mine /\ Live) /\ Answered("lost", 0) /\ UNCHANGED remote
    /\ UNCHANGED <<storeVars, verified, known>>

ServeRelease ==
    /\ Sent({"release", "clear"})
    /\ \/ Mine /\ remote' = [remote EXCEPT !.left = 0] /\ Answered("inactive", 0)
       \/ ~Mine /\ Answered("lost", 0) /\ UNCHANGED remote
    /\ UNCHANGED <<storeVars, verified, known>>

ServeRead ==
    /\ Sent({"verify", "inspect"})
    /\ AnswerStatus
    /\ UNCHANGED <<storeVars, verified, remote, known>>

Serve == ServeAcquire \/ ServeRenew \/ ServeRelease \/ ServeRead

\* Another client of the service takes or gives up the domain.
OutsiderTakes ==
    /\ ~Live
    /\ remote' = [holder |-> Outsider, left |-> RemoteTtl]
    /\ UNCHANGED <<storeVars, verified, call, known>>

OutsiderReleases ==
    /\ remote.holder = Outsider /\ Live
    /\ remote' = [remote EXCEPT !.left = 0]
    /\ UNCHANGED <<storeVars, verified, call, known>>

----
(* The coordinator's tick, from the answer on. *)

Got(kind, o, answers) ==
    /\ call # None
    /\ call.kind = kind /\ call.occ = o /\ call.answer \in answers
    /\ call' = None
    /\ UNCHANGED <<attempt, run, lease, remote, known>>

\* The record's revision is the one the call expects.
Unchanged(o) == call.seen = Revision(o)

AcquireGranted(o) ==
    /\ Got("acquire", o, {"grant"})
    /\ IF Unchanged(o) THEN Bind(o) ELSE MarkReconciliationRequired(o, FALSE)
    /\ UNCHANGED <<occ, due>>

AcquireInactive(o) ==
    /\ Got("acquire", o, {"inactive"})
    /\ MarkReconciliationRequired(o, FALSE)
    /\ UNCHANGED <<occ, due>>

AcquireBusy(o) == Got("acquire", o, {"busy"}) /\ ReleaseLocal(o)

\* A conflict here is thrown out of the tick and changes nothing.
Verified(o) ==
    /\ Got("verify", o, {"grant"})
    /\ IF Unchanged(o) THEN Bind(o) ELSE UNCHANGED <<ext, verified>>
    /\ UNCHANGED <<occ, due>>

NotVerified(o) ==
    /\ Got("verify", o, {"inactive"})
    /\ MarkReconciliationRequired(o, ShouldRelease(o))
    /\ UNCHANGED <<occ, due>>

\* Mutant: a renewal counts the granted time from the answer.
RenewGrantedFromAnswer(o) ==
    /\ Got("renew", o, {"grant"})
    /\ IF Unchanged(o)
       THEN /\ ext' = [ext EXCEPT ![o].window = call.granted]
            /\ UNCHANGED verified
       ELSE MarkReconciliationRequired(o, FALSE)
    /\ UNCHANGED <<occ, due>>

RenewGranted(o) ==
    /\ Got("renew", o, {"grant"})
    /\ IF Unchanged(o) THEN Bind(o) ELSE MarkReconciliationRequired(o, FALSE)
    /\ UNCHANGED <<occ, due>>

RenewLost(o) ==
    /\ Got("renew", o, {"lost"})
    /\ MarkReconciliationRequired(o, FALSE)
    /\ UNCHANGED <<occ, due>>

ReleaseConfirmed(o) == Got("release", o, {"inactive"}) /\ ReleaseLocal(o)

ReleaseLost(o) ==
    /\ Got("release", o, {"lost"})
    /\ MarkReconciliationRequired(o, TRUE)
    /\ UNCHANGED <<occ, due>>

\* Nobody or somebody else holds the domain: the record may go.
NothingToClear(o) == Got("inspect", o, {"inactive"}) /\ ReleaseLocal(o)

\* It is still held under this request: release it by the token just read.
Clear(o) ==
    /\ call # None
    /\ call.kind = "inspect" /\ call.occ = o /\ call.answer = "grant"
    /\ call' = [call EXCEPT !.kind = "clear", !.answer = "sent", !.granted = 0]
    /\ UNCHANGED <<storeVars, verified, remote, known>>

Cleared(o) == Got("clear", o, {"inactive"}) /\ ReleaseLocal(o)

\* It lapsed and went to somebody else in between: the next tick reads again.
NotCleared(o) ==
    Got("clear", o, {"lost"}) /\ UNCHANGED <<ext, verified, occ, due>>

\* Mutant: an acquisition in doubt is given up.
AnswerLostGivesUp(o) ==
    /\ call # None /\ call.occ = o
    /\ call' = None
    /\ IF call.kind = "acquire" THEN ReleaseLocal(o)
       ELSE UNCHANGED <<ext, verified, occ, due>>
    /\ UNCHANGED <<attempt, run, lease, remote, known>>

\* The answer never comes (timeout, broken socket), served or not.  An acquisition
\* and a verification are repeated with the same request, a reconciliation is
\* retried; a renewal or a release in doubt needs reconciliation.
AnswerLost(o) ==
    /\ call # None /\ call.occ = o
    /\ call' = None
    /\ IF call.kind \in {"renew", "release"}
       THEN MarkReconciliationRequired(o, call.kind = "release")
       ELSE UNCHANGED <<ext, verified>>
    /\ UNCHANGED <<occ, due, attempt, run, lease, remote, known>>

\* The service answers with an error that is not about the transport.
Refused(o) ==
    /\ call # None /\ call.occ = o
    /\ call' = None
    /\ IF call.kind \in {"acquire", "verify", "renew", "release"}
       THEN MarkReconciliationRequired(o, call.kind = "release")
       ELSE UNCHANGED <<ext, verified>>
    /\ UNCHANGED <<occ, due, attempt, run, lease, remote, known>>

Answers(o) ==
    \/ AcquireGranted(o) \/ AcquireInactive(o) \/ AcquireBusy(o)
    \/ Verified(o) \/ NotVerified(o)
    \/ RenewGranted(o) \/ RenewLost(o)
    \/ ReleaseConfirmed(o) \/ ReleaseLost(o)
    \/ NothingToClear(o) \/ Clear(o) \/ Cleared(o)
    \/ NotCleared(o)

Sends(o) ==
    \/ Acquire(o) \/ VerifyBound(o) \/ Release(o) \/ RenewIfDue(o)
    \/ ExpiredBeforeRenewal(o) \/ Reconcile(o)

----
(* What others do to the records. *)

\* commitInventoryEffectReconciliation: an operator confirms the business effects.
\* The remote lease is left to lapse.
OperatorReconciles(o) ==
    /\ ext[o].state = "reconciliation" /\ ext[o].linked
    /\ run[o] = "uncertain" /\ attempt[o] = "running"
    /\ ext' = [ext EXCEPT ![o].state = "released"]
    /\ UNCHANGED <<occ, due, attempt, run, lease, leaseVars>>

\* #markWriteReconciliation: a write whose answer is in doubt.  The outcome it then
\* returns ends the run, whose uncertain route is a terminal.  The coordinator's set
\* of verified requests is not told; the record's state keeps effects off.
WriteUncertain(o) ==
    /\ run[o] = "acting" /\ ext[o].state \in {"bound", "reconciliation"}
    /\ ext' = IF ext[o].state = "bound"
              THEN [ext EXCEPT ![o].state = "reconciliation", ![o].late = FALSE]
              ELSE ext
    /\ run' = [run EXCEPT ![o] = "uncertain"]
    /\ UNCHANGED <<occ, due, attempt, lease, leaseVars>>

\* Every volatile thing is gone; the call's request may still have been served.
CoordinatorRestart ==
    /\ verified' = {}
    /\ call' = None

\* One unit of time on every clock.
Less(n) == IF n > 0 THEN n - 1 ELSE 0
LeasesAge ==
    /\ ext' = [o \in Occurrence |-> [ext[o] EXCEPT !.window = Less(@)]]
    /\ remote' = [remote EXCEPT !.left = Less(@)]
    /\ call' = IF call = None THEN None
               ELSE [call EXCEPT !.age = IF @ < RemoteTtl THEN @ + 1 ELSE @]

====
