---- MODULE TriggerLeases ----
(***************************************************************************)
(* The trigger runtime and the external lease coordinator on one Core:     *)
(* ticks, fires and answers of the lease service on one JavaScript thread, *)
(* the runs they supervise, time, other owners of browsers and of the      *)
(* domain, and crashes.                                                    *)
(***************************************************************************)
EXTENDS TriggerRuntime

CONSTANTS
    Event,      \* what the environment may do: see the actions that name it
    Endings,    \* how runs end by themselves
    MaxCrashes  \* bound on the crashes of Core

ASSUME LeasesAssumption ==
    /\ Event \subseteq {"unavailable", "browser", "domain", "lost", "refused",
                        "doubt", "time"}
    /\ Endings \subseteq EndedRun
    /\ MaxCrashes \in Nat

VARIABLE crashes   \* history: how often Core crashed

vars == <<storeVars, leaseVars, taskVars, crashes>>

TypeOK == StoreTypeOK /\ LeaseTypeOK /\ TaskTypeOK /\ crashes \in Nat

Init == StoreInit /\ LeaseInit /\ TaskInit /\ crashes = 0

----
(* Core's steps.  The coordinator and the runs' own steps wait for the end of  *)
(* the tick or fire on the stack.                                              *)

Ticks           == Tick /\ UNCHANGED crashes
Fires(o)        == Fire(o) /\ UNCHANGED crashes
Reconciles(o)   == ReconcileSteps(o) /\ UNCHANGED crashes
Sweeps          == Reconciled /\ UNCHANGED crashes
Materialises(new, kept) == Materialise(new, kept) /\ UNCHANGED crashes
Starts(o)       == StartSteps(o) /\ UNCHANGED crashes
EndsPass        == EndPass /\ UNCHANGED crashes

FailsToStart(o) ==
    "unavailable" \in Event /\ CreateRunFails(o) /\ UNCHANGED crashes

frame == <<taskVars, crashes>>

SendsCall(o) == NoTask /\ Sends(o) /\ UNCHANGED frame
GetsAnswer(o) == NoTask /\ Answers(o) /\ UNCHANGED frame
LosesAnswer(o) == NoTask /\ "lost" \in Event /\ AnswerLost(o) /\ UNCHANGED frame
GetsRefusal(o) == NoTask /\ "refused" \in Event /\ Refused(o) /\ UNCHANGED frame
Serves == Serve /\ UNCHANGED frame

----
(* The runs, driven by the engine. *)

RunChanges(o, status) ==
    /\ NoTask
    /\ run' = [run EXCEPT ![o] = status]
    /\ UNCHANGED <<occ, due, attempt, lease, ext, leaseVars, frame>>

\* drainOnce hands a call to its provider only while the external lease allows it.
Dispatches(o) == run[o] = "ready" /\ AllowsEffects(o) /\ RunChanges(o, "acting")

CallReturns(o) == run[o] = "acting" /\ RunChanges(o, "waiting")
Calls(o)     == run[o] = "waiting" /\ RunChanges(o, "ready")

\* A run ends from anywhere: its call fails or is past its deadline, it succeeds,
\* a user cancels it.
Ends(o, status) == Active(o) /\ RunChanges(o, status)

DoubtsWrite(o) == NoTask /\ "doubt" \in Event /\ WriteUncertain(o) /\ UNCHANGED frame

Resolves(o) == NoTask /\ OperatorReconciles(o) /\ UNCHANGED frame

----
(* Time, other owners, crashes. *)

DeferralEnds(o) ==
    /\ NoTask
    /\ occ[o] = "deferred" /\ o \notin due
    /\ due' = due \cup {o}
    /\ UNCHANGED <<occ, attempt, run, lease, ext, leaseVars, frame>>

\* Something has time left.
Clocks ==
    \/ \E r \in Resource : ~Free(r)
    \/ remote.left > 0
    \/ \E o \in Occurrence : Unreleased(o) /\ ext[o].window > 0
    \/ call # None /\ call.age < RemoteTtl

Elapse ==
    /\ NoTask
    /\ "time" \in Event
    /\ Clocks
    /\ lease' = [r \in Resource |-> [lease[r] EXCEPT !.left = Less(@)]]
    /\ LeasesAge
    /\ UNCHANGED <<occ, due, attempt, run, verified, known, frame>>

\* The control API lets other owners hold a browser, never release an attempt's.
Borrows(o) ==
    /\ NoTask /\ "browser" \in Event
    /\ BrowserOf[o] # None /\ Free(BrowserOf[o])
    /\ lease' = Acquired(Outsider, BrowserOf[o])
    /\ UNCHANGED <<occ, due, attempt, run, ext, leaseVars, frame>>

OthersUseDomain ==
    /\ "domain" \in Event
    /\ OutsiderTakes \/ OutsiderReleases
    /\ UNCHANGED frame

\* Calls in the provider's hands are dispatched again after the restart.
Crash ==
    /\ crashes < MaxCrashes
    /\ crashes' = crashes + 1
    /\ TaskRestart
    /\ CoordinatorRestart
    /\ run' = [o \in Occurrence |-> IF run[o] = "acting" THEN "ready" ELSE run[o]]
    /\ UNCHANGED <<occ, due, attempt, lease, ext, remote, known>>

----
CoreStep ==
    \/ Ticks \/ Sweeps \/ EndsPass
    \/ \E o \in Occurrence : Reconciles(o) \/ Starts(o)
    \/ \E new \in SUBSET Occurrence, kept \in [Trigger -> UNION {Keeps[t] : t \in Trigger}] :
          Materialises(new, kept)

Coordinates(o) == SendsCall(o) \/ GetsAnswer(o)

Environment ==
    \/ \E o \in Occurrence :
          \/ Fires(o) \/ FailsToStart(o)
          \/ LosesAnswer(o) \/ GetsRefusal(o)
          \/ Dispatches(o) \/ CallReturns(o) \/ Calls(o)
          \/ \E status \in Endings : Ends(o, status)
          \/ DoubtsWrite(o) \/ Resolves(o)
          \/ DeferralEnds(o) \/ Borrows(o)
    \/ OthersUseDomain \/ Elapse \/ Crash

Next ==
    \/ CoreStep
    \/ \E o \in Occurrence : Coordinates(o)
    \/ Serves
    \/ Environment

Spec == Init /\ [][Next]_vars

----
(* Safety. *)

\* A run that has not ended is supervised: its attempt and its occurrence run, so
\* that some tick will renew its leases, cancel it or take its outcome.  No crash
\* between the attempt's transactions leaves a run behind.
RunsAreSupervised ==
    \A o \in Occurrence :
        Active(o) => attempt[o] = "running" /\ occ[o] = "running"

\* An attempt ends with what its run came to, and not before.
AttemptsTellTheTruth ==
    \A o \in Occurrence :
        attempt[o] = "terminal" =>
            IF run[o] = None THEN occ[o] \in {"failed", "blocked"}
            ELSE Ended(o) /\ occ[o] = RunOutcome(o)

\* A tick starts a run only where no other run may act: one that lost its leases
\* has been cancelled, or is kept from acting by its external lease.
MayAct(o) == Active(o) /\ AllowsEffects(o)
StartsAlone ==
    [][\A o, p \in Occurrence :
          /\ pass = "start"
          /\ run[o] = None /\ run'[o] # None
          /\ o # p /\ Needs(o) \cap Needs(p) # {}
          => ~MayAct(p)]_vars

\* The attempt of a run with an external lease outlives the lease: the next
\* attempt may not write before the domain is given back.
AttemptOutlivesDomainLease ==
    \A o \in External :
        attempt[o] = "terminal" /\ run[o] # None => ext[o].state = "released"

\* What the remote service still grants to Core, Core still has a record of, through
\* lost answers, crashes and releases; an operator's reconciliation leaves the
\* lease to lapse.
RemoteLeaseIsKnown ==
    \A o \in External :
        remote.holder = o /\ remote.left > 0 => Unreleased(o) \/ run[o] = "uncertain"

\* Until Core gives the lease up, the window it allows itself never exceeds what
\* the service still grants, however long the answer took, as long as the window
\* is counted from a request.
Remaining(o) == IF remote.holder = o THEN remote.left ELSE 0
WindowInsideGrant ==
    \A o \in External :
        ext[o].state = "bound" /\ ext[o].anchored /\ ~ShouldRelease(o) =>
            ext[o].window <= Remaining(o)

----
(* What the documents say and the code does not always do. *)

\* bpa-product-execution-status: no clock of Core's extends the lease.  A call is
\* handed to its provider only while the service grants the domain to its run.
EffectsInsideGrant ==
    [][\A o \in External :
          run[o] = "ready" /\ run'[o] = "acting" => Remaining(o) > 0]_vars

----
(* Liveness. *)

\* What has to wait for the end of a tick gets its turn between two ticks.
Fairness ==
    /\ WF_vars(CoreStep)
    /\ SF_vars(Elapse)
    /\ WF_vars(Serves)
    /\ \A o \in Occurrence :
          /\ SF_vars(Coordinates(o))
          /\ SF_vars(DeferralEnds(o))

FairSpec == Spec /\ Fairness

\* As long as every run ends and other owners leave the browsers alone in the end,
\* every occurrence ends: deferred again and again, crashed at any point of its
\* start, or robbed of its leases.
RunsEnd      == \A o \in Occurrence : []<>~Active(o)
OthersLetGo  == <>[](\A r \in Resource : lease[r].owner = Outsider => Free(r))
EveryOccurrenceEnds ==
    RunsEnd /\ OthersLetGo =>
        \A o \in Occurrence : occ[o] # "absent" ~> occ[o] \in Outcome

====
