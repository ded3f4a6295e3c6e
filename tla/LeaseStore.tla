---- MODULE LeaseStore ----
(***************************************************************************)
(* The rows of Local Core's SQLite store that the trigger runtime and the  *)
(* external lease coordinator share: occurrences, their attempts and runs, *)
(* the control leases on concurrency keys and browser instances, and the   *)
(* records of the leases on the external domain.                           *)
(*                                                                         *)
(* An occurrence has at most one attempt and one run in its life, so both  *)
(* are kept under the occurrence.  A lease's fencing token is abstracted   *)
(* away: an attempt acquires each of its leases once, so the row is the    *)
(* attempt's own as long as it names it as its owner and has not lapsed.   *)
(***************************************************************************)
EXTENDS Naturals

CONSTANTS
    Occurrence,   \* occurrences, numbered in the order of scheduledAt
    External,     \* those whose trigger declares an external domain lease
    Resource,     \* concurrency keys and browser instances
    KeyOf,        \* the concurrency key of an occurrence's trigger
    BrowserOf,    \* its browser instance, or None
    LeaseTtl,     \* LEASE_TTL_SECONDS, in units of Elapse
    RemoteTtl,    \* externalDomainLease.ttlSeconds, in the same units
    Outsider,     \* any owner that is not one of the attempts
    None          \* "no value"

\* "ready": at a call the drain loop has not dispatched; "acting": the provider
\* works on it; "waiting": anywhere else (timers, assistance, pauses).  A rejected
\* run is a failed one here.
ActiveRun == {"ready", "acting", "waiting"}
EndedRun  == {"succeeded", "failed", "cancelled", "uncertain"}

ASSUME StoreAssumption ==
    /\ Occurrence \subseteq Nat
    /\ External \subseteq Occurrence
    /\ Outsider \notin Occurrence
    /\ KeyOf \in [Occurrence -> Resource]
    /\ BrowserOf \in [Occurrence -> Resource \cup {None}]
    /\ \A o, p \in Occurrence : KeyOf[o] # BrowserOf[p]
    /\ None \notin Occurrence /\ None \notin Resource
    /\ None \notin ActiveRun \cup EndedRun
    /\ LeaseTtl \in Nat \ {0}
    /\ RemoteTtl \in Nat \ {0}

VARIABLES
    occ,       \* status of an occurrence, its outcome once terminal
    due,       \* deferred occurrences whose nextAttemptAt has passed
    attempt,   \* status of the occurrence's attempt
    run,       \* status of the attempt's workflow run
    lease,     \* the rows of trigger_leases and browser_control_leases
    ext        \* the occurrence's latest request for the external lease

storeVars == <<occ, due, attempt, run, lease, ext>>

\* "missed" stands for skipped as well.
Outcome == {"complete", "failed", "cancelled", "uncertain", "blocked", "missed"}
Waiting == {"pending", "deferred"}

\* anchored: updated_at is the time the latest request to the provider was made.
\* granted: expiresAt - serverNow; window: what estimatedRemainingMilliseconds
\* makes of it now.  late: the diagnostic is POST_TERMINAL_RECONCILIATION.
ExtState == {"none", "acquiring", "bound", "reconciliation", "released"}
ExtRecord == [state : ExtState, granted : 0..RemoteTtl, window : 0..RemoteTtl,
              anchored : BOOLEAN, linked : BOOLEAN, late : BOOLEAN]
NoRequest == [state |-> "none", granted |-> 0, window |-> 0, anchored |-> FALSE,
              linked |-> FALSE, late |-> FALSE]

StoreTypeOK ==
    /\ occ \in [Occurrence -> {"absent", "running"} \cup Waiting \cup Outcome]
    /\ due \subseteq Occurrence
    /\ attempt \in [Occurrence -> {"none", "pending", "running", "terminal"}]
    /\ run \in [Occurrence -> {None} \cup ActiveRun \cup EndedRun]
    /\ lease \in [Resource -> [owner : Occurrence \cup {None, Outsider},
                               left : 0..LeaseTtl]]
    /\ ext \in [Occurrence -> ExtRecord]

StoreInit ==
    /\ occ = [o \in Occurrence |-> "absent"]
    /\ due = {}
    /\ attempt = [o \in Occurrence |-> "none"]
    /\ run = [o \in Occurrence |-> None]
    /\ lease = [r \in Resource |-> [owner |-> None, left |-> 0]]
    /\ ext = [o \in Occurrence |-> NoRequest]

----
(* Control leases. *)

Free(r)     == lease[r].left = 0
Holds(o, r) == lease[r].owner = o /\ ~Free(r)
Needs(o)    == {KeyOf[o], BrowserOf[o]} \ {None}

Acquired(o, r) == [lease EXCEPT ![r] = [owner |-> o, left |-> LeaseTtl]]

\* Renewing and releasing change only rows that are still the owner's.
SetLeft(o, S, n) ==
    [r \in Resource |-> IF r \in S /\ Holds(o, r)
                        THEN [owner |-> o, left |-> n] ELSE lease[r]]
Renewed(o, S)  == SetLeft(o, S, LeaseTtl)
Released(o, S) == SetLeft(o, S, 0)

----
(* Occurrences and attempts. *)

Runnable(o) == occ[o] = "pending" \/ (occ[o] = "deferred" /\ o \in due)

DeferOccurrence(o) ==
    /\ occ' = [occ EXCEPT ![o] = "deferred"]
    /\ due' = due \ {o}

\* Attempt and occurrence become terminal in one transaction.
FinishTriggerAttempt(o, outcome) ==
    /\ attempt' = [attempt EXCEPT ![o] = "terminal"]
    /\ occ' = [occ EXCEPT ![o] = outcome]

Active(o) == run[o] \in ActiveRun
Ended(o)  == run[o] \in EndedRun

\* Mutant: the run's status is stored as the occurrence's outcome.
RunOutcomeRaw(o) == run[o]

RunOutcome(o) == IF run[o] = "succeeded" THEN "complete" ELSE run[o]

\* A request is unreleased from its intent to the release of its record; the
\* domain has at most one.
Unreleased(o) == ext[o].state \notin {"none", "released"}

====
