---- MODULE AttentionDelivery ----
(***************************************************************************)
(* Attention: a run that ends badly raises an attention record and, in the *)
(* same transaction, one delivery to the operator's notification channel   *)
(* (attention-delivery-dispatcher.ts and the tables attention_records and  *)
(* attention_deliveries).  Core claims the oldest pending delivery under a *)
(* lease, hands the message to the channel, and records the outcome by     *)
(* compare-and-set.  A delivery is never retried: when its lease is over   *)
(* without an outcome it is uncertain.                                     *)
(***************************************************************************)
EXTENDS Naturals, Sequences, FiniteSets

CONSTANTS
    Run,
    AuthRun,        \* the runs whose attention asks a person to log in
    DeliveryLease,  \* the lease of a claimed delivery, in ticks
    None

ASSUME AttentionAssumption ==
    /\ AuthRun \subseteq Run
    /\ DeliveryLease \in Nat \ {0}
    /\ None \notin Run

VARIABLES
    run,        \* workflow_runs: absent, active or ended
    attention,  \* attention_records: none, open or acknowledged
    outbox,     \* the deliveries in the order of created_at
    delivery,   \* attention_deliveries: state and the time left of the lease
    sender,     \* the delivery whose answer dispatchNext awaits (deliveringAttention)
    wire,       \* external: messages on their way to the channel
    heard       \* external: how often the channel accepted each message

attentionVars == <<run, attention, outbox, delivery, sender, wire, heard>>

NoDelivery == [state |-> "none", left |-> 0]
Settled    == {"delivered", "failed", "uncertain"}

AttentionInit ==
    /\ run = [r \in Run |-> "absent"]
    /\ attention = [r \in Run |-> "none"]
    /\ outbox = << >>
    /\ delivery = [r \in Run |-> NoDelivery]
    /\ sender = None
    /\ wire = {}
    /\ heard = [r \in Run |-> 0]

----

StartRun(r) ==
    /\ run[r] = "absent"
    /\ run' = [run EXCEPT ![r] = "active"]
    /\ UNCHANGED <<attention, outbox, delivery, sender, wire, heard>>

\* A run that is cancelled, or succeeds without a finding, raises nothing.
EndQuietly(r) ==
    /\ run[r] = "active"
    /\ run' = [run EXCEPT ![r] = "ended"]
    /\ UNCHANGED <<attention, outbox, delivery, sender, wire, heard>>

EndWithAttention(r) ==
    /\ run[r] = "active"
    /\ run' = [run EXCEPT ![r] = "ended"]
    /\ attention' = [attention EXCEPT ![r] = "open"]
    /\ outbox' = Append(outbox, r)
    /\ delivery' = [delivery EXCEPT ![r] = [state |-> "pending", left |-> 0]]
    /\ UNCHANGED <<sender, wire, heard>>

Acknowledge(r) ==
    /\ attention[r] = "open"
    /\ attention' = [attention EXCEPT ![r] = "acknowledged"]
    /\ UNCHANGED <<run, outbox, delivery, sender, wire, heard>>

----
(* dispatchNext: two transactions, then the call of the channel. *)

Overdue(r) == delivery[r].state = "delivering" /\ delivery[r].left = 0

\* Mutant: an overdue delivery goes back to the queue.
RequeueOverdue ==
    /\ delivery' = [r \in Run |-> IF Overdue(r) THEN [state |-> "pending", left |-> 0]
                                                ELSE delivery[r]]
    /\ UNCHANGED <<run, attention, outbox, sender, wire, heard>>

\* Mutant: nobody looks for the deliveries a crash left behind.
ForgetOverdue == UNCHANGED attentionVars

ExpireDeliveries ==
    /\ delivery' = [r \in Run |-> IF Overdue(r) THEN [state |-> "uncertain", left |-> 0]
                                                ELSE delivery[r]]
    /\ UNCHANGED <<run, attention, outbox, sender, wire, heard>>

IsPending(r) == delivery[r].state = "pending"

\* The oldest pending delivery is the i-th of the outbox.
Oldest(i) ==
    /\ IsPending(outbox[i])
    /\ \A j \in 1..(i - 1) : ~IsPending(outbox[j])

NothingPending == \A r \in Run : ~IsPending(r)

ClaimNext ==
    \E i \in DOMAIN outbox :
        LET r == outbox[i]
        IN  /\ Oldest(i)
            /\ delivery' = [delivery EXCEPT ![r] = [state |-> "delivering",
                                                    left  |-> DeliveryLease]]
            /\ sender' = r
            /\ wire' = wire \cup {r}
            /\ UNCHANGED <<run, attention, outbox, heard>>

\* The channel answers, refuses, fails or times out; an exception is uncertain.
\* The completion names the revision and the lease of the claim.
Answered(r, outcome) ==
    \/ outcome = "delivered" /\ heard[r] > 0
    \/ outcome = "failed" /\ heard[r] = 0 /\ r \notin wire
    \/ outcome = "uncertain"

Complete(r, outcome) ==
    IF delivery[r].state = "delivering"
    THEN [delivery EXCEPT ![r] = [state |-> outcome, left |-> 0]]
    ELSE delivery

Answer(r, outcome) ==
    /\ sender = r
    /\ Answered(r, outcome)
    /\ delivery' = Complete(r, outcome)
    /\ sender' = None
    /\ UNCHANGED <<run, attention, outbox, wire, heard>>

----
(* The channel, external: it accepts a message once or never, possibly after *)
(* Core stopped waiting.                                                     *)

Accept(r) ==
    /\ r \in wire
    /\ wire' = wire \ {r}
    /\ heard' = [heard EXCEPT ![r] = @ + 1]
    /\ UNCHANGED <<run, attention, outbox, delivery, sender>>

Drop(r) ==
    /\ r \in wire
    /\ wire' = wire \ {r}
    /\ UNCHANGED <<run, attention, outbox, delivery, sender, heard>>

----

DeliveryTick ==
    delivery' = [r \in Run |-> [delivery[r] EXCEPT !.left = IF @ > 0 THEN @ - 1 ELSE 0]]

AttentionTick == DeliveryTick /\ UNCHANGED <<run, attention, outbox, sender, wire, heard>>

AttentionCrash == sender' = None /\ UNCHANGED <<run, attention, outbox, delivery, wire, heard>>

----

AttentionTypeOK ==
    /\ run \in [Run -> {"absent", "active", "ended"}]
    /\ attention \in [Run -> {"none", "open", "acknowledged"}]
    /\ outbox \in Seq(Run)
    /\ delivery \in [Run -> [state : {"none", "pending", "delivering"} \cup Settled,
                             left  : 0..DeliveryLease]]
    /\ sender \in Run \cup {None}
    /\ wire \in SUBSET Run
    /\ heard \in [Run -> Nat]

\* The delivery whose answer Core awaits is the one it holds the lease of, so that
\* the compare-and-set of its completion (completeAttentionDelivery) never fails
\* and no outcome of the channel is lost: the expiry of leases cannot overtake
\* the answer, because both run in the same single flight.
InFlightIsDelivering == sender # None => delivery[sender].state = "delivering"

\* A delivery is recorded, and heard by the channel at most once, as NoticeOutbox
\* promises a person, whatever crashes, late answers and expired leases do.
Notice(r) ==
    IF delivery[r].state \in {"pending", "delivering"} THEN "due" ELSE delivery[r].state

Outbox == INSTANCE NoticeOutbox WITH
    notice <- [r \in Run |-> Notice(r)],
    told   <- heard

DeliversNotices == Outbox!NoticeSpec
====
