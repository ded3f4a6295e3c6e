---- MODULE NoticeOutbox ----
(***************************************************************************)
(* What a person can rely on when a run ends badly: a notice becomes due,  *)
(* the channel hears it at most once, a notice recorded as delivered was   *)
(* heard, and one recorded as failed was not and never will be.  A notice  *)
(* of uncertain outcome may still be heard.                                *)
(***************************************************************************)
EXTENDS Naturals

CONSTANT Run

VARIABLES
    notice,  \* what is recorded of the notice of each run
    told     \* how often the channel has heard the notice of each run

noticeVars == <<notice, told>>

NoticeInit ==
    /\ notice = [r \in Run |-> "none"]
    /\ told = [r \in Run |-> 0]

Become(r, s) == notice' = [notice EXCEPT ![r] = s] /\ UNCHANGED told

Raise(r) == notice[r] = "none" /\ Become(r, "due")

Hear(r) ==
    /\ told[r] = 0
    /\ notice[r] \in {"due", "uncertain"}
    /\ told' = [told EXCEPT ![r] = 1]
    /\ UNCHANGED notice

Settle(r) ==
    /\ notice[r] = "due"
    /\ \/ told[r] = 1 /\ Become(r, "delivered")
       \/ told[r] = 0 /\ Become(r, "failed")

\* Several notices may be given up at once.
GiveUp(R) ==
    /\ \A r \in R : notice[r] = "due"
    /\ notice' = [r \in Run |-> IF r \in R THEN "uncertain" ELSE notice[r]]
    /\ UNCHANGED told

NoticeNext ==
    \/ \E r \in Run : Raise(r) \/ Hear(r) \/ Settle(r)
    \/ \E R \in SUBSET Run : GiveUp(R)

NoticeSpec == NoticeInit /\ [][NoticeNext]_noticeVars
====
