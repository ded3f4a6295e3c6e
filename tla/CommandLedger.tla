---- MODULE CommandLedger ----
(***************************************************************************)
(* What command delivery promises, without processes, messages or faults:  *)
(* a command is submitted once, its page action is started at most once,   *)
(* it is decided once and for all, it is decided "succeeded" only after    *)
(* its action was started, and the workflow engine hears one outcome of    *)
(* it, which for a confirmed outcome is the decision.                      *)
(***************************************************************************)
EXTENDS Naturals

CONSTANTS Command, None

VARIABLES
    life,   \* "absent", "pending" or the status a command was decided with
    acts,   \* how often its page action was started
    told    \* what the engine heard of it

ledgerVars == <<life, acts, told>>

Decision  == {"succeeded", "failed", "rejected", "timed_out", "cancelled", "uncertain"}

\* Outcomes that claim to know how the command ended.  The engine is told
\* "timed_out", "expired" or "rejected" on Core's own judgement as well.
Confirmed == {"succeeded", "failed", "cancelled", "uncertain"}

LedgerInit ==
    /\ life = [c \in Command |-> "absent"]
    /\ acts = [c \in Command |-> 0]
    /\ told = [c \in Command |-> None]

\* A queued command of a cancelled run is cancelled in the step that submits it.
Submit(c) == life[c] = "absent" /\ life'[c] \in {"pending", "cancelled"}

Decide(c) ==
    /\ life[c] = "pending"
    /\ life'[c] \in Decision
    /\ life'[c] = "succeeded" => acts[c] = 1

Act(c) == life[c] # "absent" /\ acts[c] = 0 /\ acts'[c] = 1

\* Telling also happens to a command that was never submitted: its deadline or
\* its page was gone before.
Tell(c) == told[c] = None /\ (told'[c] \in Confirmed => told'[c] = life[c])

\* One step of the system may move several commands: a timer pass decides every
\* command that is due.
LedgerNext ==
    \A c \in Command :
        /\ life'[c] = life[c] \/ Submit(c) \/ Decide(c)
        /\ acts'[c] = acts[c] \/ Act(c)
        /\ told'[c] = told[c] \/ Tell(c)

LedgerSpec == LedgerInit /\ [][LedgerNext]_ledgerVars

====
