---- MODULE MCWorkflowRun ----
(***************************************************************************)
(* Instances of WorkflowRun for TLC: two small plans.                    *)
(***************************************************************************)
EXTENDS WorkflowRun, TLC

CONSTANTS ada, bot, c1, c2, r1, r2   \* model values

Term(block, status) == [kind |-> "terminal", in |-> block, status |-> status]

CallStep(block, attempts, timeout, delays, ok, bad) ==
    [kind |-> "call", in |-> block, attempts |-> attempts, timeout |-> timeout,
     delays |-> delays, retryable |-> {"failed"},
     routes |-> [succeeded |-> ok, failed |-> bad, timed_out |-> bad, cancelled |-> bad,
                 rejected |-> bad, uncertain |-> "unsure"]]

\* For each item: a call with a retry, then a question to a person.
Items ==
    [each   |-> [kind |-> "foreach", in |-> None, entry |-> "fetch", maxItems |-> 2,
                 duration |-> 3, stopOnError |-> FALSE, completed |-> "good",
                 stopped |-> "bad"],
     fetch  |-> [CallStep("each", 2, 2, {0, 1}, "ask", "lost") EXCEPT
                    !.routes = [@ EXCEPT !.uncertain = "doubt"]],
     ask    |-> [kind |-> "wait", in |-> "each", blocking |-> TRUE, human |-> TRUE,
                 deadline |-> 1,
                 routes |-> [resolved |-> "kept", escalated |-> "open", expired |-> "open"]],
     kept   |-> Term("each", "succeeded"),
     lost   |-> Term("each", "failed"),
     open   |-> Term("each", "unresolved"),
     doubt  |-> Term("each", "uncertain"),
     good   |-> Term(None, "succeeded"),
     bad    |-> Term(None, "failed")]

\* A detached note, a decision, and a question an AI may answer.
Question ==
    [note   |-> [kind |-> "wait", in |-> None, blocking |-> FALSE, human |-> FALSE,
                 deadline |-> 2, next |-> "pick"],
     pick   |-> [kind |-> "decision", in |-> None, targets |-> {"ask", "good"}],
     ask    |-> [kind |-> "wait", in |-> None, blocking |-> TRUE, human |-> FALSE,
                 deadline |-> 2,
                 routes |-> [resolved |-> "good", escalated |-> "bad", expired |-> "bad"]],
     good   |-> Term(None, "succeeded"),
     bad    |-> Term(None, "failed")]
\* The calls in progress are alike; the runs that use this check no liveness.
CallSymmetry == Permutations({c1, c2})
====
