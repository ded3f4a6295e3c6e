---- MODULE RunLedger ----
(***************************************************************************)
(* What durable runs promise, in the fewest words: a run waits for at most *)
(* one thing at a time, what it waits for is consumed once and by this run,*)
(* and a run that ended stays ended and waits for nothing.                 *)
(***************************************************************************)
EXTENDS Naturals

CONSTANTS Run, Id, None

Ended == {"succeeded", "rejected", "failed", "cancelled", "uncertain"}

VARIABLES
    standing,  \* of each run: "new", "open" or how it ended
    waitsFor,  \* the call or task each run waits for
    consumed   \* the calls and tasks whose end some run has taken up

ledgerVars == <<standing, waitsFor, consumed>>

LedgerInit ==
    /\ standing = [r \in Run |-> "new"]
    /\ waitsFor = [r \in Run |-> None]
    /\ consumed = {}

Unused(i) == i \notin consumed /\ \A r \in Run : waitsFor[r] # i

\* The run goes on to wait for something new, or ends.
GoesOn(r) ==
    \/ \E i \in Id : /\ Unused(i)
                     /\ waitsFor' = [waitsFor EXCEPT ![r] = i]
                     /\ standing' = [standing EXCEPT ![r] = "open"]
    \/ \E status \in Ended : /\ waitsFor' = [waitsFor EXCEPT ![r] = None]
                             /\ standing' = [standing EXCEPT ![r] = status]

Begin(r) == standing[r] = "new" /\ GoesOn(r) /\ UNCHANGED consumed

Consume(r) ==
    /\ waitsFor[r] # None
    /\ GoesOn(r)
    /\ consumed' = consumed \cup {waitsFor[r]}

LedgerNext == \E r \in Run : Begin(r) \/ Consume(r)

Ledger == LedgerInit /\ [][LedgerNext]_ledgerVars
====
