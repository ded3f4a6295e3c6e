---- MODULE MCBrowserDelivery ----
(***************************************************************************)
(* Instances of BrowserDelivery for TLC: one command, two runs on one tab  *)
(* or on two tabs, and one call step with a retry.                         *)
(***************************************************************************)
EXTENDS BrowserDelivery, TLC

CONSTANTS c1, c2, r1, r2, t1, t2   \* model values

\* Which run a command belongs to, and which attempt of its call step it is.
OwnRuns    == [c \in Command |-> IF c = c1 THEN r1 ELSE r2]
SameRun    == [c \in Command |-> r1]
AllFirst   == [c \in Command |-> 1]
FirstRetry == [c \in Command |-> IF c = c1 THEN 1 ELSE 2]

SameTabs == [r \in Run |-> t1]
OwnTabs  == [r \in Run |-> IF r = r1 THEN t1 ELSE t2]

\* The runs may change places together with their commands: they share one tab
\* and nothing else tells them apart.
Exchange ==
    {p \in Permutations({c1, c2, r1, r2}) :
        /\ {p[c1], p[c2]} = {c1, c2}
        /\ p[c1] = c1 <=> p[r1] = r1
        /\ p[c2] = c2 <=> p[r2] = r2}

\* At most two messages on their way in each direction.
FewInFlight == Cardinality(toBridge) <= 2 /\ Cardinality(toCore) <= 2

====
