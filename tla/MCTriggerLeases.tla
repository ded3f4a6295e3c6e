---- MODULE MCTriggerLeases ----
(***************************************************************************)
(* Instances of TriggerLeases for TLC.                                     *)
(***************************************************************************)
EXTENDS TriggerLeases, TLC

CONSTANTS key1, key2, browser, t1, t2   \* model values

OneKey     == [o \in Occurrence |-> key1]
TwoKeys    == [o \in Occurrence |-> IF o = 1 THEN key1 ELSE key2]
OneBrowser == [o \in Occurrence |-> browser]
NoBrowser  == [o \in Occurrence |-> None]
OneTrigger == [o \in Occurrence |-> t1]
TwoTriggers == [o \in Occurrence |-> IF o = 1 THEN t1 ELSE t2]
RunOnce    == [t \in Trigger |-> {1}]
SkipLate   == [t \in Trigger |-> 0..2]

====
