---- MODULE MCRuntimeMaintenance ----
EXTENDS RuntimeMaintenance

CONSTANTS r1, r2, outsider, none

OneRun  == {r1}
TwoRuns == {r1, r2}
LoginRun == {r1}
NoRun == {}
NoBrowser == {}
OneBrowser == {1}
MCEpoch == 1..2
====
