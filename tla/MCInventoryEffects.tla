---- MODULE MCInventoryEffects ----
EXTENDS InventoryEffects, TLC

CONSTANTS r1, r2, w1, w2, w3, h1, h2

Owner == (w1 :> r1) @@ (w2 :> r1) @@ (w3 :> r2)

\* A run that syncs and another that syncs after it; a run that syncs and is called
\* again after a crash of Core; a run with the other writes, likewise.
TwoSyncs == (w1 :> SyncOp) @@ (w2 :> None) @@ (w3 :> SyncOp)
OneSync == (w1 :> SyncOp) @@ (w2 :> None) @@ (w3 :> None)
OtherWrites == (w1 :> ForecastOp) @@ (w2 :> SnapshotOp) @@ (w3 :> None)
AllPrograms == {TwoSyncs, OneSync, OtherWrites}
CrashesOnceInOneRun == (TwoSyncs :> 0) @@ (OneSync :> 1) @@ (OtherWrites :> 1)

AnyHandler == Permutations(Handler)
====
