---- MODULE InventoryEffects_proofs ----
(***************************************************************************)
(* Theorems about InventoryEffects, for all runs, effects, programs,       *)
(* handlers, products, rows and bounds.  A step of a handler is argued     *)
(* about in three parts: what it does to the handler (Moves), what it does *)
(* to the tables (Tables), and where that leaves the handler (Steps).      *)
(* Everybody else is then argued about from these alone.                   *)
(***************************************************************************)
EXTENDS InventoryEffects, TLAPS

\* A sync that runs has staged every row it has read, but the one it is about to.
ReadAll       == {"read", "publish", "no change"}
SyncPlace     == ReadAll \cup {"stage", "cleanup"}
ForecastPlace == {"verify", "product", "item", "summary"}
Working(h)    == handler[h].at \in SyncPlace \cup ForecastPlace

(* The inductive invariant of the service. *)

\* A handler works for an effect that it, and no other, has begun; what it answers
\* is so; and its transactions are those of the holder of the lease.
PlaceGood(h) ==
    /\ handler[h].at # "idle" => Of(h) \in Effect /\ run[RunOf[Of(h)]] # "none"
    /\ handler[h].at \in SyncPlace => operation[Of(h)] = SyncOp
    /\ handler[h].at \in ForecastPlace => operation[Of(h)] = ForecastOp
    /\ h \in open => handler[h].at \in Transaction /\ RunOf[Of(h)] = lease.holder
    /\ Working(h) => effect[Of(h)] # "none"
    /\ handler[h].at = "answer" => handler[h].says \in Result
    /\ handler[h].at = "answer" /\ handler[h].says = "succeeded"
          => effect[Of(h)] = "succeeded"

\* The sync that may still publish started at the watermark that stands.
Current(h) ==
    /\ handler[h].at \in {"begin"} \cup SyncPlace
    /\ operation[Of(h)] = SyncOp
    /\ RunOf[Of(h)] = lease.holder
    /\ effect[Of(h)] \in {"none", "running"}

ReadGood(h) ==
    /\ handler[h].from <= handler[h].cursor
    /\ handler[h].at = "begin" => handler[h].from = handler[h].cursor
    /\ handler[h].at \in ReadAll /\ SyncRuns(h)
          => staged[Of(h)] = handler[h].from + 1 .. handler[h].cursor
    /\ handler[h].at = "stage" /\ SyncRuns(h)
          => /\ handler[h].from < handler[h].cursor
             /\ staged[Of(h)] = handler[h].from + 1 .. handler[h].cursor - 1
    /\ Current(h) => handler[h].from = mark

OneHandlerEach ==
    \A g, h \in Handler : Working(g) /\ Working(h) /\ Of(g) = Of(h) => g = h

StagedGood(e) ==
    staged[e] # {} => operation[e] = SyncOp /\ sync[e] = "running" /\ effect[e] = "running"

ServiceInv ==
    /\ ServiceTypeOK
    /\ \A h \in Handler : PlaceGood(h) /\ ReadGood(h)
    /\ OneHandlerEach
    /\ \A e \in Effect : StagedGood(e)
    /\ facts = 1..mark

(* The inductive invariant of Core. *)

\* Nothing of the run's can be written any more, except by a reconciliation.
Dead(r) ==
    /\ run[r] # "none"
    /\ ~(lease.live /\ lease.holder = r)
    /\ \A h \in open : RunOf[Of(h)] # r

RunGood(r) ==
    /\ record[r] # "none" => run[r] # "none"
    /\ audit[r] # None => record[r] = "released" /\ Dead(r) /\ audit[r] = Report(r)

OperatorGood ==
    /\ operator.at # "idle" =>
          /\ operator.run \in Run /\ record[operator.run] = "reconciliation"
          /\ DOMAIN operator.report = Writes(operator.run)
          /\ \A e \in operator.todo : RunOf[e] = operator.run
    /\ operator.at \in {"reconcile", "final"} => Dead(operator.run)
    /\ operator.at = "final" => operator.report = Report(operator.run)

ToldGood == \A e \in Effect : told[e] = "succeeded" => effect[e] = "succeeded"

CoreTypeOK ==
    /\ run \in [Run -> {"none", "running", "ended", "uncertain"}]
    /\ record \in [Run -> {"none", "bound", "reconciliation", "released"}]
    /\ told \in [Effect -> Result \cup {"none"}]
    /\ waiting \in Handler \cup {None}
    /\ operator \in RequestRecord
    /\ token \in Reports \cup {None}
    /\ audit \in [Run -> Reports \cup {None}]
    /\ crashes \in 0..MaxCrashes[operation]

CoreInv ==
    /\ CoreTypeOK
    /\ \A r \in Run : RunGood(r)
    /\ OperatorGood
    /\ ToldGood

IInv == ServiceInv /\ CoreInv

LEMMA Types == TypeOK <=> ServiceTypeOK /\ CoreTypeOK
  BY DEF TypeOK, CoreTypeOK

----
(* Intervals. *)

LEMMA Adjoin ==
    ASSUME NEW i \in Nat, NEW j \in Nat, i < j
    PROVE  (i + 1 .. j - 1) \cup {j} = i + 1 .. j
  OBVIOUS

LEMMA Join ==
    ASSUME NEW i \in Nat, NEW j \in Nat, i <= j
    PROVE  (1..i) \cup (i + 1 .. j) = 1..j
  OBVIOUS

LEMMA Nothing ==
    ASSUME NEW i \in Nat
    PROVE  i + 1 .. i = {}
  OBVIOUS

----
(* What a step does to the handler. *)

\* It goes somewhere, with the same effect and the same rows.
Moves(h, place, says) ==
    /\ handler' \in [Handler -> HandlerRecord]
    /\ \A g \in Handler \ {h} : handler'[g] = handler[g]
    /\ handler'[h].effect = handler[h].effect
    /\ handler'[h].from = handler[h].from
    /\ handler'[h].cursor = handler[h].cursor
    /\ handler'[h].at = place
    /\ handler'[h].says = says

\* It is in doubt or has failed.
Lost(h) ==
    \/ /\ handler[h].at \in {"stage", "publish", "no change"}
       /\ Moves(h, "cleanup", handler[h].says)
    \/ handler[h].at = "product" /\ Moves(h, "item", handler[h].says)
    \/ Moves(h, "answer", "failed")
    \/ Moves(h, "answer", "uncertain")

LEMMA RecordGoes ==
    ASSUME NEW s \in HandlerRecord, NEW place \in Place
    PROVE  /\ [s EXCEPT !.at = place] \in HandlerRecord
           /\ [s EXCEPT !.at = place].at = place
           /\ [s EXCEPT !.at = place].effect = s.effect
           /\ [s EXCEPT !.at = place].from = s.from
           /\ [s EXCEPT !.at = place].cursor = s.cursor
           /\ [s EXCEPT !.at = place].says = s.says
  BY DEF HandlerRecord

LEMMA GoesMoves ==
    ASSUME ServiceTypeOK, NEW h \in Handler, NEW place \in Place, Goes(h, place)
    PROVE  Moves(h, place, handler[h].says)
<1>1. handler \in [Handler -> HandlerRecord] /\ handler[h] \in HandlerRecord
  BY DEF ServiceTypeOK
<1>2. handler' = [handler EXCEPT ![h] = [handler[h] EXCEPT !.at = place]]
  BY <1>1 DEF Goes
<1>4. /\ [handler[h] EXCEPT !.at = place] \in HandlerRecord
      /\ [handler[h] EXCEPT !.at = place].at = place
      /\ [handler[h] EXCEPT !.at = place].effect = handler[h].effect
      /\ [handler[h] EXCEPT !.at = place].from = handler[h].from
      /\ [handler[h] EXCEPT !.at = place].cursor = handler[h].cursor
      /\ [handler[h] EXCEPT !.at = place].says = handler[h].says
  BY <1>1, RecordGoes
<1>5. handler' \in [Handler -> HandlerRecord]
  BY <1>1, <1>2, <1>4
<1>6. handler'[h] = [handler[h] EXCEPT !.at = place]
  BY <1>1, <1>2
<1>7. \A g \in Handler \ {h} : handler'[g] = handler[g]
  BY <1>1, <1>2
<1> QED BY <1>4, <1>5, <1>6, <1>7 DEF Moves

LEMMA SaysMoves ==
    ASSUME ServiceTypeOK, NEW h \in Handler, NEW result \in Result, Says(h, result)
    PROVE  Moves(h, "answer", result)
<1>1. handler \in [Handler -> HandlerRecord] /\ handler[h] \in HandlerRecord
  BY DEF ServiceTypeOK
<1>2. handler' = [handler EXCEPT ![h] = [handler[h] EXCEPT !.at = "answer",
                                                           !.says = result]]
  BY <1>1 DEF Says
<1>3. "answer" \in Place
  BY DEF Place
<1>4. /\ [handler[h] EXCEPT !.at = "answer", !.says = result] \in HandlerRecord
      /\ [handler[h] EXCEPT !.at = "answer", !.says = result].at = "answer"
      /\ [handler[h] EXCEPT !.at = "answer", !.says = result].effect = handler[h].effect
      /\ [handler[h] EXCEPT !.at = "answer", !.says = result].from = handler[h].from
      /\ [handler[h] EXCEPT !.at = "answer", !.says = result].cursor = handler[h].cursor
      /\ [handler[h] EXCEPT !.at = "answer", !.says = result].says = result
  BY <1>1, <1>3 DEF HandlerRecord
<1>5. handler' \in [Handler -> HandlerRecord]
  BY <1>1, <1>2, <1>4
<1>6. handler'[h] = [handler[h] EXCEPT !.at = "answer", !.says = result]
  BY <1>1, <1>2
<1>7. \A g \in Handler \ {h} : handler'[g] = handler[g]
  BY <1>1, <1>2
<1> QED BY <1>4, <1>5, <1>6, <1>7 DEF Moves

LEMMA DoubtIsLost ==
    ASSUME ServiceTypeOK, NEW h \in Handler, Doubts(h) \/ Fails(h)
    PROVE  Lost(h)
<1>1. {"cleanup", "item"} \subseteq Place /\ {"failed", "uncertain"} \subseteq Result
  BY DEF Place, Transaction, Result
<1>2. CASE Doubts(h)
  BY <1>1, <1>2, GoesMoves, SaysMoves DEF Doubts, Lost
<1>3. CASE Fails(h)
  <2>1. CASE handler[h].at \in {"stage", "publish", "no change"}
    BY <1>1, <1>3, <2>1, GoesMoves DEF Fails, Lost
  <2>2. CASE handler[h].at = "cleanup"
    BY <1>1, <1>3, <2>2, SaysMoves DEF Fails, Lost
  <2>3. CASE handler[h].at = "product"
    BY <1>1, <1>3, <2>3, GoesMoves DEF Fails, Lost
  <2>4. CASE handler[h].at \notin {"stage", "publish", "no change", "cleanup", "product"}
    BY <1>1, <1>3, <2>4, SaysMoves DEF Fails, Lost
  <2> QED BY <2>1, <2>2, <2>3, <2>4
<1> QED BY <1>2, <1>3

----
(* What a step of a handler does to the tables. *)

TableTypes ==
    /\ effect \in [Effect -> EffectStatus]
    /\ item \in [Effect -> [Product -> {"none", "succeeded", "failed"}]]
    /\ sync \in [Effect -> {"none", "running", "succeeded", "failed"}]
    /\ staged \in [Effect -> SUBSET Row]
    /\ facts \subseteq Row
    /\ mark \in 0..LastRow

\* Another effect is not touched, and this one not once it has ended.
Apart(h) ==
    /\ \A d \in Effect \ {Of(h)} :
          effect'[d] = effect[d] /\ item'[d] = item[d] /\ sync'[d] = sync[d]
          /\ staged'[d] = staged[d]
    /\ effect[Of(h)] \in Terminal =>
          effect'[Of(h)] = effect[Of(h)] /\ item'[Of(h)] = item[Of(h)]
    /\ effect[Of(h)] # "none" => effect'[Of(h)] # "none"

\* Readers see another publication or the same.
Publishes(h) ==
    /\ operation[Of(h)] = SyncOp /\ h \in open /\ effect'[Of(h)] = "succeeded"
    /\ mark' >= mark
    /\ facts' = 1..mark'

Tables(h) ==
    /\ UNCHANGED <<operation, lease>>
    /\ TableTypes'
    /\ Apart(h)
    /\ h \notin open \/ (~Working(h) /\ effect[Of(h)] # "none") => UNCHANGED tableVars
    /\ StagedGood(Of(h))'
    /\ UNCHANGED <<facts, mark>> \/ Publishes(h)

\* The handler has an effect, for every place but one.
LEMMA HasEffect ==
    ASSUME NEW h \in Handler, ServiceTypeOK, PlaceGood(h), handler[h].at # "idle"
    PROVE  Of(h) \in Effect /\ RunOf[Of(h)] \in Run
  BY ServiceAssumption DEF PlaceGood, ServiceTypeOK

LEMMA TablesSame ==
    ASSUME NEW h \in Handler, ServiceTypeOK, Of(h) \in Effect, StagedGood(Of(h)),
           UNCHANGED <<operation, lease, tableVars>>, Of(h)' = Of(h)
    PROVE  Tables(h)
<1>1. TableTypes'
  BY DEF ServiceTypeOK, TableTypes, tableVars
<1>2. Apart(h)
  BY DEF Apart, tableVars
<1>3. StagedGood(Of(h))'
  BY DEF StagedGood, tableVars
<1> QED BY <1>1, <1>2, <1>3 DEF Tables, tableVars

\* An effect begins.
LEMMA TablesBegin ==
    ASSUME NEW h \in Handler, ServiceTypeOK, Of(h) \in Effect, StagedGood(Of(h)),
           Of(h)' = Of(h), h \in open, effect[Of(h)] = "none",
           NEW status \in {"running", "succeeded"},
           effect' = [effect EXCEPT ![Of(h)] = status],
           sync' = sync \/ sync' = [sync EXCEPT ![Of(h)] = "running"],
           UNCHANGED <<operation, lease, item, staged, facts, mark>>
    PROVE  Tables(h)
<1>1. TableTypes'
  BY DEF ServiceTypeOK, TableTypes, EffectStatus
<1>2. Apart(h)
  BY DEF Apart, ServiceTypeOK, Terminal
<1>3. StagedGood(Of(h))'
  BY DEF StagedGood
<1> QED BY <1>1, <1>2, <1>3 DEF Tables

LEMMA TablesStage ==
    ASSUME NEW h \in Handler, ServiceTypeOK, Of(h) \in Effect, Of(h)' = Of(h),
           PlaceGood(h), ReadGood(h), StageChunk(h)
    PROVE  Tables(h)
<1>1. /\ handler[h].at = "stage" /\ h \in open /\ SyncRuns(h)
      /\ staged' = [staged EXCEPT ![Of(h)] = @ \cup {handler[h].cursor}]
      /\ UNCHANGED <<operation, lease, effect, item, sync, facts, mark>>
  BY DEF StageChunk, In, Commit
<1>2. handler[h].from \in Nat /\ handler[h].cursor \in 0..LastRow /\ LastRow \in Nat
  BY ServiceAssumption DEF ServiceTypeOK, HandlerRecord
<1>3. handler[h].cursor \in Row
  BY <1>1, <1>2 DEF ReadGood, Row
<1>4. TableTypes'
  BY <1>1, <1>3 DEF ServiceTypeOK, TableTypes
<1>5. Apart(h)
  BY <1>1 DEF Apart, ServiceTypeOK
<1>6. operation[Of(h)] = SyncOp
  BY <1>1 DEF PlaceGood, SyncPlace
<1>7. StagedGood(Of(h))'
  BY <1>1, <1>6 DEF StagedGood, SyncRuns
<1>8. Working(h)
  BY <1>1 DEF Working, SyncPlace
<1> QED BY <1>1, <1>4, <1>5, <1>7, <1>8 DEF Tables

\* What the end of a sync does to its rows.
LEMMA SyncEnded ==
    ASSUME NEW h \in Handler, ServiceTypeOK, Of(h) \in Effect, Of(h)' = Of(h),
           SyncRuns(h), NEW result \in {"succeeded", "failed"}, SyncEnds(h, result),
           UNCHANGED item
    PROVE  /\ effect' \in [Effect -> EffectStatus]
           /\ sync' \in [Effect -> {"none", "running", "succeeded", "failed"}]
           /\ staged' \in [Effect -> SUBSET Row]
           /\ effect'[Of(h)] = result
           /\ Apart(h)
           /\ StagedGood(Of(h))'
<1>1. /\ sync' = [sync EXCEPT ![Of(h)] = result]
      /\ effect' = [effect EXCEPT ![Of(h)] = result]
      /\ staged' = [staged EXCEPT ![Of(h)] = {}]
  BY DEF SyncEnds
<1>2. effect' \in [Effect -> EffectStatus]
  BY <1>1 DEF ServiceTypeOK, EffectStatus
<1>3. sync' \in [Effect -> {"none", "running", "succeeded", "failed"}]
  BY <1>1 DEF ServiceTypeOK
<1>4. staged' \in [Effect -> SUBSET Row]
  BY <1>1 DEF ServiceTypeOK
<1>5. effect'[Of(h)] = result /\ staged'[Of(h)] = {}
  BY <1>1 DEF ServiceTypeOK
<1>6. Apart(h)
  BY <1>1 DEF Apart, ServiceTypeOK, SyncRuns, Terminal
<1>7. StagedGood(Of(h))'
  BY <1>5 DEF StagedGood
<1> QED BY <1>2, <1>3, <1>4, <1>5, <1>6, <1>7

LEMMA TablesEnd ==
    ASSUME NEW h \in Handler, ServiceTypeOK, Of(h) \in Effect, Of(h)' = Of(h),
           NoChange(h) \/ FailSync(h)
    PROVE  Tables(h)
<1>1. /\ handler[h].at \in {"no change", "cleanup"} /\ h \in open /\ SyncRuns(h)
      /\ SyncEnds(h, "succeeded") \/ SyncEnds(h, "failed")
      /\ UNCHANGED <<operation, lease, item, facts, mark>>
  BY DEF NoChange, FailSync, In, Commit
<1>2. /\ effect' \in [Effect -> EffectStatus]
      /\ sync' \in [Effect -> {"none", "running", "succeeded", "failed"}]
      /\ staged' \in [Effect -> SUBSET Row]
      /\ Apart(h)
      /\ StagedGood(Of(h))'
  BY <1>1, SyncEnded
<1>3. TableTypes'
  BY <1>1, <1>2 DEF TableTypes, ServiceTypeOK
<1>4. Working(h)
  BY <1>1 DEF Working, SyncPlace, ReadAll
<1> QED BY <1>1, <1>2, <1>3, <1>4 DEF Tables

LEMMA TablesPublish ==
    ASSUME NEW h \in Handler, ServiceTypeOK, Of(h) \in Effect, Of(h)' = Of(h),
           PlaceGood(h), ReadGood(h), facts = 1..mark, Publish(h)
    PROVE  Tables(h)
<1>1. /\ handler[h].at = "publish" /\ h \in open /\ SyncRuns(h)
      /\ facts' = facts \cup staged[Of(h)]
      /\ mark' = handler[h].cursor
      /\ SyncEnds(h, "succeeded")
      /\ UNCHANGED <<operation, lease, item>>
  BY DEF Publish, In, Commit, Promoted
<1>2. /\ effect' \in [Effect -> EffectStatus]
      /\ sync' \in [Effect -> {"none", "running", "succeeded", "failed"}]
      /\ staged' \in [Effect -> SUBSET Row]
      /\ effect'[Of(h)] = "succeeded"
      /\ Apart(h)
      /\ StagedGood(Of(h))'
  BY <1>1, SyncEnded
<1>3. /\ handler[h].from \in 0..LastRow /\ handler[h].cursor \in 0..LastRow
      /\ mark \in 0..LastRow /\ LastRow \in Nat
  BY ServiceAssumption DEF ServiceTypeOK, HandlerRecord
<1>4. operation[Of(h)] = SyncOp
  BY <1>1 DEF PlaceGood, SyncPlace, ReadAll
<1>5. Current(h)
  BY <1>1, <1>4 DEF Current, PlaceGood, SyncPlace, ReadAll, SyncRuns
<1>6. /\ handler[h].from = mark /\ mark <= handler[h].cursor
      /\ staged[Of(h)] = mark + 1 .. handler[h].cursor
  BY <1>1, <1>5 DEF ReadGood, ReadAll
<1>7. facts' = 1..mark' /\ mark' >= mark
  <2>1. (1..mark) \cup (mark + 1 .. handler[h].cursor) = 1..handler[h].cursor
    BY <1>3, <1>6, Join
  <2>2. facts' = 1..handler[h].cursor
    BY <1>1, <1>6, <2>1
  <2> QED BY <1>1, <1>3, <1>6, <2>2
<1>8. TableTypes'
  <2>1. mark' \in 0..LastRow
    BY <1>1, <1>3
  <2>2. 1..mark' \subseteq 1..LastRow
    BY <1>3, <2>1
  <2>3. facts' \subseteq Row
    BY <1>7, <2>2 DEF Row
  <2> QED BY <1>1, <1>2, <2>1, <2>3 DEF TableTypes, ServiceTypeOK
<1>9. Working(h)
  BY <1>1 DEF Working, SyncPlace, ReadAll
<1> QED BY <1>1, <1>2, <1>4, <1>7, <1>8, <1>9 DEF Tables, Publishes

LEMMA TablesItem ==
    ASSUME NEW h \in Handler, ServiceTypeOK, Of(h) \in Effect, Of(h)' = Of(h),
           StagedGood(Of(h)), handler[h].at \in {"product", "item"}, h \in open,
           NEW p \in Product, NEW result \in {"succeeded", "failed"},
           RecordItem(h, p, result)
    PROVE  Tables(h)
<1>1. /\ effect[Of(h)] = "running"
      /\ item' = [item EXCEPT ![Of(h)] = [item[Of(h)] EXCEPT ![p] = result]]
      /\ UNCHANGED <<operation, lease, effect, sync, staged, facts, mark>>
  BY DEF RecordItem, Commit, ServiceTypeOK
<1>2. [item[Of(h)] EXCEPT ![p] = result] \in [Product -> {"none", "succeeded", "failed"}]
  BY DEF ServiceTypeOK
<1>3. TableTypes'
  BY <1>1, <1>2 DEF TableTypes, ServiceTypeOK
<1>4. Apart(h)
  BY <1>1 DEF Apart, ServiceTypeOK, Terminal
<1>5. StagedGood(Of(h))'
  BY <1>1 DEF StagedGood
<1>6. Working(h)
  BY DEF Working, ForecastPlace
<1> QED BY <1>1, <1>3, <1>4, <1>5, <1>6 DEF Tables

LEMMA TablesComplete ==
    ASSUME NEW h \in Handler, ServiceTypeOK, Of(h) \in Effect, Of(h)' = Of(h),
           StagedGood(Of(h)), PlaceGood(h), CompleteForecast(h)
    PROVE  Tables(h)
<1>1. /\ handler[h].at = "summary" /\ h \in open /\ effect[Of(h)] = "running"
      /\ effect' = [effect EXCEPT ![Of(h)] = "succeeded"]
      /\ UNCHANGED <<operation, lease, item, sync, staged, facts, mark>>
  BY DEF CompleteForecast, In, Commit
<1>2. TableTypes'
  BY <1>1 DEF TableTypes, ServiceTypeOK, EffectStatus
<1>3. Apart(h)
  BY <1>1 DEF Apart, ServiceTypeOK, Terminal
<1>4. operation[Of(h)] = ForecastOp
  BY <1>1 DEF PlaceGood, ForecastPlace
<1>5. StagedGood(Of(h))'
  BY <1>1, <1>4 DEF StagedGood, SyncOp, ForecastOp
<1>6. Working(h)
  BY <1>1 DEF Working, ForecastPlace
<1> QED BY <1>1, <1>2, <1>3, <1>5, <1>6 DEF Tables

----
(* Where a step leaves the handler, and what it leaves to the others. *)

Steps(h) ==
    /\ handler' \in [Handler -> HandlerRecord]
    /\ \A g \in Handler \ {h} : handler'[g] = handler[g]
    /\ Of(h)' = Of(h)
    /\ open' \subseteq Handler
    /\ \A g \in Handler \ {h} : g \in open' <=> g \in open
    /\ UNCHANGED run
    /\ Tables(h)
    /\ PlaceGood(h)'
    /\ ReadGood(h)'
    /\ Working(h)' => Working(h) \/ effect[Of(h)] = "none"

\* What the lemmas below take for granted of the step.
Acts(h) ==
    /\ Of(h) \in Effect
    /\ handler[h].at # "idle"
    /\ UNCHANGED run
    /\ Tables(h)
    /\ open' = open \ {h}

LEMMA MoveSteps ==
    ASSUME ServiceTypeOK, NEW h \in Handler, Acts(h), NEW place, NEW says,
           Moves(h, place, says)
    PROVE  /\ handler' \in [Handler -> HandlerRecord]
           /\ \A g \in Handler \ {h} : handler'[g] = handler[g]
           /\ Of(h)' = Of(h)
           /\ open' \subseteq Handler
           /\ \A g \in Handler \ {h} : g \in open' <=> g \in open
           /\ h \notin open'
           /\ handler'[h].from \in Nat /\ handler'[h].cursor \in Nat
           /\ handler'[h].from = handler[h].from
           /\ handler'[h].cursor = handler[h].cursor
           /\ handler'[h].at = place /\ handler'[h].says = says
<1>1. handler' \in [Handler -> HandlerRecord]
  BY DEF Moves
<1>2. LastRow \in Nat
  BY ServiceAssumption
<1>3. handler'[h].from \in Nat /\ handler'[h].cursor \in Nat
  BY <1>1, <1>2 DEF HandlerRecord
<1> QED BY <1>1, <1>3 DEF Moves, Acts, Of, ServiceTypeOK

\* The watermark an unfinished sync started at stands as long as the sync may publish.
LEMMA CurrentStays ==
    ASSUME ServiceTypeOK, NEW h \in Handler, Acts(h), ReadGood(h),
           NEW place, NEW says, Moves(h, place, says),
           handler[h].at \in {"begin"} \cup SyncPlace, Current(h)'
    PROVE  handler'[h].from = mark'
<1>1. /\ Of(h)' = Of(h) /\ UNCHANGED <<operation, lease>>
      /\ handler'[h].from = handler[h].from
  BY MoveSteps DEF Acts, Tables
<1>2. effect'[Of(h)] \in {"none", "running"}
  BY <1>1 DEF Current
<1>3. effect[Of(h)] \in {"none", "running"}
  BY <1>2 DEF Acts, Tables, Apart, Terminal, ServiceTypeOK, EffectStatus
<1>4. Current(h)
  BY <1>1, <1>3 DEF Current
<1>5. mark' = mark
  BY <1>2 DEF Acts, Tables, Publishes
<1> QED BY <1>1, <1>4, <1>5 DEF ReadGood

LEMMA AnswerSteps ==
    ASSUME ServiceTypeOK, NEW h \in Handler, Acts(h), PlaceGood(h), ReadGood(h),
           NEW result \in Result, Moves(h, "answer", result),
           result = "succeeded" => effect'[Of(h)] = "succeeded"
    PROVE  Steps(h)
<1>1. /\ handler'[h].at = "answer" /\ handler'[h].says = result
      /\ Of(h)' = Of(h) /\ h \notin open'
      /\ handler'[h].from = handler[h].from /\ handler'[h].cursor = handler[h].cursor
  BY MoveSteps
<1>2. PlaceGood(h)'
  BY <1>1 DEF PlaceGood, Acts, Working, SyncPlace, ForecastPlace, ReadAll
<1>3. ReadGood(h)'
  BY <1>1 DEF ReadGood, Current, SyncPlace, ReadAll
<1>4. ~Working(h)'
  BY <1>1 DEF Working, SyncPlace, ForecastPlace, ReadAll
<1> QED BY <1>2, <1>3, <1>4, MoveSteps DEF Steps, Acts

LEMMA LostSteps ==
    ASSUME ServiceTypeOK, NEW h \in Handler, Acts(h), PlaceGood(h), ReadGood(h), Lost(h)
    PROVE  Steps(h)
<1>1. CASE /\ handler[h].at \in {"stage", "publish", "no change"}
           /\ Moves(h, "cleanup", handler[h].says)
  <2>1. /\ handler'[h].at = "cleanup" /\ Of(h)' = Of(h) /\ h \notin open'
        /\ handler'[h].from = handler[h].from /\ handler'[h].cursor = handler[h].cursor
    BY <1>1, MoveSteps
  <2>2. handler[h].at \in SyncPlace /\ Working(h)
    BY <1>1 DEF SyncPlace, ReadAll, Working
  <2>3. effect'[Of(h)] # "none" /\ operation'[Of(h)] = SyncOp
    BY <2>2 DEF PlaceGood, Acts, Tables, Apart
  <2>4. PlaceGood(h)'
    BY <2>1, <2>2, <2>3 DEF PlaceGood, Acts, ForecastPlace
  <2>5. Current(h)' => handler'[h].from = mark'
    BY <1>1, <2>2, CurrentStays
  <2>6. ReadGood(h)'
    BY <2>1, <2>5 DEF ReadGood, ReadAll
  <2> QED BY <1>1, <2>2, <2>4, <2>6, MoveSteps DEF Steps, Acts
<1>2. CASE handler[h].at = "product" /\ Moves(h, "item", handler[h].says)
  <2>1. /\ handler'[h].at = "item" /\ Of(h)' = Of(h) /\ h \notin open'
        /\ handler'[h].from = handler[h].from /\ handler'[h].cursor = handler[h].cursor
    BY <1>2, MoveSteps
  <2>2. handler[h].at \in ForecastPlace /\ Working(h)
    BY <1>2 DEF ForecastPlace, Working
  <2>3. effect'[Of(h)] # "none" /\ operation'[Of(h)] = ForecastOp
    BY <2>2 DEF PlaceGood, Acts, Tables, Apart
  <2>4. PlaceGood(h)'
    BY <2>1, <2>2, <2>3 DEF PlaceGood, Acts, SyncPlace, ReadAll
  <2>6. ReadGood(h)'
    BY <2>1 DEF ReadGood, ReadAll, Current, SyncPlace
  <2> QED BY <1>2, <2>2, <2>4, <2>6, MoveSteps DEF Steps, Acts
<1>3. CASE Moves(h, "answer", "failed") \/ Moves(h, "answer", "uncertain")
  BY <1>3, AnswerSteps DEF Result
<1> QED BY <1>1, <1>2, <1>3 DEF Lost

\* Within a forecast.
LEMMA ForecastSteps ==
    ASSUME ServiceTypeOK, NEW h \in Handler, Acts(h), PlaceGood(h), ReadGood(h),
           NEW place \in ForecastPlace, Moves(h, place, handler[h].says),
           operation[Of(h)] = ForecastOp, effect'[Of(h)] # "none",
           Working(h) \/ effect[Of(h)] = "none"
    PROVE  Steps(h)
<1>1. /\ handler'[h].at = place /\ Of(h)' = Of(h) /\ h \notin open'
      /\ handler'[h].from = handler[h].from /\ handler'[h].cursor = handler[h].cursor
  BY MoveSteps
<1>2. operation' = operation
  BY DEF Acts, Tables
<1>3. PlaceGood(h)'
  BY <1>1, <1>2 DEF PlaceGood, Acts, SyncPlace, ReadAll, ForecastPlace
<1>4. ReadGood(h)'
  BY <1>1, <1>2 DEF ReadGood, ReadAll, Current, SyncPlace, ForecastPlace
<1> QED BY <1>3, <1>4, MoveSteps DEF Steps, Acts

\* Within a sync.
LEMMA SyncSteps ==
    ASSUME ServiceTypeOK, NEW h \in Handler, Acts(h), PlaceGood(h), ReadGood(h),
           NEW place \in ReadAll \cup {"cleanup"}, Moves(h, place, handler[h].says),
           operation[Of(h)] = SyncOp, effect'[Of(h)] # "none",
           handler[h].at \in {"begin"} \cup SyncPlace,
           Working(h) \/ effect[Of(h)] = "none",
           place \in ReadAll /\ SyncRuns(h)' =>
               staged'[Of(h)] = handler[h].from + 1 .. handler[h].cursor
    PROVE  Steps(h)
<1>1. /\ handler'[h].at = place /\ Of(h)' = Of(h) /\ h \notin open'
      /\ handler'[h].from = handler[h].from /\ handler'[h].cursor = handler[h].cursor
  BY MoveSteps
<1>2. operation' = operation
  BY DEF Acts, Tables
<1>3. PlaceGood(h)'
  BY <1>1, <1>2 DEF PlaceGood, Acts, SyncPlace, ReadAll, ForecastPlace
<1>4. Current(h)' => handler'[h].from = mark'
  BY CurrentStays
<1>5. ReadGood(h)'
  BY <1>1, <1>4 DEF ReadGood, ReadAll
<1> QED BY <1>3, <1>5, MoveSteps DEF Steps, Acts

----
(* The steps of a handler. *)

Good(h) ==
    /\ ServiceTypeOK
    /\ Of(h) \in Effect
    /\ handler[h].at # "idle"
    /\ PlaceGood(h) /\ ReadGood(h)
    /\ StagedGood(Of(h))
    /\ facts = 1..mark
    /\ UNCHANGED run

LEMMA LostOf ==
    ASSUME NEW h \in Handler, Lost(h)
    PROVE  Of(h)' = Of(h)
  BY DEF Lost, Moves, Of

LEMMA MovesOf ==
    ASSUME NEW h \in Handler, NEW place, NEW says, Moves(h, place, says)
    PROVE  Of(h)' = Of(h)
  BY DEF Moves, Of

\* The places are as different as their names.
LEMMA Places ==
    /\ "answer" \in Place /\ "read" \in Place /\ "verify" \in Place
    /\ Transaction \subseteq Place
    /\ ForecastPlace \subseteq Place
    /\ ReadAll \subseteq Place
    /\ {"cleanup"} \subseteq Place
    /\ "idle" \notin Transaction
    /\ Result = {"succeeded", "failed", "uncertain"}
  BY DEF Place, Transaction, ForecastPlace, ReadAll, Result

LEMMA OpenSteps ==
    ASSUME NEW h \in Handler, Good(h), Open(h)
    PROVE  Steps(h)
<1>1. /\ handler[h].at \in Transaction /\ Fenced(h)
      /\ open' = open \cup {h}
      /\ UNCHANGED <<operation, lease, tableVars, handler>>
  BY DEF Open
<1>2. Of(h)' = Of(h)
  BY <1>1 DEF Of
<1>3. UNCHANGED <<effect, sync, staged, mark, run>>
  BY <1>1 DEF tableVars, Good
<1>4. Tables(h)
  BY <1>1, <1>2, TablesSame DEF Good
<1>5. PlaceGood(h)'
  BY <1>1, <1>2, <1>3 DEF PlaceGood, Good, Fenced, Working
<1>6. ReadGood(h)'
  BY <1>1, <1>2, <1>3 DEF ReadGood, Good, Current, SyncRuns
<1>7. Working(h)' => Working(h)
  BY <1>1 DEF Working
<1> QED BY <1>1, <1>2, <1>3, <1>4, <1>5, <1>6, <1>7 DEF Steps, Good, ServiceTypeOK

LEMMA DoubtSteps ==
    ASSUME NEW h \in Handler, Good(h), LeaseLost(h) \/ RollBack(h) \/ SyncConflict(h)
    PROVE  Steps(h)
<1>1. /\ Doubts(h) \/ Fails(h)
      /\ open' = open \ {h}
      /\ UNCHANGED <<operation, lease, tableVars>>
  BY DEF LeaseLost, RollBack, SyncConflict
<1>2. Lost(h)
  BY <1>1, DoubtIsLost DEF Good
<1>3. Tables(h)
  BY <1>1, <1>2, LostOf, TablesSame DEF Good
<1> QED BY <1>1, <1>2, <1>3, LostSteps DEF Good, Acts

LEMMA RepeatedSteps ==
    ASSUME NEW h \in Handler, Good(h), Repeated(h)
    PROVE  Steps(h)
<1>1. /\ open' = open \ {h}
      /\ UNCHANGED <<operation, lease, tableVars>>
  BY DEF Repeated
<1>2. PICK result \in Result :
         /\ Says(h, result)
         /\ result = "succeeded" => effect[Of(h)] = "succeeded"
  BY Places DEF Repeated
<1>3. Moves(h, "answer", result)
  BY <1>2, SaysMoves DEF Good
<1>4. Tables(h)
  BY <1>1, <1>3, MovesOf, TablesSame DEF Good
<1>5. effect' = effect
  BY <1>1 DEF tableVars
<1> QED BY <1>1, <1>2, <1>3, <1>4, <1>5, AnswerSteps DEF Good, Acts

LEMMA ArrivedSteps ==
    ASSUME NEW h \in Handler, Good(h), Arrived(h)
    PROVE  Steps(h)
<1>1. /\ handler[h].at = "arrived" /\ h \notin open /\ open' = open
      /\ UNCHANGED <<operation, lease, tableVars>>
  BY DEF Arrived, At
<1>2. CASE Says(h, "uncertain") \/ Says(h, "failed")
  <2>1. PICK result \in {"uncertain", "failed"} : Moves(h, "answer", result)
    BY <1>2, SaysMoves, Places DEF Good
  <2>2. Tables(h)
    BY <1>1, <2>1, MovesOf, TablesSame DEF Good
  <2> QED BY <1>1, <2>1, <2>2, AnswerSteps, Places DEF Good, Acts
<1>3. CASE handler' = [handler EXCEPT ![h].at = "begin",
               ![h].from = IF operation[Of(h)] = SyncOp THEN mark ELSE 0,
               ![h].cursor = IF operation[Of(h)] = SyncOp THEN mark ELSE 0]
  <2> DEFINE n == IF operation[Of(h)] = SyncOp THEN mark ELSE 0
  <2>1. n \in 0..LastRow
    BY ServiceAssumption DEF Good, ServiceTypeOK
  <2>2. handler' = [handler EXCEPT ![h] = [handler[h] EXCEPT !.at = "begin", !.from = n,
                                                             !.cursor = n]]
    BY <1>3 DEF Good, ServiceTypeOK
  <2> HIDE DEF n
  <2>3. "begin" \in Place
    BY DEF Place, Transaction
  <2>4. handler[h] \in HandlerRecord
    BY DEF Good, ServiceTypeOK
  <2>5. /\ [handler[h] EXCEPT !.at = "begin", !.from = n, !.cursor = n] \in HandlerRecord
        /\ [handler[h] EXCEPT !.at = "begin", !.from = n, !.cursor = n].effect = Of(h)
        /\ [handler[h] EXCEPT !.at = "begin", !.from = n, !.cursor = n].at = "begin"
        /\ [handler[h] EXCEPT !.at = "begin", !.from = n, !.cursor = n].from = n
        /\ [handler[h] EXCEPT !.at = "begin", !.from = n, !.cursor = n].cursor = n
    BY <2>1, <2>3, <2>4 DEF HandlerRecord, Of
  <2>6. handler' \in [Handler -> HandlerRecord]
    BY <2>2, <2>5 DEF Good, ServiceTypeOK
  <2>7. \A g \in Handler \ {h} : handler'[g] = handler[g]
    BY <2>2 DEF Good, ServiceTypeOK
  <2>8. /\ handler'[h].effect = Of(h) /\ handler'[h].at = "begin"
        /\ handler'[h].from = n /\ handler'[h].cursor = n
    BY <2>2, <2>5 DEF Good, ServiceTypeOK
  <2>9. Of(h)' = Of(h)
    BY <2>8 DEF Of
  <2>10. Tables(h)
    BY <1>1, <2>9, TablesSame DEF Good
  <2>11. ~Working(h)'
    BY <2>8 DEF Working, SyncPlace, ForecastPlace, ReadAll
  <2>12. PlaceGood(h)'
    BY <1>1, <2>8, <2>9, <2>11
    DEF PlaceGood, Good, SyncPlace, ForecastPlace, ReadAll, tableVars
  <2>13. Current(h)' => n = mark'
    BY <1>1, <2>9 DEF Current, n, tableVars
  <2>14. n <= n
    BY <2>1, ServiceAssumption
  <2>15. ReadGood(h)'
    BY <2>8, <2>13, <2>14 DEF ReadGood, ReadAll
  <2> QED BY <1>1, <2>6, <2>7, <2>9, <2>10, <2>11, <2>12, <2>15
          DEF Steps, Good, ServiceTypeOK
<1> QED BY <1>2, <1>3 DEF Arrived

LEMMA BeginSyncSteps ==
    ASSUME NEW h \in Handler, Good(h), BeginSync(h)
    PROVE  Steps(h)
<1>1. /\ handler[h].at = "begin" /\ h \in open /\ operation[Of(h)] = SyncOp
      /\ effect[Of(h)] = "none"
      /\ effect' = [effect EXCEPT ![Of(h)] = "running"]
      /\ sync' = [sync EXCEPT ![Of(h)] = "running"]
      /\ UNCHANGED <<operation, lease, item, staged, facts, mark>>
      /\ open' = open \ {h}
      /\ Goes(h, "read") \/ Doubts(h)
  BY DEF BeginSync, In, Commit
<1>2. Moves(h, "read", handler[h].says) \/ Lost(h)
  BY <1>1, GoesMoves, DoubtIsLost, Places DEF Good
<1>3. Of(h)' = Of(h)
  BY <1>2, MovesOf, LostOf
<1>4. Tables(h)
  BY <1>1, <1>3, TablesBegin DEF Good
<1>5. Acts(h)
  BY <1>1, <1>4 DEF Acts, Good
<1>6. effect'[Of(h)] = "running"
  BY <1>1 DEF Good, ServiceTypeOK
<1>7. CASE Moves(h, "read", handler[h].says)
  <2>1. handler[h].from \in Nat /\ handler[h].cursor = handler[h].from
    BY <1>1, ServiceAssumption DEF Good, ReadGood, ServiceTypeOK, HandlerRecord
  <2>2. staged'[Of(h)] = {}
    BY <1>1 DEF Good, StagedGood
  <2>3. staged'[Of(h)] = handler[h].from + 1 .. handler[h].cursor
    BY <2>1, <2>2, Nothing
  <2>4. "read" \in ReadAll \cup {"cleanup"}
    BY DEF ReadAll
  <2> QED BY <1>1, <1>5, <1>6, <1>7, <2>3, <2>4, SyncSteps DEF Good
<1>8. CASE Lost(h)
  BY <1>5, <1>8, LostSteps DEF Good
<1> QED BY <1>2, <1>7, <1>8

LEMMA BeginForecastSteps ==
    ASSUME NEW h \in Handler, Good(h), BeginForecast(h)
    PROVE  Steps(h)
<1>1. /\ handler[h].at = "begin" /\ h \in open /\ operation[Of(h)] = ForecastOp
      /\ effect[Of(h)] = "none"
      /\ effect' = [effect EXCEPT ![Of(h)] = "running"]
      /\ UNCHANGED <<operation, lease, item, sync, staged, facts, mark>>
      /\ open' = open \ {h}
      /\ Goes(h, "verify") \/ Doubts(h)
  BY DEF BeginForecast, In, Commit
<1>2. Moves(h, "verify", handler[h].says) \/ Lost(h)
  BY <1>1, GoesMoves, DoubtIsLost, Places DEF Good
<1>3. Of(h)' = Of(h)
  BY <1>2, MovesOf, LostOf
<1>4. Tables(h)
  BY <1>1, <1>3, TablesBegin DEF Good
<1>5. Acts(h)
  BY <1>1, <1>4 DEF Acts, Good
<1>6. effect'[Of(h)] = "running"
  BY <1>1 DEF Good, ServiceTypeOK
<1>7. "verify" \in ForecastPlace
  BY DEF ForecastPlace
<1>8. CASE Lost(h)
  BY <1>5, <1>8, LostSteps DEF Good
<1> QED BY <1>1, <1>2, <1>5, <1>6, <1>7, <1>8, ForecastSteps DEF Good

LEMMA PersistSnapshotSteps ==
    ASSUME NEW h \in Handler, Good(h), PersistSnapshot(h)
    PROVE  Steps(h)
<1>1. /\ h \in open
      /\ effect[Of(h)] = "none"
      /\ effect' = [effect EXCEPT ![Of(h)] = "succeeded"]
      /\ UNCHANGED <<operation, lease, item, sync, staged, facts, mark>>
      /\ open' = open \ {h}
      /\ Says(h, "succeeded") \/ Doubts(h)
  BY DEF PersistSnapshot, In, Commit
<1>2. Moves(h, "answer", "succeeded") \/ Lost(h)
  BY <1>1, SaysMoves, DoubtIsLost, Places DEF Good
<1>3. Of(h)' = Of(h)
  BY <1>2, MovesOf, LostOf
<1>4. Tables(h)
  BY <1>1, <1>3, TablesBegin DEF Good
<1>5. Acts(h)
  BY <1>1, <1>4 DEF Acts, Good
<1>6. effect'[Of(h)] = "succeeded"
  BY <1>1 DEF Good, ServiceTypeOK
<1>7. CASE Moves(h, "answer", "succeeded")
  BY <1>5, <1>6, <1>7, AnswerSteps, Places DEF Good
<1>8. CASE Lost(h)
  BY <1>5, <1>8, LostSteps DEF Good
<1> QED BY <1>2, <1>7, <1>8

\* The sync.
LEMMA ReadPageSteps ==
    ASSUME NEW h \in Handler, Good(h), ReadPage(h)
    PROVE  Steps(h)
<1>1. /\ handler[h].at = "read" /\ h \notin open /\ open' = open
      /\ handler[h].cursor < LastRow
      /\ UNCHANGED <<operation, lease, tableVars>>
  BY DEF ReadPage, At
<1> DEFINE n == handler[h].cursor + 1
<1>2. /\ LastRow \in Nat /\ handler[h] \in HandlerRecord
      /\ handler[h].from \in Nat /\ handler[h].cursor \in Nat
  BY ServiceAssumption DEF Good, ServiceTypeOK, HandlerRecord
<1>3. /\ n \in 0..LastRow /\ n - 1 = handler[h].cursor /\ handler[h].from < n
      /\ handler[h].from <= n
  BY <1>1, <1>2 DEF Good, ReadGood
<1>4. handler' = [handler EXCEPT ![h] = [handler[h] EXCEPT !.at = "stage", !.cursor = n]]
  BY <1>2 DEF ReadPage, Good, ServiceTypeOK
<1> HIDE DEF n
<1>5. "stage" \in Place
  BY DEF Place, Transaction
<1>6. /\ [handler[h] EXCEPT !.at = "stage", !.cursor = n] \in HandlerRecord
      /\ [handler[h] EXCEPT !.at = "stage", !.cursor = n].effect = Of(h)
      /\ [handler[h] EXCEPT !.at = "stage", !.cursor = n].at = "stage"
      /\ [handler[h] EXCEPT !.at = "stage", !.cursor = n].from = handler[h].from
      /\ [handler[h] EXCEPT !.at = "stage", !.cursor = n].cursor = n
  BY <1>2, <1>3, <1>5 DEF HandlerRecord, Of
<1>7. handler' \in [Handler -> HandlerRecord]
  BY <1>4, <1>6 DEF Good, ServiceTypeOK
<1>8. \A g \in Handler \ {h} : handler'[g] = handler[g]
  BY <1>4 DEF Good, ServiceTypeOK
<1>9. /\ handler'[h].effect = Of(h) /\ handler'[h].at = "stage"
      /\ handler'[h].from = handler[h].from /\ handler'[h].cursor = n
  BY <1>4, <1>6 DEF Good, ServiceTypeOK
<1>10. Of(h)' = Of(h)
  BY <1>9 DEF Of
<1>11. Tables(h)
  BY <1>1, <1>10, TablesSame DEF Good
<1>12. UNCHANGED <<effect, sync, staged, mark, run>>
  BY <1>1 DEF tableVars, Good
<1>13. Working(h) /\ handler[h].at \in SyncPlace /\ handler[h].at \in ReadAll
  BY <1>1 DEF Working, SyncPlace, ReadAll
<1>14. PlaceGood(h)'
  BY <1>1, <1>9, <1>10, <1>12, <1>13
  DEF PlaceGood, Good, ForecastPlace
<1>15. Current(h)' => handler[h].from = mark'
  BY <1>1, <1>10, <1>12, <1>13 DEF Current, Good, ReadGood
<1>16. SyncRuns(h)' => staged'[Of(h)] = handler[h].from + 1 .. n - 1
  BY <1>3, <1>10, <1>12, <1>13 DEF SyncRuns, Good, ReadGood
<1>17. ReadGood(h)'
  BY <1>3, <1>9, <1>10, <1>15, <1>16 DEF ReadGood, ReadAll
<1> QED BY <1>1, <1>7, <1>8, <1>10, <1>11, <1>13, <1>14, <1>17
        DEF Steps, Good, ServiceTypeOK

LEMMA ReadSteps ==
    ASSUME NEW h \in Handler, Good(h), ReadEnds(h) \/ ReadFails(h)
    PROVE  Steps(h)
<1>1. /\ handler[h].at = "read" /\ h \notin open /\ open' = open
      /\ UNCHANGED <<operation, lease, tableVars>>
  BY DEF ReadEnds, ReadFails, At
<1>2. PICK place \in ReadAll \cup {"cleanup"} : Goes(h, place)
  BY DEF ReadEnds, ReadFails, ReadAll
<1>3. Moves(h, place, handler[h].says)
  BY <1>2, GoesMoves, Places DEF Good
<1>4. Of(h)' = Of(h)
  BY <1>3, MovesOf
<1>5. Tables(h)
  BY <1>1, <1>4, TablesSame DEF Good
<1>6. Acts(h)
  BY <1>1, <1>5 DEF Acts, Good
<1>7. UNCHANGED <<effect, sync, staged>>
  BY <1>1 DEF tableVars
<1>8. Working(h) /\ handler[h].at \in SyncPlace /\ handler[h].at \in ReadAll
  BY <1>1 DEF Working, SyncPlace, ReadAll
<1>9. operation[Of(h)] = SyncOp /\ effect'[Of(h)] # "none"
  BY <1>7, <1>8 DEF Good, PlaceGood
<1>10. SyncRuns(h)' => staged'[Of(h)] = handler[h].from + 1 .. handler[h].cursor
  BY <1>4, <1>7, <1>8 DEF SyncRuns, Good, ReadGood
<1> QED BY <1>3, <1>6, <1>8, <1>9, <1>10, SyncSteps DEF Good

LEMMA StageSteps ==
    ASSUME NEW h \in Handler, Good(h), StageChunk(h)
    PROVE  Steps(h)
<1>1. /\ handler[h].at = "stage" /\ h \in open /\ SyncRuns(h)
      /\ staged' = [staged EXCEPT ![Of(h)] = @ \cup {handler[h].cursor}]
      /\ UNCHANGED <<operation, lease, effect, item, sync, facts, mark>>
      /\ open' = open \ {h}
      /\ Goes(h, "read") \/ Doubts(h)
  BY DEF StageChunk, In, Commit
<1>2. Moves(h, "read", handler[h].says) \/ Lost(h)
  BY <1>1, GoesMoves, DoubtIsLost, Places DEF Good
<1>3. Of(h)' = Of(h)
  BY <1>2, MovesOf, LostOf
<1>4. Tables(h)
  BY <1>3, TablesStage DEF Good
<1>5. Acts(h)
  BY <1>1, <1>4 DEF Acts, Good
<1>6. Working(h) /\ handler[h].at \in SyncPlace
  BY <1>1 DEF Working, SyncPlace
<1>7. operation[Of(h)] = SyncOp /\ effect'[Of(h)] # "none"
  BY <1>1, <1>6 DEF Good, PlaceGood
<1>8. CASE Moves(h, "read", handler[h].says)
  <2>1. /\ handler[h].from \in Nat /\ handler[h].cursor \in Nat
        /\ handler[h].from < handler[h].cursor
        /\ staged[Of(h)] = handler[h].from + 1 .. handler[h].cursor - 1
    BY <1>1, ServiceAssumption DEF Good, ReadGood, ServiceTypeOK, HandlerRecord
  <2>2. staged'[Of(h)] = staged[Of(h)] \cup {handler[h].cursor}
    BY <1>1 DEF Good, ServiceTypeOK
  <2>3. staged'[Of(h)] = handler[h].from + 1 .. handler[h].cursor
    BY <2>1, <2>2, Adjoin
  <2>4. "read" \in ReadAll \cup {"cleanup"}
    BY DEF ReadAll
  <2> QED BY <1>5, <1>6, <1>7, <1>8, <2>3, <2>4, SyncSteps DEF Good
<1>9. CASE Lost(h)
  BY <1>5, <1>9, LostSteps DEF Good
<1> QED BY <1>2, <1>8, <1>9

LEMMA EndSteps ==
    ASSUME NEW h \in Handler, Good(h), Publish(h) \/ NoChange(h) \/ FailSync(h)
    PROVE  Steps(h)
<1>1. PICK result \in {"succeeded", "failed"} :
         /\ h \in open
         /\ effect' = [effect EXCEPT ![Of(h)] = result]
         /\ open' = open \ {h}
         /\ Says(h, result) \/ Doubts(h)
  BY DEF Publish, NoChange, FailSync, In, Commit, SyncEnds
<1>2. Moves(h, "answer", result) \/ Lost(h)
  BY <1>1, SaysMoves, DoubtIsLost, Places DEF Good
<1>3. Of(h)' = Of(h)
  BY <1>2, MovesOf, LostOf
<1>4. Tables(h)
  BY <1>3, TablesPublish, TablesEnd DEF Good
<1>5. Acts(h)
  BY <1>1, <1>4 DEF Acts, Good
<1>6. effect'[Of(h)] = result
  BY <1>1 DEF Good, ServiceTypeOK
<1>7. CASE Moves(h, "answer", result)
  BY <1>5, <1>6, <1>7, AnswerSteps, Places DEF Good
<1>8. CASE Lost(h)
  BY <1>5, <1>8, LostSteps DEF Good
<1> QED BY <1>2, <1>7, <1>8

\* The forecast.
LEMMA LookSteps ==
    ASSUME NEW h \in Handler, Good(h), VerifySnapshots(h) \/ ProductFails(h)
    PROVE  Steps(h)
<1>1. /\ handler[h].at \in ForecastPlace /\ h \notin open /\ open' = open
      /\ UNCHANGED <<operation, lease, tableVars>>
  BY DEF VerifySnapshots, ProductFails, At, ForecastPlace
<1>2. \/ \E place \in ForecastPlace : Goes(h, place)
      \/ \E result \in {"uncertain", "failed"} : Says(h, result)
  BY DEF VerifySnapshots, ProductFails, ForecastPlace
<1>3. Working(h)
  BY <1>1 DEF Working
<1>4. /\ operation[Of(h)] = ForecastOp /\ effect[Of(h)] # "none"
      /\ effect' = effect
  BY <1>1, <1>3 DEF Good, PlaceGood, tableVars
<1>5. ASSUME Of(h)' = Of(h) PROVE Acts(h)
  BY <1>1, <1>5, TablesSame DEF Acts, Good
<1>6. ASSUME NEW place \in ForecastPlace, Goes(h, place) PROVE Steps(h)
  <2>1. Moves(h, place, handler[h].says)
    BY <1>6, GoesMoves, Places DEF Good
  <2> QED BY <1>3, <1>4, <1>5, <2>1, MovesOf, ForecastSteps DEF Good
<1>7. ASSUME NEW result \in {"uncertain", "failed"}, Says(h, result) PROVE Steps(h)
  <2>1. Moves(h, "answer", result)
    BY <1>7, SaysMoves, Places DEF Good
  <2> QED BY <1>5, <2>1, MovesOf, AnswerSteps, Places DEF Good
<1> QED BY <1>2, <1>6, <1>7

LEMMA ItemSteps ==
    ASSUME NEW h \in Handler, Good(h), PersistProduct(h) \/ RecordFailedItem(h)
    PROVE  Steps(h)
<1>1. PICK p \in Product, result \in {"succeeded", "failed"} :
         /\ handler[h].at \in {"product", "item"} /\ h \in open
         /\ RecordItem(h, p, result)
  BY DEF PersistProduct, RecordFailedItem, In
<1>2. /\ open' = open \ {h} /\ effect' = effect
      /\ \/ \E place \in {"summary", "product"} : Goes(h, place)
         \/ Doubts(h)
  BY <1>1 DEF RecordItem, Commit
<1>3. {"summary", "product"} \subseteq ForecastPlace
  BY DEF ForecastPlace
<1>4. \/ \E place \in ForecastPlace : Moves(h, place, handler[h].says)
      \/ Lost(h)
  BY <1>2, <1>3, GoesMoves, DoubtIsLost, Places DEF Good
<1>5. Of(h)' = Of(h)
  BY <1>4, MovesOf, LostOf
<1>6. Tables(h)
  BY <1>1, <1>5, TablesItem DEF Good
<1>7. Acts(h)
  BY <1>2, <1>6 DEF Acts, Good
<1>8. Working(h) /\ handler[h].at \in ForecastPlace
  BY <1>1 DEF Working, ForecastPlace
<1>9. operation[Of(h)] = ForecastOp /\ effect'[Of(h)] # "none"
  BY <1>2, <1>8 DEF Good, PlaceGood
<1>10. CASE Lost(h)
  BY <1>7, <1>10, LostSteps DEF Good
<1> QED BY <1>4, <1>7, <1>8, <1>9, <1>10, ForecastSteps DEF Good

LEMMA CompleteSteps ==
    ASSUME NEW h \in Handler, Good(h), CompleteForecast(h)
    PROVE  Steps(h)
<1>1. /\ h \in open
      /\ effect' = [effect EXCEPT ![Of(h)] = "succeeded"]
      /\ open' = open \ {h}
      /\ Says(h, "succeeded") \/ Doubts(h)
  BY DEF CompleteForecast, In, Commit
<1>2. Moves(h, "answer", "succeeded") \/ Lost(h)
  BY <1>1, SaysMoves, DoubtIsLost, Places DEF Good
<1>3. Of(h)' = Of(h)
  BY <1>2, MovesOf, LostOf
<1>4. Tables(h)
  BY <1>3, TablesComplete DEF Good
<1>5. Acts(h)
  BY <1>1, <1>4 DEF Acts, Good
<1>6. effect'[Of(h)] = "succeeded"
  BY <1>1 DEF Good, ServiceTypeOK
<1>7. CASE Moves(h, "answer", "succeeded")
  BY <1>5, <1>6, <1>7, AnswerSteps, Places DEF Good
<1>8. CASE Lost(h)
  BY <1>5, <1>8, LostSteps DEF Good
<1> QED BY <1>2, <1>7, <1>8

LEMMA HandlerSteps ==
    ASSUME NEW h \in Handler, Good(h), HandlerStep(h)
    PROVE  Steps(h)
<1>1. CASE Open(h) \/ LeaseLost(h) \/ RollBack(h) \/ SyncConflict(h)
  BY <1>1, OpenSteps, DoubtSteps
<1>2. CASE Arrived(h) \/ Repeated(h)
  BY <1>2, ArrivedSteps, RepeatedSteps
<1>3. CASE BeginSync(h) \/ BeginForecast(h) \/ PersistSnapshot(h)
  BY <1>3, BeginSyncSteps, BeginForecastSteps, PersistSnapshotSteps
<1>4. CASE ReadPage(h) \/ ReadEnds(h) \/ ReadFails(h) \/ StageChunk(h)
  BY <1>4, ReadPageSteps, ReadSteps, StageSteps
<1>5. CASE Publish(h) \/ NoChange(h) \/ FailSync(h)
  BY <1>5, EndSteps
<1>6. CASE VerifySnapshots(h) \/ ProductFails(h)
  BY <1>6, LookSteps
<1>7. CASE PersistProduct(h) \/ RecordFailedItem(h) \/ CompleteForecast(h)
  BY <1>7, ItemSteps, CompleteSteps
<1> QED BY <1>1, <1>2, <1>3, <1>4, <1>5, <1>6, <1>7 DEF HandlerStep

LEMMA ActorIsGood ==
    ASSUME ServiceInv, NEW h \in Handler, HandlerStep(h), UNCHANGED run
    PROVE  Good(h)
<1>1. PlaceGood(h) /\ ReadGood(h) /\ ServiceTypeOK /\ facts = 1..mark
  BY DEF ServiceInv
<1>2. handler[h].at # "idle"
  <2>1. CASE h \in open
    BY <1>1, <2>1, Places DEF PlaceGood
  <2>2. CASE h \notin open
    <3>1. \/ Open(h) \/ LeaseLost(h) \/ Arrived(h)
          \/ ReadPage(h) \/ ReadEnds(h) \/ ReadFails(h)
          \/ VerifySnapshots(h) \/ ProductFails(h)
      BY <2>2
      DEF HandlerStep, RollBack, BeginSync, BeginForecast, PersistSnapshot, Repeated,
          StageChunk, Publish, NoChange, FailSync, SyncConflict, PersistProduct,
          RecordFailedItem, CompleteForecast, In
    <3> QED BY <3>1, Places
            DEF Open, LeaseLost, Arrived, ReadPage, ReadEnds, ReadFails,
                VerifySnapshots, ProductFails, At
  <2> QED BY <2>1, <2>2
<1>3. Of(h) \in Effect
  BY <1>1, <1>2, HasEffect
<1> QED BY <1>1, <1>2, <1>3 DEF Good, ServiceInv

----
(* The invariant of the service. *)

\* Two syncs of one run are one.
LEMMA OneSync ==
    ASSUME ServiceTypeOK, NEW d \in Effect, NEW e \in Effect,
           operation[d] = SyncOp, operation[e] = SyncOp, RunOf[d] = RunOf[e]
    PROVE  d = e
  BY OneSyncAssumption DEF ServiceTypeOK

\* An effect that has begun stays begun, one that has ended stays as it is.
LEMMA EffectsGoOn ==
    ASSUME ServiceTypeOK, NEW h \in Handler, Tables(h), NEW d \in Effect
    PROVE  /\ effect[d] # "none" => effect'[d] # "none"
           /\ effect[d] \in Terminal => effect'[d] = effect[d]
           /\ effect'[d] \in {"none", "running"} => effect[d] \in {"none", "running"}
<1>1. /\ effect[d] # "none" => effect'[d] # "none"
      /\ effect[d] \in Terminal => effect'[d] = effect[d]
  BY DEF Tables, Apart
<1>2. effect[d] \in {"none", "running"} \cup Terminal
  BY DEF ServiceTypeOK, EffectStatus, Terminal
<1> QED BY <1>1, <1>2 DEF Terminal

LEMMA StepKeepsService ==
    ASSUME ServiceInv, NEW h \in Handler, Of(h) \in Effect, Steps(h)
    PROVE  ServiceInv'
<1>1. ServiceTypeOK /\ \A g \in Handler : PlaceGood(g) /\ ReadGood(g)
  BY DEF ServiceInv
<1>2. Tables(h) /\ UNCHANGED <<operation, lease, run>> /\ Of(h)' = Of(h)
  BY DEF Steps, Tables
<1>3. ServiceTypeOK'
  BY <1>1, <1>2 DEF Steps, Tables, TableTypes, ServiceTypeOK
<1>4. ASSUME NEW g \in Handler, g # h
      PROVE  /\ handler'[g] = handler[g] /\ Of(g)' = Of(g)
             /\ g \in open' <=> g \in open
             /\ Working(g)' <=> Working(g)
  BY <1>4 DEF Steps, Of, Working
<1>5. ASSUME NEW g \in Handler, g # h, Working(g)
      PROVE  /\ effect'[Of(g)] = effect[Of(g)] /\ sync'[Of(g)] = sync[Of(g)]
             /\ staged'[Of(g)] = staged[Of(g)] /\ item'[Of(g)] = item[Of(g)]
  <2>1. Of(g) \in Effect /\ effect[Of(g)] # "none"
    BY <1>1, <1>5, HasEffect
    DEF PlaceGood, Working, SyncPlace, ForecastPlace, ReadAll
  <2>2. CASE Of(g) # Of(h)
    BY <1>2, <2>1, <2>2 DEF Tables, Apart
  <2>3. CASE Of(g) = Of(h)
    <3>1. ~Working(h)
      BY <1>5, <2>3 DEF ServiceInv, OneHandlerEach
    <3> QED BY <1>2, <2>1, <2>3, <3>1 DEF Tables, tableVars
  <2> QED BY <2>2, <2>3
<1>6. ASSUME NEW g \in Handler, g # h PROVE PlaceGood(g)'
  <2>1. PlaceGood(g)
    BY <1>1
  <2>2. handler[g].at # "idle" => Of(g) \in Effect
    BY <2>1 DEF PlaceGood
  <2>3. Of(g) \in Effect =>
          /\ effect[Of(g)] # "none" => effect'[Of(g)] # "none"
          /\ effect[Of(g)] = "succeeded" => effect'[Of(g)] = "succeeded"
    BY <1>1, <1>2, EffectsGoOn DEF Terminal
  <2>4. Working(g) => handler[g].at # "idle"
    BY DEF Working, SyncPlace, ForecastPlace, ReadAll
  <2> QED BY <1>2, <1>4, <1>6, <2>1, <2>2, <2>3, <2>4 DEF PlaceGood
<1>7. ASSUME NEW g \in Handler, g # h PROVE ReadGood(g)'
  <2>1. ReadGood(g) /\ PlaceGood(g)
    BY <1>1
  <2>2. handler'[g] = handler[g] /\ Of(g)' = Of(g)
    BY <1>4, <1>7
  <2>3. ASSUME handler[g].at \in ReadAll \cup {"stage"}
        PROVE  (SyncRuns(g)' => SyncRuns(g)) /\ staged'[Of(g)] = staged[Of(g)]
    <3>1. Working(g)
      BY <2>3 DEF Working, SyncPlace
    <3> QED BY <1>5, <1>7, <2>2, <3>1 DEF SyncRuns
  <2>4. ASSUME Current(g)' PROVE handler[g].from = mark'
    <3>1. /\ handler[g].at \in {"begin"} \cup SyncPlace
          /\ operation[Of(g)] = SyncOp
          /\ RunOf[Of(g)] = lease.holder
          /\ effect'[Of(g)] \in {"none", "running"}
      BY <1>2, <2>2, <2>4 DEF Current
    <3>2. handler[g].at # "idle"
      BY <3>1 DEF SyncPlace, ReadAll
    <3>3. Of(g) \in Effect
      BY <2>1, <3>2 DEF PlaceGood
    <3>4. Current(g)
      BY <1>1, <1>2, <3>1, <3>3, EffectsGoOn DEF Current
    <3>5. handler[g].from = mark
      BY <2>1, <3>4 DEF ReadGood
    <3>6. ASSUME Publishes(h) PROVE FALSE
      <4>1. /\ operation[Of(h)] = SyncOp /\ effect'[Of(h)] = "succeeded"
            /\ RunOf[Of(h)] = lease.holder
        BY <1>1, <3>6 DEF Publishes, PlaceGood
      <4>2. Of(g) = Of(h)
        BY <1>1, <3>1, <3>3, <4>1, OneSync
      <4> QED BY <3>1, <4>1, <4>2
    <3> QED BY <1>2, <3>5, <3>6 DEF Tables
  <2> QED BY <2>1, <2>2, <2>3, <2>4 DEF ReadGood
<1>8. \A g \in Handler : PlaceGood(g)' /\ ReadGood(g)'
  BY <1>6, <1>7 DEF Steps
<1>9. OneHandlerEach'
  <2> SUFFICES ASSUME NEW g \in Handler, NEW k \in Handler,
                      Working(g)', Working(k)', Of(g)' = Of(k)'
               PROVE  g = k
    BY DEF OneHandlerEach
  <2>1. CASE g # h /\ k # h
    BY <1>4, <2>1 DEF ServiceInv, OneHandlerEach
  <2>2. ASSUME NEW i \in Handler, i # h, Working(i)', Working(h)', Of(i)' = Of(h)'
        PROVE  FALSE
    <3>1. Working(i) /\ Of(i) = Of(h)
      BY <1>2, <1>4, <2>2
    <3>2. effect[Of(h)] # "none"
      BY <1>1, <3>1 DEF PlaceGood
    <3>3. Working(h)
      BY <2>2, <3>2 DEF Steps
    <3> QED BY <2>2, <3>1, <3>3 DEF ServiceInv, OneHandlerEach
  <2>3. CASE g = h /\ k # h
    BY <2>2, <2>3
  <2>4. CASE g # h /\ k = h
    BY <2>2, <2>4
  <2> QED BY <2>1, <2>3, <2>4
<1>10. ASSUME NEW e \in Effect PROVE StagedGood(e)'
  <2>1. CASE e = Of(h)
    BY <1>2, <2>1 DEF Tables, StagedGood
  <2>2. CASE e # Of(h)
    <3>1. /\ effect'[e] = effect[e] /\ sync'[e] = sync[e] /\ staged'[e] = staged[e]
      BY <1>2, <2>2 DEF Tables, Apart
    <3>2. StagedGood(e)
      BY DEF ServiceInv
    <3> QED BY <1>2, <3>1, <3>2 DEF StagedGood
  <2> QED BY <2>1, <2>2
<1>11. (facts = 1..mark)'
  BY <1>2 DEF Tables, Publishes, ServiceInv
<1> QED BY <1>3, <1>8, <1>9, <1>10, <1>11 DEF ServiceInv

\* Runs that have begun do not go back.
RunsGoOn == \A q \in Run : run[q] # "none" => run'[q] # "none"

\* The lease passes to nobody, or to one who has no handler.
LEMMA LeaseKeepsService ==
    ASSUME ServiceInv, RunsGoOn, UNCHANGED <<operation, tableVars, handler, open>>,
           lease' \in [holder : Run \cup {None, Outsider}, live : BOOLEAN],
           \/ lease'.holder = lease.holder
           \/ /\ open = {}
              /\ \A h \in Handler : handler[h].at # "idle" => RunOf[Of(h)] # lease'.holder
    PROVE  ServiceInv'
<1>1. UNCHANGED <<operation, effect, item, sync, staged, facts, mark, handler, open>>
  BY DEF tableVars
<1>2. ServiceTypeOK'
  BY <1>1 DEF ServiceInv, ServiceTypeOK
<1>3. ASSUME NEW h \in Handler PROVE PlaceGood(h)' /\ ReadGood(h)'
  <2>1. PlaceGood(h) /\ ReadGood(h)
    BY DEF ServiceInv
  <2>2. Of(h)' = Of(h)
    BY <1>1 DEF Of
  <2>3. handler[h].at # "idle" => Of(h) \in Effect /\ run'[RunOf[Of(h)]] # "none"
    BY <2>1, ServiceAssumption DEF PlaceGood, RunsGoOn
  <2>4. h \in open => RunOf[Of(h)] = lease'.holder
    BY <2>1 DEF PlaceGood
  <2>5. PlaceGood(h)'
    BY <1>1, <2>1, <2>2, <2>3, <2>4 DEF PlaceGood, Working
  <2>6. Current(h)' => Current(h)
    <3>1. SUFFICES ASSUME Current(h)' PROVE lease'.holder = lease.holder
      BY <1>1, <2>2 DEF Current
    <3>2. handler[h].at # "idle" /\ RunOf[Of(h)] = lease'.holder
      BY <1>1, <2>2, <3>1 DEF Current, SyncPlace, ReadAll
    <3> QED BY <3>2
  <2>7. ReadGood(h)'
    BY <1>1, <2>1, <2>2, <2>6 DEF ReadGood, SyncRuns
  <2> QED BY <2>5, <2>7
<1>4. OneHandlerEach'
  BY <1>1 DEF ServiceInv, OneHandlerEach, Working, Of
<1>5. \A e \in Effect : StagedGood(e)'
  BY <1>1 DEF ServiceInv, StagedGood
<1> QED BY <1>1, <1>2, <1>3, <1>4, <1>5 DEF ServiceInv

\* A handler begins, or is done.
LEMMA HandlerKeepsService ==
    ASSUME ServiceInv, RunsGoOn, NEW h \in Handler, h \notin open,
           NEW s \in HandlerRecord, s.at \in {"idle", "arrived"}, s.from = 0, s.cursor = 0,
           s.at = "arrived" => s.effect \in Effect /\ run'[RunOf[s.effect]] # "none",
           handler' = [handler EXCEPT ![h] = s],
           UNCHANGED <<operation, lease, tableVars, open>>
    PROVE  ServiceInv'
<1>1. UNCHANGED <<operation, lease, effect, item, sync, staged, facts, mark, open>>
  BY DEF tableVars
<1>2. /\ handler \in [Handler -> HandlerRecord]
      /\ handler' \in [Handler -> HandlerRecord]
      /\ handler'[h] = s
      /\ \A g \in Handler \ {h} : handler'[g] = handler[g]
  BY DEF ServiceInv, ServiceTypeOK
<1>3. ServiceTypeOK'
  BY <1>1, <1>2 DEF ServiceInv, ServiceTypeOK
<1>4. ~Working(h)'
  BY <1>2 DEF Working, SyncPlace, ForecastPlace, ReadAll
<1>5. PlaceGood(h)' /\ ReadGood(h)'
  <2>1. Of(h)' = s.effect
    BY <1>2 DEF Of
  <2>2. PlaceGood(h)'
    BY <1>1, <1>2, <1>4, <2>1 DEF PlaceGood, SyncPlace, ForecastPlace, ReadAll
  <2>3. ReadGood(h)'
    BY <1>2, 0 <= 0 DEF ReadGood, Current, SyncPlace, ReadAll
  <2> QED BY <2>2, <2>3
<1>6. ASSUME NEW g \in Handler, g # h PROVE PlaceGood(g)' /\ ReadGood(g)'
  <2>1. PlaceGood(g) /\ ReadGood(g)
    BY DEF ServiceInv
  <2>2. handler'[g] = handler[g] /\ Of(g)' = Of(g)
    BY <1>2, <1>6 DEF Of
  <2>3. handler[g].at # "idle" => Of(g) \in Effect /\ run'[RunOf[Of(g)]] # "none"
    BY <2>1, ServiceAssumption DEF PlaceGood, RunsGoOn
  <2>4. PlaceGood(g)'
    BY <1>1, <2>1, <2>2, <2>3 DEF PlaceGood, Working
  <2>5. ReadGood(g)'
    BY <1>1, <2>1, <2>2 DEF ReadGood, SyncRuns, Current
  <2> QED BY <2>4, <2>5
<1>7. OneHandlerEach'
  BY <1>2, <1>4 DEF ServiceInv, OneHandlerEach, Working, Of
<1>8. \A e \in Effect : StagedGood(e)'
  BY <1>1 DEF ServiceInv, StagedGood
<1> QED BY <1>1, <1>3, <1>5, <1>6, <1>7, <1>8 DEF ServiceInv

LEMMA RestartKeepsService ==
    ASSUME ServiceInv, RunsGoOn, ServiceRestart
    PROVE  ServiceInv'
<1>1. /\ handler' = [h \in Handler |-> IdleHandler] /\ open' = {}
      /\ UNCHANGED <<operation, lease, effect, item, sync, staged, facts, mark>>
  BY DEF ServiceRestart, tableVars
<1>2. IdleHandler \in HandlerRecord /\ IdleHandler.at = "idle"
  BY ServiceAssumption DEF IdleHandler, HandlerRecord, Place, ServiceInv
<1>3. ServiceTypeOK'
  BY <1>1, <1>2 DEF ServiceInv, ServiceTypeOK
<1>4. ASSUME NEW h \in Handler
      PROVE  /\ handler'[h].at = "idle" /\ handler'[h].from = 0 /\ handler'[h].cursor = 0
             /\ ~Working(h)'
  BY <1>1 DEF IdleHandler, Working, SyncPlace, ForecastPlace, ReadAll
<1>5. \A h \in Handler : PlaceGood(h)' /\ ReadGood(h)'
  BY <1>1, <1>4, 0 <= 0 DEF PlaceGood, ReadGood, Current, SyncPlace, ForecastPlace, ReadAll
<1>6. OneHandlerEach'
  BY <1>4 DEF OneHandlerEach
<1>7. \A e \in Effect : StagedGood(e)'
  BY <1>1 DEF ServiceInv, StagedGood
<1> QED BY <1>1, <1>3, <1>5, <1>6, <1>7 DEF ServiceInv

\* What a reconciliation does to the tables.
LEMMA ReconciledTables ==
    ASSUME ServiceInv, NEW e \in Effect, ReconcileInventoryEffect(e)
    PROVE  /\ effect' \in [Effect -> EffectStatus]
           /\ sync' \in [Effect -> {"none", "running", "succeeded", "failed"}]
           /\ staged' \in [Effect -> SUBSET Row]
           /\ UNCHANGED <<operation, lease, item, facts, mark, handler, open>>
           /\ open = {}
           /\ \A d \in Effect \ {e} :
                 effect'[d] = effect[d] /\ sync'[d] = sync[d] /\ staged'[d] = staged[d]
           /\ \/ UNCHANGED <<effect, sync, staged>>
              \/ effect[e] = "running" /\ effect'[e] \in Terminal
           /\ StagedGood(e)'
<1>1. /\ UNCHANGED <<operation, lease, item, facts, mark, handler, open>>
      /\ open = {}
  BY DEF ReconcileInventoryEffect, NoActiveOwner
<1>2. CASE effect[e] = "running" /\ ReconcileSync(e)
  <2>1. /\ sync' = [sync EXCEPT ![e] = "failed"]
        /\ staged' = [staged EXCEPT ![e] = {}]
        /\ effect' = [effect EXCEPT ![e] = "reconciled"]
    BY <1>2 DEF ReconcileSync
  <2> QED BY <1>1, <1>2, <2>1
          DEF ServiceInv, ServiceTypeOK, EffectStatus, Terminal, StagedGood
<1>3. CASE effect[e] = "running" /\ ReconcileForecast(e)
  <2>1. PICK status \in {"succeeded", "reconciled"} :
           effect' = [effect EXCEPT ![e] = status]
    BY <1>3 DEF ReconcileForecast
  <2>2. operation[e] # SyncOp /\ UNCHANGED <<sync, staged>>
    BY <1>3 DEF ReconcileForecast, SyncOp, ForecastOp
  <2>3. staged'[e] = {}
    BY <2>2 DEF ServiceInv, StagedGood
  <2> QED BY <1>1, <1>3, <2>1, <2>2, <2>3
          DEF ServiceInv, ServiceTypeOK, EffectStatus, Terminal, StagedGood
<1>4. CASE effect[e] # "running"
  <2>1. UNCHANGED <<effect, sync, staged>>
    BY <1>4 DEF ReconcileInventoryEffect
  <2> QED BY <1>1, <2>1 DEF ServiceInv, ServiceTypeOK, StagedGood
<1> QED BY <1>2, <1>3, <1>4 DEF ReconcileInventoryEffect

LEMMA ReconcileKeepsService ==
    ASSUME ServiceInv, NEW e \in Effect, ReconcileInventoryEffect(e), UNCHANGED run
    PROVE  ServiceInv'
<1>1. /\ effect' \in [Effect -> EffectStatus]
      /\ sync' \in [Effect -> {"none", "running", "succeeded", "failed"}]
      /\ staged' \in [Effect -> SUBSET Row]
      /\ UNCHANGED <<operation, lease, item, facts, mark, handler, open>>
      /\ open = {}
      /\ \A d \in Effect \ {e} :
            effect'[d] = effect[d] /\ sync'[d] = sync[d] /\ staged'[d] = staged[d]
      /\ \/ UNCHANGED <<effect, sync, staged>>
         \/ effect[e] = "running" /\ effect'[e] \in Terminal
      /\ StagedGood(e)'
  BY ReconciledTables
<1>2. ServiceTypeOK'
  BY <1>1 DEF ServiceInv, ServiceTypeOK
<1>3. \A d \in Effect : /\ effect[d] # "none" => effect'[d] # "none"
                        /\ effect[d] = "succeeded" => effect'[d] = "succeeded"
                        /\ effect'[d] \in {"none", "running"} =>
                              /\ effect'[d] = effect[d]
                              /\ sync'[d] = sync[d] /\ staged'[d] = staged[d]
  BY <1>1 DEF Terminal
<1>4. ASSUME NEW h \in Handler PROVE PlaceGood(h)' /\ ReadGood(h)'
  <2>1. PlaceGood(h) /\ ReadGood(h)
    BY DEF ServiceInv
  <2>2. handler'[h] = handler[h] /\ Of(h)' = Of(h) /\ (Working(h)' <=> Working(h))
    BY <1>1 DEF Of, Working
  <2>3. CASE handler[h].at = "idle"
    <3>1. ~Working(h)
      BY <2>3 DEF Working, SyncPlace, ForecastPlace, ReadAll
    <3> QED BY <1>1, <2>1, <2>2, <2>3, <3>1
            DEF PlaceGood, ReadGood, Current, SyncPlace, ForecastPlace, ReadAll
  <2>4. CASE handler[h].at # "idle"
    <3>1. Of(h) \in Effect
      BY <2>1, <2>4 DEF PlaceGood
    <3>2. PlaceGood(h)'
      BY <1>1, <1>3, <2>1, <2>2, <3>1 DEF PlaceGood
    <3>3. SyncRuns(h)' => SyncRuns(h) /\ staged'[Of(h)] = staged[Of(h)]
      BY <1>3, <2>2, <3>1 DEF SyncRuns
    <3>4. Current(h)' => Current(h)
      BY <1>1, <1>3, <2>2, <3>1 DEF Current
    <3>5. ReadGood(h)'
      BY <1>1, <2>1, <2>2, <3>3, <3>4 DEF ReadGood
    <3> QED BY <3>2, <3>5
  <2> QED BY <2>3, <2>4
<1>5. OneHandlerEach'
  BY <1>1 DEF ServiceInv, OneHandlerEach, Working, Of
<1>6. ASSUME NEW d \in Effect PROVE StagedGood(d)'
  BY <1>1 DEF ServiceInv, StagedGood
<1> QED BY <1>1, <1>2, <1>4, <1>5, <1>6 DEF ServiceInv

----
(* What Core relies on: while the service works, what is dead stays dead, and what *)
(* succeeded stays so.                                                             *)

Calm ==
    /\ operation' = operation
    /\ \A r \in Run : Dead(r) => Dead(r)' /\ Report(r)' = Report(r)
    /\ \A e \in Effect : effect[e] = "succeeded" => effect'[e] = "succeeded"

LEMMA SameReport ==
    ASSUME NEW r \in Run, operation' = operation,
           \A e \in Effect : RunOf[e] = r => effect'[e] = effect[e] /\ item'[e] = item[e]
    PROVE  Report(r)' = Report(r)
<1>1. Writes(r)' = Writes(r)
  BY DEF Writes
<1>2. \A e \in Writes(r) : effect'[e] = effect[e] /\ item'[e] = item[e]
  BY DEF Writes
<1> QED BY <1>1, <1>2 DEF Report

\* Only the holder of a live lease opens a transaction.
LEMMA Opens ==
    ASSUME NEW h \in Handler, HandlerStep(h)
    PROVE  h \in open' => h \in open \/ Fenced(h)
<1>1. CASE Open(h)
  BY <1>1 DEF Open
<1>2. CASE ~Open(h)
  <2>1. open' = open \ {h} \/ open' = open
    BY <1>2
    DEF HandlerStep, LeaseLost, RollBack, Arrived, BeginSync, BeginForecast,
        PersistSnapshot, Repeated, ReadPage, ReadEnds, ReadFails, StageChunk, Publish,
        NoChange, FailSync, SyncConflict, VerifySnapshots, ProductFails, PersistProduct,
        RecordFailedItem, RecordItem, CompleteForecast, Commit
  <2> QED BY <2>1
<1> QED BY <1>1, <1>2

LEMMA HandlerIsCalm ==
    ASSUME ServiceInv, NEW h \in Handler, Of(h) \in Effect, Steps(h), HandlerStep(h)
    PROVE  Calm
<1>1. /\ Tables(h) /\ UNCHANGED <<operation, lease, run>> /\ Of(h)' = Of(h)
      /\ open' \subseteq Handler /\ ServiceTypeOK
  BY DEF Steps, Tables, ServiceInv
<1>2. \A e \in Effect : effect[e] = "succeeded" => effect'[e] = "succeeded"
  BY <1>1, EffectsGoOn DEF Terminal
<1>3. ASSUME NEW r \in Run, Dead(r) PROVE Dead(r)'
  <2>1. ASSUME NEW g \in open' PROVE RunOf[Of(g)'] # r
    <3>1. CASE g # h
      <4>1. g \in open /\ Of(g)' = Of(g)
        BY <1>1, <2>1, <3>1 DEF Steps, Of
      <4> QED BY <1>3, <4>1 DEF Dead
    <3>2. CASE g = h
      <4>1. h \in open \/ Fenced(h)
        BY <2>1, <3>2, Opens
      <4> QED BY <1>1, <1>3, <3>2, <4>1 DEF Dead, Fenced
    <3> QED BY <3>1, <3>2
  <2> QED BY <1>1, <1>3, <2>1 DEF Dead
<1>4. ASSUME NEW r \in Run, Dead(r) PROVE Report(r)' = Report(r)
  <2>1. ASSUME NEW e \in Effect, RunOf[e] = r
        PROVE  effect'[e] = effect[e] /\ item'[e] = item[e]
    <3>1. CASE e # Of(h)
      BY <1>1, <3>1 DEF Tables, Apart
    <3>2. CASE e = Of(h)
      <4>1. h \notin open
        BY <1>4, <2>1, <3>2 DEF Dead
      <4> QED BY <1>1, <4>1 DEF Tables, tableVars
    <3> QED BY <3>1, <3>2
  <2> QED BY <1>1, <2>1, SameReport
<1> QED BY <1>1, <1>2, <1>3, <1>4 DEF Calm

\* No step but a handler's opens a transaction, and the lease goes to runs that begin.
LEMMA RestIsCalm ==
    ASSUME RunsGoOn, UNCHANGED <<operation, effect, item>>,
           \A g \in open' : g \in open /\ Of(g)' = Of(g),
           \A r \in Run : lease'.live /\ lease'.holder = r =>
               run[r] = "none" \/ (lease.live /\ lease.holder = r)
    PROVE  Calm
<1>1. ASSUME NEW r \in Run, Dead(r) PROVE Dead(r)'
  <2>1. \A g \in open' : RunOf[Of(g)'] # r
    BY <1>1 DEF Dead
  <2>2. run'[r] # "none"
    BY <1>1 DEF Dead, RunsGoOn
  <2>3. ~(lease'.live /\ lease'.holder = r)
    BY <1>1 DEF Dead
  <2> QED BY <2>1, <2>2, <2>3 DEF Dead
<1>2. \A r \in Run : Report(r)' = Report(r)
  BY SameReport
<1> QED BY <1>1, <1>2 DEF Calm

\* Nobody writes for a run once its lease is over and no transaction is open.
LEMMA NobodyWrites ==
    ASSUME NoActiveOwner, NEW r \in Run, run[r] # "none"
    PROVE  Dead(r)
  BY DEF NoActiveOwner, Dead

----
(* The invariant of Core. *)

LEMMA NoRequestType ==
    NoRequest \in RequestRecord /\ NoRequest.at = "idle"
  BY DEF NoRequest, RequestRecord

\* A step that gives the operator's request no new report.
LEMMA CoreKept ==
    ASSUME IInv, Calm, RunsGoOn, UNCHANGED <<token, audit>>,
           operator' = operator \/ operator' = NoRequest,
           crashes' \in 0..MaxCrashes[operation],
           waiting' \in Handler \cup {None},
           run' \in [Run -> {"none", "running", "ended", "uncertain"}],
           record' \in [Run -> {"none", "bound", "reconciliation", "released"}],
           told' \in [Effect -> Result \cup {"none"}],
           \A r \in Run : record'[r] # record[r] =>
               record[r] \in {"none", "bound"} /\ run'[r] # "none",
           \A e \in Effect : told'[e] = "succeeded" =>
               told[e] = "succeeded" \/ effect[e] = "succeeded"
    PROVE  CoreInv'
<1>1. CoreTypeOK /\ OperatorGood /\ ToldGood /\ \A r \in Run : RunGood(r)
  BY DEF IInv, CoreInv
<1>2. operation' = operation /\ UNCHANGED <<token, audit>>
  BY DEF Calm
<1>3. CoreTypeOK'
  BY <1>1, <1>2, NoRequestType DEF CoreTypeOK
<1>4. ASSUME NEW r \in Run PROVE RunGood(r)'
  <2>1. RunGood(r)
    BY <1>1
  <2>2. record'[r] # "none" => run'[r] # "none"
    BY <2>1 DEF RunGood, RunsGoOn
  <2>3. CASE audit[r] = None
    BY <1>2, <2>2, <2>3 DEF RunGood
  <2>4. CASE audit[r] # None
    <3>1. record'[r] = "released" /\ Dead(r)' /\ Report(r)' = Report(r)
      BY <2>1, <2>4 DEF RunGood, Calm
    <3> QED BY <1>2, <2>1, <2>2, <2>4, <3>1 DEF RunGood
  <2> QED BY <2>3, <2>4
<1>5. OperatorGood'
  <2>1. CASE operator' = NoRequest
    BY <2>1, NoRequestType DEF OperatorGood
  <2>2. CASE operator' = operator /\ operator.at = "idle"
    BY <2>2 DEF OperatorGood
  <2>3. CASE operator' = operator /\ operator.at # "idle"
    <3>1. operator.run \in Run /\ record'[operator.run] = "reconciliation"
      BY <1>1, <2>3 DEF OperatorGood
    <3>2. Writes(operator.run)' = Writes(operator.run)
      BY <1>2, <2>3 DEF Writes
    <3>3. operator.at \in {"reconcile", "final"} => Dead(operator.run)'
      BY <1>1, <2>3, <3>1 DEF OperatorGood, Calm
    <3>4. operator.at = "final" => operator.report = Report(operator.run)'
      BY <1>1, <2>3, <3>1 DEF OperatorGood, Calm
    <3> QED BY <1>1, <2>3, <3>1, <3>2, <3>3, <3>4 DEF OperatorGood
  <2> QED BY <2>1, <2>2, <2>3
<1>6. ToldGood'
  BY <1>1 DEF ToldGood, Calm
<1> QED BY <1>3, <1>4, <1>5, <1>6 DEF CoreInv

\* What the engine hears of an invocation ends no doubt and brings no run back.
LEMMA HearsFacts ==
    ASSUME IInv, NEW e, NEW result \in Result, Hears(e, result)
    PROVE  /\ RunsGoOn
           /\ UNCHANGED <<operator, token, audit, crashes>> /\ waiting' = None
           /\ run' \in [Run -> {"none", "running", "ended", "uncertain"}]
           /\ record' \in [Run -> {"none", "bound", "reconciliation", "released"}]
           /\ told' \in [Effect -> Result \cup {"none"}]
           /\ \A r \in Run : record'[r] # record[r] => record[r] = "bound" /\ run'[r] # "none"
           /\ \A d \in Effect : told'[d] = "succeeded" =>
                 told[d] = "succeeded" \/ (d = e /\ result = "succeeded")
<1>1. CoreTypeOK /\ \A r \in Run : RunGood(r)
  BY DEF IInv, CoreInv
<1>2. /\ UNCHANGED <<operator, token, audit, crashes>> /\ waiting' = None
      /\ told' = told \/ told' = [told EXCEPT ![e] = result]
      /\ \/ record' = record
         \/ record[RunOf[e]] = "bound"
               /\ record' = [record EXCEPT ![RunOf[e]] = "reconciliation"]
      /\ run' = run \/ run' = [run EXCEPT ![RunOf[e]] = "uncertain"]
  BY DEF Hears
<1>3. run' \in [Run -> {"none", "running", "ended", "uncertain"}] /\ RunsGoOn
  BY <1>1, <1>2 DEF CoreTypeOK, RunsGoOn
<1>4. record' \in [Run -> {"none", "bound", "reconciliation", "released"}]
  BY <1>1, <1>2 DEF CoreTypeOK
<1>5. told' \in [Effect -> Result \cup {"none"}]
  BY <1>1, <1>2 DEF CoreTypeOK
<1>6. ASSUME NEW r \in Run, record'[r] # record[r]
      PROVE  record[r] = "bound" /\ run'[r] # "none"
  <2>1. record[r] = "bound"
    BY <1>1, <1>2, <1>6 DEF CoreTypeOK
  <2> QED BY <1>1, <1>3, <2>1 DEF RunGood, RunsGoOn
<1>7. \A d \in Effect : told'[d] = "succeeded" =>
         told[d] = "succeeded" \/ (d = e /\ result = "succeeded")
  BY <1>1, <1>2 DEF CoreTypeOK
<1> QED BY <1>2, <1>3, <1>4, <1>5, <1>6, <1>7

LEMMA QuietService ==
    ASSUME IInv, UNCHANGED serviceVars, RunsGoOn
    PROVE  ServiceInv' /\ Calm
<1>1. UNCHANGED <<operation, lease, tableVars, effect, item, handler, open>>
  BY DEF serviceVars, tableVars
<1>2. ServiceInv /\ lease \in [holder : Run \cup {None, Outsider}, live : BOOLEAN]
  BY DEF IInv, ServiceInv, ServiceTypeOK
<1>3. ServiceInv'
  BY <1>1, <1>2, LeaseKeepsService
<1>4. Calm
  BY <1>1, RestIsCalm DEF Of
<1> QED BY <1>3, <1>4

\* A handler that is not in a transaction begins or ends.
LEMMA HandlerOutside ==
    ASSUME NEW h \in Handler, ServiceTypeOK, PlaceGood(h), RunsGoOn,
           handler[h].at \notin Transaction, NEW s, handler' = [handler EXCEPT ![h] = s],
           UNCHANGED <<operation, lease, tableVars, open>>
    PROVE  h \notin open /\ Calm
<1>1. h \notin open
  BY DEF PlaceGood
<1>2. \A g \in open' : g \in open /\ Of(g)' = Of(g)
  BY <1>1 DEF ServiceTypeOK, Of
<1>3. Calm
  BY <1>2, RestIsCalm DEF tableVars
<1> QED BY <1>1, <1>3

----
(* The steps. *)

LEMMA CoreFacts ==
    ASSUME IInv
    PROVE  /\ ServiceInv /\ CoreInv /\ CoreTypeOK /\ ServiceTypeOK
           /\ \A r \in Run : RunGood(r)
           /\ \A r \in Run : record[r] # "none" => run[r] # "none"
           /\ \A h \in Handler : PlaceGood(h)
  BY DEF IInv, CoreInv, ServiceInv, RunGood

LEMMA StartStep ==
    ASSUME IInv, NEW r \in Run, StartRun(r)
    PROVE  IInv'
<1>1. /\ run[r] = "none" /\ ~lease.live /\ open = {}
      /\ lease' = [holder |-> r, live |-> TRUE]
      /\ run' = [run EXCEPT ![r] = "running"]
      /\ record' = [record EXCEPT ![r] = "bound"]
      /\ UNCHANGED <<operation, tableVars, handler, open, told, waiting, operator, token,
                     audit, crashes>>
  BY DEF StartRun, BindGrant, Grants
<1>2. ServiceInv /\ CoreTypeOK /\ \A h \in Handler : PlaceGood(h)
  BY CoreFacts
<1>3. RunsGoOn
  BY <1>1, <1>2 DEF RunsGoOn, CoreTypeOK
<1>4. \A h \in Handler : handler[h].at # "idle" => RunOf[Of(h)] # lease'.holder
  BY <1>1, <1>2 DEF PlaceGood
<1>5. lease' \in [holder : Run \cup {None, Outsider}, live : BOOLEAN]
  BY <1>1
<1>6. ServiceInv'
  BY <1>1, <1>2, <1>3, <1>4, <1>5, LeaseKeepsService
<1>7. Calm
  <2>1. UNCHANGED <<operation, effect, item>>
    BY <1>1 DEF tableVars
  <2>2. open' = {}
    BY <1>1
  <2> QED BY <1>1, <1>3, <2>1, <2>2, RestIsCalm
<1>8. record[r] = "none"
  BY <1>1, CoreFacts DEF CoreTypeOK
<1>9. /\ run' \in [Run -> {"none", "running", "ended", "uncertain"}]
      /\ record' \in [Run -> {"none", "bound", "reconciliation", "released"}]
      /\ \A q \in Run : record'[q] # record[q] =>
            record[q] \in {"none", "bound"} /\ run'[q] # "none"
  BY <1>1, <1>2, <1>8 DEF CoreTypeOK
<1>10. CoreInv'
  BY <1>1, <1>2, <1>3, <1>7, <1>9, CoreKept DEF CoreTypeOK
<1> QED BY <1>6, <1>10 DEF IInv

\* The run ends, or its lease is found lost; nothing of the service changes.
LEMMA RunStep ==
    ASSUME IInv, NEW r \in Run, EndRun(r) \/ LeaseNotRenewed(r) \/ MarkRunUncertain(r)
    PROVE  IInv'
<1>1. /\ UNCHANGED serviceVars
      /\ UNCHANGED <<told, waiting, operator, token, audit, crashes>>
      /\ run[r] = "running"
      /\ run' = run \/ \E status \in {"ended", "uncertain"} :
                          run' = [run EXCEPT ![r] = status]
      /\ \/ record' = record
         \/ record[r] = "bound" /\ record' = [record EXCEPT ![r] = "reconciliation"]
  BY DEF EndRun, LeaseNotRenewed, MarkRunUncertain
<1>2. CoreTypeOK
  BY CoreFacts
<1>3. /\ run' \in [Run -> {"none", "running", "ended", "uncertain"}]
      /\ RunsGoOn /\ run'[r] # "none"
  BY <1>1, <1>2 DEF CoreTypeOK, RunsGoOn
<1>4. /\ record' \in [Run -> {"none", "bound", "reconciliation", "released"}]
      /\ \A q \in Run : record'[q] # record[q] =>
            record[q] \in {"none", "bound"} /\ run'[q] # "none"
  BY <1>1, <1>2, <1>3 DEF CoreTypeOK
<1>5. ServiceInv' /\ Calm
  BY <1>1, <1>3, QuietService
<1>6. CoreInv'
  BY <1>1, <1>2, <1>3, <1>4, <1>5, CoreKept DEF CoreTypeOK
<1> QED BY <1>5, <1>6 DEF IInv

LEMMA ReleaseStep ==
    ASSUME IInv, NEW r \in Run, Release(r)
    PROVE  IInv'
<1>1. /\ record[r] = "bound" /\ open = {}
      /\ lease' = lease \/ lease' = [lease EXCEPT !.live = FALSE]
      /\ record' = [record EXCEPT ![r] = "released"]
      /\ UNCHANGED <<operation, tableVars, handler, open, run, told, waiting, operator,
                     token, audit, crashes>>
  BY DEF Release, GivesBack
<1>2. ServiceInv /\ ServiceTypeOK /\ CoreTypeOK
  BY CoreFacts
<1>3. RunsGoOn
  BY <1>1 DEF RunsGoOn
<1>4. /\ lease' \in [holder : Run \cup {None, Outsider}, live : BOOLEAN]
      /\ lease'.holder = lease.holder
      /\ lease'.live => lease.live
  BY <1>1, <1>2 DEF ServiceTypeOK
<1>5. ServiceInv'
  BY <1>1, <1>2, <1>3, <1>4, LeaseKeepsService
<1>6. Calm
  <2>1. UNCHANGED <<operation, effect, item>> /\ open' = {}
    BY <1>1 DEF tableVars
  <2> QED BY <1>3, <1>4, <2>1, RestIsCalm
<1>7. run'[r] # "none"
  BY <1>1, CoreFacts
<1>8. /\ record' \in [Run -> {"none", "bound", "reconciliation", "released"}]
      /\ \A q \in Run : record'[q] # record[q] =>
            record[q] \in {"none", "bound"} /\ run'[q] # "none"
  BY <1>1, <1>2, <1>7 DEF CoreTypeOK
<1>9. CoreInv'
  BY <1>1, <1>2, <1>3, <1>6, <1>8, CoreKept DEF CoreTypeOK
<1> QED BY <1>5, <1>9 DEF IInv

LEMMA NotHandedOutStep ==
    ASSUME IInv, NEW e \in Effect, NotHandedOut(e)
    PROVE  IInv'
<1>1. /\ UNCHANGED serviceVars
      /\ UNCHANGED <<run, record, waiting, operator, token, audit, crashes>>
      /\ told' = [told EXCEPT ![e] = "failed"]
  BY DEF NotHandedOut
<1>2. CoreTypeOK /\ RunsGoOn
  BY <1>1, CoreFacts DEF RunsGoOn
<1>3. /\ told' \in [Effect -> Result \cup {"none"}]
      /\ \A d \in Effect : told'[d] = "succeeded" => told[d] = "succeeded"
  BY <1>1, <1>2 DEF CoreTypeOK, Result
<1>4. ServiceInv' /\ Calm
  BY <1>1, <1>2, QuietService
<1>5. CoreInv'
  BY <1>1, <1>2, <1>3, <1>4, CoreKept DEF CoreTypeOK
<1> QED BY <1>4, <1>5 DEF IInv

LEMMA InvokeStep ==
    ASSUME IInv, NEW e \in Effect, NEW h \in Handler, Invoke(e, h)
    PROVE  IInv'
<1> DEFINE s == [IdleHandler EXCEPT !.effect = e, !.at = "arrived"]
<1>1. /\ run[RunOf[e]] = "running" /\ handler[h].at = "idle"
      /\ waiting' = h
      /\ handler' = [handler EXCEPT ![h] = s]
      /\ UNCHANGED <<operation, lease, tableVars, open, run, record, told, operator,
                     token, audit, crashes>>
  BY DEF Invoke
<1>2. /\ s \in HandlerRecord /\ s.at = "arrived" /\ s.effect = e
      /\ s.from = 0 /\ s.cursor = 0
  <2>1. /\ IdleHandler \in HandlerRecord
        /\ IdleHandler.from = 0 /\ IdleHandler.cursor = 0
    BY ServiceAssumption DEF IdleHandler, HandlerRecord, Place
  <2>2. "arrived" \in Place
    BY DEF Place
  <2> HIDE DEF s
  <2>3. s = [IdleHandler EXCEPT !.effect = e, !.at = "arrived"]
    BY DEF s
  <2> QED BY <2>1, <2>2, <2>3 DEF HandlerRecord
<1> HIDE DEF s
<1>3. ServiceInv /\ ServiceTypeOK /\ CoreTypeOK /\ PlaceGood(h)
  BY CoreFacts
<1>4. RunsGoOn /\ run'[RunOf[e]] # "none"
  BY <1>1 DEF RunsGoOn
<1>5. h \notin open /\ Calm
  BY <1>1, <1>3, <1>4, HandlerOutside, Places
<1>6. ServiceInv'
  BY <1>1, <1>2, <1>3, <1>4, <1>5, HandlerKeepsService
<1>7. CoreInv'
  BY <1>1, <1>3, <1>4, <1>5, CoreKept DEF CoreTypeOK
<1> QED BY <1>6, <1>7 DEF IInv

LEMMA AnswerStep ==
    ASSUME IInv, NEW h \in Handler, Answer(h)
    PROVE  IInv'
<1>1. /\ handler[h].at = "answer"
      /\ handler' = [handler EXCEPT ![h] = IdleHandler]
      /\ UNCHANGED <<operation, lease, tableVars, open>>
      /\ Hears(Of(h), handler[h].says) \/ UNCHANGED coreVars
  BY DEF Answer, At
<1>2. ServiceInv /\ ServiceTypeOK /\ CoreTypeOK /\ PlaceGood(h)
  BY CoreFacts
<1>3. /\ handler[h].says \in Result
      /\ handler[h].says = "succeeded" => effect[Of(h)] = "succeeded"
  BY <1>1, <1>2 DEF PlaceGood
<1>4. handler[h].at \notin Transaction
  BY <1>1 DEF Transaction
<1>5. /\ IdleHandler \in HandlerRecord /\ IdleHandler.at = "idle"
      /\ IdleHandler.from = 0 /\ IdleHandler.cursor = 0
  BY ServiceAssumption DEF IdleHandler, HandlerRecord, Place
<1>6. /\ RunsGoOn /\ UNCHANGED <<operator, token, audit, crashes>>
      /\ waiting' \in Handler \cup {None}
      /\ run' \in [Run -> {"none", "running", "ended", "uncertain"}]
      /\ record' \in [Run -> {"none", "bound", "reconciliation", "released"}]
      /\ told' \in [Effect -> Result \cup {"none"}]
      /\ \A r \in Run : record'[r] # record[r] => record[r] = "bound" /\ run'[r] # "none"
      /\ \A d \in Effect : told'[d] = "succeeded" =>
            told[d] = "succeeded" \/ effect[d] = "succeeded"
  <2>1. CASE UNCHANGED coreVars
    BY <1>2, <2>1 DEF coreVars, RunsGoOn, CoreTypeOK
  <2>2. CASE Hears(Of(h), handler[h].says)
    BY <1>3, <2>2, HearsFacts
  <2> QED BY <1>1, <2>1, <2>2
<1>7. h \notin open /\ Calm
  BY <1>1, <1>2, <1>4, <1>6, HandlerOutside
<1>8. ServiceInv'
  BY <1>1, <1>2, <1>5, <1>6, <1>7, HandlerKeepsService
<1>9. CoreInv'
  <2>1. crashes' \in 0..MaxCrashes[operation]
    BY <1>2, <1>6 DEF CoreTypeOK
  <2> QED BY <1>6, <1>7, <2>1, CoreKept
<1> QED BY <1>8, <1>9 DEF IInv

LEMMA GiveUpStep ==
    ASSUME IInv, GiveUpWaiting
    PROVE  IInv'
<1>1. Hears(Of(waiting), "uncertain") /\ UNCHANGED serviceVars
  BY DEF GiveUpWaiting
<1>2. /\ RunsGoOn /\ UNCHANGED <<operator, token, audit, crashes>> /\ waiting' = None
      /\ run' \in [Run -> {"none", "running", "ended", "uncertain"}]
      /\ record' \in [Run -> {"none", "bound", "reconciliation", "released"}]
      /\ told' \in [Effect -> Result \cup {"none"}]
      /\ \A r \in Run : record'[r] # record[r] => record[r] = "bound" /\ run'[r] # "none"
      /\ \A d \in Effect : told'[d] = "succeeded" => told[d] = "succeeded"
  BY <1>1, HearsFacts, Places
<1>3. ServiceInv' /\ Calm
  BY <1>1, <1>2, QuietService
<1>4. crashes' \in 0..MaxCrashes[operation]
  BY <1>2, CoreFacts DEF CoreTypeOK
<1>5. CoreInv'
  BY <1>2, <1>3, <1>4, CoreKept
<1> QED BY <1>3, <1>5 DEF IInv


\* An idle request, or one that failed.
LEMMA OperatorFailsStep ==
    ASSUME IInv, OperatorFails
    PROVE  IInv'
<1>1. /\ UNCHANGED serviceVars /\ operator' = NoRequest
      /\ UNCHANGED <<run, record, told, waiting, token, audit, crashes>>
  BY DEF OperatorFails
<1>2. CoreTypeOK /\ RunsGoOn
  BY <1>1, CoreFacts DEF RunsGoOn
<1>3. ServiceInv' /\ Calm
  BY <1>1, <1>2, QuietService
<1>4. CoreInv'
  BY <1>1, <1>2, <1>3, CoreKept DEF CoreTypeOK
<1> QED BY <1>3, <1>4 DEF IInv

LEMMA CoreCrashStep ==
    ASSUME IInv, CoreCrash
    PROVE  IInv'
<1>1. /\ UNCHANGED serviceVars /\ operator' = NoRequest /\ waiting' = None
      /\ crashes < MaxCrashes[operation] /\ crashes' = crashes + 1
      /\ UNCHANGED <<run, record, told, token, audit>>
  BY DEF CoreCrash
<1>2. CoreTypeOK /\ ServiceTypeOK /\ RunsGoOn
  BY <1>1, CoreFacts DEF RunsGoOn
<1>3. ServiceInv' /\ Calm
  BY <1>1, <1>2, QuietService
<1>4. crashes' \in 0..MaxCrashes[operation]
  <2>1. MaxCrashes[operation] \in Nat
    BY <1>2, EffectsAssumption DEF ServiceTypeOK
  <2>2. crashes \in 0..MaxCrashes[operation]
    BY <1>2 DEF CoreTypeOK
  <2> QED BY <1>1, <2>1, <2>2
<1>5. CoreInv'
  BY <1>1, <1>2, <1>3, <1>4, CoreKept DEF CoreTypeOK
<1> QED BY <1>3, <1>5 DEF IInv

LEMMA ServiceStep ==
    ASSUME IInv, Service
    PROVE  IInv'
<1>1. PICK h \in Handler : HandlerStep(h)
  BY DEF Service
<1>2. UNCHANGED <<run, record, told, waiting, operator, token, audit, crashes>>
  BY DEF Service, coreVars
<1>3. ServiceInv /\ CoreTypeOK /\ RunsGoOn
  BY <1>2, CoreFacts DEF RunsGoOn
<1>4. Good(h) /\ Of(h) \in Effect
  BY <1>1, <1>2, <1>3, ActorIsGood DEF Good
<1>5. Steps(h)
  BY <1>1, <1>4, HandlerSteps
<1>6. ServiceInv'
  BY <1>3, <1>4, <1>5, StepKeepsService
<1>7. Calm
  BY <1>1, <1>3, <1>4, <1>5, HandlerIsCalm
<1>8. CoreInv'
  BY <1>2, <1>3, <1>7, CoreKept DEF CoreTypeOK
<1> QED BY <1>6, <1>8 DEF IInv

LEMMA EnvironmentStep ==
    ASSUME IInv, Environment
    PROVE  IInv'
<1>1. /\ UNCHANGED <<operation, tableVars, handler, open>>
      /\ \/ lease' = [lease EXCEPT !.live = FALSE]
         \/ open = {} /\ lease' = [holder |-> Outsider, live |-> TRUE]
  BY DEF Environment, Expire, OutsiderTakes
<1>2. UNCHANGED <<run, record, told, waiting, operator, token, audit, crashes>>
  BY DEF Environment, coreVars
<1>3. ServiceInv /\ ServiceTypeOK /\ CoreTypeOK /\ RunsGoOn
  BY <1>2, CoreFacts DEF RunsGoOn
<1>4. \A h \in Handler : handler[h].at # "idle" => RunOf[Of(h)] # Outsider
  BY CoreFacts, HasEffect, ServiceAssumption
<1>5. /\ lease' \in [holder : Run \cup {None, Outsider}, live : BOOLEAN]
      /\ lease'.holder = lease.holder \/ (open = {} /\ lease'.holder = Outsider)
      /\ lease'.live => lease'.holder = Outsider
  <2>1. lease \in [holder : Run \cup {None, Outsider}, live : BOOLEAN]
    BY <1>3 DEF ServiceTypeOK
  <2>2. CASE lease' = [lease EXCEPT !.live = FALSE]
    BY <2>1, <2>2
  <2>3. CASE open = {} /\ lease' = [holder |-> Outsider, live |-> TRUE]
    BY <2>3
  <2> QED BY <1>1, <2>2, <2>3
<1>6. ServiceInv'
  BY <1>1, <1>3, <1>4, <1>5, LeaseKeepsService
<1>7. Calm
  <2>1. UNCHANGED <<operation, effect, item>>
    BY <1>1 DEF tableVars
  <2>2. \A g \in open' : g \in open /\ Of(g)' = Of(g)
    BY <1>1 DEF Of
  <2>3. \A r \in Run : ~(lease'.live /\ lease'.holder = r)
    BY <1>5, ServiceAssumption
  <2> QED BY <1>3, <2>1, <2>2, <2>3, RestIsCalm
<1>8. CoreInv'
  BY <1>2, <1>3, <1>7, CoreKept DEF CoreTypeOK
<1> QED BY <1>6, <1>8 DEF IInv

LEMMA ServiceCrashStep ==
    ASSUME IInv, ServiceCrash
    PROVE  IInv'
<1>1. ServiceRestart /\ (Hears(Of(waiting), "uncertain") \/ UNCHANGED coreVars)
  BY DEF ServiceCrash
<1>2. ServiceInv /\ ServiceTypeOK /\ CoreTypeOK
  BY CoreFacts
<1>3. /\ RunsGoOn /\ UNCHANGED <<operator, token, audit, crashes>>
      /\ waiting' \in Handler \cup {None}
      /\ run' \in [Run -> {"none", "running", "ended", "uncertain"}]
      /\ record' \in [Run -> {"none", "bound", "reconciliation", "released"}]
      /\ told' \in [Effect -> Result \cup {"none"}]
      /\ \A r \in Run : record'[r] # record[r] => record[r] = "bound" /\ run'[r] # "none"
      /\ \A d \in Effect : told'[d] = "succeeded" => told[d] = "succeeded"
  <2>1. CASE UNCHANGED coreVars
    BY <1>2, <2>1 DEF coreVars, RunsGoOn, CoreTypeOK
  <2>2. CASE Hears(Of(waiting), "uncertain")
    BY <2>2, HearsFacts, Places
  <2> QED BY <1>1, <2>1, <2>2
<1>4. ServiceInv'
  BY <1>1, <1>2, <1>3, RestartKeepsService
<1>5. Calm
  <2>1. UNCHANGED <<operation, lease, effect, item>> /\ open' = {}
    BY <1>1 DEF ServiceRestart, tableVars
  <2> QED BY <1>3, <2>1, RestIsCalm
<1>6. CoreInv'
  <2>1. crashes' \in 0..MaxCrashes[operation]
    BY <1>2, <1>3 DEF CoreTypeOK
  <2> QED BY <1>3, <1>5, <2>1, CoreKept
<1> QED BY <1>4, <1>6 DEF IInv

----
(* The operator. *)

LEMMA ReportIsOne ==
    ASSUME ServiceTypeOK, NEW r \in Run
    PROVE  Report(r) \in Reports /\ DOMAIN Report(r) = Writes(r)
<1> DEFINE S == [status : EffectStatus,
                 items : [Product -> {"none", "succeeded", "failed"}]]
<1>1. Writes(r) \in SUBSET Effect
  BY DEF Writes
<1>2. \A e \in Writes(r) : [status |-> effect[e], items |-> item[e]] \in S
  BY <1>1 DEF ServiceTypeOK
<1>3. Report(r) \in [Writes(r) -> S] /\ DOMAIN Report(r) = Writes(r)
  BY <1>2 DEF Report
<1> QED BY <1>1, <1>3 DEF Reports

LEMMA SameService ==
    ASSUME UNCHANGED serviceVars, UNCHANGED run, NEW r
    PROVE  /\ Writes(r)' = Writes(r) /\ Report(r)' = Report(r)
           /\ Dead(r)' <=> Dead(r)
<1>1. UNCHANGED <<operation, lease, effect, item, handler, open>>
  BY DEF serviceVars
<1>2. Writes(r)' = Writes(r)
  BY <1>1 DEF Writes
<1>3. Report(r)' = Report(r)
  BY <1>1, <1>2 DEF Report
<1>4. Dead(r)' <=> Dead(r)
  BY <1>1 DEF Dead, Of
<1> QED BY <1>2, <1>3, <1>4

\* The operator's request goes on, and nothing else does.
LEMMA OperatorKept ==
    ASSUME IInv, UNCHANGED serviceVars,
           UNCHANGED <<run, record, told, waiting, audit, crashes>>,
           operator' \in RequestRecord, token' \in Reports \cup {None}, OperatorGood'
    PROVE  IInv'
<1>1. CoreTypeOK /\ ToldGood /\ \A r \in Run : RunGood(r)
  BY DEF IInv, CoreInv
<1>2. ServiceInv' /\ operation' = operation /\ effect' = effect
  BY QuietService DEF RunsGoOn, serviceVars
<1>3. CoreTypeOK'
  BY <1>1, <1>2 DEF CoreTypeOK
<1>4. ASSUME NEW r \in Run PROVE RunGood(r)'
  BY <1>1, SameService DEF RunGood
<1>5. ToldGood'
  BY <1>1, <1>2 DEF ToldGood
<1> QED BY <1>2, <1>3, <1>4, <1>5 DEF IInv, CoreInv

\* The request being served.
LEMMA RequestFacts ==
    ASSUME IInv, operator.at # "idle"
    PROVE  /\ operator \in RequestRecord
           /\ operator.run \in Run /\ record[operator.run] = "reconciliation"
           /\ run[operator.run] # "none"
           /\ operator.report \in Reports \cup {None}
           /\ DOMAIN operator.report = Writes(operator.run)
           /\ Writes(operator.run) \subseteq Effect
<1>1. CoreTypeOK /\ OperatorGood /\ \A r \in Run : RunGood(r)
  BY DEF IInv, CoreInv
<1>2. /\ operator \in RequestRecord
      /\ operator.run \in Run /\ record[operator.run] = "reconciliation"
      /\ DOMAIN operator.report = Writes(operator.run)
  BY <1>1 DEF CoreTypeOK, OperatorGood
<1>3. run[operator.run] # "none"
  BY <1>1, <1>2 DEF RunGood
<1>4. operator.report \in Reports \cup {None}
  BY <1>2 DEF RequestRecord
<1> QED BY <1>2, <1>3, <1>4 DEF Writes

LEMMA AskStep ==
    ASSUME IInv, NEW r \in Run, NEW purpose \in {"inspect", "resolve"}, Ask(r, purpose)
    PROVE  IInv'
<1>1. /\ record[r] = "reconciliation"
      /\ operator' = [NoRequest EXCEPT !.at = purpose, !.run = r, !.report = Report(r)]
      /\ UNCHANGED serviceVars
      /\ UNCHANGED <<run, record, told, waiting, token, audit, crashes>>
  BY DEF Ask
<1>2. Report(r) \in Reports /\ DOMAIN Report(r) = Writes(r) /\ CoreTypeOK
  BY CoreFacts, ReportIsOne
<1>3. operator' = [at |-> purpose, run |-> r, report |-> Report(r), todo |-> {}]
  BY <1>1 DEF NoRequest
<1>4. operator' \in RequestRecord
  BY <1>2, <1>3 DEF RequestRecord
<1>5. /\ operator'.at = purpose /\ operator'.run = r /\ operator'.todo = {}
      /\ operator'.report = Report(r)
  BY <1>3
<1>6. OperatorGood'
  <2>1. Writes(r)' = Writes(r)
    BY <1>1, SameService
  <2> QED BY <1>1, <1>2, <1>5, <2>1 DEF OperatorGood
<1>7. token' \in Reports \cup {None}
  BY <1>1, <1>2 DEF CoreTypeOK
<1> QED BY <1>1, <1>4, <1>6, <1>7, OperatorKept

LEMMA InspectedStep ==
    ASSUME IInv, Inspected
    PROVE  IInv'
<1>1. /\ operator.at = "inspect" /\ token' = operator.report /\ operator' = NoRequest
      /\ UNCHANGED serviceVars
      /\ UNCHANGED <<run, record, told, waiting, audit, crashes>>
  BY DEF Inspected
<1>2. token' \in Reports \cup {None}
  BY <1>1, RequestFacts
<1>3. operator' \in RequestRecord /\ OperatorGood'
  BY <1>1, NoRequestType DEF OperatorGood
<1> QED BY <1>1, <1>2, <1>3, OperatorKept

\* Whoever writes for the run has ended by now.
LEMMA ResolveStep ==
    ASSUME IInv, Resolve
    PROVE  IInv'
<1>1. /\ operator.at = "resolve" /\ NoActiveOwner
      /\ operator' = [operator EXCEPT !.at = "reconcile",
                                      !.todo = Doubtful(operator.report)]
      /\ UNCHANGED serviceVars
      /\ UNCHANGED <<run, record, told, waiting, token, audit, crashes>>
  BY DEF Resolve
<1>2. /\ operator \in RequestRecord
      /\ operator.run \in Run /\ record[operator.run] = "reconciliation"
      /\ run[operator.run] # "none"
      /\ DOMAIN operator.report = Writes(operator.run)
  BY <1>1, RequestFacts
<1>3. Doubtful(operator.report) \in SUBSET Effect
      /\ \A e \in Doubtful(operator.report) : RunOf[e] = operator.run
  BY <1>2 DEF Doubtful, Writes
<1>4. /\ operator' \in RequestRecord
      /\ operator'.at = "reconcile" /\ operator'.todo = Doubtful(operator.report)
      /\ operator'.run = operator.run /\ operator'.report = operator.report
  BY <1>1, <1>2, <1>3 DEF RequestRecord
<1>5. OperatorGood'
  <2>1. PICK r \in Run : r = operator.run
    BY <1>2
  <2>2. Dead(r)
    BY <1>1, <1>2, <2>1, NobodyWrites
  <2>3. Dead(r)' /\ Writes(r)' = Writes(r)
    BY <1>1, <2>2, SameService
  <2>4. operator'.run = r /\ record'[r] = "reconciliation"
        /\ DOMAIN operator'.report = Writes(r)'
    BY <1>1, <1>2, <1>4, <2>1, <2>3
  <2>5. Dead(operator.run)' /\ DOMAIN operator'.report = Writes(operator.run)'
    BY <2>3, <2>4 DEF Dead, Writes
  <2> QED BY <1>1, <1>2, <1>3, <1>4, <2>1, <2>4, <2>5 DEF OperatorGood
<1>6. token' \in Reports \cup {None}
  BY <1>1, CoreFacts DEF CoreTypeOK
<1> QED BY <1>1, <1>4, <1>5, <1>6, OperatorKept

LEMMA InspectAgainStep ==
    ASSUME IInv, InspectAgain
    PROVE  IInv'
<1>1. /\ operator.at = "reconcile" /\ operator.todo = {}
      /\ operator' = [operator EXCEPT !.at = "final", !.report = Report(operator.run)]
      /\ UNCHANGED serviceVars
      /\ UNCHANGED <<run, record, told, waiting, token, audit, crashes>>
  BY DEF InspectAgain, FinalReport
<1>2. /\ operator \in RequestRecord
      /\ operator.run \in Run /\ record[operator.run] = "reconciliation"
  BY <1>1, RequestFacts
<1>3. Report(operator.run) \in Reports
      /\ DOMAIN Report(operator.run) = Writes(operator.run)
  BY <1>2, CoreFacts, ReportIsOne
<1>4. /\ operator' \in RequestRecord
      /\ operator'.at = "final" /\ operator'.todo = {}
      /\ operator'.run = operator.run /\ operator'.report = Report(operator.run)
  BY <1>1, <1>2, <1>3 DEF RequestRecord
<1>5. Dead(operator.run)
  BY <1>1 DEF IInv, CoreInv, OperatorGood
<1>6. OperatorGood'
  <2>1. PICK r \in Run : r = operator.run
    BY <1>2
  <2>2. Writes(r)' = Writes(r) /\ Report(r)' = Report(r) /\ Dead(r)'
    BY <1>1, <1>5, <2>1, SameService
  <2>3. /\ operator'.run = r /\ record'[r] = "reconciliation"
        /\ DOMAIN operator'.report = Writes(r)' /\ operator'.report = Report(r)'
    BY <1>1, <1>2, <1>3, <1>4, <2>1, <2>2
  <2>4. /\ Dead(operator.run)' /\ DOMAIN operator'.report = Writes(operator.run)'
        /\ operator'.report = Report(operator.run)'
    BY <2>2, <2>3 DEF Dead, Writes, Report
  <2> QED BY <1>4, <2>1, <2>3, <2>4 DEF OperatorGood
<1>7. token' \in Reports \cup {None}
  BY <1>1, CoreFacts DEF CoreTypeOK
<1> QED BY <1>1, <1>4, <1>6, <1>7, OperatorKept

\* What is put on record is the report as it stays.
LEMMA CommitStep ==
    ASSUME IInv, NEW r \in Run, CommitReconciliation(r)
    PROVE  IInv'
<1>1. /\ operator.at = "final" /\ operator.run = r
      /\ audit' = [audit EXCEPT ![r] = operator.report]
      /\ record' = [record EXCEPT ![r] = "released"]
      /\ operator' = NoRequest /\ token' = None
      /\ UNCHANGED serviceVars /\ UNCHANGED <<run, told, waiting, crashes>>
  BY DEF CommitReconciliation
<1>2. CoreTypeOK /\ ToldGood /\ OperatorGood /\ \A q \in Run : RunGood(q)
  BY DEF IInv, CoreInv
<1>3. operator.report = Report(r) /\ Dead(r) /\ run[r] # "none"
  BY <1>1, <1>2 DEF OperatorGood, Dead
<1>4. operator.report \in Reports \cup {None}
  BY <1>1, RequestFacts
<1>5. /\ audit' \in [Run -> Reports \cup {None}]
      /\ record' \in [Run -> {"none", "bound", "reconciliation", "released"}]
      /\ audit'[r] = operator.report /\ record'[r] = "released"
      /\ \A q \in Run \ {r} : audit'[q] = audit[q] /\ record'[q] = record[q]
  BY <1>1, <1>2, <1>4 DEF CoreTypeOK
<1>6. ServiceInv' /\ operation' = operation /\ effect' = effect
  BY <1>1, QuietService DEF RunsGoOn, serviceVars
<1>7. CoreTypeOK'
  BY <1>1, <1>2, <1>5, <1>6, NoRequestType DEF CoreTypeOK
<1>8. ASSUME NEW q \in Run PROVE RunGood(q)'
  <2>1. RunGood(q) /\ Report(q)' = Report(q) /\ (Dead(q)' <=> Dead(q))
    BY <1>1, <1>2, SameService
  <2>2. CASE q = r
    BY <1>1, <1>3, <1>5, <2>1, <2>2 DEF RunGood
  <2>3. CASE q # r
    BY <1>1, <1>5, <2>1, <2>3 DEF RunGood
  <2> QED BY <2>2, <2>3
<1>9. OperatorGood'
  BY <1>1, NoRequestType DEF OperatorGood
<1>10. ToldGood'
  BY <1>1, <1>2, <1>6 DEF ToldGood
<1> QED BY <1>6, <1>7, <1>8, <1>9, <1>10 DEF IInv, CoreInv

\* A reconciled effect is one of the run that is reconciled, not of one that was.
LEMMA ReconcileStep ==
    ASSUME IInv, NEW e \in Effect, ReconcileNext(e)
    PROVE  IInv'
<1>1. /\ operator.at = "reconcile" /\ e \in operator.todo
      /\ ReconcileInventoryEffect(e)
      /\ operator' = [operator EXCEPT !.todo = operator.todo \ {e}]
      /\ UNCHANGED <<run, record, told, waiting, token, audit, crashes>>
  BY DEF ReconcileNext
<1>2. /\ ServiceInv /\ CoreTypeOK /\ ToldGood /\ OperatorGood
      /\ \A q \in Run : RunGood(q)
  BY DEF IInv, CoreInv
<1>3. ServiceInv'
  BY <1>1, <1>2, ReconcileKeepsService
<1>4. /\ UNCHANGED <<operation, lease, item, handler, open>>
      /\ \A d \in Effect \ {e} : effect'[d] = effect[d]
      /\ effect' = effect \/ effect[e] = "running"
  BY <1>1, <1>2, ReconciledTables
<1>5. PICK r \in Run : /\ r = operator.run /\ record[r] = "reconciliation" /\ RunOf[e] = r
                       /\ DOMAIN operator.report = Writes(r) /\ Dead(r)
                       /\ \A d \in operator.todo : RunOf[d] = r
  BY <1>1, <1>2 DEF OperatorGood
<1>6. operator \in RequestRecord
  BY <1>2 DEF CoreTypeOK
<1>7. /\ operator' \in RequestRecord /\ operator'.at = "reconcile"
      /\ operator'.run = operator.run /\ operator'.report = operator.report
      /\ operator'.todo = operator.todo \ {e}
  BY <1>1, <1>6 DEF RequestRecord
<1>8. CoreTypeOK'
  BY <1>1, <1>2, <1>4, <1>7 DEF CoreTypeOK
<1>9. ASSUME NEW q \in Run PROVE (Dead(q)' <=> Dead(q)) /\ Writes(q)' = Writes(q)
  BY <1>1, <1>4 DEF Dead, Of, Writes
<1>10. ASSUME NEW q \in Run PROVE RunGood(q)'
  <2>1. RunGood(q)
    BY <1>2
  <2>2. CASE audit[q] = None
    BY <1>1, <2>1, <2>2 DEF RunGood
  <2>3. CASE audit[q] # None
    <3>1. q # r
      BY <1>5, <2>1, <2>3 DEF RunGood
    <3>2. \A d \in Effect : RunOf[d] = q => effect'[d] = effect[d] /\ item'[d] = item[d]
      BY <1>4, <1>5, <3>1
    <3>3. Report(q)' = Report(q)
      BY <1>4, <3>2, SameReport
    <3> QED BY <1>1, <1>9, <2>1, <3>3 DEF RunGood
  <2> QED BY <2>2, <2>3
<1>11. OperatorGood'
  <2>1. /\ operator'.run = r /\ record'[r] = "reconciliation" /\ Dead(r)'
        /\ DOMAIN operator'.report = Writes(r)'
        /\ \A d \in operator'.todo : RunOf[d] = r
    BY <1>1, <1>5, <1>7, <1>9
  <2>2. Dead(operator.run)' /\ DOMAIN operator'.report = Writes(operator.run)'
    BY <2>1 DEF Dead, Writes
  <2> QED BY <1>7, <2>1, <2>2 DEF OperatorGood
<1>12. ToldGood'
  BY <1>1, <1>2, <1>4 DEF ToldGood
<1> QED BY <1>3, <1>8, <1>10, <1>11, <1>12 DEF IInv, CoreInv

----
(* The theorems. *)

LEMMA Begins == Init => IInv
<1> SUFFICES ASSUME Init PROVE IInv
  OBVIOUS
<1>1. /\ operation \in Programs
      /\ lease = [holder |-> None, live |-> FALSE]
      /\ effect = [e \in Effect |-> "none"]
      /\ item = [e \in Effect |-> [p \in Product |-> "none"]]
      /\ sync = [e \in Effect |-> "none"]
      /\ staged = [e \in Effect |-> {}]
      /\ facts = {} /\ mark = 0
      /\ handler = [h \in Handler |-> IdleHandler] /\ open = {}
  BY DEF Init, ServiceInit
<1>2. IdleHandler \in HandlerRecord
  BY ServiceAssumption DEF IdleHandler, HandlerRecord, Place
<1>3. ServiceTypeOK
  <2>1. mark \in 0..LastRow
    BY <1>1, ServiceAssumption
  <2> QED BY <1>1, <1>2, <2>1 DEF ServiceTypeOK, EffectStatus
<1>4. ASSUME NEW h \in Handler
      PROVE  /\ handler[h].at = "idle" /\ handler[h].from = 0 /\ handler[h].cursor = 0
             /\ ~Working(h)
  BY <1>1 DEF IdleHandler, Working, SyncPlace, ForecastPlace, ReadAll
<1>5. \A h \in Handler : PlaceGood(h) /\ ReadGood(h)
  BY <1>1, <1>4, 0 <= 0 DEF PlaceGood, ReadGood, Current, SyncPlace, ForecastPlace, ReadAll
<1>6. OneHandlerEach
  BY <1>4 DEF OneHandlerEach
<1>7. \A e \in Effect : StagedGood(e)
  BY <1>1 DEF StagedGood
<1>8. facts = 1..mark
  BY <1>1
<1>9. ServiceInv
  BY <1>3, <1>5, <1>6, <1>7, <1>8 DEF ServiceInv
<1>10. /\ run = [r \in Run |-> "none"] /\ record = [r \in Run |-> "none"]
       /\ told = [e \in Effect |-> "none"] /\ waiting = None /\ operator = NoRequest
       /\ token = None /\ audit = [r \in Run |-> None] /\ crashes = 0
  BY DEF Init
<1>11. CoreTypeOK
  <2>1. crashes \in 0..MaxCrashes[operation]
    <3>1. MaxCrashes[operation] \in Nat
      BY <1>1, EffectsAssumption
    <3> QED BY <1>10, <3>1
  <2> QED BY <1>10, <2>1, NoRequestType DEF CoreTypeOK
<1>12. /\ \A r \in Run : RunGood(r)
       /\ OperatorGood /\ ToldGood
  BY <1>10, NoRequestType DEF RunGood, OperatorGood, ToldGood
<1> QED BY <1>9, <1>11, <1>12 DEF IInv, CoreInv

LEMMA Stutters ==
    ASSUME IInv, UNCHANGED vars
    PROVE  IInv'
<1>1. /\ UNCHANGED serviceVars
      /\ UNCHANGED <<run, record, told, waiting, operator, token, audit, crashes>>
  BY DEF vars, coreVars
<1>2. CoreTypeOK /\ RunsGoOn
  BY <1>1, CoreFacts DEF RunsGoOn
<1>3. ServiceInv' /\ Calm
  BY <1>1, <1>2, QuietService
<1>4. CoreInv'
  BY <1>1, <1>2, <1>3, CoreKept DEF CoreTypeOK
<1> QED BY <1>3, <1>4 DEF IInv

LEMMA NextKeeps == IInv /\ [Next]_vars => IInv'
<1> SUFFICES ASSUME IInv, [Next]_vars PROVE IInv'
  OBVIOUS
<1>1. CASE Core
  <2>1. ASSUME NEW r \in Run, \/ StartRun(r) \/ EndRun(r) \/ Release(r)
                              \/ LeaseNotRenewed(r) \/ MarkRunUncertain(r)
        PROVE  IInv'
    BY <2>1, StartStep, RunStep, ReleaseStep
  <2>2. ASSUME NEW e \in Effect, NotHandedOut(e) \/ \E h \in Handler : Invoke(e, h)
        PROVE  IInv'
    BY <2>2, NotHandedOutStep, InvokeStep
  <2>3. ASSUME NEW h \in Handler, Answer(h) PROVE IInv'
    BY <2>3, AnswerStep
  <2> QED BY <1>1, <2>1, <2>2, <2>3, GiveUpStep DEF Core
<1>2. CASE Service
  BY <1>2, ServiceStep
<1>3. CASE Environment
  BY <1>3, EnvironmentStep
<1>4. CASE Operator
  <2>1. ASSUME NEW r \in Run, NEW purpose \in {"inspect", "resolve"}, Ask(r, purpose)
        PROVE  IInv'
    BY <2>1, AskStep
  <2>2. CASE Inspected \/ Resolve \/ InspectAgain \/ OperatorFails
    BY <2>2, InspectedStep, ResolveStep, InspectAgainStep, OperatorFailsStep
  <2>3. ASSUME NEW e \in Effect, ReconcileNext(e) PROVE IInv'
    BY <2>3, ReconcileStep
  <2>4. ASSUME NEW r \in Run, CommitReconciliation(r) PROVE IInv'
    BY <2>4, CommitStep
  <2> QED BY <1>4, <2>1, <2>2, <2>3, <2>4 DEF Operator
<1>5. CASE CoreCrash
  BY <1>5, CoreCrashStep
<1>6. CASE ServiceCrash
  BY <1>6, ServiceCrashStep
<1>7. CASE UNCHANGED vars
  BY <1>7, Stutters
<1> QED BY <1>1, <1>2, <1>3, <1>4, <1>5, <1>6, <1>7 DEF Next

\* The inductive invariant holds of every behaviour of Core and the inventory service.
THEOREM Invariance == Spec => []IInv
<1>1. Init => IInv
  BY Begins
<1>2. IInv /\ [Next]_vars => IInv'
  BY NextKeeps
<1> QED BY <1>1, <1>2, PTL DEF Spec

\* Every value Core and the service keep is of its type; a lease row has one holder.
THEOREM TypeCorrect == Spec => []TypeOK
<1>1. IInv => TypeOK
  BY CoreFacts, Types
<1> QED BY <1>1, Invariance, PTL

\* Rows in staging are those of a sync that runs by both its rows, whatever handlers
\* of the same or of another run are still at work (lockInventoryEffect).
THEOREM StagedCorrect == Spec => []StagedForRunningSync
<1>1. IInv => StagedForRunningSync
  BY DEF IInv, ServiceInv, StagedGood, StagedForRunningSync
<1> QED BY <1>1, Invariance, PTL

\* What Core has told the engine of a write was made, and the audit of a reconciled
\* run is what the service has of it for ever (commitInventoryEffectReconciliation).
THEOREM RecordsCorrect == Spec => []RecordsAreTrue
<1>1. IInv => RecordsAreTrue
  BY DEF IInv, CoreInv, ToldGood, RunGood, RecordsAreTrue
<1> QED BY <1>1, Invariance, PTL

\* What a step does to the orders' facts and to the effects that have ended.
LEMMA StepTables ==
    ASSUME IInv, [Next]_vars
    PROVE  /\ \A e \in Effect : effect[e] \in Terminal =>
                 effect'[e] = effect[e] /\ item'[e] = item[e]
           /\ UNCHANGED <<facts, mark>> \/ Feed!Publish
<1>1. ServiceInv
  BY DEF IInv
<1>2. CASE Service
  <2>1. PICK h \in Handler : HandlerStep(h)
    BY <1>2 DEF Service
  <2>2. UNCHANGED run
    BY <1>2 DEF Service, coreVars
  <2>3. Good(h) /\ Tables(h)
    BY <1>1, <2>1, <2>2, ActorIsGood, HandlerSteps DEF Steps
  <2> QED BY <2>3 DEF Tables, Apart, Publishes, Feed!Publish
<1>3. CASE \E e \in Effect : ReconcileNext(e)
  <2>1. PICK e \in Effect : ReconcileInventoryEffect(e)
    BY <1>3 DEF ReconcileNext
  <2>2. /\ UNCHANGED <<item, facts, mark>>
        /\ \A d \in Effect \ {e} : effect'[d] = effect[d]
        /\ effect' = effect \/ effect[e] = "running"
    BY <1>1, <2>1, ReconciledTables
  <2> QED BY <2>2 DEF Terminal
<1>4. CASE ~Service /\ ~(\E e \in Effect : ReconcileNext(e))
  <2>1. UNCHANGED tableVars
    BY <1>4
    DEF Next, Core, Environment, Operator, CoreCrash, ServiceCrash, ServiceRestart,
        StartRun, EndRun, Release, LeaseNotRenewed, MarkRunUncertain, NotHandedOut,
        Invoke, Answer, GiveUpWaiting, Expire, OutsiderTakes, Ask, Inspected, Resolve,
        InspectAgain, OperatorFails, CommitReconciliation, serviceVars, vars, tableVars
  <2> QED BY <2>1 DEF tableVars
<1> QED BY <1>2, <1>3, <1>4

\* An effect is decided once: no clean-up after a commit nobody heard of, no second
\* handler and no reconciliation changes an ended effect or its items.
THEOREM FinalCorrect == Spec => EffectsAreFinal
<1>1. IInv /\ [Next]_vars =>
         [\A e \in Effect : effect[e] \in Terminal =>
             effect'[e] = effect[e] /\ item'[e] = item[e]]_vars
  BY StepTables
<1> QED BY <1>1, Invariance, PTL DEF Spec, EffectsAreFinal

\* completeOrderSync publishes whole versions: the facts are every source row up to a
\* watermark that never goes back, which is the specification OrderFeed.
THEOREM PublishesCorrect == Spec => PublishesWhole
<1>1. Init => Feed!FeedInit
  BY DEF Init, ServiceInit, Feed!FeedInit
<1>2. IInv /\ [Next]_vars => [Feed!Publish]_(Feed!feedVars)
  BY StepTables DEF Feed!feedVars
<1> QED BY <1>1, <1>2, Invariance, PTL DEF Spec, PublishesWhole, Feed!FeedSpec
====
