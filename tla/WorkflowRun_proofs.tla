---- MODULE WorkflowRun_proofs ----
(***************************************************************************)
(* Theorems about WorkflowRun, for every admitted plan, all runs, tasks,   *)
(* workers and calls and every bound: what a committed transition leaves   *)
(* behind (first part, on the engine), what the tables owe to the runs     *)
(* (second part), and what follows from both.                              *)
(***************************************************************************)
EXTENDS WorkflowRun, AssistanceTask_proofs, WellFoundedInduction

(* Numbers.  The library's induction theorems take an operator; these take a   *)
(* set, which the provers can give.                                            *)

Below == {p \in Nat \X Nat : p[1] < p[2]}

LEMMA BelowWellFounded == IsWellFoundedOn(Below, Nat)
  BY NatLessThanWellFounded, Zenon DEF OpToRel, Below

\* Numbers have a least one.
LEMMA LeastNat ==
  ASSUME NEW T, T \subseteq Nat, T # {}
  PROVE  \E n \in T : \A m \in T : n <= m
<1>1. PICK n \in T : \A m \in T : <<m, n>> \notin Below
  BY BelowWellFounded, WFMin
<1>2. ASSUME NEW m \in T PROVE n <= m
  <2>1. m \in Nat /\ n \in Nat
    OBVIOUS
  <2>2. <<m, n>> \in Nat \X Nat /\ <<m, n>>[1] = m /\ <<m, n>>[2] = n
    BY <2>1
  <2>3. ~(m < n)
    BY <1>1, <2>2 DEF Below
  <2> QED
    BY <2>1, <2>3
<1> QED
  BY <1>2

\* A set with 0 and the successors of its members holds every number.
LEMMA Induction ==
  ASSUME NEW T, 0 \in T, \A n \in Nat : n \in T => n + 1 \in T
  PROVE  \A n \in Nat : n \in T
<1> DEFINE U == {n \in Nat : n \notin T}
<1>1. ASSUME U # {} PROVE FALSE
  <2>1. PICK n \in U : \A m \in U : n <= m
    BY <1>1, LeastNat
  <2>2. n # 0 /\ n \in Nat
    BY <2>1
  <2>3. n - 1 \in Nat /\ ~(n <= n - 1)
    BY <2>2
  <2>4. n - 1 \in T
    BY <2>1, <2>3
  <2>5. (n - 1) + 1 = n
    BY <2>2
  <2> QED
    BY <2>1, <2>3, <2>4, <2>5
<1> QED
  BY <1>1

\* One of finitely many integers is the least.
LEMMA LeastOfMany ==
  ASSUME NEW n \in Nat, NEW f \in [1..n -> Int], n > 0
  PROVE  \E i \in 1..n : \A j \in 1..n : f[i] <= f[j]
<1> DEFINE Low(m) == \A g \in [1..m -> Int] : m > 0 =>
                        \E i \in 1..m : \A j \in 1..m : g[i] <= g[j]
           T == {m \in Nat : Low(m)}
<1>1. Low(0)
  OBVIOUS
<1>2. ASSUME NEW m \in Nat, Low(m) PROVE Low(m + 1)
  <2> SUFFICES ASSUME NEW g \in [1..(m + 1) -> Int]
               PROVE  \E i \in 1..(m + 1) : \A j \in 1..(m + 1) : g[i] <= g[j]
    BY Zenon
  <2>0. \A j \in 1..(m + 1) : g[j] \in Int /\ (j \in 1..m \/ j = m + 1)
    OBVIOUS
  <2>1. CASE m = 0
    <3>1. \A j \in 1..(m + 1) : g[1] <= g[j]
      BY <2>1
    <3> QED
      BY <2>1, <3>1
  <2>2. CASE m > 0
    <3> DEFINE h == [i \in 1..m |-> g[i]]
    <3>1. h \in [1..m -> Int]
      OBVIOUS
    <3>2. PICK i \in 1..m : \A j \in 1..m : h[i] <= h[j]
      BY <1>2, <2>2, <3>1
    <3>3. \A j \in 1..m : g[i] <= g[j]
      BY <3>2
    <3>4. i \in 1..(m + 1) /\ m + 1 \in 1..(m + 1) /\ g[i] \in Int /\ g[m + 1] \in Int
      BY <2>0
    <3> HIDE DEF h
    <3>5. CASE g[i] <= g[m + 1]
      <4>1. \A j \in 1..(m + 1) : g[i] <= g[j]
        BY <2>0, <3>3, <3>5
      <4> QED
        BY <3>4, <4>1
    <3>6. CASE g[m + 1] <= g[i]
      <4>1. \A j \in 1..m : g[m + 1] <= g[j]
        BY <2>0, <3>3, <3>4, <3>6
      <4>2. g[m + 1] <= g[m + 1]
        BY <3>4
      <4>3. \A j \in 1..(m + 1) : g[m + 1] <= g[j]
        BY <2>0, <4>1, <4>2, Zenon
      <4> QED
        BY <3>4, <4>3
    <3> QED
      BY <3>4, <3>5, <3>6
  <2> QED
    BY <2>1, <2>2
<1>3. n \in T
  <2>1. 0 \in T
    BY <1>1
  <2>2. \A m \in Nat : m \in T => m + 1 \in T
    <3> HIDE DEF Low
    <3> QED
      BY <1>2
  <2> HIDE DEF T
  <2> QED
    BY <2>1, <2>2, Induction
<1> QED
  BY <1>3

LEMMA MinOfImage ==
  ASSUME NEW n \in Nat, NEW f \in [1..n -> Int], n > 0
  PROVE  LET S == {f[i] : i \in 1..n} IN
         Min(S) \in S /\ \A i \in 1..n : Min(S) <= f[i]
<1> DEFINE S == {f[i] : i \in 1..n}
<1>1. \E m \in S : \A k \in S : m <= k
  BY LeastOfMany
<1>2. Min(S) \in S /\ \A k \in S : Min(S) <= k
  BY <1>1 DEF Min
<1> QED
  BY <1>2

----
(* The engine.  The budget of a run: each frame needs the rest of its items    *)
(* and the way on from its foreach, beyond what the frames around it need.     *)

SummaryRecord ==
    [total : Nat, succeeded : Nat, failed : Nat, unresolved : Nat,
     by : {"completed", "stopped"}]

EngineRecord ==
    [status : Settled \cup {"running", "waiting_runtime", "waiting_assistance"},
     cursor : DOMAIN Plan \cup {None}, stack : Seq(Frame),
     active : [id : Nat, attempt : Nat] \cup {None}, out : SummaryRecord \cup {None},
     steps : Nat]

Invocation == [kind : {"invoke"}, id : Nat, attempt : Nat, wait : Nat, left : Nat]

Assistance == [kind : {"task"}, id : Nat, human : BOOLEAN, blocking : BOOLEAN, left : Nat]

FrameOk(f) ==
    /\ f \in Frame
    /\ Plan[f.step].kind = "foreach"
    /\ f.succeeded + f.failed + f.unresolved = f.index
    /\ f.index < f.count
    /\ f.count <= Plan[f.step].maxItems

\* The foreach whose body is the block at the i-th level of a stack.
Level(stack, i) == IF i = 0 THEN None ELSE stack[i].step

StackOk(stack) ==
    \A i \in 1..Len(stack) :
        FrameOk(stack[i]) /\ Plan[stack[i].step].in = Level(stack, i - 1)

SummaryOk(out) ==
    out # None =>
        /\ out.succeeded + out.failed + out.unresolved <= out.total
        /\ out.by = "completed" => out.succeeded + out.failed + out.unresolved = out.total

EngineOk(e) == e \in EngineRecord /\ StackOk(e.stack) /\ SummaryOk(e.out)

OnStep(e) ==
    /\ e.cursor \in DOMAIN Plan
    /\ Plan[e.cursor].in = Level(e.stack, Len(e.stack))

Weight(f) ==
    (f.count - f.index - 1) * CostOf[Plan[f.step].entry]
        + (CostOf[f.step] - 1 - Body(Plan[f.step]))

IsBudget(b, stack) ==
    /\ b \in [0..Len(stack) -> Nat]
    /\ \A i \in 1..Len(stack) : \A j \in 0..(i - 1) : b[i] >= b[j] + Weight(stack[i])

\* The steps taken, those of the current block and those of the frames fit the bound.
Affords(e, own) ==
    \E b : IsBudget(b, e.stack) /\ e.steps + own + b[Len(e.stack)] <= ExecutionCost

Passive(f) == f.kind = "task" /\ ~f.blocking

\* An invocation fits the durations of the frames around it.
Fits(f, stack) ==
    /\ \A i \in DOMAIN stack : f.left <= NotNegative(stack[i].left)
    /\ f.wait > 0 => f.wait < f.left

TransitionOk(x, first) ==
    /\ x.e \in EngineRecord /\ StackOk(x.e.stack) /\ SummaryOk(x.e.out)
    /\ x.n \in Nat /\ first \in Nat /\ first <= x.n
    /\ x.effects \subseteq Invocation \cup Assistance
    /\ \A f \in x.effects : first <= f.id /\ f.id < x.n
    /\ \A f, g \in x.effects : f.id = g.id => f = g
    /\ x = [e |-> x.e, n |-> x.n, effects |-> x.effects]

AllPassive(x) == \A f \in x.effects : Passive(f)

RunningOk(x, first) ==
    /\ TransitionOk(x, first) /\ AllPassive(x)
    /\ x.e.status = "running"
    /\ OnStep(x.e) /\ Affords(x.e, CostOf[x.e.cursor])

SettledOk(e) ==
    /\ e.status \in Settled /\ e.cursor = None /\ e.active = None
    /\ e.steps <= ExecutionCost

WaitingOk(e) ==
    /\ OnStep(e) /\ Affords(e, CostOf[e.cursor] - 1)
    /\ e.active \in [id : Nat, attempt : Nat]
    /\ \/ e.status = "waiting_runtime" /\ Plan[e.cursor].kind = "call"
       \/ /\ e.status = "waiting_assistance"
          /\ Plan[e.cursor].kind = "wait" /\ Plan[e.cursor].blocking

Backed(x, f) ==
    /\ f \in x.effects /\ f.id = x.e.active.id
    /\ \A g \in x.effects : g # f => Passive(g)
    /\ \/ /\ x.e.status = "waiting_runtime"
          /\ f.kind = "invoke" /\ f.attempt = x.e.active.attempt /\ Fits(f, x.e.stack)
       \/ /\ x.e.status = "waiting_assistance"
          /\ f.kind = "task" /\ f.blocking

\* What a transition ends as.
DrivenOk(x, first) ==
    /\ TransitionOk(x, first)
    /\ \/ SettledOk(x.e) /\ AllPassive(x)
       \/ WaitingOk(x.e) /\ \E f \in x.effects : Backed(x, f)

LEMMA PlanFacts ==
  /\ Entry \in DOMAIN Plan /\ Plan[Entry].in = None
  /\ None \notin DOMAIN Plan /\ ItemCounts \subseteq Nat
  /\ \A key \in DOMAIN Plan :
        /\ FitsKind(key, Plan[key])
        /\ Plan[key].kind \in {"call", "decision", "foreach", "wait", "terminal"}
        /\ CostOf[key] \in Nat /\ CostOf[key] >= 1 + Body(Plan[key])
        /\ \A t \in Targets(Plan[key]) :
              /\ t \in DOMAIN Plan /\ Plan[t].in = Plan[key].in
              /\ CostOf[key] >= 1 + Body(Plan[key]) + CostOf[t]
  BY RunAssumption DEF Admitted, FitsPlan

\* A foreach: its body, its cost and its ways out.
LEMMA ForeachFacts ==
  ASSUME NEW key \in DOMAIN Plan, Plan[key].kind = "foreach"
  PROVE  LET s == Plan[key] IN
         /\ s.entry \in DOMAIN Plan /\ Plan[s.entry].in = key
         /\ s.maxItems \in Nat /\ s.duration \in Nat
         /\ Body(s) = s.maxItems * CostOf[s.entry] /\ Body(s) \in Nat
         /\ CostOf[s.entry] \in Nat
         /\ \A way \in {"completed", "stopped"} :
               /\ Route(s, way) \in DOMAIN Plan /\ Plan[Route(s, way)].in = s.in
               /\ CostOf[Route(s, way)] \in Nat
               /\ CostOf[key] >= 1 + Body(s) + CostOf[Route(s, way)]
<1> DEFINE s == Plan[key]
<1>1. FitsKind(key, s)
  BY PlanFacts
<1>2. s.entry \in DOMAIN Plan /\ Plan[s.entry].in = key /\ s.maxItems \in Nat /\ s.duration \in Nat
  BY <1>1 DEF FitsKind
<1>3. CostOf[s.entry] \in Nat /\ Body(s) = s.maxItems * CostOf[s.entry]
  BY <1>2, PlanFacts DEF Body
<1>4. Body(s) \in Nat
  <2>1. \A k, c \in Nat : k * c \in Nat
    OBVIOUS
  <2> QED
    BY <1>2, <1>3, <2>1
<1>5. Targets(s) = {s.completed, s.stopped}
  BY DEF Targets
<1>6. \A way \in {"completed", "stopped"} : Route(s, way) \in Targets(s)
  BY <1>5 DEF Route
<1>7. \A t \in Targets(s) : /\ t \in DOMAIN Plan /\ Plan[t].in = s.in
                            /\ CostOf[key] >= 1 + Body(s) + CostOf[t]
  BY PlanFacts
<1>8. \A t \in Targets(s) : CostOf[t] \in Nat
  BY <1>7, PlanFacts
<1> QED
  BY <1>2, <1>3, <1>4, <1>6, <1>7, <1>8

LEMMA WeightNat ==
  ASSUME NEW f, FrameOk(f)
  PROVE  /\ Weight(f) \in Nat
         /\ \A way \in {"completed", "stopped"} :
               Weight(f) >= CostOf[Route(Plan[f.step], way)]
         /\ f.index + 1 < f.count =>
               Weight(f) = CostOf[Plan[f.step].entry] + Weight([f EXCEPT !.index = @ + 1])
<1> DEFINE key == f.step
           s == Plan[key]
           c == CostOf[s.entry]
           k == f.count - f.index - 1
<1>1. key \in DOMAIN Plan /\ s.kind = "foreach" /\ f.count \in Nat /\ f.index \in Nat /\ f.index < f.count
  BY DEF FrameOk, Frame
<1>2. k \in Nat /\ c \in Nat /\ CostOf[key] \in Nat /\ Body(s) \in Nat
  BY <1>1, ForeachFacts, PlanFacts
<1>3. k * c \in Nat /\ k * c = c + (k - 1) * c
  <2>1. \A a, d \in Nat : a * d \in Nat /\ a * d = d + (a - 1) * d
    OBVIOUS
  <2> HIDE DEF k, c
  <2> QED
    BY <1>2, <2>1
<1>4. \A way \in {"completed", "stopped"} :
         /\ CostOf[Route(s, way)] \in Nat
         /\ CostOf[key] >= 1 + Body(s) + CostOf[Route(s, way)]
  BY <1>1, ForeachFacts
<1>5. Weight(f) = k * c + (CostOf[key] - 1 - Body(s))
  BY DEF Weight
<1>6. CostOf[key] - 1 - Body(s) \in Nat
  BY <1>2, <1>4
<1>7. Weight(f) \in Nat
  <2> HIDE DEF k, c, key, s
  <2> QED
    BY <1>3, <1>5, <1>6
<1>8. ASSUME NEW way \in {"completed", "stopped"} PROVE Weight(f) >= CostOf[Route(s, way)]
  <2> HIDE DEF k, c, key, s
  <2> QED
    BY <1>2, <1>3, <1>4, <1>5
<1>9. ASSUME f.index + 1 < f.count PROVE Weight(f) = c + Weight([f EXCEPT !.index = @ + 1])
  <2> DEFINE g == [f EXCEPT !.index = @ + 1]
  <2>1. g.step = key /\ g.count = f.count /\ g.index = f.index + 1
    BY DEF FrameOk, Frame
  <2>2. g.count - g.index - 1 = k - 1
    BY <1>1, <2>1
  <2>3. Weight(g) = (k - 1) * c + (CostOf[key] - 1 - Body(s))
    BY <2>1, <2>2 DEF Weight
  <2>4. (k - 1) * c \in Int
    <3>1. k - 1 \in Int /\ c \in Int
      BY <1>2
    <3> HIDE DEF k, c
    <3> QED
      BY <3>1
  <2> HIDE DEF k, c, key, s, g
  <2> QED
    BY <1>2, <1>3, <1>5, <1>6, <2>3, <2>4 DEF g
<1> QED
  BY <1>7, <1>8, <1>9

----
(* Deadlines. *)

LEMMA LeftsFacts ==
  ASSUME NEW e, e.stack \in Seq(Frame)
  PROVE  /\ Frames(e) = 1..Len(e.stack) /\ Len(e.stack) \in Nat
         /\ \A i \in Frames(e) : e.stack[i].left \in Int
         /\ e.stack # << >> => /\ Min(FrameLefts(e)) \in FrameLefts(e)
                               /\ \A i \in Frames(e) : Min(FrameLefts(e)) <= e.stack[i].left
<1> DEFINE n == Len(e.stack)
           f == [i \in 1..n |-> e.stack[i].left]
<1>1. Frames(e) = 1..n /\ n \in Nat
  BY DEF Frames
<1>2. \A i \in 1..n : e.stack[i].left \in Int
  <2>1. \A i \in 1..n : e.stack[i] \in Frame
    OBVIOUS
  <2> QED
    BY <2>1 DEF Frame
<1>3. ASSUME e.stack # << >>
      PROVE  /\ Min(FrameLefts(e)) \in FrameLefts(e)
             /\ \A i \in Frames(e) : Min(FrameLefts(e)) <= e.stack[i].left
  <2>1. f \in [1..n -> Int] /\ (\A i \in 1..n : f[i] = e.stack[i].left)
    BY <1>2
  <2>2. n > 0
    BY <1>3
  <2>3. FrameLefts(e) = {f[i] : i \in 1..n}
    BY <1>1 DEF FrameLefts
  <2> HIDE DEF f, n
  <2>4. /\ Min({f[i] : i \in 1..n}) \in {f[i] : i \in 1..n}
        /\ \A j \in 1..n : Min({f[i] : i \in 1..n}) <= f[j]
    BY <1>1, <2>1, <2>2, MinOfImage
  <2> QED
    BY <1>1, <2>1, <2>3, <2>4
<1> QED
  BY <1>1, <1>2, <1>3

\* The foreach that is over first is one of the frames.
LEMMA EarliestFrameFacts ==
  ASSUME NEW e, e.stack \in Seq(Frame), e.stack # << >>
  PROVE  EarliestFrame(e) \in 1..Len(e.stack)
<1> DEFINE T == {i \in Frames(e) : e.stack[i].left = Min(FrameLefts(e))}
<1>1. T \subseteq Nat /\ Frames(e) = 1..Len(e.stack)
  BY LeftsFacts
<1>2. T # {}
  <2>1. Min(FrameLefts(e)) \in FrameLefts(e)
    BY LeftsFacts
  <2> QED
    BY <2>1 DEF FrameLefts
<1>3. PICK i \in T : \A j \in T : i <= j
  <2> HIDE DEF T
  <2> QED
    BY <1>1, <1>2, LeastNat
<1>4. \E k \in Frames(e) :
         /\ e.stack[k].left = Min(FrameLefts(e))
         /\ \A j \in Frames(e) : e.stack[j].left = e.stack[k].left => k <= j
  BY <1>3
<1> QED
  BY <1>1, <1>4 DEF EarliestFrame

LEMMA AttemptLeftFacts ==
  ASSUME NEW e, e.stack \in Seq(Frame), NEW s, s.timeout \in Nat \ {0}, NEW delay \in Nat,
         delay = 0 \/ ~TooLate(e, delay)
  PROVE  LET left == AttemptLeft(e, s, delay) IN
         /\ left \in Nat
         /\ \A i \in DOMAIN e.stack : left <= NotNegative(e.stack[i].left)
         /\ delay > 0 => delay < left
<1> DEFINE own == delay + s.timeout
           S == {own} \cup FrameLefts(e)
           m == Min(FrameLefts(e))
<1>1. own \in Int /\ delay < own
  OBVIOUS
<1>2. CASE e.stack = << >>
  <2>1. S = {own} /\ DOMAIN e.stack = {}
    BY <1>2 DEF FrameLefts, Frames
  <2>2. Min(S) = own
    BY <1>1, <2>1 DEF Min
  <2> QED
    BY <1>1, <2>1, <2>2 DEF AttemptLeft, NotNegative
<1>3. CASE e.stack # << >>
  <2>1. /\ m \in FrameLefts(e) /\ m \in Int
        /\ \A i \in Frames(e) : m <= e.stack[i].left /\ e.stack[i].left \in Int
    BY <1>3, LeftsFacts DEF FrameLefts
  <2>2. delay = 0 \/ delay < m
    BY <1>3, <2>1 DEF TooLate
  <2>3. \A l \in FrameLefts(e) : l \in Int /\ m <= l
    BY <2>1 DEF FrameLefts
  <2>a. own \in S /\ m \in S /\ \A l \in S : l = own \/ l \in FrameLefts(e)
    BY <2>1
  <2>b. \A i \in DOMAIN e.stack : e.stack[i].left \in S /\ e.stack[i].left \in Int
    BY <2>1 DEF FrameLefts, Frames
  <2>c. Min(S) = CHOOSE k \in S : \A l \in S : k <= l
    BY DEF Min
  <2>d. AttemptLeft(e, s, delay) = NotNegative(Min(S))
    BY DEF AttemptLeft
  <2> HIDE DEF S, m, own
  <2>4. \E k \in S : \A l \in S : k <= l
    <3>1. CASE own <= m
      BY <1>1, <2>1, <2>3, <2>a, <3>1
    <3>2. CASE m <= own
      BY <1>1, <2>1, <2>3, <2>a, <3>2
    <3> QED
      BY <1>1, <2>1, <3>1, <3>2
  <2>5. Min(S) \in S /\ \A l \in S : Min(S) <= l
    BY <2>4, <2>c
  <2>6. Min(S) \in Int /\ (delay > 0 => delay < Min(S))
    <3>1. \A l \in S : l \in Int /\ (delay > 0 => delay < l)
      BY <1>1, <2>1, <2>2, <2>3, <2>a
    <3> QED
      BY <2>5, <3>1
  <2>7. AttemptLeft(e, s, delay) \in Nat /\ (delay > 0 => delay < AttemptLeft(e, s, delay))
    BY <2>6, <2>d DEF NotNegative
  <2>8. ASSUME NEW i \in DOMAIN e.stack
        PROVE  AttemptLeft(e, s, delay) <= NotNegative(e.stack[i].left)
    BY <2>5, <2>6, <2>b, <2>d DEF NotNegative
  <2> QED
    BY <2>7, <2>8
<1> QED
  BY <1>2, <1>3

----
(* What each part of a transition leaves behind. *)

LEMMA ExceptFacts ==
  ASSUME NEW x, NEW first, TransitionOk(x, first),
         NEW e \in EngineRecord, StackOk(e.stack), SummaryOk(e.out)
  PROVE  TransitionOk([x EXCEPT !.e = e], first)
<1> DEFINE y == [x EXCEPT !.e = e]
<1>1. y = [e |-> e, n |-> x.n, effects |-> x.effects]
  BY DEF TransitionOk
<1>2. y.e = e /\ y.n = x.n /\ y.effects = x.effects
  BY <1>1
<1> HIDE DEF y
<1> QED
  BY <1>1, <1>2 DEF TransitionOk

LEMMA OnwardFacts ==
  ASSUME NEW x, NEW first, TransitionOk(x, first), NEW s \in DOMAIN Plan,
         NEW stack \in Seq(Frame), StackOk(stack),
         NEW out \in SummaryRecord \cup {None}, SummaryOk(out)
  PROVE  LET y == Onward(x, s, stack, out) IN
         /\ TransitionOk(y, first)
         /\ y.effects = x.effects /\ y.n = x.n
         /\ y.e.status = "running" /\ y.e.cursor = s /\ y.e.stack = stack
         /\ y.e.out = out /\ y.e.steps = x.e.steps /\ y.e.active = None
<1> DEFINE e == [x.e EXCEPT !.status = "running", !.active = None, !.cursor = s,
                            !.stack = stack, !.out = out]
           y == [x EXCEPT !.e = e]
<1>1. /\ e \in EngineRecord /\ e.stack = stack /\ e.out = out
      /\ e.status = "running" /\ e.cursor = s /\ e.active = None /\ e.steps = x.e.steps
  BY DEF TransitionOk, EngineRecord
<1>2. Onward(x, s, stack, out) = y
  BY DEF Onward
<1>3. y.e = e /\ y.n = x.n /\ y.effects = x.effects
  BY DEF TransitionOk
<1> HIDE DEF e
<1>4. TransitionOk(y, first)
  BY <1>1, ExceptFacts
<1> QED
  BY <1>1, <1>2, <1>3, <1>4

LEMMA SettleFacts ==
  ASSUME NEW x, NEW first, TransitionOk(x, first), AllPassive(x), x.e.steps <= ExecutionCost,
         NEW status \in Settled
  PROVE  DrivenOk(Settle(x, status), first)
<1> DEFINE e == [x.e EXCEPT !.status = status, !.cursor = None, !.active = None]
           y == [x EXCEPT !.e = e]
<1>1. /\ e \in EngineRecord /\ e.stack = x.e.stack /\ e.out = x.e.out
      /\ e.status = status /\ e.cursor = None /\ e.active = None /\ e.steps = x.e.steps
  BY DEF TransitionOk, EngineRecord, Settled
<1>2. Settle(x, status) = y
  BY DEF Settle, TransitionOk, EngineRecord
<1>3. y.e = e /\ y.effects = x.effects
  BY DEF TransitionOk
<1>4. TransitionOk(y, first)
  <2>1. StackOk(e.stack) /\ SummaryOk(e.out)
    BY <1>1 DEF TransitionOk
  <2> HIDE DEF e
  <2> QED
    BY <1>1, <2>1, ExceptFacts
<1> HIDE DEF y, e
<1>5. SettledOk(y.e) /\ AllPassive(y)
  BY <1>1, <1>3 DEF SettledOk, AllPassive
<1> QED
  BY <1>2, <1>4, <1>5 DEF DrivenOk

\* What is left of a stack below its i-th frame.
LEMMA PrefixFacts ==
  ASSUME NEW stack \in Seq(Frame), StackOk(stack), NEW i \in 1..Len(stack)
  PROVE  LET rest == SubSeq(stack, 1, i - 1) IN
         /\ rest \in Seq(Frame) /\ Len(rest) = i - 1 /\ StackOk(rest)
         /\ Level(rest, i - 1) = Plan[stack[i].step].in
         /\ FrameOk(stack[i])
<1> DEFINE rest == SubSeq(stack, 1, i - 1)
<1>1. rest \in Seq(Frame) /\ Len(rest) = i - 1 /\ \A j \in 1..(i - 1) : rest[j] = stack[j]
  OBVIOUS
<1>2. \A j \in 0..(i - 1) : Level(rest, j) = Level(stack, j)
  BY <1>1 DEF Level
<1>3. StackOk(rest)
  <2> SUFFICES ASSUME NEW j \in 1..(i - 1)
               PROVE  FrameOk(rest[j]) /\ Plan[rest[j].step].in = Level(rest, j - 1)
    BY <1>1 DEF StackOk
  <2>1. j \in 1..Len(stack) /\ j - 1 \in 0..(i - 1) /\ rest[j] = stack[j]
    BY <1>1
  <2> QED
    BY <1>2, <2>1 DEF StackOk
<1>4. i - 1 \in 0..(i - 1)
  OBVIOUS
<1>5. Plan[stack[i].step].in = Level(stack, i - 1) /\ FrameOk(stack[i])
  BY DEF StackOk
<1> QED
  BY <1>1, <1>2, <1>3, <1>4, <1>5

\* Budgets for the rest of a stack, and for one frame more.
LEMMA PrefixBudget ==
  ASSUME NEW stack \in Seq(Frame), StackOk(stack), NEW i \in 1..Len(stack),
         NEW b, IsBudget(b, stack)
  PROVE  LET rest == SubSeq(stack, 1, i - 1)
             part == [j \in 0..(i - 1) |-> b[j]]
         IN  /\ IsBudget(part, rest)
             /\ b[Len(stack)] \in Nat /\ part[i - 1] \in Nat
             /\ b[Len(stack)] >= part[i - 1] + Weight(stack[i])
<1> DEFINE rest == SubSeq(stack, 1, i - 1)
           part == [j \in 0..(i - 1) |-> b[j]]
<1>1. Len(rest) = i - 1 /\ \A j \in 1..(i - 1) : rest[j] = stack[j]
  OBVIOUS
<1>2. part \in [0..Len(rest) -> Nat] /\ \A j \in 0..(i - 1) : part[j] = b[j]
  BY <1>1 DEF IsBudget
<1>3. \A k \in 1..(i - 1) : \A j \in 0..(k - 1) : part[k] >= part[j] + Weight(rest[k])
  <2> SUFFICES ASSUME NEW k \in 1..(i - 1), NEW j \in 0..(k - 1)
               PROVE  part[k] >= part[j] + Weight(rest[k])
    BY Zenon
  <2>1. k \in 1..Len(stack) /\ k \in 0..(i - 1) /\ j \in 0..(i - 1) /\ rest[k] = stack[k]
    BY <1>1
  <2> HIDE DEF rest, part
  <2> QED
    BY <1>2, <2>1 DEF IsBudget
<1>4. IsBudget(part, rest)
  <2> HIDE DEF rest, part
  <2> QED
    BY <1>1, <1>2, <1>3 DEF IsBudget
<1>5. i - 1 \in 0..(i - 1) /\ part[i - 1] = b[i - 1]
  BY <1>2
<1>6. /\ b[Len(stack)] \in Nat /\ b[i - 1] \in Nat /\ b[i] \in Nat
      /\ b[i] >= b[i - 1] + Weight(stack[i])
      /\ i < Len(stack) => b[Len(stack)] >= b[i] + Weight(stack[Len(stack)])
  <2>1. Len(stack) \in Nat
    OBVIOUS
  <2> QED
    BY <2>1 DEF IsBudget
<1>7. Weight(stack[Len(stack)]) \in Nat /\ Weight(stack[i]) \in Nat
  <2>1. Len(stack) \in 1..Len(stack)
    OBVIOUS
  <2>2. FrameOk(stack[i]) /\ FrameOk(stack[Len(stack)])
    BY <2>1 DEF StackOk
  <2> QED
    BY <2>2, WeightNat
<1>8. b[Len(stack)] >= b[i]
  BY <1>6, <1>7
<1> QED
  BY <1>4, <1>5, <1>6, <1>7, <1>8

LEMMA GrownBudget ==
  ASSUME NEW stack \in Seq(Frame), NEW f \in Frame, Weight(f) \in Nat, StackOk(stack),
         NEW b, IsBudget(b, stack)
  PROVE  LET more == Append(stack, f)
             n    == Len(stack)
         IN \E a : IsBudget(a, more) /\ a[Len(more)] = b[n] + Weight(f)
<1> DEFINE n == Len(stack)
           more == Append(stack, f)
           a == [j \in 0..(n + 1) |-> IF j = n + 1 THEN b[n] + Weight(f) ELSE b[j]]
<1>1. /\ n \in Nat /\ Len(more) = n + 1 /\ more[n + 1] = f
      /\ \A j \in 1..n : more[j] = stack[j]
  OBVIOUS
<1>2. /\ \A j \in 0..n : b[j] \in Nat
      /\ \A k \in 1..n : \A j \in 0..(k - 1) : b[k] >= b[j] + Weight(stack[k])
      /\ b[n] \in Nat
  BY <1>1 DEF IsBudget
<1>3. \A j \in 0..n : a[j] = b[j] /\ j \in 0..(n + 1)
  BY <1>1
<1>4. a[n + 1] = b[n] + Weight(f)
  BY <1>1
<1>5. a \in [0..(n + 1) -> Nat]
  <2>1. \A j \in 0..(n + 1) : (IF j = n + 1 THEN b[n] + Weight(f) ELSE b[j]) \in Nat
    <3>1. \A j \in 0..(n + 1) : j # n + 1 => j \in 0..n
      BY <1>1
    <3> QED
      BY <1>2, <3>1
  <2> QED
    BY <2>1
<1>6. ASSUME NEW k \in 1..(n + 1), NEW j \in 0..(k - 1) PROVE a[k] >= a[j] + Weight(more[k])
  <2>1. CASE k \in 1..n
    <3>1. k \in 0..n /\ j \in 0..n
      BY <1>1, <2>1
    <3> HIDE DEF a, more
    <3> QED
      BY <1>1, <1>2, <1>3, <2>1, <3>1
  <2>2. CASE k = n + 1
    <3>1. j \in 0..n
      BY <1>1, <2>2
    <3>2. b[j] <= b[n]
      <4>1. CASE j = n
        BY <1>2, <4>1
      <4>2. CASE j < n
        <5>1. n \in 1..n /\ j \in 0..(n - 1)
          BY <1>1, <3>1, <4>2
        <5>2. b[n] >= b[j] + Weight(stack[n])
          BY <1>2, <5>1
        <5>3. FrameOk(stack[n])
          BY <5>1 DEF StackOk
        <5>4. Weight(stack[n]) \in Nat
          BY <5>3, WeightNat
        <5> QED
          BY <1>2, <3>1, <5>2, <5>4
      <4> QED
        BY <1>1, <3>1, <4>1, <4>2
    <3> HIDE DEF a, more
    <3> QED
      BY <1>1, <1>2, <1>3, <1>4, <2>2, <3>1, <3>2
  <2> QED
    BY <1>1, <2>1, <2>2
<1> HIDE DEF a, more
<1>7. IsBudget(a, more)
  BY <1>1, <1>5, <1>6 DEF IsBudget
<1> QED
  BY <1>1, <1>4, <1>7 DEF more

LEMMA AppendFacts ==
  ASSUME NEW stack \in Seq(Frame), StackOk(stack), NEW f, FrameOk(f),
         Plan[f.step].in = Level(stack, Len(stack))
  PROVE  LET more == Append(stack, f) IN
         more \in Seq(Frame) /\ StackOk(more) /\ Level(more, Len(more)) = f.step
<1> DEFINE n == Len(stack)
           more == Append(stack, f)
<1>0. f \in Frame
  BY DEF FrameOk
<1>1. /\ n \in Nat /\ Len(more) = n + 1 /\ more[n + 1] = f /\ more \in Seq(Frame)
      /\ \A j \in 1..n : more[j] = stack[j]
  BY <1>0
<1>2. \A j \in 0..n : Level(more, j) = Level(stack, j)
  BY <1>1 DEF Level
<1>3. ASSUME NEW k \in 1..(n + 1)
      PROVE  FrameOk(more[k]) /\ Plan[more[k].step].in = Level(more, k - 1)
  <2>1. k - 1 \in 0..n
    BY <1>1
  <2>2. CASE k \in 1..n
    <3> HIDE DEF more
    <3> QED
      BY <1>1, <1>2, <2>1, <2>2 DEF StackOk
  <2>3. CASE k = n + 1
    <3>1. k - 1 = n
      BY <1>1, <2>3
    <3> HIDE DEF more
    <3> QED
      BY <1>1, <1>2, <2>1, <2>3, <3>1
  <2> QED
    BY <1>1, <2>2, <2>3
<1>4. Level(more, n + 1) = f.step
  BY <1>1 DEF Level
<1> HIDE DEF more
<1> QED
  BY <1>1, <1>3, <1>4 DEF StackOk, more

\* A run goes on at a step of the block its stack ends in.
LEMMA GoesOnOk ==
  ASSUME NEW x, NEW first, TransitionOk(x, first), AllPassive(x),
         NEW t \in DOMAIN Plan, NEW stack \in Seq(Frame), StackOk(stack),
         Plan[t].in = Level(stack, Len(stack)),
         NEW out \in SummaryRecord \cup {None}, SummaryOk(out),
         NEW b, IsBudget(b, stack), x.e.steps + CostOf[t] + b[Len(stack)] <= ExecutionCost
  PROVE  LET y == Onward(x, t, stack, out) IN
         RunningOk(y, first) /\ y.e.steps = x.e.steps
<1> DEFINE y == Onward(x, t, stack, out)
<1>1. /\ TransitionOk(y, first) /\ y.effects = x.effects
      /\ y.e.status = "running" /\ y.e.cursor = t /\ y.e.stack = stack
      /\ y.e.steps = x.e.steps
  BY OnwardFacts
<1> HIDE DEF y
<1>2. OnStep(y.e) /\ Affords(y.e, CostOf[t])
  BY <1>1 DEF OnStep, Affords
<1> QED
  BY <1>1, <1>2 DEF RunningOk, AllPassive, y

LEMMA LeaveOk ==
  ASSUME NEW x, NEW first, TransitionOk(x, first), AllPassive(x), Affords(x.e, 0),
         NEW i \in 1..Len(x.e.stack), NEW way \in {"completed", "stopped"},
         NEW frame, frame.step = x.e.stack[i].step,
         Summary(frame, way) \in SummaryRecord, SummaryOk(Summary(frame, way))
  PROVE  RunningOk(Leave(x, i, way, frame), first) /\ Leave(x, i, way, frame).e.steps = x.e.steps
<1> DEFINE stack == x.e.stack
           key   == stack[i].step
           t     == Route(Plan[key], way)
           rest  == SubSeq(stack, 1, i - 1)
           out   == Summary(frame, way)
<1>1. stack \in Seq(Frame) /\ StackOk(stack) /\ x.e.steps \in Nat
  BY DEF TransitionOk, EngineRecord
<1>2. /\ rest \in Seq(Frame) /\ Len(rest) = i - 1 /\ StackOk(rest)
      /\ Level(rest, i - 1) = Plan[key].in /\ FrameOk(stack[i])
  BY <1>1, PrefixFacts
<1>3. key \in DOMAIN Plan /\ Plan[key].kind = "foreach"
  BY <1>2 DEF FrameOk, Frame
<1>4. /\ t \in DOMAIN Plan /\ Plan[t].in = Plan[key].in /\ CostOf[t] \in Nat
      /\ Weight(stack[i]) >= CostOf[t] /\ Weight(stack[i]) \in Nat
  BY <1>2, <1>3, ForeachFacts, WeightNat
<1>5. PICK b : IsBudget(b, stack) /\ x.e.steps + 0 + b[Len(stack)] <= ExecutionCost
  BY DEF Affords
<1>6. PICK a : /\ IsBudget(a, rest) /\ b[Len(stack)] \in Nat /\ a[i - 1] \in Nat
               /\ b[Len(stack)] >= a[i - 1] + Weight(stack[i])
  BY <1>1, <1>5, PrefixBudget
<1>7. x.e.steps + CostOf[t] + a[i - 1] <= ExecutionCost
  <2> DEFINE steps == x.e.steps
             all   == b[Len(stack)]
             below == a[i - 1]
             own   == CostOf[t]
             w     == Weight(stack[i])
  <2>1. ExecutionCost \in Nat
    BY PlanFacts DEF ExecutionCost
  <2>2. /\ steps \in Nat /\ all \in Nat /\ below \in Nat /\ own \in Nat /\ w \in Nat
        /\ steps + 0 + all <= ExecutionCost /\ all >= below + w /\ w >= own
    BY <1>1, <1>4, <1>5, <1>6
  <2> HIDE DEF steps, all, below, own, w
  <2>3. steps + own + below <= ExecutionCost
    BY <2>1, <2>2
  <2> QED
    BY <2>3 DEF steps, own, below
<1>8. Leave(x, i, way, frame) = Onward(x, t, rest, out)
  <2>1. frame.step = key
    OBVIOUS
  <2> QED
    BY <2>1 DEF Leave
<1> HIDE DEF t, rest, stack, out, key
<1>9. out \in SummaryRecord \cup {None} /\ SummaryOk(out)
  BY DEF out
<1>10. /\ t \in DOMAIN Plan /\ rest \in Seq(Frame) /\ StackOk(rest)
       /\ Plan[t].in = Level(rest, Len(rest)) /\ IsBudget(a, rest)
       /\ x.e.steps + CostOf[t] + a[Len(rest)] <= ExecutionCost
  BY <1>2, <1>4, <1>6, <1>7
<1> QED
  BY <1>8, <1>9, <1>10, GoesOnOk

LEMMA StopForeachOk ==
  ASSUME NEW x, NEW first, TransitionOk(x, first), AllPassive(x), Affords(x.e, 0),
         x.e.stack # << >>
  PROVE  RunningOk(StopForeach(x), first) /\ StopForeach(x).e.steps = x.e.steps
<1> DEFINE i == EarliestFrame(x.e)
           frame == x.e.stack[i]
<1>1. x.e.stack \in Seq(Frame) /\ StackOk(x.e.stack)
  BY DEF TransitionOk, EngineRecord
<1>2. i \in 1..Len(x.e.stack)
  BY <1>1, EarliestFrameFacts
<1> HIDE DEF i
<1>3. FrameOk(frame)
  BY <1>1, <1>2 DEF StackOk
<1> HIDE DEF frame
<1>4. Summary(frame, "stopped") \in SummaryRecord /\ SummaryOk(Summary(frame, "stopped"))
  BY <1>3 DEF FrameOk, Frame, Summary, SummaryRecord, SummaryOk
<1>5. StopForeach(x) = Leave(x, i, "stopped", frame)
  BY DEF StopForeach, i, frame
<1> QED
  BY <1>2, <1>4, <1>5, LeaveOk DEF frame

LEMMA PassForeachOk ==
  ASSUME NEW x, NEW first, TransitionOk(x, first), AllPassive(x), OnStep(x.e),
         Plan[x.e.cursor].kind = "foreach", Affords(x.e, CostOf[x.e.cursor] - 1),
         NEW count \in Nat, NEW way \in {"completed", "stopped"}, way = "completed" => count = 0
  PROVE  /\ RunningOk(PassForeach(x, count, way), first)
         /\ PassForeach(x, count, way).e.steps = x.e.steps
<1> DEFINE key   == x.e.cursor
           s     == Plan[key]
           stack == x.e.stack
           n     == Len(stack)
           f     == NewFrame(key, count)
<1>1. stack \in Seq(Frame) /\ StackOk(stack) /\ x.e.steps \in Nat /\ n \in Nat
  BY DEF TransitionOk, EngineRecord
<1>2. key \in DOMAIN Plan /\ s.in = Level(stack, n) /\ s.kind = "foreach"
  BY DEF OnStep
<1>3. /\ s.entry \in DOMAIN Plan /\ Plan[s.entry].in = key
      /\ s.maxItems \in Nat /\ s.duration \in Nat
      /\ Body(s) = s.maxItems * CostOf[s.entry] /\ Body(s) \in Nat
      /\ CostOf[s.entry] \in Nat
  BY <1>2, ForeachFacts
<1>4. /\ ExecutionCost \in Nat /\ CostOf[key] \in Nat /\ CostOf[s.entry] \in Nat
      /\ Body(s) \in Nat
  BY <1>2, <1>3, PlanFacts DEF ExecutionCost
<1>5. PICK b : IsBudget(b, stack) /\ x.e.steps + (CostOf[key] - 1) + b[n] <= ExecutionCost
  BY DEF Affords
<1>6. b[n] \in Nat
  BY <1>1, <1>5 DEF IsBudget
<1>7. /\ f = [step |-> key, count |-> count, index |-> 0, left |-> s.duration,
              succeeded |-> 0, failed |-> 0, unresolved |-> 0]
      /\ f \in Frame
  BY <1>2, <1>3 DEF NewFrame, Frame
<1> DEFINE t == Route(s, way)
           out == Summary(f, way)
<1>8. /\ t \in DOMAIN Plan /\ Plan[t].in = s.in /\ CostOf[t] \in Nat
      /\ CostOf[key] >= 1 + Body(s) + CostOf[t]
  BY <1>2, ForeachFacts
<1>9. out \in SummaryRecord /\ SummaryOk(out)
  BY <1>7 DEF Summary, SummaryRecord, SummaryOk
<1> HIDE DEF t, out, f
<1>10. x.e.steps + CostOf[t] + b[n] <= ExecutionCost
  <2> DEFINE steps == x.e.steps
             own   == CostOf[key]
             body  == Body(s)
             rest  == CostOf[t]
             more  == b[n]
  <2>1. /\ steps \in Nat /\ own \in Nat /\ body \in Nat /\ rest \in Nat /\ more \in Nat
        /\ ExecutionCost \in Nat
    BY <1>1, <1>4, <1>6, <1>8
  <2>2. steps + (own - 1) + more <= ExecutionCost
    BY <1>5
  <2>3. own >= 1 + body + rest
    BY <1>8
  <2> HIDE DEF steps, own, body, rest, more
  <2>4. steps + rest + more <= ExecutionCost
    BY <2>1, <2>2, <2>3
  <2> QED
    BY <2>4 DEF steps, rest, more
<1>11. PassForeach(x, count, way) = Onward(x, t, stack, out)
  BY Zenon DEF PassForeach, t, out, f, s, key, stack
<1>12. /\ t \in DOMAIN Plan /\ SummaryOk(out) /\ stack \in Seq(Frame) /\ StackOk(stack)
      /\ Plan[t].in = Level(stack, Len(stack)) /\ out \in SummaryRecord \cup {None}
  BY <1>1, <1>2, <1>8, <1>9
<1> HIDE DEF s, key
<1> QED
  BY <1>5, <1>10, <1>11, <1>12, GoesOnOk

LEMMA EnterForeachOk ==
  ASSUME NEW x, NEW first, TransitionOk(x, first), AllPassive(x), OnStep(x.e),
         Plan[x.e.cursor].kind = "foreach", Affords(x.e, CostOf[x.e.cursor] - 1),
         NEW count \in Nat
  PROVE  /\ RunningOk(EnterForeach(x, count), first)
         /\ EnterForeach(x, count).e.steps = x.e.steps
<1> DEFINE key   == x.e.cursor
           s     == Plan[key]
           stack == x.e.stack
           n     == Len(stack)
           f     == NewFrame(key, count)
<1>1. stack \in Seq(Frame) /\ StackOk(stack) /\ x.e.steps \in Nat /\ n \in Nat
  BY DEF TransitionOk, EngineRecord
<1>2. key \in DOMAIN Plan /\ s.in = Level(stack, n) /\ s.kind = "foreach"
  BY DEF OnStep
<1>3. /\ s.entry \in DOMAIN Plan /\ Plan[s.entry].in = key
      /\ s.maxItems \in Nat /\ s.duration \in Nat
      /\ Body(s) = s.maxItems * CostOf[s.entry] /\ Body(s) \in Nat
      /\ CostOf[s.entry] \in Nat
  BY <1>2, ForeachFacts
<1>4. /\ ExecutionCost \in Nat /\ CostOf[key] \in Nat /\ CostOf[s.entry] \in Nat
      /\ Body(s) \in Nat
  BY <1>2, <1>3, PlanFacts DEF ExecutionCost
<1>5. PICK b : IsBudget(b, stack) /\ x.e.steps + (CostOf[key] - 1) + b[n] <= ExecutionCost
  BY DEF Affords
<1>6. b[n] \in Nat
  BY <1>1, <1>5 DEF IsBudget
<1>7. /\ f = [step |-> key, count |-> count, index |-> 0, left |-> s.duration,
              succeeded |-> 0, failed |-> 0, unresolved |-> 0]
      /\ f \in Frame
  BY <1>2, <1>3 DEF NewFrame, Frame
<1>9. CASE count > s.maxItems \/ count = 0
  <2>1. \/ EnterForeach(x, count) = PassForeach(x, count, "stopped")
        \/ count = 0 /\ EnterForeach(x, count) = PassForeach(x, count, "completed")
    BY <1>9 DEF EnterForeach
  <2>2. CASE EnterForeach(x, count) = PassForeach(x, count, "stopped")
    BY <2>2, PassForeachOk
  <2>3. CASE count = 0 /\ EnterForeach(x, count) = PassForeach(x, count, "completed")
    BY <2>3, PassForeachOk
  <2> QED
    BY <2>1, <2>2, <2>3
<1>10. CASE ~(count > s.maxItems) /\ count # 0
  <2> DEFINE more == Append(stack, f)
             t == s.entry
  <2>1. EnterForeach(x, count) = Onward(x, t, more, None)
    BY <1>10, Zenon DEF EnterForeach
  <2>2. FrameOk(f)
    BY <1>2, <1>3, <1>7, <1>10 DEF FrameOk
  <2>3. f.step = key /\ f.count = count /\ f.index = 0
    BY <1>7
  <2> HIDE DEF f
  <2>4. more \in Seq(Frame) /\ StackOk(more) /\ Level(more, Len(more)) = key
    BY <1>1, <1>2, <2>2, <2>3, AppendFacts
  <2>5. Weight(f) \in Nat
    BY <2>2, WeightNat
  <2>6. PICK a : IsBudget(a, more) /\ a[Len(more)] = b[n] + Weight(f)
    <3>1. stack \in Seq(Frame) /\ StackOk(stack) /\ IsBudget(b, stack) /\ f \in Frame
      BY <1>1, <1>5, <1>7
    <3> HIDE DEF stack, key, s
    <3> QED
      BY <2>5, <3>1, GrownBudget
  <2>a. CostOf[t] \in Nat
    BY <1>4
  <2>7. CostOf[t] + Weight(f) <= CostOf[key] - 1
    <3>1. Weight(f) = (count - 0 - 1) * CostOf[t] + (CostOf[key] - 1 - Body(s))
      BY <2>3 DEF Weight
    <3>2. \A k, m, c \in Nat : k # 0 /\ k <= m => c + (k - 0 - 1) * c <= m * c
      <4>1. \A k, m, c \in Nat : k <= m => k * c <= m * c
        <5> SUFFICES ASSUME NEW k \in Nat, NEW m \in Nat, NEW c \in Nat, k <= m PROVE k * c <= m * c
          OBVIOUS
        <5>1. (m - k) \in Nat /\ (m - k) * c \in Nat
          OBVIOUS
        <5> QED
          BY <5>1
      <4>2. \A k, c \in Nat : c + (k - 0 - 1) * c = k * c
        OBVIOUS
      <4> QED
        BY <4>1, <4>2
    <3>3. CostOf[t] + (count - 0 - 1) * CostOf[t] <= Body(s)
      BY <1>3, <1>10, <3>2
    <3>4. (count - 0 - 1) * CostOf[t] \in Int
      <4>1. count - 0 - 1 \in Int /\ CostOf[t] \in Int
        BY <1>3
      <4>2. \A k, c \in Int : k * c \in Int
        OBVIOUS
      <4> QED
        BY <4>1, <4>2
    <3> HIDE DEF t, s, key
    <3> QED
      BY <1>3, <1>4, <2>5, <3>1, <3>3, <3>4 DEF t, key, s
  <2>8. x.e.steps + CostOf[t] + a[Len(more)] <= ExecutionCost
    <3>1. \A steps, own, most, k, m, w \in Nat :
             steps + (k - 1) + m <= most /\ own + w <= k - 1 => steps + own + (m + w) <= most
      OBVIOUS
    <3> HIDE DEF t, key, more, n, s, stack
    <3>2. /\ x.e.steps \in Nat /\ CostOf[t] \in Nat /\ ExecutionCost \in Nat
          /\ CostOf[key] \in Nat /\ b[n] \in Nat /\ Weight(f) \in Nat
      BY <1>1, <1>4, <1>6, <2>5, <2>a
    <3>3. x.e.steps + CostOf[t] + (b[n] + Weight(f)) <= ExecutionCost
      BY <1>5, <2>7, <3>1, <3>2
    <3> QED
      BY <2>6, <3>3
  <2>9. t \in DOMAIN Plan /\ Plan[t].in = Level(more, Len(more))
    BY <1>3, <2>4
  <2>10. /\ t \in DOMAIN Plan /\ more \in Seq(Frame) /\ StackOk(more)
         /\ SummaryOk(None) /\ None \in SummaryRecord \cup {None}
    BY <2>4, <2>9 DEF SummaryOk
  <2> HIDE DEF t, more
  <2> QED
    BY <2>1, <2>6, <2>8, <2>9, <2>10, GoesOnOk
<1> QED
  BY <1>9, <1>10

LEMMA CountedFacts ==
  ASSUME NEW f, FrameOk(f), NEW status \in {"succeeded", "failed", "unresolved"}
  PROVE  LET g == [f EXCEPT ![status] = @ + 1] IN
         /\ g \in Frame
         /\ g.step = f.step /\ g.count = f.count /\ g.index = f.index
         /\ g.succeeded + g.failed + g.unresolved = f.index + 1
<1>1. /\ f \in Frame /\ f.succeeded \in Nat /\ f.failed \in Nat /\ f.unresolved \in Nat
      /\ f.index \in Nat /\ f.succeeded + f.failed + f.unresolved = f.index
  BY DEF FrameOk, Frame
<1>2. CASE status = "succeeded"
  BY <1>1, <1>2 DEF Frame
<1>3. CASE status = "failed"
  BY <1>1, <1>3 DEF Frame
<1>4. CASE status = "unresolved"
  BY <1>1, <1>4 DEF Frame
<1> QED
  BY <1>2, <1>3, <1>4

LEMMA NextItem ==
  ASSUME NEW f \in Frame
  PROVE  LET g == [f EXCEPT !.index = @ + 1] IN
         /\ g \in Frame /\ g.step = f.step /\ g.count = f.count /\ g.index = f.index + 1
         /\ g.succeeded = f.succeeded /\ g.failed = f.failed /\ g.unresolved = f.unresolved
  BY DEF Frame

LEMMA EndItemOk ==
  ASSUME NEW x, NEW first, TransitionOk(x, first), AllPassive(x), Affords(x.e, 0),
         x.e.stack # << >>, NEW status \in {"succeeded", "failed", "unresolved"}
  PROVE  RunningOk(EndItem(x, status), first) /\ EndItem(x, status).e.steps = x.e.steps
<1> DEFINE stack   == x.e.stack
           i       == Len(stack)
           f       == stack[i]
           counted == [f EXCEPT ![status] = @ + 1]
           s       == Plan[counted.step]
           g       == [counted EXCEPT !.index = @ + 1]
<1>1. /\ stack \in Seq(Frame) /\ StackOk(stack) /\ x.e.steps \in Nat /\ i \in 1..Len(stack)
      /\ i \in Nat
  BY DEF TransitionOk, EngineRecord
<1>2. FrameOk(f)
  BY <1>1 DEF StackOk
<1>3. /\ counted \in Frame
      /\ counted.step = f.step /\ counted.count = f.count /\ counted.index = f.index
      /\ counted.succeeded + counted.failed + counted.unresolved = f.index + 1
  <2> HIDE DEF f
  <2> QED
    BY <1>2, CountedFacts
<1> HIDE DEF counted
<1>4. /\ f \in Frame /\ f.index \in Nat /\ f.count \in Nat /\ f.index + 1 <= f.count
      /\ f.step \in DOMAIN Plan /\ Plan[f.step].kind = "foreach"
      /\ f.count <= Plan[f.step].maxItems /\ f.index < f.count
  <2> HIDE DEF f
  <2> QED
    BY <1>2 DEF FrameOk, Frame
<1>5. ASSUME NEW way \in {"completed", "stopped"}, way = "completed" => f.index + 1 = f.count
      PROVE  RunningOk(Leave(x, i, way, counted), first) /\ Leave(x, i, way, counted).e.steps = x.e.steps
  <2>1. Summary(counted, way) \in SummaryRecord
    BY <1>3 DEF Summary, SummaryRecord, Frame
  <2>2. SummaryOk(Summary(counted, way))
    <3>1. /\ Summary(counted, way).total = counted.count
          /\ Summary(counted, way).succeeded = counted.succeeded
          /\ Summary(counted, way).failed = counted.failed
          /\ Summary(counted, way).unresolved = counted.unresolved
          /\ Summary(counted, way).by = way
      BY DEF Summary
    <3> HIDE DEF f
    <3> QED
      BY <1>3, <1>4, <1>5, <3>1 DEF SummaryOk
  <2> QED
    BY <1>1, <1>3, <2>1, <2>2, LeaveOk
<1>6. CASE counted.index + 1 < counted.count
  <2> DEFINE rest == SubSeq(stack, 1, i - 1)
             more == Append(rest, g)
             t    == s.entry
  <2>1. /\ g \in Frame /\ g.step = counted.step /\ g.count = counted.count
        /\ g.index = counted.index + 1 /\ g.succeeded = counted.succeeded
        /\ g.failed = counted.failed /\ g.unresolved = counted.unresolved
    BY <1>3, NextItem
  <2> HIDE DEF g
  <2>2. /\ g \in Frame /\ g.step = f.step /\ g.count = f.count /\ g.index = f.index + 1
        /\ g.succeeded + g.failed + g.unresolved = g.index
    <3> HIDE DEF f
    <3> QED
      BY <1>3, <2>1
  <2> HIDE DEF f
  <2>3. FrameOk(g)
    BY <1>3, <1>4, <1>6, <2>2 DEF FrameOk
  <2>4. /\ rest \in Seq(Frame) /\ Len(rest) = i - 1 /\ StackOk(rest)
        /\ Level(rest, i - 1) = Plan[g.step].in
    BY <1>1, <2>2, PrefixFacts DEF f
  <2>5. more \in Seq(Frame) /\ StackOk(more) /\ Level(more, Len(more)) = g.step
    <3> HIDE DEF rest
    <3> QED
      BY <2>3, <2>4, AppendFacts
  <2>6. [stack EXCEPT ![i] = g] = more
    <3>1. /\ [stack EXCEPT ![i] = g] \in Seq(Frame) /\ Len([stack EXCEPT ![i] = g]) = i
          /\ \A j \in 1..i : [stack EXCEPT ![i] = g][j] = IF j = i THEN g ELSE stack[j]
      BY <1>1, <2>2
    <3>2. Len(more) = i /\ \A j \in 1..i : more[j] = IF j = i THEN g ELSE stack[j]
      BY <1>1, <2>2, <2>4
    <3> HIDE DEF more
    <3> QED
      BY <2>5, <3>1, <3>2
  <2>7. PICK b : IsBudget(b, stack) /\ x.e.steps + 0 + b[Len(stack)] <= ExecutionCost
    BY DEF Affords
  <2>8. PICK d : /\ IsBudget(d, rest) /\ b[Len(stack)] \in Nat /\ d[i - 1] \in Nat
                 /\ b[Len(stack)] >= d[i - 1] + Weight(f)
    BY <1>1, <2>7, PrefixBudget DEF f
  <2>9. /\ Weight(g) \in Nat /\ Weight(f) \in Nat
        /\ Weight(f) = CostOf[t] + Weight(g) /\ CostOf[t] \in Nat
        /\ t \in DOMAIN Plan /\ Plan[t].in = g.step
    <3>1. Weight(g) \in Nat /\ Weight(f) \in Nat
      BY <1>2, <2>3, WeightNat
    <3>2. Weight(f) = CostOf[Plan[f.step].entry] + Weight([f EXCEPT !.index = @ + 1])
      BY <1>2, <1>3, <1>6, WeightNat
    <3>3. Weight([f EXCEPT !.index = @ + 1]) = Weight(g)
      <4> DEFINE h == [f EXCEPT !.index = @ + 1]
      <4>1. h.step = f.step /\ h.count = f.count /\ h.index = f.index + 1
        BY <1>4 DEF Frame
      <4> HIDE DEF h
      <4> QED
        BY <2>2, <4>1 DEF Weight, h
    <3>4. t = Plan[f.step].entry
      BY <1>3
    <3>5. t \in DOMAIN Plan /\ Plan[t].in = f.step /\ CostOf[t] \in Nat
      BY <1>4, <3>4, ForeachFacts
    <3> HIDE DEF t
    <3> QED
      BY <2>2, <3>1, <3>2, <3>3, <3>4, <3>5
  <2> HIDE DEF t, rest
  <2>10. PICK a : IsBudget(a, more) /\ a[Len(more)] = d[i - 1] + Weight(g)
    BY <2>2, <2>4, <2>8, <2>9, GrownBudget
  <2> HIDE DEF more
  <2>11. x.e.steps + CostOf[t] + a[Len(more)] <= ExecutionCost
    <3>1. ExecutionCost \in Nat
      BY PlanFacts DEF ExecutionCost
    <3> DEFINE steps == x.e.steps
               all   == b[Len(stack)]
               below == d[i - 1]
               own   == CostOf[t]
               w     == Weight(g)
    <3>2. /\ steps \in Nat /\ all \in Nat /\ below \in Nat /\ own \in Nat /\ w \in Nat
          /\ steps + 0 + all <= ExecutionCost
          /\ all >= below + Weight(f) /\ Weight(f) = own + w
      BY <1>1, <2>7, <2>8, <2>9
    <3>3. a[Len(more)] = below + w
      BY <2>10
    <3> HIDE DEF steps, all, below, own, w
    <3>4. steps + own + (below + w) <= ExecutionCost
      BY <3>1, <3>2
    <3> QED
      BY <3>3, <3>4 DEF steps, own
  <2>12. SummaryOk(None) /\ None \in SummaryRecord \cup {None}
    BY DEF SummaryOk
  <2>13. LET y == Onward(x, t, more, None) IN RunningOk(y, first) /\ y.e.steps = x.e.steps
    BY <2>5, <2>9, <2>10, <2>11, <2>12, GoesOnOk
  <2>14. \/ EndItem(x, status) = Leave(x, i, "stopped", counted)
         \/ EndItem(x, status) = Onward(x, t, more, None)
    BY <1>6, <2>6 DEF EndItem, t, counted, g, f
  <2> QED
    BY <1>5, <2>13, <2>14
<1>7. CASE ~(counted.index + 1 < counted.count)
  <2>1. f.index + 1 = f.count
    <3> HIDE DEF f
    <3> QED
      BY <1>3, <1>4, <1>7
  <2>2. \/ EndItem(x, status) = Leave(x, i, "stopped", counted)
        \/ EndItem(x, status) = Leave(x, i, "completed", counted)
    BY <1>7 DEF EndItem, counted
  <2> QED
    BY <1>5, <2>1, <2>2
<1> QED
  BY <1>6, <1>7

LEMMA EmitFacts ==
  ASSUME NEW x, NEW first, TransitionOk(x, first),
         NEW f \in Invocation \cup Assistance, f.id = x.n
  PROVE  LET y == Emit(x, f) IN
         /\ TransitionOk(y, first)
         /\ y.e = x.e /\ y.n = x.n + 1 /\ y.effects = x.effects \cup {f}
<1> DEFINE y == Emit(x, f)
<1>1. /\ y.e = x.e /\ y.n = x.n + 1 /\ y.effects = x.effects \cup {f}
      /\ y = [e |-> y.e, n |-> y.n, effects |-> y.effects]
  <2>1. x = [e |-> x.e, n |-> x.n, effects |-> x.effects]
    BY DEF TransitionOk
  <2>2. y = [x EXCEPT !.n = x.n + 1, !.effects = x.effects \cup {f}]
    BY DEF Emit
  <2> DEFINE n == x.n + 1
             effects == x.effects \cup {f}
  <2> HIDE DEF y, n, effects
  <2>3. y = [e |-> x.e, n |-> n, effects |-> effects]
    BY <2>1, <2>2 DEF n, effects
  <2> QED
    BY <2>3 DEF n, effects
<1>2. x.n \in Nat /\ first \in Nat /\ first <= x.n
  BY DEF TransitionOk
<1> HIDE DEF y
<1>3. \A g \in y.effects : first <= g.id /\ g.id < y.n
  <2>1. \A g \in x.effects : first <= g.id /\ g.id < x.n /\ g.id \in Nat
    BY DEF TransitionOk, Invocation, Assistance
  <2> QED
    BY <1>1, <1>2, <2>1
<1>4. \A g, h \in y.effects : g.id = h.id => g = h
  <2>1. \A g \in x.effects : g.id # x.n
    BY <1>2 DEF TransitionOk, Invocation, Assistance
  <2>2. \A g, h \in x.effects : g.id = h.id => g = h
    BY DEF TransitionOk
  <2> QED
    BY <1>1, <2>1, <2>2
<1>5. y.effects \subseteq Invocation \cup Assistance
  BY <1>1 DEF TransitionOk
<1>6. y.n \in Nat /\ first <= y.n
  BY <1>1, <1>2
<1>7. TransitionOk(y, first)
  BY <1>1, <1>2, <1>3, <1>4, <1>5, <1>6 DEF TransitionOk
<1> QED
  BY <1>1, <1>7 DEF y

LEMMA WaitForFacts ==
  ASSUME NEW x, NEW first, TransitionOk(x, first),
         NEW status \in {"waiting_runtime", "waiting_assistance"},
         NEW id \in Nat, NEW attempt \in Nat
  PROVE  LET y == WaitFor(x, status, id, attempt) IN
         /\ TransitionOk(y, first) /\ y.effects = x.effects /\ y.n = x.n
         /\ y.e.status = status /\ y.e.active \in [id : Nat, attempt : Nat]
         /\ y.e.active.id = id /\ y.e.active.attempt = attempt
         /\ y.e.cursor = x.e.cursor /\ y.e.stack = x.e.stack /\ y.e.steps = x.e.steps
         /\ y.e.out = x.e.out
<1> DEFINE e == [x.e EXCEPT !.status = status, !.active = [id |-> id, attempt |-> attempt]]
           y == [x EXCEPT !.e = e]
<1>1. /\ e \in EngineRecord /\ e.stack = x.e.stack /\ e.out = x.e.out
      /\ e.status = status /\ e.cursor = x.e.cursor /\ e.steps = x.e.steps
      /\ e.active \in [id : Nat, attempt : Nat] /\ e.active.id = id /\ e.active.attempt = attempt
  BY DEF TransitionOk, EngineRecord
<1>2. WaitFor(x, status, id, attempt) = y
  BY DEF WaitFor
<1>3. y.e = e /\ y.n = x.n /\ y.effects = x.effects
  BY DEF TransitionOk
<1> HIDE DEF e
<1>4. TransitionOk(y, first)
  <2>1. StackOk(e.stack) /\ SummaryOk(e.out)
    BY <1>1 DEF TransitionOk
  <2> QED
    BY <1>1, <2>1, ExceptFacts
<1> QED
  BY <1>1, <1>2, <1>3, <1>4

LEMMA WaitForCallFacts ==
  ASSUME NEW x, NEW first, TransitionOk(x, first), NEW id \in Nat, NEW attempt \in Nat
  PROVE  LET y == WaitFor(x, "waiting_runtime", id, attempt) IN
         /\ TransitionOk(y, first) /\ y.effects = x.effects
         /\ y.e.status = "waiting_runtime" /\ y.e.active \in [id : Nat, attempt : Nat]
         /\ y.e.active.id = id /\ y.e.active.attempt = attempt
         /\ y.e.cursor = x.e.cursor /\ y.e.stack = x.e.stack /\ y.e.steps = x.e.steps
  BY WaitForFacts

LEMMA ScheduleOk ==
  ASSUME NEW x, NEW first, TransitionOk(x, first), AllPassive(x), OnStep(x.e),
         Plan[x.e.cursor].kind = "call", Affords(x.e, CostOf[x.e.cursor] - 1),
         NEW attempt \in Nat, NEW delay \in Nat,
         delay = 0 \/ ~TooLate(x.e, delay)
  PROVE  DrivenOk(Schedule(x, attempt, delay), first)
<1> DEFINE s    == Plan[x.e.cursor]
           left == AttemptLeft(x.e, s, delay)
           f    == [kind |-> "invoke", id |-> x.n, attempt |-> attempt, wait |-> delay,
                    left |-> left]
           y    == Emit(x, f)
           z    == WaitFor(y, "waiting_runtime", x.n, attempt)
<1>1. x.e.stack \in Seq(Frame) /\ x.n \in Nat /\ x.e.cursor \in DOMAIN Plan
  BY DEF TransitionOk, EngineRecord, OnStep
<1>2. s.timeout \in Nat \ {0}
  <2>1. FitsKind(x.e.cursor, s)
    BY <1>1, PlanFacts
  <2> QED
    BY <2>1 DEF FitsKind
<1>3. /\ left \in Nat
      /\ \A i \in DOMAIN x.e.stack : left <= NotNegative(x.e.stack[i].left)
      /\ delay > 0 => delay < left
  <2> HIDE DEF s
  <2> QED
    BY <1>1, <1>2, AttemptLeftFacts
<1>4. Schedule(x, attempt, delay) = z
  BY DEF Schedule
<1> HIDE DEF left, s
<1>5. /\ f \in Invocation /\ f.id = x.n /\ f.kind = "invoke" /\ f.attempt = attempt
      /\ f.wait = delay /\ f.left = left
  BY <1>1, <1>3 DEF Invocation
<1> HIDE DEF f
<1>6. TransitionOk(y, first) /\ y.e = x.e /\ y.n = x.n + 1 /\ y.effects = x.effects \cup {f}
  BY <1>5, EmitFacts
<1> HIDE DEF y
<1>7. /\ TransitionOk(z, first) /\ z.effects = y.effects
      /\ z.e.status = "waiting_runtime" /\ z.e.active \in [id : Nat, attempt : Nat]
      /\ z.e.active.id = x.n /\ z.e.active.attempt = attempt
      /\ z.e.cursor = x.e.cursor /\ z.e.stack = x.e.stack /\ z.e.steps = x.e.steps
  <2> DEFINE id == x.n
  <2>1. id \in Nat /\ TransitionOk(y, first)
    BY <1>1, <1>6
  <2> HIDE DEF id
  <2>2. LET w == WaitFor(y, "waiting_runtime", id, attempt) IN
        /\ TransitionOk(w, first) /\ w.effects = y.effects
        /\ w.e.status = "waiting_runtime" /\ w.e.active \in [id : Nat, attempt : Nat]
        /\ w.e.active.id = id /\ w.e.active.attempt = attempt
        /\ w.e.cursor = y.e.cursor /\ w.e.stack = y.e.stack /\ w.e.steps = y.e.steps
    BY <2>1, WaitForCallFacts
  <2> QED
    BY <1>6, <2>2 DEF id
<1> HIDE DEF z
<1>8. WaitingOk(z.e)
  <2>1. OnStep(z.e) /\ Affords(z.e, CostOf[z.e.cursor] - 1)
    BY <1>7 DEF OnStep, Affords
  <2>2. z.e.active \in [id : Nat, attempt : Nat]
    BY <1>1, <1>7
  <2> QED
    BY <1>7, <2>1, <2>2 DEF WaitingOk
<1>9. Fits(f, z.e.stack)
  BY <1>3, <1>5, <1>7 DEF Fits
<1>10. Backed(z, f)
  <2>1. f \in z.effects /\ z.e.active.id = x.n /\ z.e.active.attempt = attempt
    BY <1>6, <1>7
  <2>2. \A g \in z.effects : g # f => Passive(g)
    BY <1>6, <1>7 DEF AllPassive
  <2> QED
    BY <1>5, <1>7, <1>9, <2>1, <2>2 DEF Backed
<1> QED
  BY <1>4, <1>6, <1>7, <1>8, <1>10 DEF DrivenOk

LEMMA AwaitOk ==
  ASSUME NEW x, NEW first, TransitionOk(x, first), AllPassive(x), OnStep(x.e),
         Plan[x.e.cursor].kind = "wait", Affords(x.e, CostOf[x.e.cursor] - 1)
  PROVE  \/ DrivenOk(Await(x), first)
         \/ RunningOk(Await(x), first) /\ Await(x).e.steps = x.e.steps
<1> DEFINE s == Plan[x.e.cursor]
           f == [kind |-> "task", id |-> x.n, human |-> s.human, blocking |-> s.blocking,
                 left |-> s.deadline]
           y == Emit(x, f)
<1>1. x.e.stack \in Seq(Frame) /\ x.n \in Nat /\ x.e.cursor \in DOMAIN Plan
  BY DEF TransitionOk, EngineRecord, OnStep
<1>2. s.human \in BOOLEAN /\ s.blocking \in BOOLEAN /\ s.deadline \in Nat
  <2>1. FitsKind(x.e.cursor, s)
    BY <1>1, PlanFacts
  <2> QED
    BY <2>1 DEF FitsKind
<1>3. Await(x) = IF s.blocking THEN WaitFor(y, "waiting_assistance", x.n, 1) ELSE Goto(y, s.next)
  BY DEF Await
<1>5. /\ f \in Assistance /\ f.id = x.n /\ f.kind = "task" /\ f.blocking = s.blocking
  <2> HIDE DEF s
  <2> QED
    BY <1>1, <1>2 DEF Assistance
<1> HIDE DEF f
<1>6. TransitionOk(y, first) /\ y.e = x.e /\ y.n = x.n + 1 /\ y.effects = x.effects \cup {f}
  BY <1>5, EmitFacts
<1> HIDE DEF y
<1>7. CASE s.blocking
  <2> DEFINE z == WaitFor(y, "waiting_assistance", x.n, 1)
  <2>1. /\ TransitionOk(z, first) /\ z.effects = y.effects
        /\ z.e.status = "waiting_assistance" /\ z.e.active \in [id : Nat, attempt : Nat]
        /\ z.e.active.id = x.n
        /\ z.e.cursor = x.e.cursor /\ z.e.stack = x.e.stack /\ z.e.steps = x.e.steps
    <3> DEFINE id == x.n
               one == 1
    <3>1. id \in Nat /\ one \in Nat /\ TransitionOk(y, first)
      BY <1>1, <1>6
    <3> HIDE DEF id, one
    <3>2. LET w == WaitFor(y, "waiting_assistance", id, one) IN
          /\ TransitionOk(w, first) /\ w.effects = y.effects
          /\ w.e.status = "waiting_assistance" /\ w.e.active \in [id : Nat, attempt : Nat]
          /\ w.e.active.id = id /\ w.e.active.attempt = one
          /\ w.e.cursor = y.e.cursor /\ w.e.stack = y.e.stack /\ w.e.steps = y.e.steps
      BY <3>1, WaitForFacts
    <3> QED
      BY <1>6, <3>2 DEF id, one
  <2> HIDE DEF z
  <2>2. WaitingOk(z.e)
    <3>1. OnStep(z.e) /\ Affords(z.e, CostOf[z.e.cursor] - 1)
      BY <2>1 DEF OnStep, Affords
    <3>2. z.e.active \in [id : Nat, attempt : Nat]
      BY <1>1, <2>1
    <3> QED
      BY <1>7, <2>1, <3>1, <3>2 DEF WaitingOk
  <2>3. Backed(z, f)
    <3>1. f \in z.effects /\ z.e.active.id = x.n
      BY <1>6, <2>1
    <3>2. \A g \in z.effects : g # f => Passive(g)
      BY <1>6, <2>1 DEF AllPassive
    <3> QED
      BY <1>5, <1>7, <2>1, <3>1, <3>2 DEF Backed
  <2>4. Await(x) = z
    BY <1>3, <1>7 DEF z
  <2> QED
    BY <1>6, <2>1, <2>2, <2>3, <2>4 DEF DrivenOk
<1>8. CASE ~s.blocking
  <2> DEFINE t == s.next
  <2>1. Targets(s) = {t}
    BY <1>8 DEF Targets
  <2>2. /\ t \in DOMAIN Plan /\ Plan[t].in = s.in /\ CostOf[t] \in Nat
        /\ CostOf[x.e.cursor] >= 1 + Body(s) + CostOf[t]
    BY <1>1, <2>1, PlanFacts
  <2>3. Body(s) = 0
    BY DEF Body
  <2>4. AllPassive(y)
    BY <1>5, <1>6, <1>8 DEF AllPassive, Passive
  <2>5. /\ StackOk(x.e.stack) /\ SummaryOk(x.e.out) /\ x.e.out \in SummaryRecord \cup {None}
        /\ x.e.steps \in Nat /\ Plan[t].in = Level(x.e.stack, Len(x.e.stack))
    BY <2>2 DEF TransitionOk, EngineRecord, OnStep
  <2>6. PICK b : /\ IsBudget(b, x.e.stack)
                 /\ x.e.steps + (CostOf[x.e.cursor] - 1) + b[Len(x.e.stack)] <= ExecutionCost
    BY DEF Affords
  <2>7. x.e.steps + CostOf[t] + b[Len(x.e.stack)] <= ExecutionCost
    <3> DEFINE cost == CostOf[x.e.cursor]
               own  == CostOf[t]
               rest == b[Len(x.e.stack)]
    <3>1. ExecutionCost \in Nat /\ cost \in Nat /\ own \in Nat /\ rest \in Nat /\ cost >= 1 + own
      <4>1. rest \in Nat
        BY <1>1, <2>6 DEF IsBudget
      <4>2. ExecutionCost \in Nat /\ cost \in Nat
        BY <1>1, PlanFacts DEF ExecutionCost
      <4> HIDE DEF s
      <4> QED
        BY <2>2, <2>3, <4>1, <4>2
    <3>2. x.e.steps + (cost - 1) + rest <= ExecutionCost
      BY <2>6
    <3> HIDE DEF cost, own, rest
    <3>3. x.e.steps + own + rest <= ExecutionCost
      BY <2>5, <3>1, <3>2
    <3> QED
      BY <3>3 DEF own, rest
  <2> HIDE DEF t
  <2>8. RunningOk(Onward(y, t, x.e.stack, x.e.out), first)
        /\ Onward(y, t, x.e.stack, x.e.out).e.steps = x.e.steps
    BY <1>1, <1>6, <2>2, <2>4, <2>5, <2>6, <2>7, GoesOnOk
  <2>9. Await(x) = Onward(y, t, x.e.stack, x.e.out)
    BY <1>3, <1>6, <1>8 DEF Goto, t
  <2> QED
    BY <2>8, <2>9
<1> QED
  BY <1>2, <1>7, <1>8

\* A step counts itself.
LEMMA CountStep ==
  ASSUME NEW x, NEW first, RunningOk(x, first)
  PROVE  LET y == [x EXCEPT !.e.steps = @ + 1] IN
         /\ TransitionOk(y, first) /\ AllPassive(y) /\ OnStep(y.e)
         /\ Affords(y.e, CostOf[y.e.cursor] - 1) /\ Affords(y.e, 0)
         /\ y.e.steps = x.e.steps + 1 /\ y.e.steps <= ExecutionCost
         /\ y.e.cursor = x.e.cursor /\ y.e.stack = x.e.stack
<1> DEFINE e == [x.e EXCEPT !.steps = x.e.steps + 1]
           y == [x EXCEPT !.e = e]
<1>1. TransitionOk(x, first) /\ x.e \in EngineRecord /\ x.e.steps \in Nat
  BY DEF RunningOk, TransitionOk, EngineRecord
<1>2. /\ e \in EngineRecord /\ e.stack = x.e.stack /\ e.out = x.e.out
      /\ e.cursor = x.e.cursor /\ e.steps = x.e.steps + 1
  BY <1>1 DEF EngineRecord
<1>3. [x EXCEPT !.e.steps = @ + 1] = y
  BY DEF RunningOk, TransitionOk
<1>4. y.e = e /\ y.effects = x.effects
  BY <1>1 DEF TransitionOk
<1> HIDE DEF e
<1>5. TransitionOk(y, first)
  <2>1. StackOk(e.stack) /\ SummaryOk(e.out)
    BY <1>1, <1>2 DEF TransitionOk
  <2> QED
    BY <1>1, <1>2, <2>1, ExceptFacts
<1> HIDE DEF y
<1>6. AllPassive(y) /\ OnStep(y.e)
  BY <1>2, <1>4 DEF RunningOk, AllPassive, OnStep
<1>7. PICK b : /\ IsBudget(b, x.e.stack)
               /\ x.e.steps + CostOf[x.e.cursor] + b[Len(x.e.stack)] <= ExecutionCost
  BY DEF RunningOk, Affords
<1> DEFINE cost == CostOf[x.e.cursor]
           rest == b[Len(x.e.stack)]
<1>8. cost \in Nat /\ cost >= 1 /\ rest \in Nat /\ ExecutionCost \in Nat
  <2>1. rest \in Nat
    <3>1. Len(x.e.stack) \in 0..Len(x.e.stack)
      BY <1>1 DEF EngineRecord
    <3> QED
      BY <1>7, <3>1 DEF IsBudget
  <2>2. cost \in Nat /\ cost >= 1 + Body(Plan[x.e.cursor]) /\ ExecutionCost \in Nat
    BY PlanFacts DEF RunningOk, OnStep, ExecutionCost
  <2>3. Body(Plan[x.e.cursor]) \in Nat
    <3>1. CASE Plan[x.e.cursor].kind = "foreach"
      BY <3>1, ForeachFacts DEF RunningOk, OnStep
    <3>2. CASE Plan[x.e.cursor].kind # "foreach"
      BY <3>2 DEF Body
    <3> QED
      BY <3>1, <3>2
  <2> HIDE DEF cost, rest
  <2> QED
    BY <2>1, <2>2, <2>3
<1>9. x.e.steps + cost + rest <= ExecutionCost
  BY <1>7
<1>10. /\ y.e.steps + (cost - 1) + rest <= ExecutionCost
       /\ y.e.steps + 0 + rest <= ExecutionCost
       /\ y.e.steps <= ExecutionCost
  <2> HIDE DEF cost, rest
  <2> QED
    BY <1>1, <1>2, <1>4, <1>8, <1>9
<1>11. Affords(y.e, CostOf[y.e.cursor] - 1) /\ Affords(y.e, 0)
  <2>1. y.e.stack = x.e.stack /\ y.e.cursor = x.e.cursor
    BY <1>2, <1>4
  <2> QED
    BY <1>7, <1>10, <2>1 DEF Affords
<1> QED
  BY <1>2, <1>3, <1>4, <1>5, <1>6, <1>10, <1>11

LEMMA GotoOk ==
  ASSUME NEW x, NEW first, TransitionOk(x, first), AllPassive(x), OnStep(x.e),
         Affords(x.e, CostOf[x.e.cursor] - 1),
         NEW t \in Targets(Plan[x.e.cursor]), NEW out \in SummaryRecord \cup {None}, SummaryOk(out)
  PROVE  LET y == Onward(x, t, x.e.stack, out) IN
         RunningOk(y, first) /\ y.e.steps = x.e.steps
<1> DEFINE s == Plan[x.e.cursor]
<1>1. x.e.cursor \in DOMAIN Plan /\ s.in = Level(x.e.stack, Len(x.e.stack))
  BY DEF OnStep
<1>2. /\ x.e.stack \in Seq(Frame) /\ StackOk(x.e.stack) /\ x.e.steps \in Nat
      /\ Len(x.e.stack) \in 0..Len(x.e.stack)
  BY DEF TransitionOk, EngineRecord
<1>3. PICK b : /\ IsBudget(b, x.e.stack)
               /\ x.e.steps + (CostOf[x.e.cursor] - 1) + b[Len(x.e.stack)] <= ExecutionCost
  BY DEF Affords
<1>4. t \in DOMAIN Plan /\ Plan[t].in = s.in /\ CostOf[x.e.cursor] >= 1 + Body(s) + CostOf[t]
  BY <1>1, PlanFacts
<1>5. Body(s) \in Nat
  <2>1. CASE s.kind = "foreach"
    BY <1>1, <2>1, ForeachFacts
  <2>2. CASE s.kind # "foreach"
    BY <2>2 DEF Body
  <2> QED
    BY <2>1, <2>2
<1> DEFINE cost == CostOf[x.e.cursor]
           own  == CostOf[t]
           rest == b[Len(x.e.stack)]
           body == Body(s)
<1>6. cost \in Nat /\ own \in Nat /\ rest \in Nat /\ ExecutionCost \in Nat /\ body \in Nat
  <2>1. rest \in Nat
    BY <1>2, <1>3 DEF IsBudget
  <2> QED
    BY <1>1, <1>4, <1>5, <2>1, PlanFacts DEF ExecutionCost
<1>7. cost >= 1 + body + own /\ x.e.steps + (cost - 1) + rest <= ExecutionCost
  BY <1>3, <1>4
<1>8. x.e.steps + own + rest <= ExecutionCost
  <2> HIDE DEF cost, own, rest, body
  <2> QED
    BY <1>2, <1>6, <1>7
<1>9. Plan[t].in = Level(x.e.stack, Len(x.e.stack))
  BY <1>1, <1>4
<1> HIDE DEF s
<1> QED
  BY <1>2, <1>3, <1>4, <1>8, <1>9, GoesOnOk

LEMMA StepOk ==
  ASSUME NEW x0, NEW first, RunningOk(x0, first), NEW y \in Step(x0)
  PROVE  DrivenOk(y, first) \/ (RunningOk(y, first) /\ y.e.steps = x0.e.steps + 1)
<1> DEFINE x == [x0 EXCEPT !.e.steps = @ + 1]
           s == Plan[x.e.cursor]
<1>1. /\ TransitionOk(x, first) /\ AllPassive(x) /\ OnStep(x.e)
      /\ Affords(x.e, CostOf[x.e.cursor] - 1) /\ Affords(x.e, 0)
      /\ x.e.steps = x0.e.steps + 1 /\ x.e.steps <= ExecutionCost
  BY CountStep
<1>2. y \in CASE s.kind = "call"     -> {Schedule(x, 1, 0)}
              [] s.kind = "decision" -> {Goto(x, t) : t \in s.targets}
              [] s.kind = "foreach"  -> {Settle(x, "failed"), PassForeach(x, 0, "stopped")} \cup
                                        {EnterForeach(x, n) : n \in ItemCounts}
              [] s.kind = "wait"     -> {Await(x)}
              [] s.kind = "terminal" ->
                    IF x.e.stack = << >> \/ s.status \in {"rejected", "uncertain"}
                    THEN {Settle(x, s.status)}
                    ELSE {EndItem(x, s.status)}
  BY Zenon DEF Step
<1> HIDE DEF x
<1>3. /\ x.e.cursor \in DOMAIN Plan /\ s.in = Level(x.e.stack, Len(x.e.stack))
      /\ FitsKind(x.e.cursor, s)
      /\ s.kind \in {"call", "decision", "foreach", "wait", "terminal"}
  BY <1>1, PlanFacts DEF OnStep
<1>4. x.e.stack \in Seq(Frame) /\ x.e.out \in SummaryRecord \cup {None} /\ SummaryOk(x.e.out)
  BY <1>1 DEF TransitionOk, EngineRecord
<1>5. CASE s.kind = "call"
  <2>1. y = Schedule(x, 1, 0)
    BY <1>2, <1>5
  <2> DEFINE one == 1
             zero == 0
  <2>2. one \in Nat /\ zero \in Nat /\ (zero = 0 \/ ~TooLate(x.e, zero))
    OBVIOUS
  <2> HIDE DEF one, zero
  <2>3. DrivenOk(Schedule(x, one, zero), first)
    BY <1>1, <1>5, <2>2, ScheduleOk
  <2> QED
    BY <2>1, <2>3 DEF one, zero
<1>6. CASE s.kind = "decision"
  <2>1. PICK t \in s.targets : y = Goto(x, t)
    BY <1>2, <1>6
  <2>2. t \in Targets(s) /\ y = Onward(x, t, x.e.stack, x.e.out)
    BY <1>6, <2>1 DEF Targets, Goto
  <2> QED
    BY <1>1, <1>4, <2>2, GotoOk
<1>7. CASE s.kind = "foreach"
  <2>1. \/ y = Settle(x, "failed") \/ y = PassForeach(x, 0, "stopped")
        \/ \E n \in ItemCounts : y = EnterForeach(x, n)
    BY <1>2, <1>7
  <2>2. CASE y = Settle(x, "failed")
    <3>1. "failed" \in Settled
      BY DEF Settled
    <3> QED
      BY <1>1, <2>2, <3>1, SettleFacts
  <2>3. CASE \E n \in ItemCounts : y = EnterForeach(x, n)
    <3>1. PICK n \in ItemCounts : y = EnterForeach(x, n)
      BY <2>3
    <3>2. n \in Nat
      BY PlanFacts
    <3> QED
      BY <1>1, <1>7, <3>1, <3>2, EnterForeachOk
  <2>4. CASE y = PassForeach(x, 0, "stopped")
    <3> DEFINE none == 0
               way  == "stopped"
    <3>1. none \in Nat /\ way \in {"completed", "stopped"} /\ (way = "completed" => none = 0)
      OBVIOUS
    <3>2. y = PassForeach(x, none, way)
      BY <2>4
    <3> HIDE DEF none, way
    <3> QED
      BY <1>1, <1>7, <3>1, <3>2, PassForeachOk
  <2> QED
    BY <2>1, <2>2, <2>3, <2>4
<1>8. CASE s.kind = "wait"
  <2>1. y = Await(x)
    BY <1>2, <1>8
  <2> QED
    BY <1>1, <1>8, <2>1, AwaitOk
<1>9. CASE s.kind = "terminal"
  <2>1. \/ s.status \in {"succeeded", "failed", "rejected", "uncertain"}
        \/ s.status = "unresolved" /\ s.in # None
        \/ s.status = "cancelled" /\ s.in = None
    BY <1>3, <1>9 DEF FitsKind
  <2>2. CASE x.e.stack = << >> \/ s.status \in {"rejected", "uncertain"}
    <3>1. y = Settle(x, s.status)
      BY <1>2, <1>9, <2>2
    <3>2. s.status \in Settled
      <4>1. CASE x.e.stack = << >>
        <5>1. s.in = None
          BY <1>3, <4>1 DEF Level
        <5> QED
          BY <2>1, <5>1 DEF Settled
      <4> QED
        BY <2>2, <4>1 DEF Settled
    <3> QED
      BY <1>1, <3>1, <3>2, SettleFacts
  <2>3. CASE ~(x.e.stack = << >> \/ s.status \in {"rejected", "uncertain"})
    <3>1. y = EndItem(x, s.status)
      BY <1>2, <1>9, <2>3
    <3>2. s.in # None
      <4> DEFINE stack == x.e.stack
      <4>1. stack \in Seq(Frame) /\ stack # << >> /\ s.in = Level(stack, Len(stack))
        BY <1>3, <1>4, <2>3
      <4> HIDE DEF stack, s
      <4>2. Len(stack) \in 1..Len(stack) /\ Len(stack) # 0 /\ stack[Len(stack)] \in Frame
        BY <4>1
      <4>3. s.in = stack[Len(stack)].step /\ stack[Len(stack)].step \in DOMAIN Plan
        BY <4>1, <4>2 DEF Level, Frame
      <4> QED
        BY <4>3, PlanFacts
    <3>3. s.status \in {"succeeded", "failed", "unresolved"} /\ x.e.stack # << >>
      BY <2>1, <2>3, <3>2
    <3> DEFINE status == s.status
    <3> HIDE DEF s
    <3> QED
      BY <1>1, <3>1, <3>3, EndItemOk
  <2> QED
    BY <2>2, <2>3
<1> QED
  BY <1>3, <1>5, <1>6, <1>7, <1>8, <1>9

----
(* Rounds.  The function drive unfolds is built from its restrictions to 0..n. *)

Rounds(g, X, n) ==
    /\ DOMAIN g = 0..n
    /\ \A m \in 0..n : g[m] = IF m = 0 THEN X ELSE Round(g[m - 1])

LEMMA RoundsExist ==
  ASSUME NEW X
  PROVE  \A n \in Nat : \E g : Rounds(g, X, n)
<1> DEFINE T == {n \in Nat : \E g : Rounds(g, X, n)}
<1>1. 0 \in T
  <2> DEFINE g == [m \in 0..0 |-> X]
  <2>1. DOMAIN g = 0..0 /\ \A m \in 0..0 : m = 0 /\ g[m] = X
    OBVIOUS
  <2> HIDE DEF g
  <2>2. Rounds(g, X, 0)
    BY <2>1 DEF Rounds
  <2> QED
    BY <2>2
<1>2. ASSUME NEW n \in Nat, n \in T PROVE n + 1 \in T
  <2>1. PICK g : Rounds(g, X, n)
    BY <1>2
  <2> DEFINE h == [m \in 0..(n + 1) |-> IF m = n + 1 THEN Round(g[n]) ELSE g[m]]
  <2>2. /\ DOMAIN h = 0..(n + 1) /\ h[n + 1] = Round(g[n])
        /\ \A m \in 0..n : h[m] = g[m]
    <3>1. \A m \in 0..n : m \in 0..(n + 1) /\ m # n + 1
      OBVIOUS
    <3>2. n + 1 \in 0..(n + 1)
      OBVIOUS
    <3> QED
      BY <3>1, <3>2, Zenon
  <2> HIDE DEF h
  <2>3. ASSUME NEW m \in 0..(n + 1) PROVE h[m] = IF m = 0 THEN X ELSE Round(h[m - 1])
    <3>1. CASE m = n + 1
      <4>1. m # 0 /\ m - 1 = n /\ n \in 0..n
        BY <3>1
      <4> QED
        BY <2>2, <3>1, <4>1, Zenon
    <3>2. CASE m \in 0..n
      <4>1. m # 0 => m - 1 \in 0..n
        BY <3>2
      <4>2. g[m] = IF m = 0 THEN X ELSE Round(g[m - 1])
        BY <2>1, <3>2 DEF Rounds
      <4> QED
        BY <2>2, <3>2, <4>1, <4>2, Zenon
    <3> QED
      BY <3>1, <3>2
  <2>4. Rounds(h, X, n + 1)
    BY <2>2, <2>3 DEF Rounds
  <2> QED
    BY <2>4
<1> HIDE DEF T
<1>3. \A n \in Nat : n \in T
  BY <1>1, <1>2, Induction
<1> QED
  BY <1>3 DEF T

LEMMA RoundsAgree ==
  ASSUME NEW X, NEW n \in Nat, NEW g, Rounds(g, X, n), NEW m \in Nat, NEW h, Rounds(h, X, m)
  PROVE  \A k \in Nat : k <= n /\ k <= m => g[k] = h[k]
<1> DEFINE T == {k \in Nat : k <= n /\ k <= m => g[k] = h[k]}
<1>1. 0 \in T
  <2>1. 0 \in 0..n /\ 0 \in 0..m
    OBVIOUS
  <2> QED
    BY <2>1 DEF Rounds
<1>2. ASSUME NEW k \in Nat, k \in T PROVE k + 1 \in T
  <2> SUFFICES ASSUME k + 1 <= n, k + 1 <= m PROVE g[k + 1] = h[k + 1]
    OBVIOUS
  <2>1. k + 1 \in 0..n /\ k + 1 \in 0..m /\ k + 1 # 0 /\ (k + 1) - 1 = k /\ k <= n /\ k <= m
    OBVIOUS
  <2>2. g[k + 1] = Round(g[(k + 1) - 1]) /\ h[k + 1] = Round(h[(k + 1) - 1])
    BY <2>1, Zenon DEF Rounds
  <2>3. g[k] = h[k]
    BY <1>2, <2>1
  <2> QED
    BY <2>1, <2>2, <2>3, Zenon
<1> HIDE DEF T
<1>3. \A k \in Nat : k \in T
  BY <1>1, <1>2, Induction
<1> QED
  BY <1>3 DEF T

LEMMA UnfoldExists ==
  ASSUME NEW X
  PROVE  \E f : f = [n \in Nat |-> IF n = 0 THEN X ELSE Round(f[n - 1])]
<1> DEFINE at(n) == CHOOSE g : Rounds(g, X, n)
           f == [n \in Nat |-> at(n)[n]]
<1>1. \A n \in Nat : Rounds(at(n), X, n)
  BY RoundsExist
<1> HIDE DEF at
<1>2. ASSUME NEW n \in Nat PROVE f[n] = IF n = 0 THEN X ELSE Round(f[n - 1])
  <2>1. f[n] = at(n)[n]
    OBVIOUS
  <2>2. at(n)[n] = IF n = 0 THEN X ELSE Round(at(n)[n - 1])
    <3>1. n \in 0..n
      OBVIOUS
    <3> QED
      BY <1>1, <3>1 DEF Rounds
  <2>3. CASE n = 0
    BY <2>1, <2>2, <2>3
  <2>4. CASE n # 0
    <3>1. n - 1 \in Nat /\ n - 1 <= n /\ n - 1 <= n - 1
      BY <2>4
    <3>2. at(n)[n - 1] = at(n - 1)[n - 1]
      BY <1>1, <3>1, RoundsAgree
    <3>3. f[n - 1] = at(n - 1)[n - 1]
      BY <3>1
    <3> HIDE DEF f
    <3> QED
      BY <2>1, <2>2, <2>4, <3>2, <3>3, Zenon
  <2> QED
    BY <2>3, <2>4
<1>3. f = [n \in Nat |-> f[n]]
  OBVIOUS
<1> HIDE DEF f
<1>4. f = [n \in Nat |-> IF n = 0 THEN X ELSE Round(f[n - 1])]
  BY <1>2, <1>3, Zenon
<1> QED
  BY <1>4

LEMMA DriveUnfolds ==
  ASSUME NEW x
  PROVE  \E f : /\ f[0] = {x}
                /\ \A n \in Nat : f[n + 1] = Round(f[n])
                /\ Drive(x) = f[ExecutionCost]
<1> DEFINE F == CHOOSE f : f = [n \in Nat |-> IF n = 0 THEN {x} ELSE Round(f[n - 1])]
<1>1. \E f : f = [n \in Nat |-> IF n = 0 THEN {x} ELSE Round(f[n - 1])]
  <2> DEFINE X == {x}
  <2> HIDE DEF X
  <2>1. \E f : f = [n \in Nat |-> IF n = 0 THEN X ELSE Round(f[n - 1])]
    BY UnfoldExists
  <2> QED
    BY <2>1, Zenon DEF X
<1>2. F = [n \in Nat |-> IF n = 0 THEN {x} ELSE Round(F[n - 1])]
  BY <1>1, Zenon
<1>3. Drive(x) = F[ExecutionCost]
  BY Zenon DEF Drive
<1> HIDE DEF F
<1>4. F[0] = {x}
  BY <1>2
<1>5. ASSUME NEW n \in Nat PROVE F[n + 1] = Round(F[n])
  <2>1. n + 1 \in Nat /\ n + 1 # 0 /\ (n + 1) - 1 = n
    OBVIOUS
  <2>2. F[n + 1] = IF n + 1 = 0 THEN {x} ELSE Round(F[(n + 1) - 1])
    BY <1>2, <2>1, Zenon
  <2> QED
    BY <2>1, <2>2, Zenon
<1> QED
  BY <1>3, <1>4, <1>5

LEMMA DriveOk ==
  ASSUME NEW x, NEW first, RunningOk(x, first), NEW y \in Drive(x)
  PROVE  DrivenOk(y, first)
<1>1. PICK f : /\ f[0] = {x}
               /\ \A n \in Nat : f[n + 1] = Round(f[n])
               /\ Drive(x) = f[ExecutionCost]
  BY DriveUnfolds
<1> DEFINE Reached(n, z) == DrivenOk(z, first) \/ (RunningOk(z, first) /\ z.e.steps >= n)
           T == {n \in Nat : \A z \in f[n] : Reached(n, z)}
<1>2. 0 \in T
  <2>1. x.e.steps \in Nat
    BY DEF RunningOk, TransitionOk, EngineRecord
  <2>2. Reached(0, x)
    BY <2>1
  <2> HIDE DEF Reached
  <2> QED
    BY <1>1, <2>2
<1>3. ASSUME NEW n \in Nat, n \in T PROVE n + 1 \in T
  <2> SUFFICES ASSUME NEW z \in f[n + 1] PROVE Reached(n + 1, z)
    <3>1. n + 1 \in Nat
      OBVIOUS
    <3> HIDE DEF Reached
    <3> QED
      BY <3>1
  <2>1. PICK w \in f[n] : z \in IF Running(w) THEN Step(w) ELSE {w}
    BY <1>1 DEF Round
  <2>2. Reached(n, w)
    BY <1>3
  <2>3. CASE RunningOk(w, first) /\ w.e.steps >= n
    <3>1. z \in Step(w)
      BY <2>1, <2>3 DEF Running, RunningOk
    <3>2. DrivenOk(z, first) \/ (RunningOk(z, first) /\ z.e.steps = w.e.steps + 1)
      BY <2>3, <3>1, StepOk
    <3>3. w.e.steps \in Nat
      BY <2>3 DEF RunningOk, TransitionOk, EngineRecord
    <3> QED
      BY <2>3, <3>2, <3>3
  <2>4. CASE DrivenOk(w, first)
    <3>1. ~Running(w)
      BY <2>4 DEF DrivenOk, SettledOk, WaitingOk, Running, Settled
    <3>2. z = w
      BY <2>1, <3>1
    <3> QED
      BY <2>4, <3>2
  <2> QED
    BY <2>2, <2>3, <2>4
<1>4. ExecutionCost \in T
  <2>1. ExecutionCost \in Nat
    BY PlanFacts DEF ExecutionCost
  <2> HIDE DEF T
  <2>2. \A n \in Nat : n \in T
    BY <1>2, <1>3, Induction
  <2> QED
    BY <2>1, <2>2
<1>5. Reached(ExecutionCost, y)
  BY <1>1, <1>4
<1>6. ASSUME RunningOk(y, first), y.e.steps >= ExecutionCost PROVE FALSE
  <2>1. PICK b : /\ IsBudget(b, y.e.stack)
                 /\ y.e.steps + CostOf[y.e.cursor] + b[Len(y.e.stack)] <= ExecutionCost
    BY <1>6 DEF RunningOk, Affords
  <2> DEFINE cost == CostOf[y.e.cursor]
             rest == b[Len(y.e.stack)]
  <2>2. cost \in Nat /\ cost >= 1 + Body(Plan[y.e.cursor]) /\ ExecutionCost \in Nat
    BY <1>6, PlanFacts DEF RunningOk, OnStep, ExecutionCost
  <2>3. Body(Plan[y.e.cursor]) \in Nat
    <3>1. CASE Plan[y.e.cursor].kind = "foreach"
      BY <1>6, <3>1, ForeachFacts DEF RunningOk, OnStep
    <3>2. CASE Plan[y.e.cursor].kind # "foreach"
      BY <3>2 DEF Body
    <3> QED
      BY <3>1, <3>2
  <2>4. rest \in Nat /\ y.e.steps \in Nat
    <3>1. Len(y.e.stack) \in 0..Len(y.e.stack) /\ y.e.steps \in Nat
      BY <1>6 DEF RunningOk, TransitionOk, EngineRecord
    <3> QED
      BY <2>1, <3>1 DEF IsBudget
  <2>5. y.e.steps + cost + rest <= ExecutionCost
    BY <2>1
  <2> HIDE DEF cost, rest
  <2> QED
    BY <1>6, <2>2, <2>3, <2>4, <2>5
<1> QED
  BY <1>5, <1>6

\* A run starts with no more than the whole bound before it.
LEMMA StartOk ==
  ASSUME NEW n \in Nat, NEW y \in Start(n)
  PROVE  DrivenOk(y, n)
<1> DEFINE x == Transition(FirstState, n)
           b == [i \in 0..0 |-> 0]
<1>1. /\ x.e = FirstState /\ x.n = n /\ x.effects = {}
      /\ x = [e |-> x.e, n |-> x.n, effects |-> x.effects]
  BY DEF Transition
<1>2. FirstState \in EngineRecord
  <2>1. << >> \in Seq(Frame) /\ Entry \in DOMAIN Plan
    BY PlanFacts
  <2> QED
    BY <2>1 DEF FirstState, EngineRecord
<1>3. /\ FirstState.stack = << >> /\ FirstState.out = None /\ FirstState.status = "running"
      /\ FirstState.cursor = Entry /\ FirstState.steps = 0
  BY DEF FirstState
<1>4. StackOk(<< >>) /\ SummaryOk(None)
  BY DEF StackOk, SummaryOk
<1>5. IsBudget(b, << >>) /\ b[Len(<< >>)] = 0
  BY DEF IsBudget
<1> HIDE DEF x, b
<1>6. TransitionOk(x, n) /\ AllPassive(x)
  BY <1>1, <1>2, <1>3, <1>4 DEF TransitionOk, AllPassive
<1>7. OnStep(x.e)
  BY <1>1, <1>3, PlanFacts DEF OnStep, Level
<1>8. Affords(x.e, CostOf[x.e.cursor])
  <2>1. ExecutionCost \in Nat /\ CostOf[x.e.cursor] = ExecutionCost
    BY <1>1, <1>3, PlanFacts DEF ExecutionCost
  <2>2. x.e.steps + CostOf[x.e.cursor] + b[Len(x.e.stack)] <= ExecutionCost
    BY <1>1, <1>3, <1>5, <2>1
  <2> QED
    BY <1>1, <1>3, <1>5, <2>2 DEF Affords
<1>9. RunningOk(x, n)
  BY <1>1, <1>3, <1>6, <1>7, <1>8 DEF RunningOk
<1> QED
  BY <1>9, DriveOk DEF Start, x

\* A run that waits, at the begin of its next transition.
LEMMA WaitingFacts ==
  ASSUME NEW e, EngineOk(e), WaitingOk(e), NEW n \in Nat
  PROVE  LET x == Transition(e, n) IN
         /\ TransitionOk(x, n) /\ AllPassive(x) /\ OnStep(x.e)
         /\ Affords(x.e, CostOf[x.e.cursor] - 1) /\ Affords(x.e, 0)
         /\ x.e = e /\ x.n = n /\ e.steps <= ExecutionCost /\ x.effects = {}
<1> DEFINE x == Transition(e, n)
<1>1. /\ x.e = e /\ x.n = n /\ x.effects = {}
      /\ x = [e |-> x.e, n |-> x.n, effects |-> x.effects]
  BY DEF Transition
<1> HIDE DEF x
<1>2. TransitionOk(x, n) /\ AllPassive(x)
  BY <1>1 DEF EngineOk, TransitionOk, AllPassive
<1>3. OnStep(x.e) /\ Affords(x.e, CostOf[x.e.cursor] - 1)
  BY <1>1 DEF WaitingOk
<1>4. PICK b : /\ IsBudget(b, e.stack)
               /\ e.steps + (CostOf[e.cursor] - 1) + b[Len(e.stack)] <= ExecutionCost
  BY DEF WaitingOk, Affords
<1> DEFINE cost == CostOf[e.cursor]
           rest == b[Len(e.stack)]
<1>5. cost \in Nat /\ cost >= 1 + Body(Plan[e.cursor]) /\ ExecutionCost \in Nat
  BY PlanFacts DEF WaitingOk, OnStep, ExecutionCost
<1>6. Body(Plan[e.cursor]) = 0
  BY DEF WaitingOk, Body
<1>7. rest \in Nat /\ e.steps \in Nat
  <2>1. Len(e.stack) \in 0..Len(e.stack) /\ e.steps \in Nat
    BY DEF EngineOk, EngineRecord
  <2> QED
    BY <1>4, <2>1 DEF IsBudget
<1>8. e.steps + (cost - 1) + rest <= ExecutionCost
  BY <1>4
<1>9. e.steps + 0 + rest <= ExecutionCost /\ e.steps <= ExecutionCost
  <2> HIDE DEF cost, rest
  <2> QED
    BY <1>5, <1>6, <1>7, <1>8
<1>10. Affords(x.e, 0)
  BY <1>1, <1>4, <1>9 DEF Affords
<1> QED
  BY <1>1, <1>2, <1>3, <1>9, <1>10 DEF x

LEMMA AcceptOutcomeOk ==
  ASSUME NEW e, EngineOk(e), WaitingOk(e), e.status = "waiting_runtime", NEW n \in Nat,
         NEW outcome \in CallOutcome, NEW y \in AcceptOutcome(e, n, outcome)
  PROVE  DrivenOk(y, n)
<1> DEFINE x == Transition(e, n)
           s == Plan[e.cursor]
           out == IF outcome.status = "succeeded" THEN None ELSE e.out
           t == s.routes[outcome.status]
<1>1. /\ TransitionOk(x, n) /\ AllPassive(x) /\ OnStep(x.e)
      /\ Affords(x.e, CostOf[x.e.cursor] - 1) /\ Affords(x.e, 0)
      /\ x.e = e
  BY WaitingFacts
<1>2. s.kind = "call" /\ FitsKind(e.cursor, s)
  BY PlanFacts DEF WaitingOk, OnStep
<1>3. CallStatus \subseteq DOMAIN s.routes /\ s.delays \subseteq Nat
  BY <1>2 DEF FitsKind
<1>4. \/ Retries(e, outcome) /\ \E delay \in s.delays : y \in Retried(x, delay)
      \/ y \in Drive(Onward(x, t, e.stack, out))
  BY DEF AcceptOutcome
<1> HIDE DEF x
<1>5. CASE y \in Drive(Onward(x, t, e.stack, out))
  <2>1. outcome.status \in CallStatus
    BY DEF CallOutcome, CallStatus
  <2>2. t \in Targets(s)
    BY <1>2, <1>3, <2>1 DEF Targets
  <2>3. out \in SummaryRecord \cup {None} /\ SummaryOk(out)
    BY DEF EngineOk, EngineRecord, SummaryOk
  <2> HIDE DEF out, t, s
  <2>4. t \in Targets(Plan[x.e.cursor])
    BY <1>1, <2>2 DEF s
  <2>5. RunningOk(Onward(x, t, x.e.stack, out), n)
    BY <1>1, <2>3, <2>4, GotoOk
  <2> QED
    BY <1>1, <1>5, <2>5, DriveOk
<1>6. CASE \E delay \in s.delays : y \in Retried(x, delay)
  <2>1. PICK delay \in s.delays : y \in Retried(x, delay)
    BY <1>6
  <2>2. delay \in Nat
    BY <1>3
  <2>3. CASE TooLate(e, delay)
    <3>1. y \in Drive(StopForeach(x)) /\ x.e.stack # << >>
      BY <1>1, <2>1, <2>3 DEF Retried, TooLate
    <3>2. RunningOk(StopForeach(x), n)
      BY <1>1, <3>1, StopForeachOk
    <3> QED
      BY <3>1, <3>2, DriveOk
  <2>4. CASE ~TooLate(e, delay)
    <3> DEFINE attempt == x.e.active.attempt + 1
    <3>1. y = Schedule(x, attempt, delay)
      BY <1>1, <2>1, <2>4 DEF Retried
    <3>2. attempt \in Nat
      BY <1>1 DEF WaitingOk
    <3> HIDE DEF attempt
    <3>3. Plan[x.e.cursor].kind = "call" /\ ~TooLate(x.e, delay)
      BY <1>1, <1>2, <2>4
    <3> QED
      BY <1>1, <2>2, <3>1, <3>2, <3>3, ScheduleOk
  <2> QED
    BY <2>3, <2>4
<1> QED
  BY <1>4, <1>5, <1>6

LEMMA AcceptAssistanceOk ==
  ASSUME NEW e, EngineOk(e), WaitingOk(e), e.status = "waiting_assistance", NEW n \in Nat,
         NEW status \in WaitStatus, NEW y \in AcceptAssistance(e, n, status)
  PROVE  DrivenOk(y, n)
<1> DEFINE x == Transition(e, n)
           s == Plan[e.cursor]
           t == s.routes[status]
<1>1. /\ TransitionOk(x, n) /\ AllPassive(x) /\ OnStep(x.e)
      /\ Affords(x.e, CostOf[x.e.cursor] - 1) /\ x.e = e
  BY WaitingFacts
<1>2. s.kind = "wait" /\ s.blocking /\ FitsKind(e.cursor, s)
  BY PlanFacts DEF WaitingOk, OnStep
<1>3. WaitStatus \subseteq DOMAIN s.routes
  BY <1>2 DEF FitsKind
<1>4. y \in Drive(Onward(x, t, e.stack, None))
  BY DEF AcceptAssistance
<1> HIDE DEF x
<1>5. t \in Targets(s)
  BY <1>2, <1>3 DEF Targets
<1>6. None \in SummaryRecord \cup {None} /\ SummaryOk(None)
  BY DEF SummaryOk
<1> HIDE DEF t, s
<1>7. t \in Targets(Plan[x.e.cursor])
  BY <1>1, <1>5 DEF s
<1>8. RunningOk(Onward(x, t, x.e.stack, None), n)
  BY <1>1, <1>6, <1>7, GotoOk
<1> QED
  BY <1>1, <1>4, <1>8, DriveOk

LEMMA CancelledOk ==
  ASSUME NEW e, EngineOk(e), WaitingOk(e)
  PROVE  EngineOk(Cancelled(e)) /\ SettledOk(Cancelled(e)) /\ Cancelled(e).status = "cancelled"
<1> DEFINE x == Transition(e, 0)
           y == Settle(x, "cancelled")
<1>1. TransitionOk(x, 0) /\ AllPassive(x) /\ x.e = e /\ x.e.steps <= ExecutionCost
  BY WaitingFacts
<1>2. "cancelled" \in Settled
  BY DEF Settled
<1> HIDE DEF x
<1>3. DrivenOk(y, 0)
  BY <1>1, <1>2, SettleFacts
<1>4. y.e.status = "cancelled"
  BY <1>1 DEF Settle, TransitionOk, EngineRecord
<1> HIDE DEF y
<1>5. EngineOk(y.e) /\ SettledOk(y.e)
  BY <1>3, <1>4 DEF DrivenOk, TransitionOk, EngineOk, WaitingOk
<1> QED
  BY <1>4, <1>5 DEF Cancelled, x, y

----
(* Time only shortens the frames. *)

LEMMA AgedFramesFacts ==
  ASSUME NEW stack \in Seq(Frame), StackOk(stack)
  PROVE  LET aged == AgedFrames(stack) IN
         /\ aged \in Seq(Frame) /\ Len(aged) = Len(stack) /\ StackOk(aged)
         /\ DOMAIN aged = DOMAIN stack
         /\ \A i \in DOMAIN stack : aged[i].left = stack[i].left - 1 /\ stack[i].left \in Int
         /\ \A i \in 0..Len(stack) : Level(aged, i) = Level(stack, i)
         /\ \A b : IsBudget(b, stack) => IsBudget(b, aged)
<1> DEFINE n == Len(stack)
           aged == AgedFrames(stack)
<1>1. n \in Nat /\ DOMAIN stack = 1..n /\ \A i \in 1..n : stack[i] \in Frame
  OBVIOUS
<1>2. ASSUME NEW f \in Frame
      PROVE  LET g == [f EXCEPT !.left = @ - 1] IN
             /\ g \in Frame /\ g.left = f.left - 1 /\ f.left \in Int /\ g.step = f.step
             /\ g.count = f.count /\ g.index = f.index /\ g.succeeded = f.succeeded
             /\ g.failed = f.failed /\ g.unresolved = f.unresolved
  <2> DEFINE l == f.left - 1
             g == [f EXCEPT !.left = l]
  <2>1. f.left \in Int /\ l \in Int
    BY DEF Frame
  <2> HIDE DEF l
  <2>2. /\ g \in Frame /\ g.left = l /\ g.step = f.step
        /\ g.count = f.count /\ g.index = f.index /\ g.succeeded = f.succeeded
        /\ g.failed = f.failed /\ g.unresolved = f.unresolved
    BY <2>1 DEF Frame
  <2> QED
    BY <2>1, <2>2 DEF l
<1>3. aged = [i \in 1..n |-> [stack[i] EXCEPT !.left = @ - 1]]
  BY <1>1 DEF AgedFrames
<1>4. \A i \in 1..n : /\ aged[i] \in Frame /\ aged[i].left = stack[i].left - 1
                      /\ stack[i].left \in Int /\ aged[i].step = stack[i].step
                      /\ aged[i].count = stack[i].count /\ aged[i].index = stack[i].index
                      /\ aged[i].succeeded = stack[i].succeeded
                      /\ aged[i].failed = stack[i].failed
                      /\ aged[i].unresolved = stack[i].unresolved
  <2> SUFFICES ASSUME NEW i \in 1..n
               PROVE  /\ aged[i] \in Frame /\ aged[i].left = stack[i].left - 1
                      /\ stack[i].left \in Int /\ aged[i].step = stack[i].step
                      /\ aged[i].count = stack[i].count /\ aged[i].index = stack[i].index
                      /\ aged[i].succeeded = stack[i].succeeded
                      /\ aged[i].failed = stack[i].failed
                      /\ aged[i].unresolved = stack[i].unresolved
    OBVIOUS
  <2> DEFINE f == stack[i]
             g == aged[i]
  <2>1. f \in Frame
    BY <1>1
  <2>2. g = [f EXCEPT !.left = @ - 1]
    BY <1>3
  <2> HIDE DEF f, g
  <2>3. /\ g \in Frame /\ g.left = f.left - 1 /\ f.left \in Int /\ g.step = f.step
        /\ g.count = f.count /\ g.index = f.index /\ g.succeeded = f.succeeded
        /\ g.failed = f.failed /\ g.unresolved = f.unresolved
    BY <1>2, <2>1, <2>2
  <2> QED
    BY <2>3, Zenon DEF f, g
<1>5. aged \in Seq(Frame) /\ Len(aged) = n /\ DOMAIN aged = 1..n
  <2>1. aged \in [1..n -> Frame]
    BY <1>3, <1>4
  <2> HIDE DEF aged, n
  <2> QED
    BY <1>1, <2>1
<1> HIDE DEF aged, n
<1>6. \A i \in 0..n : Level(aged, i) = Level(stack, i)
  <2>1. \A i \in 0..n : i = 0 \/ i \in 1..n
    BY <1>1
  <2> QED
    BY <1>4, <2>1 DEF Level
<1>7. ASSUME NEW i \in 1..n
      PROVE  /\ FrameOk(aged[i]) /\ Weight(aged[i]) = Weight(stack[i])
             /\ Plan[aged[i].step].in = Level(aged, i - 1)
  <2>1. FrameOk(stack[i]) /\ Plan[stack[i].step].in = Level(stack, i - 1)
    BY DEF StackOk, n
  <2>2. FrameOk(aged[i])
    BY <1>4, <2>1 DEF FrameOk
  <2>3. Weight(aged[i]) = Weight(stack[i])
    BY <1>4 DEF Weight
  <2>4. i - 1 \in 0..n
    BY <1>1
  <2> QED
    BY <1>4, <1>6, <2>1, <2>2, <2>3, <2>4
<1>8. StackOk(aged)
  BY <1>5, <1>7 DEF StackOk
<1>9. ASSUME NEW b, IsBudget(b, stack) PROVE IsBudget(b, aged)
  BY <1>5, <1>7, <1>9 DEF IsBudget, n
<1> QED
  BY <1>1, <1>4, <1>5, <1>6, <1>8, <1>9 DEF aged, n

LEMMA AgedOk ==
  ASSUME NEW e, EngineOk(e), WaitingOk(e)
  PROVE  LET y == [e EXCEPT !.stack = AgedFrames(@)] IN
         /\ EngineOk(y) /\ WaitingOk(y)
         /\ y.status = e.status /\ y.active = e.active /\ y.steps = e.steps
         /\ DOMAIN y.stack = DOMAIN e.stack
         /\ \A i \in DOMAIN e.stack : y.stack[i].left = e.stack[i].left - 1 /\ e.stack[i].left \in Int
<1> DEFINE aged == AgedFrames(e.stack)
           y == [e EXCEPT !.stack = aged]
<1>1. e.stack \in Seq(Frame) /\ StackOk(e.stack) /\ e \in EngineRecord /\ SummaryOk(e.out)
  BY DEF EngineOk, EngineRecord
<1>2. /\ aged \in Seq(Frame) /\ Len(aged) = Len(e.stack) /\ StackOk(aged)
      /\ DOMAIN aged = DOMAIN e.stack
      /\ \A i \in DOMAIN e.stack : aged[i].left = e.stack[i].left - 1 /\ e.stack[i].left \in Int
      /\ \A i \in 0..Len(e.stack) : Level(aged, i) = Level(e.stack, i)
      /\ \A b : IsBudget(b, e.stack) => IsBudget(b, aged)
  BY <1>1, AgedFramesFacts
<1> HIDE DEF aged
<1>3. /\ y \in EngineRecord /\ y.stack = aged /\ y.status = e.status /\ y.active = e.active
      /\ y.cursor = e.cursor /\ y.out = e.out /\ y.steps = e.steps
  BY <1>1, <1>2 DEF EngineRecord
<1> HIDE DEF y
<1>4. EngineOk(y)
  BY <1>1, <1>2, <1>3 DEF EngineOk
<1>5. OnStep(y)
  <2>1. Len(e.stack) \in 0..Len(e.stack)
    BY <1>1
  <2> QED
    BY <1>2, <1>3, <2>1 DEF WaitingOk, OnStep
<1>6. Affords(y, CostOf[y.cursor] - 1)
  BY <1>2, <1>3 DEF WaitingOk, Affords
<1>7. WaitingOk(y)
  BY <1>3, <1>5, <1>6 DEF WaitingOk
<1> QED
  BY <1>2, <1>3, <1>4, <1>7 DEF y, aged

----
(* The inductive invariant of the runs.                                        *)

Snapshot == drain.rows \cup (IF drain.at = None THEN {} ELSE {drain.at})

DrainRecord == [busy : BOOLEAN, rows : SUBSET OutboxRow, at : OutboxRow \cup {None}]

TypesGood ==
    /\ DOMAIN engine = Run
    /\ lastId \in 0..MaxId
    /\ outbox \subseteq OutboxRow /\ drain \in DrainRecord
    /\ inbox \subseteq Task /\ done \subseteq 1..lastId

\* A checkpoint is never in the middle of its steps.
RunGood(r) ==
    engine[r] # None =>
        /\ EngineOk(engine[r])
        /\ \/ SettledOk(engine[r])
           \/ WaitingOk(engine[r]) /\ engine[r].active.id \in 1..lastId

\* No row of the run but the given one is drained.
Only(r, row) ==
    \A other \in outbox : other.run = r /\ other.kind # "request" => other = row

Resting(r) ==
    ~Live(r) /\ \A row \in outbox : row.run = r => row.kind = "request"

CallBacked(r) ==
    /\ Live(r) /\ engine[r].status = "waiting_runtime"
    /\ task[engine[r].active.id].status = "none" /\ ~task[engine[r].active.id].blocking
    /\ \E row \in outbox :
          /\ row.kind = "invoke" /\ row.run = r
          /\ row.id = engine[r].active.id /\ row.attempt = engine[r].active.attempt
          /\ Fits(row, engine[r].stack) /\ Only(r, row)

TaskBacked(r) ==
    /\ Live(r) /\ engine[r].status = "waiting_assistance"
    /\ task[engine[r].active.id].status \in Open /\ task[engine[r].active.id].blocking
    /\ \E row \in outbox :
          /\ row.kind = "timer" /\ row.run = r
          /\ row.id = engine[r].active.id
          /\ row.wait = task[row.id].left /\ Only(r, row)
    /\ \E row \in outbox : row.kind = "request" /\ row.run = r /\ row.id = engine[r].active.id

Backing(r) == Resting(r) \/ CallBacked(r) \/ TaskBacked(r)

\* An id tells the run; with the kind it tells the row.
RowsGood ==
    /\ \A row \in outbox \cup Snapshot : row.id <= lastId
    /\ \A a, b \in outbox : a.id = b.id => a.run = b.run
    /\ \A a, b \in outbox : a.id = b.id /\ a.kind = b.kind => a = b
    /\ \A a \in Snapshot : \A b \in outbox : a.id = b.id /\ a.kind = b.kind => a = b

TasksGood ==
    \A t \in Task :
        /\ t > lastId => task[t].status = "none" /\ ~task[t].blocking
        /\ task[t].blocking /\ task[t].status \in Open => \E r \in Run : Active(r) = t

RunsInv ==
    /\ TypesGood /\ RowsGood /\ TasksGood
    /\ \A r \in Run : RunGood(r) /\ Backing(r)

RInv == IInv /\ RunsInv

----
(* The rows of a transition. *)

LEMMA RowFacts ==
  ASSUME NEW r, NEW f
  PROVE  /\ Row("invoke", r, f).kind = "invoke" /\ Row("invoke", r, f).run = r
         /\ Row("invoke", r, f).id = f.id /\ Row("invoke", r, f).attempt = f.attempt
         /\ Row("invoke", r, f).wait = f.wait /\ Row("invoke", r, f).left = f.left
         /\ Row("request", r, f).kind = "request" /\ Row("request", r, f).run = r
         /\ Row("request", r, f).id = f.id /\ Row("request", r, f).attempt = 0
         /\ Row("request", r, f).wait = 0 /\ Row("request", r, f).left = 0
         /\ Row("timer", r, f).kind = "timer" /\ Row("timer", r, f).run = r
         /\ Row("timer", r, f).id = f.id /\ Row("timer", r, f).attempt = 0
         /\ Row("timer", r, f).wait = f.left /\ Row("timer", r, f).left = 0
  BY DEF Row

LEMMA RowTypes ==
  ASSUME NEW r \in Run, NEW f \in Invocation \cup Assistance, f.id \in Task
  PROVE  /\ f.kind = "invoke" => Row("invoke", r, f) \in OutboxRow
         /\ f.kind = "task" => Row("request", r, f) \in OutboxRow
         /\ f.kind = "task" => Row("timer", r, f) \in OutboxRow
<1>1. CASE f \in Invocation
  <2>1. /\ f.kind = "invoke" /\ f.attempt \in Nat /\ f.wait \in Nat /\ f.left \in Nat
    BY <1>1 DEF Invocation
  <2> QED
    BY <2>1 DEF Row, OutboxRow
<1>2. CASE f \in Assistance
  <2>1. f.kind = "task" /\ f.left \in Nat
    BY <1>2 DEF Assistance
  <2> QED
    BY <2>1 DEF Row, OutboxRow
<1> QED
  BY <1>1, <1>2

\* Each row of a transition stands for one of its effects.
LEMMA RowsOfFacts ==
  ASSUME NEW r \in Run, NEW x, NEW first, TransitionOk(x, first), first >= 1, x.n <= MaxId + 1
  PROVE  /\ RowsOf(r, x.effects) \subseteq OutboxRow
         /\ \A row \in RowsOf(r, x.effects) :
               /\ row.run = r /\ first <= row.id /\ row.id < x.n
               /\ \E f \in x.effects :
                     /\ row.id = f.id
                     /\ \/ row.kind = "invoke" /\ f.kind = "invoke"
                        \/ row.kind = "request" /\ f.kind = "task"
                        \/ row.kind = "timer" /\ f.kind = "task" /\ f.blocking
                     /\ row = Row(row.kind, r, f)
         /\ \A a, b \in RowsOf(r, x.effects) : a.id = b.id /\ a.kind = b.kind => a = b
         /\ \A f \in x.effects :
               /\ f.id \in Task
               /\ f.kind = "invoke" => Row("invoke", r, f) \in RowsOf(r, x.effects)
               /\ f.kind = "task" => Row("request", r, f) \in RowsOf(r, x.effects)
               /\ f.kind = "task" /\ f.blocking => Row("timer", r, f) \in RowsOf(r, x.effects)
<1>1. /\ x.n \in Nat /\ first \in Nat /\ x.effects \subseteq Invocation \cup Assistance
      /\ \A f \in x.effects : first <= f.id /\ f.id < x.n
      /\ \A f, g \in x.effects : f.id = g.id => f = g
  BY DEF TransitionOk
<1>2. \A f \in x.effects : f.id \in Task
  <2>1. \A f \in x.effects : f.id \in Nat
    BY <1>1 DEF Invocation, Assistance
  <2>2. Task = 1..MaxId /\ MaxId \in Nat
    BY RunAssumption
  <2> QED
    BY <1>1, <2>1, <2>2
<1>3. ASSUME NEW row \in RowsOf(r, x.effects)
      PROVE  /\ row \in OutboxRow /\ row.run = r
             /\ \E f \in x.effects :
                   /\ row.id = f.id
                   /\ \/ row.kind = "invoke" /\ f.kind = "invoke"
                      \/ row.kind = "request" /\ f.kind = "task"
                      \/ row.kind = "timer" /\ f.kind = "task" /\ f.blocking
                   /\ row = Row(row.kind, r, f)
  <2>1. PICK f \in x.effects :
           \/ f.kind = "invoke" /\ row = Row("invoke", r, f)
           \/ f.kind = "task" /\ row = Row("request", r, f)
           \/ f.kind = "task" /\ f.blocking /\ row = Row("timer", r, f)
    BY DEF RowsOf
  <2>2. f \in Invocation \cup Assistance /\ f.id \in Task
    BY <1>1, <1>2
  <2>3. row \in OutboxRow
    BY <2>1, <2>2, RowTypes
  <2>4. CASE f.kind = "invoke" /\ row = Row("invoke", r, f)
    BY <2>3, <2>4, RowFacts
  <2>5. CASE f.kind = "task" /\ row = Row("request", r, f)
    BY <2>3, <2>5, RowFacts
  <2>6. CASE f.kind = "task" /\ f.blocking /\ row = Row("timer", r, f)
    BY <2>3, <2>6, RowFacts
  <2> QED
    BY <2>1, <2>4, <2>5, <2>6
<1>4. \A row \in RowsOf(r, x.effects) : first <= row.id /\ row.id < x.n
  BY <1>1, <1>3
<1>5. \A a, b \in RowsOf(r, x.effects) : a.id = b.id /\ a.kind = b.kind => a = b
  BY <1>1, <1>3
<1>6. \A f \in x.effects :
         /\ f.kind = "invoke" => Row("invoke", r, f) \in RowsOf(r, x.effects)
         /\ f.kind = "task" => Row("request", r, f) \in RowsOf(r, x.effects)
         /\ f.kind = "task" /\ f.blocking => Row("timer", r, f) \in RowsOf(r, x.effects)
  BY DEF RowsOf
<1> QED
  BY <1>2, <1>3, <1>4, <1>5, <1>6

----
(* A transaction of the engine for run r, whoever starts it: what it waited for *)
(* is acknowledged, its transition x is written, with the tasks it creates.     *)

Transacts(r, x, acknowledged) ==
    /\ r \in Run /\ DrivenOk(x, lastId + 1)
    /\ CommitTransition(r, x, acknowledged)
    /\ \A row \in acknowledged : row.run = r
    /\ \A row \in outbox : row.run = r /\ row.kind # "request" => row \in acknowledged
    /\ \A f \in x.effects : f.kind = "task" =>
          task'[f.id] = NewTask(f.human, f.blocking, f.left)
    /\ \A t \in Task : (\A f \in x.effects : f.kind = "task" => f.id # t) =>
          IF WaitsForTask(r, t) THEN task'[t].status \in Final ELSE task'[t] = task[t]
    /\ done' \subseteq 1..lastId
    /\ inbox' \subseteq Task /\ drain' \in DrainRecord /\ Snapshot' \subseteq Snapshot

LEMMA CheckpointFacts ==
  ASSUME NEW e, EngineOk(e), SettledOk(e) \/ (WaitingOk(e) /\ e.active.id \in Task)
  PROVE  e \in EngineState /\ e # None /\ e.steps <= ExecutionCost
<1>1. e \in EngineRecord
  BY DEF EngineOk
<1>2. e \in EngineState
  <2>1. e.status \in Settled \cup {"waiting_runtime", "waiting_assistance"}
    BY DEF SettledOk, WaitingOk
  <2>2. e.active \in [id : Task, attempt : Nat] \cup {None}
    BY DEF SettledOk, WaitingOk
  <2> QED
    BY <1>1, <2>1, <2>2 DEF EngineRecord, EngineState, SummaryRecord
<1>3. e.steps <= ExecutionCost
  <2>1. 0 \in Nat
    OBVIOUS
  <2>2. CASE SettledOk(e)
    BY <2>2 DEF SettledOk
  <2>3. CASE WaitingOk(e)
    BY <2>1, <2>3, WaitingFacts
  <2> QED
    BY <2>2, <2>3
<1> QED
  BY <1>2, <1>3, NoneAssumption

LEMMA TransactBasics ==
  ASSUME RunsInv, NEW r, NEW x, NEW acknowledged, Transacts(r, x, acknowledged)
  PROVE  /\ lastId \in Nat /\ lastId' \in 0..MaxId /\ lastId <= lastId' /\ lastId' = x.n - 1
         /\ TransitionOk(x, lastId + 1) /\ x.n \in Nat
         /\ DOMAIN engine' = Run /\ engine'[r] = x.e
         /\ \A q \in Run : q # r => engine'[q] = engine[q]
         /\ \A f \in x.effects : f.id \in Task /\ f.id > lastId /\ f.id \in 1..lastId'
         /\ \A row \in outbox' :
               \/ row \in outbox /\ row \notin acknowledged
               \/ row \in RowsOf(r, x.effects)
         /\ \A row \in outbox : row.run # r => row \in outbox'
         /\ RowsOf(r, x.effects) \subseteq outbox'
         /\ \A row \in RowsOf(r, x.effects) : row.id > lastId /\ row.id <= lastId'
<1>1. lastId \in 0..MaxId /\ MaxId \in Nat /\ Task = 1..MaxId /\ DOMAIN engine = Run
  BY RunAssumption DEF RunsInv, TypesGood
<1>2. TransitionOk(x, lastId + 1) /\ r \in Run /\ x.n <= MaxId + 1 /\ lastId' = x.n - 1
  BY DEF Transacts, DrivenOk, CommitTransition
<1>3. x.n \in Nat /\ lastId + 1 <= x.n
  BY <1>2 DEF TransitionOk
<1>4. lastId \in Nat /\ lastId' \in 0..MaxId /\ lastId <= lastId'
  BY <1>1, <1>2, <1>3
<1>5. engine' = [engine EXCEPT ![r] = x.e]
  BY DEF Transacts, CommitTransition
<1>6. DOMAIN engine' = Run /\ engine'[r] = x.e /\ \A q \in Run : q # r => engine'[q] = engine[q]
  BY <1>1, <1>2, <1>5
<1>7. lastId + 1 >= 1
  BY <1>4
<1>8. /\ \A row \in RowsOf(r, x.effects) : lastId + 1 <= row.id /\ row.id < x.n /\ row \in OutboxRow
      /\ \A f \in x.effects : f.id \in Task
  <2> DEFINE first == lastId + 1
  <2>1. TransitionOk(x, first) /\ first >= 1
    BY <1>2, <1>7
  <2> HIDE DEF first
  <2>2. /\ \A row \in RowsOf(r, x.effects) : first <= row.id /\ row.id < x.n
        /\ RowsOf(r, x.effects) \subseteq OutboxRow
        /\ \A f \in x.effects : f.id \in Task
    BY <1>2, <2>1, RowsOfFacts
  <2> QED
    BY <2>2 DEF first
<1>9. \A row \in RowsOf(r, x.effects) : row.id > lastId /\ row.id <= lastId'
  <2>1. \A row \in RowsOf(r, x.effects) : row.id \in Task
    BY <1>8 DEF OutboxRow
  <2>2. \A i \in Task : i \in Nat
    BY <1>1
  <2> QED
    BY <1>2, <1>3, <1>4, <1>8, <2>1, <2>2
<1>10. \A f \in x.effects : f.id \in Task /\ f.id > lastId /\ f.id \in 1..lastId'
  <2>1. \A f \in x.effects : lastId + 1 <= f.id /\ f.id < x.n
    BY <1>2 DEF TransitionOk
  <2>2. \A i \in Task : i \in Nat
    BY <1>1
  <2> QED
    BY <1>2, <1>3, <1>4, <1>8, <2>1, <2>2
<1>11. outbox' = (outbox \ acknowledged) \cup RowsOf(r, x.effects)
  BY DEF Transacts, CommitTransition
<1>12. \A row \in outbox : row.run # r => row \in outbox'
  BY <1>11 DEF Transacts
<1> QED
  BY <1>2, <1>3, <1>4, <1>6, <1>9, <1>10, <1>11, <1>12

LEMMA TransactTypes ==
  ASSUME RunsInv, NEW r, NEW x, NEW acknowledged, Transacts(r, x, acknowledged)
  PROVE  TypesGood'
<1>1. /\ lastId' \in 0..MaxId /\ lastId <= lastId' /\ lastId \in Nat /\ DOMAIN engine' = Run
  BY TransactBasics
<1>2. outbox' \subseteq OutboxRow
  <2> DEFINE first == lastId + 1
  <2>1. TransitionOk(x, first) /\ first >= 1 /\ x.n <= MaxId + 1 /\ r \in Run
    <3>1. TransitionOk(x, lastId + 1)
      BY TransactBasics
    <3>2. x.n <= MaxId + 1 /\ r \in Run
      BY DEF Transacts, CommitTransition
    <3> QED
      BY <1>1, <3>1, <3>2
  <2> HIDE DEF first
  <2>2. RowsOf(r, x.effects) \subseteq OutboxRow
    BY <2>1, RowsOfFacts
  <2>3. outbox \subseteq OutboxRow
    BY DEF RunsInv, TypesGood
  <2>4. outbox' = (outbox \ acknowledged) \cup RowsOf(r, x.effects)
    BY DEF Transacts, CommitTransition
  <2> QED
    BY <2>2, <2>3, <2>4
<1>3. done' \subseteq 1..lastId'
  <2>1. \A i \in 1..lastId : i \in 1..lastId'
    BY <1>1
  <2> QED
    BY <2>1 DEF Transacts
<1> QED
  BY <1>1, <1>2, <1>3 DEF TypesGood, Transacts

LEMMA TransactRows ==
  ASSUME RunsInv, NEW r, NEW x, NEW acknowledged, Transacts(r, x, acknowledged)
  PROVE  RowsGood'
<1> DEFINE new == RowsOf(r, x.effects)
<1>1. /\ lastId \in Nat /\ lastId' \in Nat /\ lastId <= lastId'
      /\ \A row \in outbox' : row \in outbox \/ row \in new
      /\ \A row \in new : row.id > lastId /\ row.id <= lastId'
  BY TransactBasics
<1>2. /\ \A row \in outbox \cup Snapshot : row.id <= lastId
      /\ \A a, b \in outbox : a.id = b.id => a.run = b.run
      /\ \A a, b \in outbox : a.id = b.id /\ a.kind = b.kind => a = b
      /\ \A a \in Snapshot : \A b \in outbox : a.id = b.id /\ a.kind = b.kind => a = b
  BY DEF RunsInv, RowsGood
<1>3. /\ \A a, b \in new : a.id = b.id /\ a.kind = b.kind => a = b
      /\ \A a \in new : a.run = r /\ a.id \in Nat
  <2> DEFINE first == lastId + 1
  <2>1. TransitionOk(x, first) /\ first >= 1 /\ x.n <= MaxId + 1 /\ r \in Run
    <3>1. TransitionOk(x, lastId + 1)
      BY TransactBasics
    <3>2. x.n <= MaxId + 1 /\ r \in Run
      BY DEF Transacts, CommitTransition
    <3> QED
      BY <1>1, <3>1, <3>2
  <2>2. MaxId \in Nat /\ Task = 1..MaxId
    BY RunAssumption
  <2> HIDE DEF first
  <2>3. /\ \A a, b \in new : a.id = b.id /\ a.kind = b.kind => a = b
        /\ \A a \in new : a.run = r /\ a \in OutboxRow
    BY <2>1, RowsOfFacts
  <2> QED
    BY <2>2, <2>3 DEF OutboxRow
<1>4. Snapshot' \subseteq Snapshot
  BY DEF Transacts
<1>5. \A row \in outbox \cup Snapshot : row.id \in Nat
  <2>1. MaxId \in Nat /\ Task = 1..MaxId
    BY RunAssumption
  <2>2. \A row \in outbox \cup Snapshot : row \in OutboxRow
    BY DEF RunsInv, TypesGood, Snapshot, DrainRecord
  <2> QED
    BY <2>1, <2>2 DEF OutboxRow
<1> HIDE DEF new
<1>6. \A a \in outbox \cup Snapshot : \A b \in new : a.id # b.id
  BY <1>1, <1>2, <1>3, <1>5
<1>7. \A row \in outbox' \cup Snapshot' : row.id <= lastId'
  BY <1>1, <1>2, <1>3, <1>4, <1>5
<1>8. \A a, b \in outbox' : a.id = b.id => a.run = b.run
  BY <1>1, <1>2, <1>3, <1>6
<1>9. \A a, b \in outbox' : a.id = b.id /\ a.kind = b.kind => a = b
  BY <1>1, <1>2, <1>3, <1>6
<1>10. \A a \in Snapshot' : \A b \in outbox' : a.id = b.id /\ a.kind = b.kind => a = b
  BY <1>1, <1>2, <1>4, <1>6
<1> QED
  BY <1>7, <1>8, <1>9, <1>10 DEF RowsGood

\* Who waits, waits for an id given out before.
LEMMA LiveFacts ==
  ASSUME RunsInv, NEW q \in Run, Live(q)
  PROVE  /\ EngineOk(engine[q]) /\ WaitingOk(engine[q])
         /\ engine[q].active.id \in 1..lastId /\ engine[q].active.id \in Task
         /\ engine[q].status \in {"waiting_runtime", "waiting_assistance"}
         /\ CallBacked(q) \/ TaskBacked(q)
         /\ Active(q) = engine[q].active.id /\ Active(q) # None
<1>1. RunGood(q) /\ Backing(q) /\ lastId \in 0..MaxId
  BY DEF RunsInv, TypesGood
<1>2. /\ EngineOk(engine[q]) /\ WaitingOk(engine[q]) /\ engine[q].active.id \in 1..lastId
  BY <1>1 DEF RunGood, Live, SettledOk
<1>3. engine[q].active.id \in Task /\ engine[q].active.id \in Nat
  BY <1>1, <1>2, RunAssumption
<1>4. Active(q) = engine[q].active.id /\ Active(q) # None
  BY <1>3, AssistanceAssumption DEF Active
<1>5. CallBacked(q) \/ TaskBacked(q)
  BY <1>1 DEF Backing, Resting
<1> QED
  BY <1>2, <1>3, <1>4, <1>5 DEF CallBacked, TaskBacked

\* Two runs never wait for the same id.
LEMMA ActiveDistinct ==
  ASSUME RunsInv, NEW q \in Run, Live(q), NEW r \in Run, Live(r),
         engine[q].active.id = engine[r].active.id
  PROVE  q = r
<1>1. ASSUME NEW p \in Run, Live(p)
      PROVE  \E row \in outbox : row.run = p /\ row.id = engine[p].active.id
  BY <1>1, LiveFacts DEF CallBacked, TaskBacked
<1>2. \A a, b \in outbox : a.id = b.id => a.run = b.run
  BY DEF RunsInv, RowsGood
<1> QED
  BY <1>1, <1>2

LEMMA TransactTasks ==
  ASSUME RunsInv, NEW r, NEW x, NEW acknowledged, Transacts(r, x, acknowledged)
  PROVE  TasksGood'
<1>1. /\ lastId \in Nat /\ lastId' \in 0..MaxId /\ lastId <= lastId'
      /\ engine'[r] = x.e
      /\ \A q \in Run : q # r => engine'[q] = engine[q]
      /\ \A f \in x.effects : f.id \in Task /\ f.id > lastId /\ f.id \in 1..lastId'
  BY TransactBasics
<1>2. /\ r \in Run /\ DrivenOk(x, lastId + 1)
      /\ \A f \in x.effects : f.kind = "task" =>
            task'[f.id] = NewTask(f.human, f.blocking, f.left)
      /\ \A t \in Task : (\A f \in x.effects : f.kind = "task" => f.id # t) =>
            IF WaitsForTask(r, t) THEN task'[t].status \in Final ELSE task'[t] = task[t]
  BY DEF Transacts
<1> SUFFICES ASSUME NEW t \in Task
             PROVE  /\ t > lastId' => task'[t].status = "none" /\ ~task'[t].blocking
                    /\ task'[t].blocking /\ task'[t].status \in Open =>
                          \E q \in Run : Active(q)' = t
  BY DEF TasksGood
<1>3. /\ t > lastId => task[t].status = "none" /\ ~task[t].blocking
      /\ task[t].blocking /\ task[t].status \in Open => \E q \in Run : Active(q) = t
  BY DEF RunsInv, TasksGood
<1>4. t \in Nat
  BY RunAssumption
<1>5. ASSUME t > lastId' PROVE task'[t].status = "none" /\ ~task'[t].blocking
  <2>1. t > lastId
    BY <1>1, <1>4, <1>5
  <2>2. \A f \in x.effects : f.id # t
    BY <1>1, <1>4, <1>5
  <2>3. ~WaitsForTask(r, t)
    <3>1. Live(r) => engine[r].active.id \in 1..lastId
      BY <1>2, LiveFacts
    <3> QED
      BY <1>1, <1>4, <2>1, <3>1 DEF WaitsForTask
  <2> QED
    BY <1>2, <1>3, <2>1, <2>2, <2>3
<1>6. ASSUME task'[t].blocking, task'[t].status \in Open PROVE \E q \in Run : Active(q)' = t
  <2>1. CASE \E f \in x.effects : f.kind = "task" /\ f.id = t
    <3>1. PICK f \in x.effects : f.kind = "task" /\ f.id = t
      BY <2>1
    <3>2. task'[t].blocking = f.blocking
      BY <1>2, <3>1 DEF NewTask, NoTask
    <3>3. ~Passive(f)
      BY <1>6, <3>1, <3>2 DEF Passive
    <3>4. /\ WaitingOk(x.e) /\ Backed(x, f)
      BY <1>2, <3>3 DEF DrivenOk, AllPassive, Backed
    <3>5. x.e.active.id = t /\ x.e.status \notin Settled
      BY <3>1, <3>4 DEF Backed, WaitingOk, Settled
    <3>6. x.e # None
      <4>1. EngineOk(x.e)
        BY <1>2 DEF DrivenOk, TransitionOk, EngineOk
      <4> QED
        BY <3>4, <3>5, <4>1, CheckpointFacts
    <3>7. Active(r)' = t
      BY <1>1, <3>5, <3>6 DEF Active, Live
    <3> QED
      BY <1>2, <3>7
  <2>2. CASE ~\E f \in x.effects : f.kind = "task" /\ f.id = t
    <3>1. \A f \in x.effects : f.kind = "task" => f.id # t
      BY <2>2
    <3>2. ~WaitsForTask(r, t) /\ task'[t] = task[t]
      <4>1. \A status \in Final : status \notin Open
        BY DEF Final, Open, Leased
      <4> QED
        BY <1>2, <1>6, <3>1, <4>1
    <3>3. PICK q \in Run : Active(q) = t
      BY <1>3, <1>6, <3>2
    <3>4. Live(q)
      BY <1>4, <3>3, AssistanceAssumption DEF Active
    <3>5. engine[q].active.id = t
      BY <3>3, <3>4 DEF Active
    <3>6. q # r
      <4>1. CASE q = r
        <5>1. TaskBacked(r)
          BY <1>6, <3>2, <3>4, <3>5, <4>1, LiveFacts DEF CallBacked
        <5>2. WaitsForTask(r, t)
          BY <3>4, <3>5, <4>1, <5>1 DEF TaskBacked, WaitsForTask
        <5> QED
          BY <3>2, <5>2
      <4> QED
        BY <4>1
    <3>7. Active(q)' = t
      <4>1. engine'[q] = engine[q]
        BY <1>1, <3>6
      <4> QED
        BY <3>3, <3>4, <3>5, <4>1 DEF Active, Live
    <3> QED
      BY <3>7
  <2> QED
    BY <2>1, <2>2
<1> QED
  BY <1>5, <1>6

\* A transaction of run r leaves the other runs alone.
LEMMA TransactOthers ==
  ASSUME RunsInv, NEW r, NEW x, NEW acknowledged, Transacts(r, x, acknowledged),
         NEW q \in Run, q # r
  PROVE  RunGood(q)' /\ Backing(q)'
<1>1. /\ lastId \in Nat /\ lastId' \in 0..MaxId /\ lastId <= lastId'
      /\ engine'[q] = engine[q]
      /\ \A f \in x.effects : f.id \in Task /\ f.id > lastId
      /\ \A row \in outbox' : row \in outbox \/ row \in RowsOf(r, x.effects)
      /\ \A row \in outbox : row.run = q => row \in outbox'
  BY TransactBasics
<1>2. \A row \in RowsOf(r, x.effects) : row.run = r
  <2> DEFINE first == lastId + 1
  <2>1. TransitionOk(x, first) /\ first >= 1 /\ x.n <= MaxId + 1 /\ r \in Run
    <3>1. TransitionOk(x, lastId + 1)
      BY TransactBasics
    <3>2. x.n <= MaxId + 1 /\ r \in Run
      BY DEF Transacts, CommitTransition
    <3> QED
      BY <1>1, <3>1, <3>2
  <2> HIDE DEF first
  <2> QED
    BY <2>1, RowsOfFacts
<1>3. \A row \in outbox' : row.run = q => row \in outbox
  BY <1>1, <1>2
<1>4. RunGood(q) /\ Backing(q)
  BY DEF RunsInv
<1>5. RunGood(q)'
  <2>1. \A i \in 1..lastId : i \in 1..lastId'
    BY <1>1
  <2> QED
    BY <1>1, <1>4, <2>1 DEF RunGood
<1>6. Live(q)' <=> Live(q)
  BY <1>1 DEF Live
<1>7. CASE ~Live(q)
  <2>1. Resting(q)
    BY <1>4, <1>7 DEF Backing, CallBacked, TaskBacked
  <2>2. Resting(q)'
    BY <1>3, <1>6, <2>1 DEF Resting
  <2> QED
    BY <1>5, <2>2 DEF Backing
<1>8. CASE Live(q)
  <2> DEFINE t == engine[q].active.id
  <2>1. t \in 1..lastId /\ t \in Task /\ (CallBacked(q) \/ TaskBacked(q))
    BY <1>8, LiveFacts
  <2>2. task'[t] = task[t]
    <3>1. \A f \in x.effects : f.id # t
      BY <1>1, <2>1
    <3>2. ~WaitsForTask(r, t)
      <4>1. r \in Run
        BY DEF Transacts
      <4>2. CASE WaitsForTask(r, t)
        BY <1>8, <4>1, <4>2, ActiveDistinct DEF WaitsForTask
      <4> QED
        BY <4>2
    <3> QED
      BY <2>1, <3>1, <3>2 DEF Transacts
  <2>3. \A row : Only(q, row) => Only(q, row)'
    BY <1>3 DEF Only
  <2>4. ASSUME CallBacked(q) PROVE CallBacked(q)'
    BY <1>1, <1>6, <2>2, <2>3, <2>4 DEF CallBacked
  <2>5. ASSUME TaskBacked(q) PROVE TaskBacked(q)'
    BY <1>1, <1>6, <2>2, <2>3, <2>5 DEF TaskBacked
  <2> QED
    BY <1>5, <2>1, <2>4, <2>5 DEF Backing
<1> QED
  BY <1>7, <1>8

\* What run r comes to wait for has its row, and its task.
LEMMA TransactRun ==
  ASSUME RunsInv, NEW r, NEW x, NEW acknowledged, Transacts(r, x, acknowledged)
  PROVE  RunGood(r)' /\ Backing(r)'
<1> DEFINE new == RowsOf(r, x.effects)
           e   == x.e
<1>1. /\ lastId \in Nat /\ lastId' \in 0..MaxId
      /\ engine'[r] = e
      /\ \A f \in x.effects : f.id \in Task /\ f.id > lastId /\ f.id \in 1..lastId'
      /\ \A row \in outbox' : (row \in outbox /\ row \notin acknowledged) \/ row \in new
      /\ new \subseteq outbox'
  BY TransactBasics
<1>2. r \in Run /\ DrivenOk(x, lastId + 1)
  BY DEF Transacts
<1>3. /\ \A row \in new :
            /\ row.run = r
            /\ \E f \in x.effects :
                  /\ row.id = f.id
                  /\ \/ row.kind = "invoke" /\ f.kind = "invoke"
                     \/ row.kind = "request" /\ f.kind = "task"
                     \/ row.kind = "timer" /\ f.kind = "task" /\ f.blocking
                  /\ row = Row(row.kind, r, f)
      /\ \A f \in x.effects :
            /\ f.kind = "invoke" => Row("invoke", r, f) \in new
            /\ f.kind = "task" => Row("request", r, f) \in new
            /\ f.kind = "task" /\ f.blocking => Row("timer", r, f) \in new
  <2> DEFINE first == lastId + 1
  <2>1. TransitionOk(x, first) /\ first >= 1 /\ x.n <= MaxId + 1 /\ r \in Run
    <3>1. TransitionOk(x, lastId + 1)
      BY TransactBasics
    <3>2. x.n <= MaxId + 1 /\ r \in Run
      BY DEF Transacts, CommitTransition
    <3> QED
      BY <1>1, <3>1, <3>2
  <2> HIDE DEF first
  <2> QED
    BY <2>1, RowsOfFacts
<1>4. \A row \in outbox' : row.run = r => row.kind = "request" \/ row \in new
  BY <1>1 DEF Transacts
<1>5. EngineOk(e) /\ \A f, g \in x.effects : f.id = g.id => f = g
  BY <1>2 DEF DrivenOk, TransitionOk, EngineOk
<1> HIDE DEF new, e
<1>6. CASE SettledOk(e) /\ AllPassive(x)
  <2>1. ~Live(r)'
    BY <1>1, <1>6 DEF Live, SettledOk
  <2>2. \A row \in outbox' : row.run = r => row.kind = "request"
    BY <1>3, <1>4, <1>6 DEF AllPassive, Passive
  <2> QED
    BY <1>1, <1>5, <1>6, <2>1, <2>2 DEF RunGood, Backing, Resting
<1>7. CASE WaitingOk(e) /\ \E f \in x.effects : Backed(x, f)
  <2>1. PICK f \in x.effects : Backed(x, f)
    BY <1>7
  <2>2. /\ f.id = e.active.id
        /\ \A g \in x.effects : g # f => Passive(g)
        /\ \/ /\ e.status = "waiting_runtime"
              /\ f.kind = "invoke" /\ f.attempt = e.active.attempt /\ Fits(f, e.stack)
           \/ /\ e.status = "waiting_assistance"
              /\ f.kind = "task" /\ f.blocking
    BY <2>1 DEF Backed, e
  <2>3. e.active.id \in Task /\ e.active.id \in 1..lastId'
    BY <1>1, <2>2
  <2>4. e # None
    BY <1>5, <1>7, <2>3, CheckpointFacts
  <2>5. RunGood(r)'
    BY <1>1, <1>5, <1>7, <2>3 DEF RunGood
  <2>6. Live(r)'
    BY <1>1, <2>2, <2>4 DEF Live, Settled
  <2>7. \A row \in new : row.kind # "request" =>
           \/ f.kind = "invoke" /\ row = Row("invoke", r, f)
           \/ f.kind = "task" /\ row = Row("timer", r, f)
    <3> SUFFICES ASSUME NEW row \in new, row.kind # "request"
                 PROVE  \/ f.kind = "invoke" /\ row = Row("invoke", r, f)
                        \/ f.kind = "task" /\ row = Row("timer", r, f)
      OBVIOUS
    <3>1. PICK g \in x.effects :
             /\ row.id = g.id
             /\ \/ row.kind = "invoke" /\ g.kind = "invoke"
                \/ row.kind = "timer" /\ g.kind = "task" /\ g.blocking
             /\ row = Row(row.kind, r, g)
      BY <1>3
    <3>2. g = f
      BY <2>2, <3>1 DEF Passive
    <3> QED
      BY <3>1, <3>2
  <2>8. CASE e.status = "waiting_runtime"
    <3> DEFINE row == Row("invoke", r, f)
    <3>1. /\ f.kind = "invoke" /\ f.attempt = e.active.attempt /\ Fits(f, e.stack)
      BY <2>2, <2>8
    <3>2. row \in outbox'
      BY <1>1, <1>3, <3>1
    <3>3. /\ row.kind = "invoke" /\ row.run = r /\ row.id = e.active.id
          /\ row.attempt = e.active.attempt /\ row.wait = f.wait /\ row.left = f.left
      BY <2>2, <3>1, RowFacts
    <3>4. \A other \in outbox' : other.run = r /\ other.kind # "request" => other = row
      <4>1. f.kind # "task"
        BY <3>1
      <4> QED
        BY <1>4, <2>7, <4>1
    <3> HIDE DEF row
    <3>5. Fits(row, e.stack)
      BY <3>1, <3>3 DEF Fits
    <3>6. task'[f.id].status = "none" /\ ~task'[f.id].blocking
      <4>1. f.id \in Task /\ f.id > lastId
        BY <1>1
      <4>2. task[f.id].status = "none" /\ ~task[f.id].blocking
        BY <4>1 DEF RunsInv, TasksGood
      <4>3. \A g \in x.effects : g.kind = "task" => g.id # f.id
        BY <1>5, <3>1
      <4>4. ~WaitsForTask(r, f.id)
        <5>1. Live(r) => engine[r].active.id \in 1..lastId
          BY <1>2, LiveFacts
        <5> QED
          BY <1>1, <4>1, <5>1 DEF WaitsForTask
      <4> QED
        BY <4>1, <4>2, <4>3, <4>4 DEF Transacts
    <3>7. CallBacked(r)'
      <4>1. engine'[r].active.id = f.id /\ engine'[r].status = "waiting_runtime"
        BY <1>1, <2>2, <2>8
      <4>2. Only(r, row)'
        BY <3>4 DEF Only
      <4>3. /\ row.kind = "invoke" /\ row.run = r /\ row.id = engine'[r].active.id
            /\ row.attempt = engine'[r].active.attempt /\ Fits(row, engine'[r].stack)
        BY <1>1, <3>3, <3>5
      <4> QED
        BY <2>6, <3>2, <3>6, <4>1, <4>2, <4>3 DEF CallBacked
    <3> QED
      BY <2>5, <3>7 DEF Backing
  <2>9. CASE e.status = "waiting_assistance"
    <3> DEFINE row == Row("timer", r, f)
               req == Row("request", r, f)
    <3>1. f.kind = "task" /\ f.blocking
      BY <2>2, <2>9
    <3>2. row \in outbox' /\ req \in outbox'
      BY <1>1, <1>3, <3>1
    <3>3. /\ row.kind = "timer" /\ row.run = r /\ row.id = e.active.id /\ row.wait = f.left
          /\ req.kind = "request" /\ req.run = r /\ req.id = e.active.id
      BY <2>2, RowFacts
    <3>4. \A other \in outbox' : other.run = r /\ other.kind # "request" => other = row
      <4>1. f.kind # "invoke"
        BY <3>1
      <4> QED
        BY <1>4, <2>7, <4>1
    <3> HIDE DEF row, req
    <3>5. task'[f.id].status = "queued" /\ task'[f.id].blocking /\ task'[f.id].left = f.left
      <4>1. task'[f.id] = NewTask(f.human, f.blocking, f.left)
        BY <3>1 DEF Transacts
      <4> QED
        BY <3>1, <4>1 DEF NewTask, NoTask
    <3>6. TaskBacked(r)'
      <4>1. engine'[r].active.id = f.id /\ engine'[r].status = "waiting_assistance"
        BY <1>1, <2>2, <2>9
      <4>2. Only(r, row)'
        BY <3>4 DEF Only
      <4>3. "queued" \in Open
        BY DEF Open
      <4>4. /\ row.kind = "timer" /\ row.run = r /\ row.id = engine'[r].active.id
            /\ row.wait = task'[row.id].left
        BY <1>1, <2>2, <3>3, <3>5
      <4>5. req.kind = "request" /\ req.run = r /\ req.id = engine'[r].active.id
        BY <1>1, <3>3
      <4> QED
        BY <2>6, <3>2, <3>5, <4>1, <4>2, <4>3, <4>4, <4>5 DEF TaskBacked
    <3> QED
      BY <2>5, <3>6 DEF Backing
  <2> QED
    BY <2>2, <2>8, <2>9
<1> QED
  BY <1>2, <1>6, <1>7 DEF DrivenOk, e

LEMMA TransactOk ==
  ASSUME RunsInv, NEW r, NEW x, NEW acknowledged, Transacts(r, x, acknowledged)
  PROVE  RunsInv'
<1>1. TypesGood' /\ RowsGood' /\ TasksGood'
  BY TransactTypes, TransactRows, TransactTasks
<1>2. ASSUME NEW q \in Run PROVE RunGood(q)' /\ Backing(q)'
  <2>1. CASE q = r
    BY <2>1, TransactRun
  <2>2. CASE q # r
    BY <2>2, TransactOthers
  <2> QED
    BY <2>1, <2>2
<1> QED
  BY <1>1, <1>2 DEF RunsInv

----
(* What a step means to the ledger. *)

LedgerStep == [Ledger!LedgerNext]_(Ledger!ledgerVars)

Standing(r) == IF engine[r] = None THEN "new" ELSE IF Live(r) THEN "open" ELSE engine[r].status

LEMMA LedgerStutters ==
  ASSUME UNCHANGED done,
         \A r \in Run : Standing(r)' = Standing(r) /\ Active(r)' = Active(r)
  PROVE  LedgerStep
  BY DEF LedgerStep, Ledger!ledgerVars, Standing

\* A transition takes up what its run waited for, and waits for something new or ends.
LEMMA LedgerMoves ==
  ASSUME RunsInv, NEW r \in Run, NEW x, DrivenOk(x, lastId + 1), x.n <= MaxId + 1,
         engine' = [engine EXCEPT ![r] = x.e],
         \/ engine[r] = None /\ done' = done
         \/ Live(r) /\ done' = done \cup {Active(r)}
  PROVE  LedgerStep
<1> DEFINE standing == [q \in Run |-> Standing(q)]
           waits    == [q \in Run |-> Active(q)]
<1>1. /\ TransitionOk(x, lastId + 1) /\ EngineOk(x.e)
      /\ SettledOk(x.e) \/ (WaitingOk(x.e) /\ \E f \in x.effects : f.id = x.e.active.id)
  BY DEF DrivenOk, TransitionOk, EngineOk, Backed
<1>2. Task = 1..MaxId /\ MaxId \in Nat /\ lastId \in Nat /\ done \subseteq 1..lastId
  BY RunAssumption DEF RunsInv, TypesGood
<1>3. x.e # None
  <2>1. WaitingOk(x.e) => x.e.active.id \in Task
    <3>1. WaitingOk(x.e) => x.e.active.id \in Nat
      BY DEF WaitingOk
    <3>2. SettledOk(x.e) => ~WaitingOk(x.e)
      BY DEF SettledOk, WaitingOk, Settled
    <3> QED
      BY <1>1, <1>2, <3>1, <3>2 DEF TransitionOk
  <2> DEFINE e == x.e
  <2>2. EngineOk(e) /\ (SettledOk(e) \/ (WaitingOk(e) /\ e.active.id \in Task))
    BY <1>1, <2>1
  <2> HIDE DEF e
  <2>3. e # None
    BY <2>2, CheckpointFacts
  <2> QED
    BY <2>3 DEF e
<1>4. /\ engine'[r] = x.e
      /\ \A q \in Run : q # r => engine'[q] = engine[q]
  BY DEF RunsInv, TypesGood
<1>5. \A q \in Run : q # r => Standing(q)' = Standing(q) /\ Active(q)' = Active(q)
  BY <1>4 DEF Standing, Active, Live
<1>6. \E i \in Task \cup {None}, status \in Ledger!Ended :
         /\ \/ i \in Task /\ Standing(r)' = "open" /\ Ledger!Unused(i)
            \/ i = None /\ Standing(r)' = status
         /\ Active(r)' = i
  <2>1. CASE SettledOk(x.e)
    <3>1. x.e.status \in Ledger!Ended
      BY <2>1 DEF SettledOk, Settled, Ledger!Ended
    <3>2. Standing(r)' = x.e.status /\ Active(r)' = None
      BY <1>3, <1>4, <2>1 DEF SettledOk, Standing, Active, Live
    <3> QED
      BY <3>1, <3>2
  <2>2. CASE WaitingOk(x.e) /\ \E f \in x.effects : f.id = x.e.active.id
    <3> DEFINE i == x.e.active.id
    <3>1. i \in Nat /\ i > lastId /\ i \in Task
      BY <1>1, <1>2, <2>2 DEF TransitionOk, WaitingOk
    <3>2. Standing(r)' = "open" /\ Active(r)' = i
      BY <1>3, <1>4, <2>2 DEF WaitingOk, Settled, Standing, Active, Live
    <3>3. i \notin done
      BY <1>2, <3>1
    <3>4. ASSUME NEW q \in Run PROVE Active(q) # i
      <4>1. CASE Live(q)
        BY <1>2, <3>1, <4>1, LiveFacts
      <4>2. CASE ~Live(q)
        BY <3>1, <4>2, AssistanceAssumption DEF Active
      <4> QED
        BY <4>1, <4>2
    <3>5. Ledger!Unused(i)
      BY <3>3, <3>4 DEF Ledger!Unused
    <3>6. "failed" \in Ledger!Ended
      BY DEF Ledger!Ended
    <3> QED
      BY <3>1, <3>2, <3>5, <3>6
  <2> QED
    BY <1>1, <2>1, <2>2
<1>7. PICK i \in Task \cup {None}, status \in Ledger!Ended :
         /\ \/ i \in Task /\ Standing(r)' = "open" /\ Ledger!Unused(i)
            \/ i = None /\ Standing(r)' = status
         /\ Active(r)' = i
  BY <1>6
<1>8. waits' = [waits EXCEPT ![r] = i]
  BY <1>5, <1>7
<1>9. \A new : Standing(r)' = new => standing' = [standing EXCEPT ![r] = new]
  BY <1>5
<1>10. Ledger!GoesOn(r)
  BY <1>7, <1>8, <1>9 DEF Ledger!GoesOn, Standing
<1>11. CASE engine[r] = None /\ done' = done
  BY <1>10, <1>11 DEF LedgerStep, Ledger!LedgerNext, Ledger!Begin
<1>12. CASE Live(r) /\ done' = done \cup {Active(r)}
  BY <1>10, <1>12, LiveFacts DEF LedgerStep, Ledger!LedgerNext, Ledger!Consume
<1> QED
  BY <1>11, <1>12

----
(* The drain loop. *)

LEMMA FirstRowFacts ==
  ASSUME drain \in DrainRecord, drain.rows # {}
  PROVE  FirstRow \in drain.rows
<1> DEFINE ids == {row.id : row \in drain.rows}
<1>1. \A row \in drain.rows : row.id \in Nat
  <2>1. Task = 1..MaxId /\ MaxId \in Nat
    BY RunAssumption
  <2>2. \A row \in drain.rows : row \in OutboxRow
    BY DEF DrainRecord
  <2> QED
    BY <2>1, <2>2 DEF OutboxRow
<1>2. ids \subseteq Nat /\ ids # {}
  BY <1>1
<1> HIDE DEF ids
<1>3. PICK n \in ids : \A m \in ids : n <= m
  BY <1>2, LeastNat
<1>4. \E row \in drain.rows : \A other \in drain.rows : row.id <= other.id
  BY <1>3 DEF ids
<1> QED
  BY <1>4 DEF FirstRow

LEMMA PassesFacts ==
  ASSUME drain \in DrainRecord, drain.rows # {}, NEW awaited \in {None, FirstRow},
         Passes(awaited)
  PROVE  /\ drain' \in DrainRecord /\ Snapshot' \subseteq Snapshot
         /\ drain'.at = awaited /\ drain'.busy = drain.busy
<1> DEFINE rest == drain.rows \ {FirstRow}
<1>1. FirstRow \in drain.rows /\ drain.rows \subseteq OutboxRow
  BY FirstRowFacts DEF DrainRecord
<1>2. drain' = [drain EXCEPT !.rows = rest, !.at = awaited]
  BY DEF Passes
<1>3. rest \subseteq drain.rows /\ rest \in SUBSET OutboxRow /\ awaited \in OutboxRow \cup {None}
  BY <1>1
<1> HIDE DEF rest
<1>4. drain' \in DrainRecord /\ drain'.rows = rest /\ drain'.at = awaited /\ drain'.busy = drain.busy
  BY <1>2, <1>3 DEF DrainRecord
<1>5. Snapshot' \subseteq drain.rows
  BY <1>1, <1>3, <1>4 DEF Snapshot
<1> QED
  BY <1>4, <1>5 DEF Snapshot

LEMMA AnsweredFacts ==
  ASSUME drain \in DrainRecord, drain' = [drain EXCEPT !.at = None]
  PROVE  drain' \in DrainRecord /\ Snapshot' \subseteq Snapshot
<1>1. drain' \in DrainRecord /\ drain'.rows = drain.rows /\ drain'.at = None
  BY DEF DrainRecord
<1> QED
  BY <1>1 DEF Snapshot

\* The tables stay as they are.
LEMMA Unmoved ==
  ASSUME RunsInv, UNCHANGED <<engine, lastId, outbox, done, task>>,
         inbox' \subseteq Task, drain' \in DrainRecord, Snapshot' \subseteq Snapshot \cup outbox
  PROVE  RunsInv' /\ LedgerStep
<1>0. engine' = engine /\ lastId' = lastId /\ outbox' = outbox /\ done' = done /\ task' = task
  OBVIOUS
<1>1. TypesGood'
  BY <1>0 DEF RunsInv, TypesGood
<1>2. RowsGood'
  <2>1. \A row \in outbox' \cup Snapshot' : row.id <= lastId'
    BY <1>0 DEF RunsInv, RowsGood
  <2>2. \A a \in Snapshot' : \A b \in outbox' : a.id = b.id /\ a.kind = b.kind => a = b
    BY <1>0 DEF RunsInv, RowsGood
  <2> QED
    BY <1>0, <2>1, <2>2 DEF RunsInv, RowsGood
<1>3. TasksGood'
  BY <1>0 DEF RunsInv, TasksGood, Active, Live
<1>4. ASSUME NEW r \in Run PROVE RunGood(r)' /\ Backing(r)'
  <2>1. RunGood(r) /\ Backing(r)
    BY DEF RunsInv
  <2>2. RunGood(r)'
    BY <1>0, <2>1 DEF RunGood
  <2>3. Backing(r)'
    BY <1>0, <2>1 DEF Backing, Resting, CallBacked, TaskBacked, Live, Only
  <2> QED
    BY <2>2, <2>3
<1>5. LedgerStep
  <2>1. \A r \in Run : Standing(r)' = Standing(r) /\ Active(r)' = Active(r)
    BY <1>0 DEF Standing, Active, Live
  <2> QED
    BY <1>0, <2>1, LedgerStutters
<1> QED
  BY <1>1, <1>2, <1>3, <1>4, <1>5 DEF RunsInv

----
(* What a transaction makes of the tasks. *)

LEMMA WithTasksFacts ==
  ASSUME RunsInv, NEW x, TransitionOk(x, lastId + 1), x.n <= MaxId + 1
  PROVE  LET table == WithTasks(task, x.effects) IN
         /\ DOMAIN table = Task /\ table = [t \in Task |-> table[t]]
         /\ \A f \in x.effects : f.kind = "task" =>
               /\ f.id \in Task /\ task[f.id].status = "none"
               /\ table[f.id] = NewTask(f.human, f.blocking, f.left)
         /\ \A t \in Task : (\A f \in x.effects : f.kind = "task" => f.id # t) =>
               table[t] = task[t]
         /\ \A t \in Task : EngineWrites(task[t], table[t])
<1> DEFINE table == WithTasks(task, x.effects)
           Creates(t) == \E f \in x.effects : f.kind = "task" /\ f.id = t
<1>1. /\ x.n \in Nat /\ x.effects \subseteq Invocation \cup Assistance
      /\ \A f \in x.effects : lastId + 1 <= f.id /\ f.id < x.n
      /\ \A f, g \in x.effects : f.id = g.id => f = g
  BY DEF TransitionOk
<1>2. Task = 1..MaxId /\ MaxId \in Nat /\ lastId \in Nat
  BY RunAssumption DEF RunsInv, TypesGood
<1>3. \A f \in x.effects : f.id \in Task /\ f.id > lastId
  <2>1. \A f \in x.effects : f.id \in Nat
    BY <1>1 DEF Invocation, Assistance
  <2> QED
    BY <1>1, <1>2, <2>1
<1>4. table = [t \in Task |->
                 IF Creates(t)
                 THEN LET f == CHOOSE g \in x.effects : g.kind = "task" /\ g.id = t
                      IN  NewTask(f.human, f.blocking, f.left)
                 ELSE task[t]]
  BY DEF WithTasks
<1> HIDE DEF table
<1>5. DOMAIN table = Task /\ table = [t \in Task |-> table[t]]
  BY <1>4
<1>6. ASSUME NEW f \in x.effects, f.kind = "task"
      PROVE  /\ f.id \in Task /\ task[f.id].status = "none"
             /\ table[f.id] = NewTask(f.human, f.blocking, f.left)
             /\ f.human \in BOOLEAN /\ f.blocking \in BOOLEAN /\ f.left \in Nat
  <2>1. f.id \in Task /\ f.id > lastId
    BY <1>3
  <2>2. task[f.id].status = "none"
    BY <2>1 DEF RunsInv, TasksGood
  <2>3. Creates(f.id)
    BY <1>6
  <2>4. (CHOOSE g \in x.effects : g.kind = "task" /\ g.id = f.id) = f
    BY <1>1, <1>6
  <2>5. table[f.id] = NewTask(f.human, f.blocking, f.left)
    BY <1>4, <2>1, <2>3, <2>4
  <2>6. f \in Assistance
    BY <1>1, <1>6 DEF Invocation
  <2> QED
    BY <2>1, <2>2, <2>5, <2>6 DEF Assistance
<1>7. ASSUME NEW t \in Task, ~Creates(t) PROVE table[t] = task[t]
  BY <1>4, <1>7
<1>8. ASSUME NEW t \in Task PROVE EngineWrites(task[t], table[t])
  <2>1. CASE Creates(t)
    <3>1. PICK f \in x.effects : f.kind = "task" /\ f.id = t
      BY <2>1
    <3>2. /\ task[t].status = "none" /\ table[t] = NewTask(f.human, f.blocking, f.left)
          /\ f.human \in BOOLEAN /\ f.blocking \in BOOLEAN /\ f.left \in Nat
      BY <1>6, <3>1
    <3>3. table[t].human = f.human /\ table[t].blocking = f.blocking /\ table[t].left = f.left
      BY <3>2 DEF NewTask, NoTask
    <3> QED
      BY <3>2, <3>3 DEF EngineWrites
  <2>2. CASE ~Creates(t)
    BY <1>7, <2>2 DEF EngineWrites
  <2> QED
    BY <2>1, <2>2
<1> QED
  BY <1>5, <1>6, <1>7, <1>8 DEF table

LEMMA CommitShape ==
  ASSUME RunsInv, NEW r, NEW x, NEW acknowledged, CommitTransition(r, x, acknowledged),
         DrivenOk(x, lastId + 1)
  PROVE  TransitionOk(x, lastId + 1) /\ x.n <= MaxId + 1
  BY DEF CommitTransition, DrivenOk

\* The rows of the call a run waits for.
LEMMA CallRows ==
  ASSUME RunsInv, NEW r \in Run, Live(r), engine[r].status = "waiting_runtime"
  PROVE  LET acknowledged == Rows({"invoke"}, engine[r].active.id) IN
         /\ \A row \in acknowledged : row.run = r
         /\ \A row \in outbox : row.run = r /\ row.kind # "request" => row \in acknowledged
         /\ \A t : ~WaitsForTask(r, t)
<1>1. CallBacked(r)
  BY LiveFacts DEF TaskBacked
<1>2. PICK row \in outbox : /\ row.kind = "invoke" /\ row.run = r
                            /\ row.id = engine[r].active.id /\ Only(r, row)
  BY <1>1 DEF CallBacked
<1>3. \A a, b \in outbox : a.id = b.id => a.run = b.run
  BY DEF RunsInv, RowsGood
<1> QED
  BY <1>2, <1>3 DEF Rows, Only, WaitsForTask

LEMMA TaskRowsFacts ==
  ASSUME RunsInv, NEW r \in Run, NEW t, WaitsForTask(r, t)
  PROVE  /\ \A row \in TaskRows(t) : row.run = r
         /\ \A row \in outbox : row.run = r /\ row.kind # "request" => row \in TaskRows(t)
         /\ t \in Task /\ t \in 1..lastId /\ task[t].status \in Open /\ task[t].blocking
<1>1. Live(r) /\ engine[r].active.id = t /\ engine[r].status = "waiting_assistance"
  BY DEF WaitsForTask
<1>2. TaskBacked(r) /\ t \in Task /\ t \in 1..lastId
  BY <1>1, LiveFacts DEF CallBacked
<1>3. PICK row \in outbox : row.kind = "timer" /\ row.run = r /\ row.id = t /\ Only(r, row)
  BY <1>1, <1>2 DEF TaskBacked
<1>4. \A a, b \in outbox : a.id = b.id => a.run = b.run
  BY DEF RunsInv, RowsGood
<1> QED
  BY <1>1, <1>2, <1>3, <1>4 DEF TaskBacked, TaskRows, Rows, Only

\* A transaction that ends no task.
LEMMA PlainTransaction ==
  ASSUME RunsInv, NEW r \in Run, NEW x, DrivenOk(x, lastId + 1), NEW acknowledged,
         CommitTransition(r, x, acknowledged), task' = WithTasks(task, x.effects),
         \A t \in Task : ~WaitsForTask(r, t),
         \A row \in acknowledged : row.run = r,
         \A row \in outbox : row.run = r /\ row.kind # "request" => row \in acknowledged,
         \/ engine[r] = None /\ done' = done
         \/ Live(r) /\ done' = done \cup {Active(r)},
         inbox' \subseteq Task, drain' \in DrainRecord, Snapshot' \subseteq Snapshot
  PROVE  /\ RunsInv' /\ LedgerStep
         /\ UNCHANGED tasksAside => EngineTransaction
<1> DEFINE table == WithTasks(task, x.effects)
<1>1. TransitionOk(x, lastId + 1) /\ x.n <= MaxId + 1
  BY CommitShape
<1>2. /\ DOMAIN table = Task /\ table = [t \in Task |-> table[t]]
      /\ \A f \in x.effects : f.kind = "task" =>
            table[f.id] = NewTask(f.human, f.blocking, f.left)
      /\ \A t \in Task : (\A f \in x.effects : f.kind = "task" => f.id # t) =>
            table[t] = task[t]
      /\ \A t \in Task : EngineWrites(task[t], table[t])
  BY <1>1, WithTasksFacts
<1>3. task' = table
  OBVIOUS
<1> HIDE DEF table
<1>a. done' \subseteq 1..lastId
  BY LiveFacts DEF RunsInv, TypesGood
<1>b. LedgerStep
  BY <1>1, LedgerMoves DEF CommitTransition
<1>4. Transacts(r, x, acknowledged)
  BY <1>2, <1>3, <1>a DEF Transacts
<1>5. RunsInv'
  BY <1>4, TransactOk
<1>6. ASSUME UNCHANGED tasksAside PROVE EngineTransaction
  BY <1>2, <1>3, <1>6 DEF EngineTransaction, tasksAside
<1> QED
  BY <1>5, <1>6, <1>b

\* A transaction that ends the task its run waits for.
LEMMA WakeTransaction ==
  ASSUME RunsInv, NEW r \in Run, NEW x, DrivenOk(x, lastId + 1), NEW t, NEW ended,
         WaitsForTask(r, t), WakeRun(r, x, t, ended), ended.status \in Final,
         inbox' \subseteq Task, drain' \in DrainRecord, Snapshot' \subseteq Snapshot
  PROVE  /\ RunsInv' /\ LedgerStep
         /\ task' = [u \in Task |-> task'[u]] /\ task'[t] = ended
         /\ \A u \in Task \ {t} : EngineWrites(task[u], task'[u])
<1> DEFINE table == WithTasks(task, x.effects)
<1>1. /\ CommitTransition(r, x, TaskRows(t)) /\ done' = done \cup {t}
      /\ task' = [table EXCEPT ![t] = ended]
  BY DEF WakeRun
<1>2. TransitionOk(x, lastId + 1) /\ x.n <= MaxId + 1
  BY <1>1, CommitShape
<1>3. /\ DOMAIN table = Task /\ table = [u \in Task |-> table[u]]
      /\ \A f \in x.effects : f.kind = "task" =>
            /\ f.id \in Task /\ task[f.id].status = "none"
            /\ table[f.id] = NewTask(f.human, f.blocking, f.left)
      /\ \A u \in Task : (\A f \in x.effects : f.kind = "task" => f.id # u) =>
            table[u] = task[u]
      /\ \A u \in Task : EngineWrites(task[u], table[u])
  BY <1>2, WithTasksFacts
<1>4. /\ \A row \in TaskRows(t) : row.run = r
      /\ \A row \in outbox : row.run = r /\ row.kind # "request" => row \in TaskRows(t)
      /\ t \in Task /\ t \in 1..lastId /\ task[t].status \in Open
  BY TaskRowsFacts
<1> HIDE DEF table
<1>5. /\ task' = [u \in Task |-> task'[u]] /\ task'[t] = ended
      /\ \A u \in Task : u # t => task'[u] = table[u]
  BY <1>1, <1>3, <1>4
<1>6. \A f \in x.effects : f.kind = "task" => f.id # t
  BY <1>3, <1>4 DEF Open, Leased
<1>7. done' \subseteq 1..lastId
  BY <1>1, <1>4 DEF RunsInv, TypesGood
<1>8. \A f \in x.effects : f.kind = "task" =>
         task'[f.id] = NewTask(f.human, f.blocking, f.left)
  BY <1>3, <1>5, <1>6
<1>9. ASSUME NEW u \in Task, \A f \in x.effects : f.kind = "task" => f.id # u
      PROVE  IF WaitsForTask(r, u) THEN task'[u].status \in Final ELSE task'[u] = task[u]
  <2>1. CASE u = t
    BY <1>5, <2>1
  <2>2. CASE u # t
    <3>1. ~WaitsForTask(r, u)
      BY <2>2 DEF WaitsForTask
    <3> QED
      BY <1>3, <1>5, <1>9, <2>2, <3>1
  <2> QED
    BY <2>1, <2>2
<1>10. Transacts(r, x, TaskRows(t))
  BY <1>1, <1>4, <1>7, <1>8, <1>9 DEF Transacts
<1>11. RunsInv'
  BY <1>10, TransactOk
<1>12. LedgerStep
  <2>1. Live(r) /\ done' = done \cup {Active(r)}
    BY <1>1 DEF WaitsForTask, Active
  <2> QED
    BY <1>1, <1>2, <2>1, LedgerMoves DEF CommitTransition
<1> QED
  BY <1>3, <1>5, <1>11, <1>12

\* A task that ends with its run, by a cancellation or its deadline.
LEMMA WakeEngine ==
  ASSUME RunsInv, NEW r \in Run, NEW x, DrivenOk(x, lastId + 1), NEW t,
         NEW status \in {"expired", "cancelled"},
         WaitsForTask(r, t), WakeRun(r, x, t, Terminated(task[t], status)),
         inbox' \subseteq Task, drain' \in DrainRecord, Snapshot' \subseteq Snapshot,
         IInv, UNCHANGED tasksAside
  PROVE  RunsInv' /\ LedgerStep /\ EngineTransaction
<1> DEFINE ended == Terminated(task[t], status)
<1>1. t \in Task /\ task[t].status \in Open
  BY TaskRowsFacts
<1>2. ended.status \in Final
  <2>1. task[t] \in TaskRecord
    BY <1>1 DEF IInv, AssistanceTypeOK
  <2>2. ended.status = status
    BY <2>1 DEF Terminated, TaskRecord
  <2> QED
    BY <2>2 DEF Final
<1>3. EngineWrites(task[t], ended)
  BY <1>1 DEF EngineWrites
<1> HIDE DEF ended
<1>4. WakeRun(r, x, t, ended)
  BY DEF ended
<1>5. /\ RunsInv' /\ LedgerStep
      /\ task' = [u \in Task |-> task'[u]] /\ task'[t] = ended
      /\ \A u \in Task \ {t} : EngineWrites(task[u], task'[u])
  BY <1>2, <1>4, WakeTransaction
<1>6. \A u \in Task : EngineWrites(task[u], task'[u])
  BY <1>3, <1>5
<1> QED
  BY <1>5, <1>6 DEF EngineTransaction, tasksAside

----
(* The steps: the runs' invariant, and what each does to the tasks. *)

TasksStep == [AssistanceNext]_taskVars

LEMMA DrainKept ==
  ASSUME RunsInv, UNCHANGED drain
  PROVE  drain \in DrainRecord /\ drain' \in DrainRecord /\ Snapshot' \subseteq Snapshot
  BY DEF RunsInv, TypesGood, Snapshot

LEMMA TransactionStep ==
  ASSUME EngineTransaction
  PROVE  TasksStep
  BY DEF TasksStep, AssistanceNext

LEMMA AsideStep ==
  ASSUME UNCHANGED <<task, tasksAside>>
  PROVE  TasksStep
  BY DEF TasksStep, taskVars, tasksAside

LEMMA StartStep ==
  ASSUME RInv, NEW r \in Run, StartRun(r)
  PROVE  RunsInv' /\ TasksStep /\ LedgerStep
<1>0. RunsInv
  BY DEF RInv
<1>1. PICK x \in Start(lastId + 1) :
         CommitTransition(r, x, {}) /\ task' = WithTasks(task, x.effects)
  BY DEF StartRun
<1>2. DrivenOk(x, lastId + 1)
  <2> DEFINE first == lastId + 1
  <2>1. first \in Nat
    BY <1>0, RunAssumption DEF RunsInv, TypesGood
  <2> HIDE DEF first
  <2>2. ASSUME x \in Start(first) PROVE DrivenOk(x, first)
    BY <2>1, <2>2, StartOk
  <2> QED
    BY <1>1, <2>2 DEF first
<1>3. engine[r] = None /\ ~Live(r) /\ UNCHANGED <<inbox, done, drain, tasksAside>>
  BY DEF StartRun, Live
<1>4. \A row \in outbox : ~(row.run = r /\ row.kind # "request")
  <2>1. Resting(r)
    BY <1>0, <1>3 DEF RunsInv, Backing, CallBacked, TaskBacked
  <2> QED
    BY <2>1 DEF Resting
<1>5. engine[r] = None /\ done' = done /\ inbox' \subseteq Task
  BY <1>0, <1>3 DEF RunsInv, TypesGood
<1>6. drain' \in DrainRecord /\ Snapshot' \subseteq Snapshot
  BY <1>0, <1>3, DrainKept
<1>7. \A t \in Task : ~WaitsForTask(r, t)
  BY <1>3 DEF WaitsForTask
<1> DEFINE none == {}
<1>8. /\ \A row \in none : row.run = r
      /\ \A row \in outbox : row.run = r /\ row.kind # "request" => row \in none
      /\ CommitTransition(r, x, none)
  BY <1>1, <1>4
<1> HIDE DEF none
<1>9. RunsInv' /\ LedgerStep /\ (UNCHANGED tasksAside => EngineTransaction)
  BY <1>0, <1>1, <1>2, <1>5, <1>6, <1>7, <1>8, PlainTransaction
<1> QED
  BY <1>3, <1>9, TransactionStep

\* A run that is cancelled has ended.
LEMMA CancelledTransition ==
  ASSUME RunsInv, NEW r \in Run, Live(r)
  PROVE  LET x == Transition(Cancelled(engine[r]), lastId + 1) IN
         /\ DrivenOk(x, lastId + 1)
         /\ x.e = Cancelled(engine[r]) /\ x.n = lastId + 1 /\ x.effects = {}
<1> DEFINE e == Cancelled(engine[r])
           x == Transition(e, lastId + 1)
<1>1. EngineOk(e) /\ SettledOk(e)
  BY LiveFacts, CancelledOk
<1>2. lastId + 1 \in Nat
  BY RunAssumption DEF RunsInv, TypesGood
<1> HIDE DEF e
<1>3. /\ x.e = e /\ x.n = lastId + 1 /\ x.effects = {}
      /\ x = [e |-> x.e, n |-> x.n, effects |-> x.effects]
  BY DEF Transition
<1> HIDE DEF x
<1>4. lastId + 1 <= x.n
  BY <1>2, <1>3
<1>5. TransitionOk(x, lastId + 1) /\ AllPassive(x)
  BY <1>1, <1>2, <1>3, <1>4 DEF EngineOk, TransitionOk, AllPassive
<1>6. DrivenOk(x, lastId + 1)
  BY <1>1, <1>3, <1>5 DEF DrivenOk
<1> QED
  BY <1>3, <1>6 DEF x, e

LEMMA CancelStep ==
  ASSUME RInv, NEW r \in Run, Cancel(r)
  PROVE  RunsInv' /\ TasksStep /\ LedgerStep
<1> DEFINE x == Transition(Cancelled(engine[r]), lastId + 1)
           t == Active(r)
<1>0. RunsInv /\ IInv
  BY DEF RInv
<1>1. Live(r) /\ UNCHANGED <<inbox, drain, tasksAside>> /\ (CancelCall(r) \/ CancelTask(r))
  BY DEF Cancel
<1>2. /\ DrivenOk(x, lastId + 1)
      /\ x.e = Cancelled(engine[r]) /\ x.n = lastId + 1 /\ x.effects = {}
  BY <1>0, <1>1, CancelledTransition
<1>3. /\ t = engine[r].active.id /\ t \in 1..lastId
      /\ lastId \in 0..MaxId /\ MaxId \in Nat
  BY <1>0, <1>1, LiveFacts, RunAssumption DEF RunsInv, TypesGood
<1>4. inbox' \subseteq Task /\ drain' \in DrainRecord /\ Snapshot' \subseteq Snapshot
  BY <1>0, <1>1, DrainKept DEF RunsInv, TypesGood
<1> HIDE DEF x
<1>5. CASE CancelCall(r)
  <2> DEFINE acknowledged == Rows({"invoke"}, t)
  <2>1. /\ engine[r].status = "waiting_runtime"
        /\ engine' = [engine EXCEPT ![r] = Cancelled(engine[r])]
        /\ done' = done \cup {t}
        /\ outbox' = outbox \ acknowledged
        /\ lastId' = lastId /\ task' = task
    BY <1>5 DEF CancelCall
  <2>2. /\ \A row \in acknowledged : row.run = r
        /\ \A row \in outbox : row.run = r /\ row.kind # "request" => row \in acknowledged
        /\ \A u \in Task : ~WaitsForTask(r, u)
    BY <1>0, <1>1, <1>3, <2>1, CallRows
  <2> HIDE DEF acknowledged
  <2>3. RowsOf(r, x.effects) = {}
    BY <1>2 DEF RowsOf
  <2>4. CommitTransition(r, x, acknowledged)
    <3>1. x.n <= MaxId + 1 /\ lastId' = x.n - 1
      BY <1>2, <1>3, <2>1
    <3> QED
      BY <1>2, <2>1, <2>3, <3>1 DEF CommitTransition
  <2>5. task' = WithTasks(task, x.effects)
    <3>1. task = [u \in Task |-> task[u]]
      BY <1>0 DEF IInv, AssistanceTypeOK
    <3>2. WithTasks(task, {}) = [u \in Task |-> task[u]]
      BY DEF WithTasks
    <3> QED
      BY <1>2, <2>1, <3>1, <3>2
  <2>6. Live(r) /\ done' = done \cup {Active(r)}
    BY <1>1, <2>1
  <2>7. RunsInv' /\ LedgerStep
    BY <1>0, <1>2, <1>4, <2>2, <2>4, <2>5, <2>6, PlainTransaction
  <2> QED
    BY <1>1, <2>1, <2>7, AsideStep
<1>6. CASE CancelTask(r)
  <2>1. /\ engine[r].status = "waiting_assistance"
        /\ WakeRun(r, x, t, Terminated(task[t], "cancelled"))
    BY <1>6 DEF CancelTask, x
  <2>2. WaitsForTask(r, t)
    BY <1>1, <1>3, <2>1 DEF WaitsForTask
  <2> DEFINE status == "cancelled"
  <2>3. status \in {"expired", "cancelled"} /\ WakeRun(r, x, t, Terminated(task[t], status))
    BY <2>1
  <2> HIDE DEF status, t
  <2>4. RunsInv' /\ LedgerStep /\ EngineTransaction
    BY <1>0, <1>1, <1>2, <1>4, <2>2, <2>3, WakeEngine
  <2> QED
    BY <2>4, TransactionStep
<1> QED
  BY <1>1, <1>5, <1>6

\* What the runs, their rows and the tasks owe to the ids given out.
LEMMA NextId == ASSUME RunsInv PROVE lastId \in Nat /\ lastId + 1 \in Nat
  BY RunAssumption DEF RunsInv, TypesGood

LEMMA SnapshotRows ==
  ASSUME RunsInv, NEW row \in Snapshot
  PROVE  row \in OutboxRow /\ row.run \in Run /\ row.id \in Task
  BY DEF RunsInv, TypesGood, DrainRecord, Snapshot, OutboxRow

\* A result for the call its run waits for.
LEMMA OutcomeStep ==
  ASSUME RunsInv, NEW r \in Run, Live(r), engine[r].status = "waiting_runtime",
         NEW outcome \in CallOutcome, NEW x \in AcceptOutcome(engine[r], lastId + 1, outcome),
         CommitTransition(r, x, Rows({"invoke"}, engine[r].active.id)),
         task' = WithTasks(task, x.effects), done' = done \cup {engine[r].active.id},
         inbox' \subseteq Task, drain' \in DrainRecord, Snapshot' \subseteq Snapshot
  PROVE  RunsInv' /\ LedgerStep /\ (UNCHANGED tasksAside => EngineTransaction)
<1> DEFINE e == engine[r]
           acknowledged == Rows({"invoke"}, e.active.id)
<1>1. EngineOk(e) /\ WaitingOk(e) /\ e.active.id \in 1..lastId
  BY LiveFacts
<1>2. DrivenOk(x, lastId + 1)
  <2> DEFINE n == lastId + 1
  <2>1. n \in Nat /\ x \in AcceptOutcome(e, n, outcome) /\ e.status = "waiting_runtime"
    BY NextId
  <2> HIDE DEF n, e
  <2>2. DrivenOk(x, n)
    BY <1>1, <2>1, AcceptOutcomeOk
  <2> QED
    BY <2>2 DEF n
<1>3. /\ \A row \in acknowledged : row.run = r
      /\ \A row \in outbox : row.run = r /\ row.kind # "request" => row \in acknowledged
      /\ \A t \in Task : ~WaitsForTask(r, t)
  BY CallRows
<1>4. CommitTransition(r, x, acknowledged)
  OBVIOUS
<1>5. done' = done \cup {Active(r)}
  BY LiveFacts
<1> HIDE DEF acknowledged, e
<1> QED
  BY <1>2, <1>3, <1>4, <1>5, PlainTransaction

LEMMA AcceptStep ==
  ASSUME RunsInv, NEW row \in Snapshot, NEW outcome \in CallOutcome, Accept(row, outcome),
         drain' \in DrainRecord, Snapshot' \subseteq Snapshot, UNCHANGED tasksAside
  PROVE  RunsInv' /\ TasksStep /\ LedgerStep
<1> DEFINE r == row.run
<1>1. r \in Run /\ row.id \in Task
  BY SnapshotRows
<1>2. CASE WaitsForCall(r, row) /\ row.id \notin inbox
  <2>1. PICK x \in AcceptOutcome(engine[r], lastId + 1, outcome) :
           /\ CommitTransition(r, x, Rows({"invoke"}, row.id))
           /\ done' = done \cup {row.id}
           /\ inbox' = inbox \cup {row.id}
           /\ task' = WithTasks(task, x.effects)
    BY <1>2 DEF Accept
  <2>2. Live(r) /\ engine[r].status = "waiting_runtime" /\ engine[r].active.id = row.id
    BY <1>2 DEF WaitsForCall
  <2>3. inbox' \subseteq Task
    BY <1>1, <2>1 DEF RunsInv, TypesGood
  <2>4. /\ CommitTransition(r, x, Rows({"invoke"}, engine[r].active.id))
        /\ done' = done \cup {engine[r].active.id}
    BY <2>1, <2>2
  <2> HIDE DEF r
  <2>5. RunsInv' /\ LedgerStep /\ (UNCHANGED tasksAside => EngineTransaction)
    BY <1>1, <2>1, <2>2, <2>3, <2>4, OutcomeStep
  <2> QED
    BY <2>5, TransactionStep
<1>3. CASE ~(WaitsForCall(r, row) /\ row.id \notin inbox)
  <2>1. UNCHANGED <<engine, lastId, outbox, inbox, done, task>>
    BY <1>3 DEF Accept
  <2>2. RunsInv' /\ LedgerStep
    BY <2>1, Unmoved DEF RunsInv, TypesGood
  <2> QED
    BY <2>1, <2>2, AsideStep
<1> QED
  BY <1>2, <1>3

LEMMA BeginDrainStep ==
  ASSUME RInv, BeginDrain
  PROVE  RunsInv' /\ TasksStep /\ LedgerStep
<1>0. RunsInv
  BY DEF RInv
<1>1. /\ UNCHANGED <<engine, lastId, outbox, inbox, done, taskVars>>
      /\ drain' = [busy |-> TRUE, at |-> None, rows |-> Drainable]
  BY DEF BeginDrain
<1>2. drain' \in DrainRecord /\ Snapshot' \subseteq outbox
  <2>1. Drainable \subseteq outbox /\ outbox \subseteq OutboxRow
    BY <1>0 DEF Drainable, RunsInv, TypesGood
  <2> QED
    BY <1>1, <2>1 DEF DrainRecord, Snapshot
<1>3. UNCHANGED <<engine, lastId, outbox, done, task>> /\ inbox' \subseteq Task
  BY <1>0, <1>1 DEF taskVars, RunsInv, TypesGood
<1>4. RunsInv' /\ LedgerStep
  BY <1>0, <1>2, <1>3, Unmoved
<1> QED
  BY <1>1, <1>4 DEF TasksStep

LEMMA EmptyDrain ==
  ASSUME RunsInv, drain' = NoDrain
  PROVE  drain' \in DrainRecord /\ Snapshot' \subseteq Snapshot
  BY DEF NoDrain, DrainRecord, Snapshot

LEMMA EndDrainStep ==
  ASSUME RInv, EndDrain
  PROVE  RunsInv' /\ TasksStep /\ LedgerStep
<1>0. RunsInv
  BY DEF RInv
<1>1. UNCHANGED <<engine, lastId, outbox, inbox, done, taskVars>> /\ drain' = NoDrain
  BY DEF EndDrain
<1>2. UNCHANGED <<engine, lastId, outbox, done, task>> /\ inbox' \subseteq Task
  BY <1>0, <1>1 DEF taskVars, RunsInv, TypesGood
<1>3. RunsInv' /\ LedgerStep
  BY <1>0, <1>1, <1>2, EmptyDrain, Unmoved
<1> QED
  BY <1>1, <1>3 DEF TasksStep

\* A pass that only moves on.
LEMMA PassStep ==
  ASSUME RInv, AtRow, NEW awaited \in {None, FirstRow}, Passes(awaited),
         UNCHANGED <<engine, lastId, outbox, inbox, done, taskVars>>
  PROVE  RunsInv' /\ TasksStep /\ LedgerStep
<1>0. RunsInv /\ drain \in DrainRecord
  BY DEF RInv, RunsInv, TypesGood
<1>1. drain' \in DrainRecord /\ Snapshot' \subseteq Snapshot
  BY <1>0, PassesFacts DEF AtRow
<1>2. UNCHANGED <<engine, lastId, outbox, done, task>> /\ inbox' \subseteq Task
  BY <1>0 DEF taskVars, RunsInv, TypesGood
<1>3. RunsInv' /\ LedgerStep
  BY <1>0, <1>1, <1>2, Unmoved
<1> QED
  BY <1>3 DEF TasksStep

LEMMA SkipRowStep ==
  ASSUME RInv, SkipRow
  PROVE  RunsInv' /\ TasksStep /\ LedgerStep
  BY PassStep DEF SkipRow

LEMMA DispatchStep ==
  ASSUME RInv, Dispatch
  PROVE  RunsInv' /\ TasksStep /\ LedgerStep
  BY PassStep DEF Dispatch

LEMMA ExpireRowStep ==
  ASSUME RInv, ExpireRow
  PROVE  RunsInv' /\ TasksStep /\ LedgerStep
<1>0. RunsInv /\ drain \in DrainRecord
  BY DEF RInv, RunsInv, TypesGood
<1>1. AtRow /\ Accept(FirstRow, TimedOut) /\ Passes(None) /\ UNCHANGED tasksAside
  BY DEF ExpireRow
<1>2. FirstRow \in Snapshot
  BY <1>0, <1>1, FirstRowFacts DEF AtRow, Snapshot
<1>3. drain' \in DrainRecord /\ Snapshot' \subseteq Snapshot
  BY <1>0, <1>1, PassesFacts DEF AtRow
<1>4. TimedOut \in CallOutcome
  BY DEF TimedOut, CallOutcome
<1> QED
  BY <1>0, <1>1, <1>2, <1>3, <1>4, AcceptStep

LEMMA AnswerStep ==
  ASSUME RInv, Answer
  PROVE  RunsInv' /\ TasksStep /\ LedgerStep
<1>0. RunsInv /\ drain \in DrainRecord
  BY DEF RInv, RunsInv, TypesGood
<1>1. /\ drain.at # None /\ drain' = [drain EXCEPT !.at = None] /\ UNCHANGED tasksAside
  BY DEF Answer
<1>2. PICK outcome \in CallOutcome : Accept(drain.at, outcome)
  BY DEF Answer
<1>3. drain.at \in Snapshot
  BY <1>1 DEF Snapshot
<1>4. drain' \in DrainRecord /\ Snapshot' \subseteq Snapshot
  BY <1>0, <1>1, AnsweredFacts
<1> QED
  BY <1>0, <1>1, <1>2, <1>3, <1>4, AcceptStep

LEMMA LoseLeaseStep ==
  ASSUME RInv, NEW r \in Run, LoseLease(r)
  PROVE  RunsInv' /\ TasksStep /\ LedgerStep
<1> DEFINE outcome == [status |-> "uncertain", retryable |-> FALSE]
<1>0. RunsInv
  BY DEF RInv
<1>1. /\ Live(r) /\ engine[r].status = "waiting_runtime"
      /\ UNCHANGED <<inbox, drain, tasksAside>>
  BY DEF LoseLease
<1>2. PICK x \in AcceptOutcome(engine[r], lastId + 1, outcome) :
         /\ CommitTransition(r, x, Rows({"invoke"}, Active(r)))
         /\ done' = done \cup {Active(r)}
         /\ task' = WithTasks(task, x.effects)
  BY DEF LoseLease
<1>3. outcome \in CallOutcome
  BY DEF CallOutcome
<1>4. Active(r) = engine[r].active.id
  BY <1>1 DEF Active
<1>5. inbox' \subseteq Task /\ drain' \in DrainRecord /\ Snapshot' \subseteq Snapshot
  BY <1>0, <1>1, DrainKept DEF RunsInv, TypesGood
<1> HIDE DEF outcome
<1>6. RunsInv' /\ LedgerStep /\ (UNCHANGED tasksAside => EngineTransaction)
  BY <1>0, <1>1, <1>2, <1>3, <1>4, <1>5, OutcomeStep
<1> QED
  BY <1>1, <1>6, TransactionStep

LEMMA AssistanceDriven ==
  ASSUME RunsInv, NEW r \in Run, NEW t, WaitsForTask(r, t), NEW status \in WaitStatus,
         NEW x \in AcceptAssistance(engine[r], lastId + 1, status)
  PROVE  DrivenOk(x, lastId + 1)
<1> DEFINE e == engine[r]
           n == lastId + 1
<1>1. EngineOk(e) /\ WaitingOk(e) /\ e.status = "waiting_assistance"
  BY LiveFacts DEF WaitsForTask
<1>2. n \in Nat /\ x \in AcceptAssistance(e, n, status)
  BY NextId
<1> HIDE DEF e, n
<1>3. DrivenOk(x, n)
  BY <1>1, <1>2, AcceptAssistanceOk
<1> QED
  BY <1>3 DEF n

LEMMA FireTimerStep ==
  ASSUME RInv, FireTimer
  PROVE  RunsInv' /\ TasksStep /\ LedgerStep
<1> DEFINE row == FirstRow
           r   == row.run
           t   == row.id
<1>0. RunsInv /\ IInv /\ drain \in DrainRecord
  BY DEF RInv, RunsInv, TypesGood
<1>1. /\ AtRow /\ Passes(None) /\ UNCHANGED <<inbox, tasksAside>>
      /\ IF WaitsForTask(r, t) /\ task[t].status \in Open
         THEN \E x \in AcceptAssistance(engine[r], lastId + 1, "expired") :
                 WakeRun(r, x, t, Terminated(task[t], "expired"))
         ELSE UNCHANGED <<engine, lastId, outbox, done, task>>
  BY DEF FireTimer
<1>2. r \in Run
  <2>1. FirstRow \in Snapshot
    BY <1>0, <1>1, FirstRowFacts DEF AtRow, Snapshot
  <2> QED
    BY <1>0, <2>1, SnapshotRows
<1>3. /\ drain' \in DrainRecord /\ Snapshot' \subseteq Snapshot /\ inbox' \subseteq Task
  BY <1>0, <1>1, PassesFacts DEF AtRow, RunsInv, TypesGood
<1>4. CASE WaitsForTask(r, t) /\ task[t].status \in Open
  <2> DEFINE status == "expired"
  <2>1. PICK x \in AcceptAssistance(engine[r], lastId + 1, status) :
           WakeRun(r, x, t, Terminated(task[t], status))
    BY <1>1, <1>4
  <2>2. status \in WaitStatus /\ status \in {"expired", "cancelled"}
    BY DEF WaitStatus
  <2> HIDE DEF status, row, r, t
  <2>3. DrivenOk(x, lastId + 1)
    BY <1>0, <1>2, <1>4, <2>1, <2>2, AssistanceDriven
  <2>4. RunsInv' /\ LedgerStep /\ EngineTransaction
    BY <1>0, <1>1, <1>2, <1>3, <1>4, <2>1, <2>2, <2>3, WakeEngine
  <2> QED
    BY <2>4, TransactionStep
<1>5. CASE ~(WaitsForTask(r, t) /\ task[t].status \in Open)
  <2>1. UNCHANGED <<engine, lastId, outbox, done, task>>
    BY <1>1, <1>5
  <2>2. RunsInv' /\ LedgerStep
    BY <1>0, <1>3, <2>1, Unmoved
  <2> QED
    BY <1>1, <2>1, <2>2, AsideStep
<1> QED
  BY <1>4, <1>5

----
(* Requests about tasks. *)

\* What a request keeps of the task it changes.
LEMMA AfterKeeps ==
  ASSUME NEW s \in TaskRecord, NEW q \in RequestRecord,
         q.op \in Ops, q.worker \in Worker, Legal(q, s)
  PROVE  /\ After(q, s).blocking = s.blocking /\ s.status \in Open
         /\ q.op # "submit" => After(q, s).status \in Open /\ After(q, s).left = s.left
         /\ q.op = "submit" => After(q, s).status = "completed"
<1> DEFINE n == Smaller(LeaseDuration, s.left)
           m == s.rev + 1
           k == s.counter + 1
<1> HIDE DEF n, m, k
<1>1. /\ "queued" \in Open /\ "claimed" \in Open /\ "processing" \in Open
      /\ Leased \subseteq Open
  BY DEF Open, Leased
<1>2. CASE q.op = "claim"
  <2>1. After(q, s) = [s EXCEPT !.status = "claimed", !.rev = m, !.counter = k,
                                !.owner = q.worker, !.lease = n]
    BY <1>2 DEF After, Claimed, n, m, k
  <2>2. s.status \in Open
    BY <1>2 DEF Legal, Claimable
  <2> QED
    BY <1>1, <1>2, <2>1, <2>2 DEF TaskRecord
<1>3. CASE q.op = "start"
  <2>1. After(q, s) = [s EXCEPT !.status = "processing", !.rev = m]
    BY <1>3 DEF After, m
  <2>2. s.status \in Open
    BY <1>1, <1>3 DEF Legal, ValidLease
  <2> QED
    BY <1>1, <1>3, <2>1, <2>2 DEF TaskRecord
<1>4. CASE q.op = "heartbeat"
  <2>1. After(q, s) = [s EXCEPT !.rev = m, !.lease = n]
    BY <1>4 DEF After, m, n
  <2>2. s.status \in Open
    BY <1>1, <1>4 DEF Legal, ValidLease
  <2> QED
    BY <1>1, <1>4, <2>1, <2>2 DEF TaskRecord
<1>5. CASE q.op = "release"
  <2>1. After(q, s) = [s EXCEPT !.status = "queued", !.rev = m, !.owner = None, !.lease = 0]
    BY <1>5 DEF After, Released, m
  <2>2. s.status \in Open
    BY <1>1, <1>5 DEF Legal, ValidLease
  <2> QED
    BY <1>1, <1>5, <2>1, <2>2 DEF TaskRecord
<1>6. CASE q.op = "submit"
  <2>1. After(q, s) = [s EXCEPT !.status = "completed", !.rev = m, !.owner = None,
                                !.lease = 0, !.left = 0]
    BY <1>6 DEF After, Terminated, m
  <2>2. s.status \in Open
    BY <1>1, <1>6 DEF Legal, ValidLease
  <2> QED
    BY <1>1, <1>6, <2>1, <2>2 DEF TaskRecord
<1> QED
  BY <1>2, <1>3, <1>4, <1>5, <1>6 DEF Ops

\* A call that commits: the task it changes.
LEMMA ResultFacts ==
  ASSUME IInv, NEW c \in Call, Commits(c)
  PROVE  LET t == CallRequest(c).task IN
         /\ t \in Task /\ task[t].status \in Open
         /\ CallRequest(c).op \in Ops /\ CallRequest(c).worker \in Worker
         /\ Result(c).blocking = task[t].blocking
         /\ CallRequest(c).op # "submit" =>
               Result(c).status \in Open /\ Result(c).left = task[t].left
         /\ CallRequest(c).op = "submit" => Result(c).status = "completed"
<1> DEFINE q == CallRequest(c)
           s == task[q.task]
<1>1. ~Idle(c) /\ call[c].seen = s /\ Legal(q, s)
  BY CommitFacts
<1>2. q \in RequestRecord /\ q.op \in Ops /\ q.worker \in Worker /\ q.task \in Task
  BY <1>1, CallFacts
<1>3. s \in TaskRecord
  BY <1>2 DEF IInv, AssistanceTypeOK
<1>4. Result(c) = After(q, s)
  BY <1>1 DEF Result
<1> HIDE DEF q, s
<1>5. /\ After(q, s).blocking = s.blocking /\ s.status \in Open
      /\ q.op # "submit" => After(q, s).status \in Open /\ After(q, s).left = s.left
      /\ q.op = "submit" => After(q, s).status = "completed"
  BY <1>1, <1>2, <1>3, AfterKeeps
<1> QED
  BY <1>2, <1>4, <1>5 DEF q, s

\* A request that changes an open task t no run comes to notice.
LEMMA TaskOnly ==
  ASSUME RunsInv, NEW t \in Task, task[t].status \in Open,
         UNCHANGED <<engine, lastId, inbox, done, drain>>,
         \A u \in Task \ {t} : task'[u] = task[u],
         task'[t].blocking = task[t].blocking,
         task[t].blocking => /\ task'[t].status \in Open /\ task'[t].left = task[t].left
                             /\ outbox' = outbox,
         outbox' \subseteq outbox,
         \A row \in outbox : row \notin outbox' => row.kind = "request" /\ row.id = t
  PROVE  RunsInv' /\ LedgerStep
<1>0. /\ engine' = engine /\ lastId' = lastId /\ inbox' = inbox /\ done' = done
      /\ drain' = drain /\ Snapshot' = Snapshot
  BY DEF Snapshot
<1>1. task[t].status # "none"
  BY DEF Open, Leased
<1>2. TypesGood'
  BY <1>0 DEF RunsInv, TypesGood
<1>3. RowsGood'
  BY <1>0 DEF RunsInv, RowsGood
<1>4. TasksGood'
  <2> SUFFICES ASSUME NEW u \in Task
               PROVE  /\ u > lastId' => task'[u].status = "none" /\ ~task'[u].blocking
                      /\ task'[u].blocking /\ task'[u].status \in Open =>
                            \E r \in Run : Active(r)' = u
    BY DEF TasksGood
  <2>1. /\ u > lastId => task[u].status = "none" /\ ~task[u].blocking
        /\ task[u].blocking /\ task[u].status \in Open => \E r \in Run : Active(r) = u
    BY DEF RunsInv, TasksGood
  <2>2. \A r : Active(r)' = Active(r)
    BY <1>0 DEF Active, Live
  <2>3. CASE u = t
    BY <1>0, <1>1, <2>1, <2>2, <2>3
  <2>4. CASE u # t
    BY <1>0, <2>1, <2>2, <2>4
  <2> QED
    BY <2>3, <2>4
<1>5. ASSUME NEW r \in Run PROVE RunGood(r)' /\ Backing(r)'
  <2>1. RunGood(r) /\ Backing(r)
    BY DEF RunsInv
  <2>2. RunGood(r)'
    BY <1>0, <2>1 DEF RunGood
  <2>3. Live(r)' <=> Live(r)
    BY <1>0 DEF Live
  <2>4. CASE Resting(r)
    <3>1. Resting(r)'
      BY <2>3, <2>4 DEF Resting
    <3> QED
      BY <2>2, <3>1 DEF Backing
  <2>5. CASE CallBacked(r)
    <3> DEFINE u == engine[r].active.id
    <3>1. u # t /\ u \in Task
      BY <1>1, <2>5, LiveFacts DEF CallBacked
    <3>2. task'[u] = task[u]
      BY <3>1
    <3>3. CallBacked(r)'
      <4>1. PICK row \in outbox :
               /\ row.kind = "invoke" /\ row.run = r
               /\ row.id = engine[r].active.id /\ row.attempt = engine[r].active.attempt
               /\ Fits(row, engine[r].stack) /\ Only(r, row)
        BY <2>5 DEF CallBacked
      <4>2. row \in outbox' /\ Only(r, row)'
        BY <4>1 DEF Only
      <4> QED
        BY <1>0, <2>3, <2>5, <3>2, <4>1, <4>2 DEF CallBacked
    <3> QED
      BY <2>2, <3>3 DEF Backing
  <2>6. CASE TaskBacked(r)
    <3> DEFINE u == engine[r].active.id
    <3>1. u \in Task /\ task[u].blocking /\ task[u].status \in Open
      BY <2>6, LiveFacts DEF TaskBacked
    <3>2. task'[u].status \in Open /\ task'[u].blocking /\ task'[u].left = task[u].left
      <4>1. CASE u = t
        BY <3>1, <4>1
      <4>2. CASE u # t
        BY <3>1, <4>2
      <4> QED
        BY <4>1, <4>2
    <3>3. TaskBacked(r)'
      <4>1. PICK row \in outbox :
               /\ row.kind = "timer" /\ row.run = r /\ row.id = u
               /\ row.wait = task[u].left /\ Only(r, row)
        BY <2>6 DEF TaskBacked
      <4>2. PICK req \in outbox : req.kind = "request" /\ req.run = r /\ req.id = u
        BY <2>6 DEF TaskBacked
      <4>3. row \in outbox' /\ Only(r, row)'
        BY <4>1 DEF Only
      <4>4. req \in outbox'
        BY <3>1, <4>2
      <4>5. engine'[r].active.id = u /\ engine'[r].status = "waiting_assistance"
        BY <1>0, <2>6 DEF TaskBacked
      <4>6. /\ row.kind = "timer" /\ row.run = r /\ row.id = u /\ row.wait = task'[row.id].left
        BY <3>2, <4>1
      <4> HIDE DEF u
      <4> QED
        BY <2>3, <2>6, <3>2, <4>2, <4>3, <4>4, <4>5, <4>6 DEF TaskBacked
    <3> QED
      BY <2>2, <3>3 DEF Backing
  <2> QED
    BY <2>1, <2>4, <2>5, <2>6 DEF Backing
<1>6. LedgerStep
  <2>1. \A r \in Run : Standing(r)' = Standing(r) /\ Active(r)' = Active(r)
    BY <1>0 DEF Standing, Active, Live
  <2> QED
    BY <1>0, <2>1, LedgerStutters
<1> QED
  BY <1>2, <1>3, <1>4, <1>5, <1>6 DEF RunsInv

\* A commit that is no run's matter is a step of the tasks.
LEMMA CommitIsTransaction ==
  ASSUME IInv, NEW c \in Call, Commit(c)
  PROVE  /\ CommitTransaction(c) /\ Commits(c)
         /\ task'[CallRequest(c).task] = Result(c)
         /\ \A u \in Task \ {CallRequest(c).task} : task'[u] = task[u]
<1> DEFINE t == CallRequest(c).task
           result == Result(c)
<1>1. Commits(c) /\ task' = [task EXCEPT ![t] = result] /\ Record(c)
  BY DEF Commit
<1>2. t \in Task
  BY <1>1, ResultFacts
<1>3. DOMAIN task = Task
  BY DEF IInv, AssistanceTypeOK
<1> HIDE DEF t, result
<1>4. /\ task' = [u \in Task |-> task'[u]] /\ task'[t] = result
      /\ \A u \in Task \ {t} : task'[u] = task[u]
  BY <1>1, <1>2, <1>3
<1>5. \A u \in Task \ {t} : EngineWrites(task[u], task'[u])
  BY <1>4 DEF EngineWrites
<1> QED
  BY <1>1, <1>4, <1>5 DEF CommitTransaction, t, result

LEMMA CommittedStep ==
  ASSUME NEW c \in Call, CommitTransaction(c)
  PROVE  TasksStep
  BY DEF TasksStep, AssistanceNext

\* The run of an open blocking task waits for it: the submission finds it.
LEMMA OpenTaskIsAwaited ==
  ASSUME RunsInv, NEW t \in Task, task[t].blocking, task[t].status \in Open
  PROVE  RunOf(t) \in Run /\ WaitsForTask(RunOf(t), t)
<1>1. PICK q \in Run : Active(q) = t
  BY DEF RunsInv, TasksGood
<1>2. t \in Nat
  BY RunAssumption
<1>3. Live(q)
  BY <1>1, <1>2, AssistanceAssumption DEF Active
<1>4. engine[q].active.id = t /\ TaskBacked(q)
  BY <1>1, <1>3, LiveFacts DEF CallBacked
<1>5. WaitsForTask(q, t)
  BY <1>3, <1>4 DEF TaskBacked, WaitsForTask
<1>6. PICK req \in outbox : req.kind = "request" /\ req.run = q /\ req.id = t
  BY <1>4 DEF TaskBacked
<1>7. req \in Rows({"request"}, t)
  BY <1>6 DEF Rows
<1>8. RunOf(t) \in Run /\ \E row \in Rows({"request"}, t) : row.run = RunOf(t)
  BY <1>6, <1>7 DEF RunOf
<1>9. RunOf(t) = q
  BY <1>6, <1>8 DEF Rows, RunsInv, RowsGood
<1> QED
  BY <1>5, <1>9

LEMMA SubmitOutcomes == \A q : SubmitOutcome(q) \subseteq WaitStatus
  BY RunAssumption DEF SubmitOutcome, WaitStatus

LEMMA SubmitBlockingStep ==
  ASSUME RInv, NEW c \in Call, SubmitBlocking(c), UNCHANGED <<inbox, drain>>
  PROVE  RunsInv' /\ TasksStep /\ LedgerStep
<1> DEFINE t == CallRequest(c).task
           r == RunOf(t)
           ended == Result(c)
<1>0. RunsInv /\ IInv
  BY DEF RInv
<1>1. Commits(c) /\ CallRequest(c).op = "submit" /\ task[t].blocking
  BY DEF SubmitBlocking
<1>2. t \in Task /\ task[t].status \in Open /\ ended.status = "completed"
  BY <1>0, <1>1, ResultFacts
<1>3. r \in Run /\ WaitsForTask(r, t)
  BY <1>0, <1>1, <1>2, OpenTaskIsAwaited
<1>4. /\ Record(c)
      /\ \E status \in SubmitOutcome(CallRequest(c)) :
         \E x \in AcceptAssistance(engine[r], lastId + 1, status) : WakeRun(r, x, t, ended)
  BY <1>3 DEF SubmitBlocking
<1>5. PICK status \in SubmitOutcome(CallRequest(c)) :
         \E x \in AcceptAssistance(engine[r], lastId + 1, status) : WakeRun(r, x, t, ended)
  BY <1>4
<1>6. PICK x \in AcceptAssistance(engine[r], lastId + 1, status) : WakeRun(r, x, t, ended)
  BY <1>5
<1>7. status \in WaitStatus
  BY SubmitOutcomes
<1>8. inbox' \subseteq Task /\ drain' \in DrainRecord /\ Snapshot' \subseteq Snapshot
  BY <1>0, DrainKept DEF RunsInv, TypesGood
<1>9. ended.status \in Final
  BY <1>2 DEF Final
<1> HIDE DEF r, ended
<1>10. DrivenOk(x, lastId + 1)
  <2> HIDE DEF t
  <2> QED
    BY <1>0, <1>3, <1>7, AssistanceDriven
<1>11. /\ RunsInv' /\ LedgerStep
       /\ task' = [u \in Task |-> task'[u]] /\ task'[t] = ended
       /\ \A u \in Task \ {t} : EngineWrites(task[u], task'[u])
  <2> HIDE DEF t
  <2> QED
    BY <1>0, <1>3, <1>6, <1>8, <1>9, <1>10, WakeTransaction
<1>12. CommitTransaction(c)
  BY <1>1, <1>4, <1>11 DEF CommitTransaction, ended
<1> QED
  BY <1>11, <1>12, CommittedStep

LEMMA SubmitDetachedStep ==
  ASSUME RInv, NEW c \in Call, SubmitDetached(c), UNCHANGED <<inbox, drain>>
  PROVE  RunsInv' /\ TasksStep /\ LedgerStep
<1> DEFINE t == CallRequest(c).task
<1>0. RunsInv /\ IInv
  BY DEF RInv
<1>1. /\ Commit(c) /\ ~task[t].blocking
      /\ outbox' = outbox \ Rows({"request"}, t)
      /\ UNCHANGED <<engine, lastId, done>>
  BY DEF SubmitDetached
<1>2. /\ CommitTransaction(c) /\ Commits(c)
      /\ task'[t] = Result(c)
      /\ \A u \in Task \ {t} : task'[u] = task[u]
  BY <1>0, <1>1, CommitIsTransaction
<1>3. t \in Task /\ task[t].status \in Open /\ Result(c).blocking = task[t].blocking
  BY <1>0, <1>2, ResultFacts
<1>4. /\ outbox' \subseteq outbox
      /\ \A row \in outbox : row \notin outbox' => row.kind = "request" /\ row.id = t
  BY <1>1 DEF Rows
<1>5. task'[t].blocking = task[t].blocking
  BY <1>2, <1>3
<1> HIDE DEF t
<1>6. RunsInv' /\ LedgerStep
  BY <1>0, <1>1, <1>2, <1>3, <1>4, <1>5, TaskOnly
<1> QED
  BY <1>2, <1>6, CommittedStep

LEMMA CommitOtherStep ==
  ASSUME RInv, NEW c \in Call, CommitOther(c), UNCHANGED <<inbox, drain>>
  PROVE  RunsInv' /\ TasksStep /\ LedgerStep
<1> DEFINE t == CallRequest(c).task
<1>0. RunsInv /\ IInv
  BY DEF RInv
<1>1. /\ Commit(c) /\ CallRequest(c).op # "submit"
      /\ UNCHANGED <<engine, lastId, done, outbox>>
  BY DEF CommitOther
<1>2. /\ CommitTransaction(c) /\ Commits(c)
      /\ task'[t] = Result(c)
      /\ \A u \in Task \ {t} : task'[u] = task[u]
  BY <1>0, <1>1, CommitIsTransaction
<1>3. /\ t \in Task /\ task[t].status \in Open /\ Result(c).blocking = task[t].blocking
      /\ Result(c).status \in Open /\ Result(c).left = task[t].left
  BY <1>0, <1>1, <1>2, ResultFacts
<1>4. /\ task'[t].blocking = task[t].blocking
      /\ task'[t].status \in Open /\ task'[t].left = task[t].left
  BY <1>2, <1>3
<1> HIDE DEF t
<1>5. RunsInv' /\ LedgerStep
  BY <1>0, <1>1, <1>2, <1>3, <1>4, TaskOnly
<1> QED
  BY <1>2, <1>5, CommittedStep

LEMMA RequestedStep ==
  ASSUME RInv, NEW c \in Call, Requested(c)
  PROVE  RunsInv' /\ TasksStep /\ LedgerStep
<1>0. RunsInv
  BY DEF RInv
<1>1. RequestSteps(c) /\ UNCHANGED <<engine, lastId, outbox, inbox, done, drain>>
  BY DEF Requested, runVars
<1>2. UNCHANGED task
  BY <1>1 DEF RequestSteps, Issue, Retry, Look, Get, Refuse
<1>3. inbox' \subseteq Task /\ drain' \in DrainRecord /\ Snapshot' \subseteq Snapshot
  BY <1>0, <1>1, DrainKept DEF RunsInv, TypesGood
<1>4. RunsInv' /\ LedgerStep
  BY <1>0, <1>1, <1>2, <1>3, Unmoved
<1> QED
  BY <1>1, <1>4 DEF TasksStep, AssistanceNext

LEMMA CrashStep ==
  ASSUME RInv, Crash
  PROVE  RunsInv' /\ TasksStep /\ LedgerStep
<1>0. RunsInv
  BY DEF RInv
<1>1. CallsLost /\ drain' = NoDrain /\ UNCHANGED <<engine, lastId, outbox, inbox, done>>
  BY DEF Crash
<1>2. UNCHANGED task
  BY <1>1 DEF CallsLost
<1>3. inbox' \subseteq Task /\ drain' \in DrainRecord /\ Snapshot' \subseteq Snapshot
  BY <1>0, <1>1, EmptyDrain DEF RunsInv, TypesGood
<1>4. RunsInv' /\ LedgerStep
  BY <1>0, <1>1, <1>2, <1>3, Unmoved
<1> QED
  BY <1>1, <1>4 DEF TasksStep, AssistanceNext

----
(* The passing of time. *)

LEMMA DownFacts ==
  ASSUME NEW n \in Nat
  PROVE  Down(n) \in Nat /\ Down(n) <= n /\ (n > 0 => Down(n) = n - 1)
  BY DEF Down

LEMMA AgedFacts ==
  ASSUME NEW row \in OutboxRow
  PROVE  /\ Aged(row) \in OutboxRow
         /\ Aged(row).kind = row.kind /\ Aged(row).id = row.id /\ Aged(row).run = row.run
         /\ Aged(row).attempt = row.attempt
         /\ Aged(row).wait = Down(row.wait) /\ Aged(row).left = Down(row.left)
<1> DEFINE w == Down(row.wait)
           l == Down(row.left)
<1>1. w \in Nat /\ l \in Nat
  BY DownFacts DEF OutboxRow
<1>2. Aged(row) = [row EXCEPT !.wait = w, !.left = l]
  BY DEF Aged
<1> HIDE DEF w, l
<1>3. /\ Aged(row) \in OutboxRow
      /\ Aged(row).kind = row.kind /\ Aged(row).id = row.id /\ Aged(row).run = row.run
      /\ Aged(row).attempt = row.attempt
      /\ Aged(row).wait = w /\ Aged(row).left = l
  BY <1>1, <1>2 DEF OutboxRow
<1> QED
  BY <1>3 DEF w, l

\* An invocation stays inside the frames as both get shorter.
LEMMA AgedFits ==
  ASSUME NEW row \in OutboxRow, NEW stack, NEW aged, Fits(row, stack),
         DOMAIN aged = DOMAIN stack,
         \A i \in DOMAIN stack : aged[i].left = stack[i].left - 1 /\ stack[i].left \in Int
  PROVE  Fits(Aged(row), aged)
<1> DEFINE new == Aged(row)
<1>1. /\ row.wait \in Nat /\ row.left \in Nat
      /\ new.wait = Down(row.wait) /\ new.left = Down(row.left)
  BY AgedFacts DEF OutboxRow
<1> HIDE DEF new
<1>2. ASSUME NEW i \in DOMAIN aged PROVE new.left <= NotNegative(aged[i].left)
  <2>1. /\ row.left <= NotNegative(stack[i].left)
        /\ aged[i].left = stack[i].left - 1 /\ stack[i].left \in Int
    BY DEF Fits
  <2> QED
    BY <1>1, <2>1 DEF NotNegative, Down
<1>3. new.wait > 0 => new.wait < new.left
  <2>1. row.wait > 0 => row.wait < row.left
    BY DEF Fits
  <2> QED
    BY <1>1, <2>1 DEF Down
<1> QED
  BY <1>2, <1>3 DEF Fits, new

\* The parts of a step of time.
LEMMA TickFacts ==
  ASSUME RInv, Tick
  PROVE  /\ \A t \in Task : /\ task'[t].status = task[t].status
                            /\ task'[t].blocking = task[t].blocking
                            /\ task'[t].left = Down(task[t].left)
         /\ \A r \in Run : Live(r) => engine'[r] = [engine[r] EXCEPT !.stack = AgedFrames(@)]
         /\ \A r \in Run : ~Live(r) => engine'[r] = engine[r]
         /\ DOMAIN engine' = Run
         /\ \A row \in outbox : Aged(row) \in outbox'
         /\ \A new \in outbox' : \E row \in outbox : new = Aged(row)
         /\ \A new \in Snapshot' : \E row \in Snapshot : new = Aged(row)
         /\ outbox \subseteq OutboxRow /\ Snapshot \subseteq OutboxRow
         /\ drain' \in DrainRecord
<1>0. RunsInv /\ IInv /\ drain \in DrainRecord /\ outbox \subseteq OutboxRow
  BY DEF RInv, RunsInv, TypesGood
<1>1. ASSUME NEW t \in Task
      PROVE  /\ task'[t].status = task[t].status
             /\ task'[t].blocking = task[t].blocking
             /\ task'[t].left = Down(task[t].left)
  <2>1. task[t] \in TaskRecord
    BY <1>0 DEF IInv, AssistanceTypeOK
  <2>2. task'[t] = [task[t] EXCEPT !.lease = Down(@), !.left = Down(@)]
    BY DEF Tick, TasksAge
  <2> QED
    BY <2>1, <2>2 DEF TaskRecord
<1>2. /\ \A r \in Run : Live(r) => engine'[r] = [engine[r] EXCEPT !.stack = AgedFrames(@)]
      /\ \A r \in Run : ~Live(r) => engine'[r] = engine[r]
      /\ DOMAIN engine' = Run
  BY DEF Tick
<1>3. /\ \A row \in outbox : Aged(row) \in outbox'
      /\ \A new \in outbox' : \E row \in outbox : new = Aged(row)
  BY DEF Tick
<1> DEFINE rows == {Aged(row) : row \in drain.rows}
           at   == IF drain.at = None THEN None ELSE Aged(drain.at)
<1>4. drain' = [drain EXCEPT !.rows = rows, !.at = at]
  BY DEF Tick
<1>5. /\ rows \subseteq OutboxRow /\ at \in OutboxRow \cup {None}
  BY <1>0, AgedFacts DEF DrainRecord
<1>6. /\ \A new \in rows : \E row \in drain.rows : new = Aged(row)
      /\ at # None => drain.at # None /\ at = Aged(drain.at)
  OBVIOUS
<1> HIDE DEF rows, at
<1>7. /\ drain' \in DrainRecord /\ drain'.rows = rows /\ drain'.at = at
  BY <1>0, <1>4, <1>5 DEF DrainRecord
<1>8. \A new \in Snapshot' : \E row \in Snapshot : new = Aged(row)
  BY <1>6, <1>7 DEF Snapshot
<1>9. Snapshot \subseteq OutboxRow
  BY <1>0 DEF Snapshot, DrainRecord
<1> QED
  BY <1>0, <1>1, <1>2, <1>3, <1>7, <1>8, <1>9

LEMMA TickRows ==
  ASSUME RInv, Tick
  PROVE  TypesGood' /\ RowsGood'
<1>0. RunsInv /\ IInv
  BY DEF RInv
<1>1. /\ UNCHANGED <<lastId, inbox, done>>
      /\ DOMAIN engine' = Run /\ drain' \in DrainRecord
      /\ \A new \in outbox' : \E row \in outbox : new = Aged(row)
      /\ \A new \in Snapshot' : \E row \in Snapshot : new = Aged(row)
      /\ outbox \subseteq OutboxRow /\ Snapshot \subseteq OutboxRow
  BY TickFacts DEF Tick
<1>2. /\ \A new \in outbox' :
            /\ new \in OutboxRow
            /\ \E row \in outbox : /\ new = Aged(row) /\ new.kind = row.kind
                                   /\ new.id = row.id /\ new.run = row.run
      /\ \A new \in Snapshot' :
            \E row \in Snapshot : /\ new = Aged(row) /\ new.kind = row.kind
                                  /\ new.id = row.id /\ new.run = row.run
  BY <1>1, AgedFacts
<1>3. TypesGood'
  BY <1>0, <1>1, <1>2 DEF RunsInv, TypesGood
<1>4. /\ \A row \in outbox \cup Snapshot : row.id <= lastId
      /\ \A a, b \in outbox : a.id = b.id => a.run = b.run
      /\ \A a, b \in outbox : a.id = b.id /\ a.kind = b.kind => a = b
      /\ \A a \in Snapshot : \A b \in outbox : a.id = b.id /\ a.kind = b.kind => a = b
  BY <1>0 DEF RunsInv, RowsGood
<1>5. \A row \in outbox' \cup Snapshot' : row.id <= lastId'
  BY <1>1, <1>2, <1>4
<1>6. \A a, b \in outbox' : a.id = b.id => a.run = b.run
  BY <1>2, <1>4
<1>7. \A a, b \in outbox' : a.id = b.id /\ a.kind = b.kind => a = b
  BY <1>2, <1>4
<1>8. \A a \in Snapshot' : \A b \in outbox' : a.id = b.id /\ a.kind = b.kind => a = b
  BY <1>2, <1>4
<1> QED
  BY <1>3, <1>5, <1>6, <1>7, <1>8 DEF RowsGood

LEMMA TickBacking ==
  ASSUME RInv, Tick, NEW r \in Run
  PROVE  /\ RunGood(r)' /\ Backing(r)'
         /\ Live(r)' <=> Live(r)
         /\ Active(r)' = Active(r) /\ Standing(r)' = Standing(r)
<1>0. RunsInv /\ IInv /\ RunGood(r) /\ Backing(r)
  BY DEF RInv, RunsInv
<1>1. lastId' = lastId
  BY DEF Tick
<1>2. /\ \A row \in outbox : /\ Aged(row) \in outbox' /\ row \in OutboxRow
                             /\ Aged(row).kind = row.kind /\ Aged(row).id = row.id
                             /\ Aged(row).run = row.run /\ Aged(row).attempt = row.attempt
                             /\ Aged(row).wait = Down(row.wait)
      /\ \A new \in outbox' : \E row \in outbox :
            /\ new = Aged(row) /\ new.kind = row.kind /\ new.run = row.run
  BY TickFacts, AgedFacts
<1>3. ASSUME NEW row \in outbox, Only(r, row) PROVE \A new \in outbox' :
         new.run = r /\ new.kind # "request" => new = Aged(row)
  BY <1>2, <1>3 DEF Only
<1>4. CASE ~Live(r)
  <2>1. engine'[r] = engine[r]
    BY <1>4, TickFacts
  <2>2. ~Live(r)' /\ Active(r)' = Active(r) /\ Standing(r)' = Standing(r)
    BY <1>4, <2>1 DEF Live, Active, Standing
  <2>3. RunGood(r)'
    BY <1>0, <1>1, <2>1 DEF RunGood
  <2>4. Resting(r)
    BY <1>0, <1>4 DEF Backing, CallBacked, TaskBacked
  <2>5. Resting(r)'
    BY <1>2, <2>2, <2>4 DEF Resting
  <2> QED
    BY <1>4, <2>2, <2>3, <2>5 DEF Backing
<1>5. CASE Live(r)
  <2> DEFINE e == engine[r]
             y == [e EXCEPT !.stack = AgedFrames(@)]
  <2>1. /\ EngineOk(e) /\ WaitingOk(e) /\ e.active.id \in 1..lastId /\ e.active.id \in Task
        /\ e.status \in {"waiting_runtime", "waiting_assistance"}
        /\ CallBacked(r) \/ TaskBacked(r)
    BY <1>0, <1>5, LiveFacts
  <2>2. engine'[r] = y
    BY <1>5, TickFacts
  <2> HIDE DEF e
  <2>3. /\ EngineOk(y) /\ WaitingOk(y)
        /\ y.status = e.status /\ y.active = e.active
        /\ DOMAIN y.stack = DOMAIN e.stack
        /\ \A i \in DOMAIN e.stack : y.stack[i].left = e.stack[i].left - 1 /\ e.stack[i].left \in Int
    BY <2>1, AgedOk
  <2> HIDE DEF y
  <2>4. y # None
    BY <2>1, <2>3, CheckpointFacts
  <2>5. Live(r)' /\ Active(r)' = Active(r) /\ Standing(r)' = Standing(r)
    BY <1>5, <2>2, <2>3, <2>4 DEF Live, Active, Standing, e
  <2>6. RunGood(r)'
    BY <1>1, <2>1, <2>2, <2>3 DEF RunGood
  <2>7. CASE CallBacked(r)
    <3>1. PICK row \in outbox :
             /\ row.kind = "invoke" /\ row.run = r
             /\ row.id = e.active.id /\ row.attempt = e.active.attempt
             /\ Fits(row, e.stack) /\ Only(r, row)
      BY <2>7 DEF CallBacked, e
    <3> DEFINE new == Aged(row)
    <3>2. /\ new \in outbox' /\ new.kind = "invoke" /\ new.run = r
          /\ new.id = e.active.id /\ new.attempt = e.active.attempt
      BY <1>2, <3>1
    <3>3. Fits(new, y.stack)
      <4> DEFINE stack == e.stack
                 aged  == y.stack
      <4>1. /\ row \in OutboxRow /\ Fits(row, stack) /\ DOMAIN aged = DOMAIN stack
            /\ \A i \in DOMAIN stack : aged[i].left = stack[i].left - 1 /\ stack[i].left \in Int
        BY <1>2, <2>3, <3>1
      <4> HIDE DEF stack, aged, new
      <4>2. Fits(Aged(row), aged)
        BY <4>1, AgedFits
      <4> QED
        BY <4>2 DEF aged, new
    <3>4. Only(r, new)'
      BY <1>3, <3>1 DEF Only
    <3>5. /\ task[e.active.id].status = "none" /\ ~task[e.active.id].blocking
          /\ e.status = "waiting_runtime"
      BY <2>7 DEF CallBacked, e
    <3>6. task'[e.active.id].status = "none" /\ ~task'[e.active.id].blocking
      BY <2>1, <3>5, TickFacts
    <3> HIDE DEF new
    <3>7. CallBacked(r)'
      BY <2>2, <2>3, <2>5, <3>2, <3>3, <3>4, <3>5, <3>6 DEF CallBacked
    <3> QED
      BY <2>5, <2>6, <3>7, <1>5 DEF Backing
  <2>8. CASE TaskBacked(r)
    <3> DEFINE u == e.active.id
    <3>1. PICK row \in outbox :
             /\ row.kind = "timer" /\ row.run = r /\ row.id = u
             /\ row.wait = task[u].left /\ Only(r, row)
      BY <2>8 DEF TaskBacked, e
    <3>2. PICK req \in outbox : req.kind = "request" /\ req.run = r /\ req.id = u
      BY <2>8 DEF TaskBacked, e
    <3>3. /\ task[u].status \in Open /\ task[u].blocking /\ e.status = "waiting_assistance"
      BY <2>8 DEF TaskBacked, e
    <3>4. /\ task'[u].status \in Open /\ task'[u].blocking /\ task'[u].left = Down(task[u].left)
      BY <2>1, <3>3, TickFacts
    <3> DEFINE new == Aged(row)
    <3>5. /\ new \in outbox' /\ new.kind = "timer" /\ new.run = r
          /\ new.id = u /\ new.wait = task'[u].left
      BY <1>2, <3>1, <3>4
    <3>6. Aged(req) \in outbox' /\ Aged(req).kind = "request" /\ Aged(req).run = r /\ Aged(req).id = u
      BY <1>2, <3>2
    <3>7. Only(r, new)'
      BY <1>3, <3>1 DEF Only
    <3>8. engine'[r].active.id = u /\ engine'[r].status = "waiting_assistance"
      BY <2>2, <2>3, <3>3
    <3> HIDE DEF new, u
    <3>9. TaskBacked(r)'
      BY <2>5, <3>4, <3>5, <3>6, <3>7, <3>8 DEF TaskBacked
    <3> QED
      BY <1>5, <2>5, <2>6, <3>9 DEF Backing
  <2> QED
    BY <2>1, <2>7, <2>8
<1> QED
  BY <1>4, <1>5

LEMMA TickStep ==
  ASSUME RInv, Tick
  PROVE  RunsInv' /\ TasksStep /\ LedgerStep
<1>1. RunsInv /\ lastId' = lastId /\ TasksAge
  BY DEF RInv, Tick
<1>2. TasksGood'
  <2>1. /\ \A r \in Run : Active(r)' = Active(r)
        /\ \A t \in Task : task'[t].status = task[t].status /\ task'[t].blocking = task[t].blocking
    BY TickBacking, TickFacts
  <2>2. TasksGood
    BY <1>1 DEF RunsInv
  <2> QED
    BY <1>1, <2>1, <2>2 DEF TasksGood
<1>3. \A r \in Run : RunGood(r)' /\ Backing(r)'
  BY TickBacking
<1>4. RunsInv'
  BY <1>2, <1>3, TickRows DEF RunsInv
<1>5. LedgerStep
  BY TickBacking, LedgerStutters DEF Tick
<1> QED
  BY <1>1, <1>4, <1>5 DEF TasksStep, AssistanceNext

----
(* The invariant. *)

LEMMA InitRInv == Init => RInv
<1> SUFFICES ASSUME Init PROVE RInv
  OBVIOUS
<1>1. IInv
  BY InitIInv DEF Init
<1>2. /\ DOMAIN engine = Run /\ \A r \in Run : engine[r] = None
      /\ lastId = 0 /\ outbox = {} /\ inbox = {} /\ done = {}
      /\ drain = NoDrain /\ \A t \in Task : task[t] = NoTask
  BY DEF Init, AssistanceInit
<1>3. Snapshot = {} /\ drain \in DrainRecord
  BY <1>2 DEF Snapshot, NoDrain, DrainRecord
<1>4. TypesGood
  BY <1>2, <1>3, RunAssumption DEF TypesGood
<1>5. RowsGood
  BY <1>2, <1>3 DEF RowsGood
<1>6. TasksGood
  BY <1>2 DEF TasksGood, NoTask, Open, Leased
<1>7. \A r \in Run : RunGood(r) /\ Backing(r)
  BY <1>2 DEF RunGood, Backing, Resting, Live
<1> QED
  BY <1>1, <1>4, <1>5, <1>6, <1>7 DEF RInv, RunsInv

LEMMA StutterStep ==
  ASSUME RInv, UNCHANGED vars
  PROVE  RunsInv' /\ TasksStep /\ LedgerStep
<1>1. RunsInv /\ UNCHANGED <<engine, lastId, outbox, inbox, done, drain>> /\ UNCHANGED taskVars
  BY DEF RInv, vars, runVars
<1>2. UNCHANGED task
  BY <1>1 DEF taskVars
<1>3. inbox' \subseteq Task /\ drain' \in DrainRecord /\ Snapshot' \subseteq Snapshot
  BY <1>1, DrainKept DEF RunsInv, TypesGood
<1>4. RunsInv' /\ LedgerStep
  BY <1>1, <1>2, <1>3, Unmoved
<1> QED
  BY <1>1, <1>4 DEF TasksStep

\* Every step keeps the runs' invariant, and is a step of the tasks and of the ledger.
LEMMA NextRuns == RInv /\ [Next]_vars => RunsInv' /\ TasksStep /\ LedgerStep
<1> SUFFICES ASSUME RInv, [Next]_vars PROVE RunsInv' /\ TasksStep /\ LedgerStep
  OBVIOUS
<1>1. ASSUME NEW r \in Run, StartRun(r) PROVE RunsInv' /\ TasksStep /\ LedgerStep
  BY <1>1, StartStep
<1>2. ASSUME NEW r \in Run, Cancel(r) PROVE RunsInv' /\ TasksStep /\ LedgerStep
  BY <1>2, CancelStep
<1>3. ASSUME NEW r \in Run, LoseLease(r) PROVE RunsInv' /\ TasksStep /\ LedgerStep
  BY <1>3, LoseLeaseStep
<1>4. CASE DrainSteps
  BY <1>4, BeginDrainStep, SkipRowStep, ExpireRowStep, DispatchStep, FireTimerStep,
     EndDrainStep DEF DrainSteps
<1>5. CASE Answer
  BY <1>5, AnswerStep
<1>6. ASSUME NEW c \in Call, Requested(c) PROVE RunsInv' /\ TasksStep /\ LedgerStep
  BY <1>6, RequestedStep
<1>7. ASSUME NEW c \in Call, Committed(c) PROVE RunsInv' /\ TasksStep /\ LedgerStep
  <2>1. /\ UNCHANGED <<inbox, drain>>
        /\ SubmitBlocking(c) \/ SubmitDetached(c) \/ CommitOther(c)
    BY <1>7 DEF Committed
  <2> QED
    BY <2>1, SubmitBlockingStep, SubmitDetachedStep, CommitOtherStep
<1>8. CASE Tick
  BY <1>8, TickStep
<1>9. CASE Crash
  BY <1>9, CrashStep
<1>10. CASE UNCHANGED vars
  BY <1>10, StutterStep
<1> QED
  BY <1>1, <1>2, <1>3, <1>4, <1>5, <1>6, <1>7, <1>8, <1>9, <1>10 DEF Next

LEMMA NextRInv == RInv /\ [Next]_vars => RInv'
<1> SUFFICES ASSUME RInv, [Next]_vars PROVE RInv'
  OBVIOUS
<1>1. RunsInv' /\ TasksStep
  BY NextRuns
<1>2. IInv'
  BY <1>1, NextIInv DEF RInv, TasksStep
<1> QED
  BY <1>1, <1>2 DEF RInv

LEMMA RunsInvariance == Spec => []RInv
  BY InitRInv, NextRInv, PTL DEF Spec

----
(* What the invariant says. *)

LEMMA RInvTypes == RInv => TypeOK
<1> SUFFICES ASSUME RInv PROVE TypeOK
  OBVIOUS
<1>1. RunsInv /\ TypesGood /\ AssistanceTypeOK /\ drain \in DrainRecord
  BY DEF RInv, IInv, RunsInv, TypesGood
<1>2. ASSUME NEW r \in Run, engine[r] # None
      PROVE  engine[r] \in EngineState /\ engine[r].steps <= ExecutionCost
  <2> DEFINE e == engine[r]
  <2>1. EngineOk(e) /\ (SettledOk(e) \/ (WaitingOk(e) /\ e.active.id \in 1..lastId))
    BY <1>1, <1>2 DEF RunsInv, RunGood
  <2>2. 1..lastId \subseteq Task
    BY <1>1, RunAssumption DEF TypesGood
  <2> HIDE DEF e
  <2>3. e \in EngineState /\ e.steps <= ExecutionCost
    BY <2>1, <2>2, CheckpointFacts
  <2> QED
    BY <2>3 DEF e
<1>3. done \subseteq Task
  BY <1>1, RunAssumption DEF TypesGood
<1>4. /\ drain.busy \in BOOLEAN /\ drain.rows \subseteq OutboxRow
      /\ drain.at = None \/ drain.at \in OutboxRow
  BY <1>1 DEF DrainRecord
<1> QED
  BY <1>1, <1>2, <1>3, <1>4 DEF TypeOK, TypesGood

LEMMA RInvBacked == RInv => WaitsAreBacked
<1> SUFFICES ASSUME RInv PROVE WaitsAreBacked
  OBVIOUS
<1>0. RunsInv
  BY DEF RInv
<1> DEFINE mine(r, kind) == {row \in outbox : row.run = r /\ row.kind = kind}
<1>1. ASSUME NEW t \in Task, task[t].blocking
      PROVE  task[t].status \in Open <=> \E r \in Run : Active(r) = t
  <2>1. ASSUME task[t].status \in Open PROVE \E r \in Run : Active(r) = t
    BY <1>0, <1>1, <2>1 DEF RunsInv, TasksGood
  <2>2. ASSUME NEW r \in Run, Active(r) = t PROVE task[t].status \in Open
    <3>1. t \in Nat
      BY RunAssumption
    <3>2. Live(r)
      BY <2>2, <3>1, AssistanceAssumption DEF Active
    <3> QED
      BY <1>0, <1>1, <2>2, <3>2, LiveFacts DEF CallBacked, TaskBacked
  <2> QED
    BY <2>1, <2>2
<1>2. ASSUME NEW r \in Run, ~Live(r) PROVE mine(r, "invoke") = {} /\ mine(r, "timer") = {}
  <2>1. Resting(r)
    BY <1>0, <1>2 DEF RunsInv, Backing, CallBacked, TaskBacked
  <2> QED
    BY <2>1 DEF Resting
<1>3. ASSUME NEW r \in Run, Live(r), engine[r].status = "waiting_runtime"
      PROVE  /\ \E row \in mine(r, "invoke") : mine(r, "invoke") = {row} /\ WaitsForCall(r, row)
             /\ mine(r, "timer") = {}
  <2>1. CallBacked(r) /\ engine[r].active \in [id : Nat, attempt : Nat]
    BY <1>0, <1>3, LiveFacts DEF TaskBacked, WaitingOk
  <2>2. PICK row \in outbox :
           /\ row.kind = "invoke" /\ row.run = r
           /\ row.id = engine[r].active.id /\ row.attempt = engine[r].active.attempt
           /\ Only(r, row)
    BY <2>1 DEF CallBacked
  <2>3. mine(r, "invoke") = {row} /\ mine(r, "timer") = {}
    BY <2>2 DEF Only
  <2>4. WaitsForCall(r, row)
    BY <1>3, <2>1, <2>2 DEF WaitsForCall
  <2> QED
    BY <2>3, <2>4
<1>4. ASSUME NEW r \in Run, Live(r), engine[r].status # "waiting_runtime"
      PROVE  /\ mine(r, "invoke") = {}
             /\ \E row \in mine(r, "timer") :
                   /\ mine(r, "timer") = {row} /\ row.id = Active(r)
                   /\ task[row.id].status \in Open
                   /\ row.wait = task[row.id].left
                   /\ \E q \in mine(r, "request") : q.id = row.id
  <2>1. TaskBacked(r) /\ Active(r) = engine[r].active.id
    BY <1>0, <1>4, LiveFacts DEF CallBacked
  <2>2. PICK row \in outbox :
           /\ row.kind = "timer" /\ row.run = r /\ row.id = engine[r].active.id
           /\ row.wait = task[row.id].left /\ Only(r, row)
    BY <2>1 DEF TaskBacked
  <2>3. mine(r, "timer") = {row} /\ mine(r, "invoke") = {}
    BY <2>2 DEF Only
  <2>4. task[row.id].status \in Open /\ \E q \in mine(r, "request") : q.id = row.id
    BY <2>1, <2>2 DEF TaskBacked
  <2> QED
    BY <2>1, <2>2, <2>3, <2>4
<1> QED
  BY <1>1, <1>2, <1>3, <1>4 DEF WaitsAreBacked

LEMMA RInvItems == RInv => ItemsAccounted
<1> SUFFICES ASSUME RInv, NEW r \in Run, engine[r] # None
             PROVE  /\ \A i \in Frames(engine[r]) :
                          LET f == engine[r].stack[i] IN
                          /\ f.succeeded + f.failed + f.unresolved = f.index
                          /\ f.index < f.count
                    /\ engine[r].out # None =>
                          LET f == engine[r].out IN
                          /\ f.succeeded + f.failed + f.unresolved <= f.total
                          /\ f.by = "completed" =>
                                f.succeeded + f.failed + f.unresolved = f.total
  BY DEF ItemsAccounted
<1>1. EngineOk(engine[r])
  BY DEF RInv, RunsInv, RunGood
<1>2. engine[r].stack \in Seq(Frame)
  BY <1>1 DEF EngineOk, EngineRecord
<1>3. \A i \in Frames(engine[r]) : FrameOk(engine[r].stack[i])
  BY <1>1, <1>2 DEF EngineOk, StackOk, Frames
<1> QED
  BY <1>1, <1>3 DEF EngineOk, SummaryOk, FrameOk

LEMMA RInvFits == RInv => AttemptsFit
<1> SUFFICES ASSUME RInv, NEW row \in outbox, row.kind = "invoke"
             PROVE  Fits(row, engine[row.run].stack)
  BY DEF AttemptsFit, Fits, Frames
<1>1. RunsInv /\ row.run \in Run
  BY DEF RInv, RunsInv, TypesGood, OutboxRow
<1>2. Backing(row.run)
  BY <1>1 DEF RunsInv
<1>3. CASE CallBacked(row.run)
  BY <1>3 DEF CallBacked, Only
<1>4. ~Resting(row.run) /\ ~TaskBacked(row.run)
  BY DEF Resting, TaskBacked, Only
<1> QED
  BY <1>2, <1>3, <1>4 DEF Backing

\* A pass awaits only what it dispatches.
LEMMA OnlyDispatchAwaits ==
  ASSUME RInv, [Next]_vars, drain.at = None, drain'.at # None
  PROVE  Dispatch
<1>0. drain \in DrainRecord
  BY DEF RInv, RunsInv, TypesGood
<1>1. drain' # drain /\ drain' # NoDrain /\ drain' # [busy |-> TRUE, at |-> None, rows |-> Drainable]
  BY DEF NoDrain
<1>2. ~Passes(None) \/ drain.rows = {}
  BY <1>0, PassesFacts
<1>3. ~Tick
  <2>1. ASSUME Tick PROVE drain'.at = None
    BY <1>0, <2>1 DEF Tick, DrainRecord
  <2> QED
    BY <2>1
<1>4. ~Answer
  <2>1. ASSUME Answer PROVE drain'.at = None
    BY <2>1 DEF Answer
  <2> QED
    BY <2>1
<1>5. ~BeginDrain /\ ~EndDrain /\ ~Crash
  BY <1>1 DEF BeginDrain, EndDrain, Crash
<1>6. ~SkipRow /\ ~ExpireRow /\ ~FireTimer
  BY <1>2 DEF SkipRow, ExpireRow, FireTimer, AtRow
<1>7. /\ ~(\E r \in Run : StartRun(r) \/ Cancel(r) \/ LoseLease(r))
      /\ ~(\E c \in Call : Requested(c) \/ Committed(c))
      /\ ~UNCHANGED vars
  BY <1>1 DEF StartRun, Cancel, LoseLease, Requested, Committed, vars, runVars
<1> QED
  BY <1>3, <1>4, <1>5, <1>6, <1>7 DEF Next, DrainSteps

InTime ==
    (drain.at = None /\ drain'.at # None) =>
        /\ drain'.at.left > 0
        /\ WaitsForCall(drain'.at.run, drain'.at) =>
              \A i \in Frames(engine[drain'.at.run]) : engine[drain'.at.run].stack[i].left > 0

LEMMA NextInTime == RInv /\ [Next]_vars => InTime
<1> SUFFICES ASSUME RInv, [Next]_vars, drain.at = None, drain'.at # None
             PROVE  /\ drain'.at.left > 0
                    /\ WaitsForCall(drain'.at.run, drain'.at) =>
                          \A i \in Frames(engine[drain'.at.run]) :
                              engine[drain'.at.run].stack[i].left > 0
  BY DEF InTime
<1> DEFINE row == FirstRow
           r   == row.run
<1>0. RunsInv /\ drain \in DrainRecord
  BY DEF RInv, RunsInv, TypesGood
<1>1. Dispatch
  BY OnlyDispatchAwaits
<1>2. AtRow /\ row.kind = "invoke" /\ row.left > 0 /\ Passes(row)
  BY <1>1 DEF Dispatch
<1>3. drain'.at = row /\ row \in Snapshot /\ row \in drain.rows
  BY <1>0, <1>2, PassesFacts, FirstRowFacts DEF AtRow, Snapshot
<1>4. r \in Run /\ row \in OutboxRow
  BY <1>0, <1>3, SnapshotRows
<1> HIDE DEF row
<1>5. ASSUME WaitsForCall(r, row), NEW i \in Frames(engine[r])
      PROVE  engine[r].stack[i].left > 0
  <2>1. Live(r) /\ engine[r].status = "waiting_runtime" /\ engine[r].active.id = row.id
    BY <1>5 DEF WaitsForCall
  <2>2. CallBacked(r) /\ EngineOk(engine[r])
    BY <1>0, <1>4, <2>1, LiveFacts DEF TaskBacked
  <2>3. PICK other \in outbox : /\ other.kind = "invoke" /\ other.id = row.id
                                /\ Fits(other, engine[r].stack)
    BY <2>1, <2>2 DEF CallBacked
  <2>4. other = row
    BY <1>0, <1>2, <1>3, <2>3 DEF RunsInv, RowsGood
  <2>5. row.left <= NotNegative(engine[r].stack[i].left)
    BY <1>5, <2>3, <2>4 DEF Fits, Frames
  <2>6. engine[r].stack[i].left \in Int /\ row.left \in Nat
    <3>1. engine[r].stack \in Seq(Frame)
      BY <2>2 DEF EngineOk, EngineRecord
    <3>2. engine[r].stack[i] \in Frame
      BY <1>5, <3>1 DEF Frames
    <3>3. engine[r].stack[i].left \in Int
      BY <3>2 DEF Frame
    <3> QED
      BY <1>4, <3>3 DEF OutboxRow
  <2> QED
    BY <1>2, <2>5, <2>6 DEF NotNegative
<1> QED
  BY <1>2, <1>3, <1>5

----
(* The theorems. *)

\* The tables of the runs and of the tasks keep their types; a committed checkpoint
\* is never in the middle of its steps, and has not taken more steps than the bound
\* its plan was admitted with (validateExecutionPlan, drive), whatever the plan.
THEOREM RunsTypeCorrect == Spec => []TypeOK
  BY RInvTypes, RunsInvariance, PTL

\* Whatever a run waits for is in the tables, for as long as it waits, and nothing is
\* left in them of a run that ended (ir2-workflow-runtime's transactions, drainOnce).
THEOREM BackedCorrect == Spec => []WaitsAreBacked
  BY RInvBacked, RunsInvariance, PTL

\* Every item of every foreach is accounted for once, in any nesting of foreaches
\* (the engine's frames and summaries).
THEOREM ItemsCorrect == Spec => []ItemsAccounted
  BY RInvItems, RunsInvariance, PTL

\* An attempt fits the durations of all foreaches around it, a retry starts before
\* its own deadline (scheduleCall, acceptRuntimeOutcome).
THEOREM FitsCorrect == Spec => []AttemptsFit
  BY RInvFits, RunsInvariance, PTL

\* No call its run waits for is handed over after its deadline or that of a foreach
\* around it (drainOnce).
THEOREM DispatchCorrect == Spec => DispatchedInTime
<1>1. RInv /\ [Next]_vars =>
        [(drain.at = None /\ drain'.at # None) =>
            /\ drain'.at.left > 0
            /\ WaitsForCall(drain'.at.run, drain'.at) =>
                  \A i \in Frames(engine[drain'.at.run]) :
                      engine[drain'.at.run].stack[i].left > 0]_vars
  BY NextInTime DEF InTime
<1>2. Spec => [][Next]_vars
  BY DEF Spec
<1> QED
  BY <1>1, <1>2, RunsInvariance, PTL DEF DispatchedInTime

LEMMA InitLedger == Init => Ledger!LedgerInit
  BY DEF Init, Ledger!LedgerInit, Active, Live

\* The runs implement the ledger: what a run waits for is consumed once, by this run,
\* and a run that ended waits for nothing any more.
THEOREM RunsKeepTheLedger == Spec => ImplementsLedger
<1>1. RInv /\ [Next]_vars => [Ledger!LedgerNext]_(Ledger!ledgerVars)
  BY NextRuns DEF LedgerStep
<1>2. Spec => Init /\ [][Next]_vars
  BY DEF Spec
<1> QED
  BY <1>1, <1>2, InitLedger, RunsInvariance, PTL DEF ImplementsLedger, Ledger!Ledger

\* The runs' transactions, requests, time and crashes are steps of the tasks on their
\* own: what AssistanceTask promises, it promises of the tasks of durable runs.
THEOREM RunsDriveTasks == Spec => AssistanceSpec
<1>1. RInv /\ [Next]_vars => [AssistanceNext]_taskVars
  BY NextRuns DEF TasksStep
<1>2. Spec => Init /\ [][Next]_vars
  BY DEF Spec
<1>3. Init => AssistanceInit
  BY DEF Init
<1> QED
  BY <1>1, <1>2, <1>3, RunsInvariance, PTL DEF AssistanceSpec

\* The tasks of durable runs are answered by the owner of their newest claim only, a
\* request changes them once, and a lease that lasts is not taken over.
THEOREM RunsFenceAnswers == Spec => []FencedAnswer /\ []AppliedOnce /\ NoTakeover
  BY RunsDriveTasks, AnswersAreFenced, RequestsApplyOnce, LeasesAreNotTakenOver, PTL
====
