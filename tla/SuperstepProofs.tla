---------------------------- MODULE SuperstepProofs ----------------------------
(***************************************************************************)
(* Theorems about SuperstepExecutor, for every plan, rule set, channel,    *)
(* number of workers, step limit and number of crashes.                    *)
(*                                                                         *)
(* The inductive invariant says when graph.json and the memory agree       *)
(* (Synced), which futures there are at each point of a step (Pool) and    *)
(* that nothing moves under the nodes of a step (Snapshot).                *)
(***************************************************************************)
EXTENDS SuperstepExecutor, GraphStoreProofs

\* A ChannelState has these three fields.
ChannelState(ch) ==
  /\ ch = [step |-> ch.step, held |-> ch.held, version |-> ch.version]
  /\ ch.step \in Nat

\* graph.json is up to date on n, but for a bypass that the last turn of the
\* loop made or a node that was mid-flight when the file was loaded.
Saved(n) ==
  \/ graph[n] = disk[n]
  \/ /\ disk[n].st \in {"pending", "running"}
     /\ graph[n].st \in {"pending", "done"}
     /\ graph[n].after = disk[n].after

Synced ==
  /\ pc = "dead" => graph = EmptyGraph
  /\ pc \in {"claim", "finish"} => \A n \in Node : Saved(n)
  /\ pc \notin {"claim", "finish", "dead"} => graph = disk

\* The nodes that run: all of the step until the last one is done, then those
\* that are still to record.
Running == CASE pc = "wait" -> ready
             [] pc = "record" -> todo
             [] OTHER -> {}

Pool ==
  /\ pc \notin {"record", "plan", "raised"} => todo = {}
  /\ pc \in {"start", "claim", "finish", "returned", "dead"} => ready = {}
  /\ In(graph, "running") = Running
  /\ \A n \in Node \ ready : worker[n].ph = "off"
  /\ pc # "wait" => \A n \in ready : worker[n].ph = "out"
  /\ \A n \in Node : worker[n].ph = "out" =>
       worker[n].verdict \in (Verdict \ {"bypassed"}) \cup {"paused"}

Snapshot ==
  /\ pc = "claim" => mark.graph = graph /\ mark.chan = chan
  /\ pc = "wait" => graph = Claimed(mark.graph) /\ chan = mark.chan

SInv ==
  /\ TypeOK /\ Good(graph) /\ Good(disk)
  /\ ChannelState(chan) /\ ChannelState(saved)
  /\ Synced /\ Pool /\ Snapshot

-------------------------------------------------------------------------------
(* What the single actions do.                                             *)

\* The steps of the scheduler take futures of the step, one at a time.
LEMMA TurnsAreLeft ==
  ASSUME NEW S, NEW n \in Turn(S)
  PROVE  n \in S
BY DEF Turn

\* What the worker of n may do: it moves n's future on, and no other.
LEMMA WorkerStep ==
  ASSUME worker \in [Node -> WorkerState], NEW n \in Node, Work(n)
  PROVE  /\ UNCHANGED <<graph, disk>> /\ worker[n].ph \in {"queued", "calling", "backoff"}
         /\ worker'[n] \in WorkerState /\ worker'[n].ph \in {"calling", "backoff", "out"}
         /\ worker' = [worker EXCEPT ![n] = worker'[n]]
         /\ worker'[n].ph = "out" => worker'[n].verdict \in (Verdict \ {"bypassed"}) \cup {"paused"}
<1> DEFINE Ends == (Verdict \ {"bypassed"}) \cup {"paused"}
           On(w) == worker' = [worker EXCEPT ![n] = w]
<1>1. UNCHANGED <<graph, disk>> /\ worker[n].ph \in {"queued", "calling", "backoff"}
  BY DEF Work, Pick, Return, Interrupt, Flake, Retry, Fail
<1>2. \/ \E t \in Nat : Call(n, t)
      \/ \E v \in Ends, d \in Data \cup {NoData} : EndWith(n, v, d)
      \/ On([worker[n] EXCEPT !.ph = "backoff"])
  <2>1. CASE Pick(n)
    <3>1. PreviewVerdicts(n) \subseteq Ends
      BY DEF PreviewVerdicts, Verdict
    <3> QED
      BY <2>1, <3>1 DEF Pick, Verdict
  <2>2. CASE Return(n)
    <3>1. PICK o \in Outcomes[n] : EndWith(n, o.verdict, o.data)
      BY <2>2 DEF Return
    <3>2. o.verdict \in Ends /\ o.data \in Data
      BY WorkerAssumption
    <3> QED
      BY <3>1, <3>2
  <2>3. CASE Interrupt(n)
    BY <2>3 DEF Interrupt
  <2>4. CASE Flake(n)
    BY <2>4 DEF Flake, Verdict
  <2>5. CASE Retry(n)
    <3>1. PICK t \in Nat : t = worker[n].tries + 1
      BY DEF WorkerState
    <3>2. Call(n, t)
      BY <2>5, <3>1 DEF Retry
    <3> QED
      BY <3>2
  <2>6. CASE Fail(n)
    BY <2>6 DEF Fail, Verdict
  <2> QED
    BY <2>1, <2>2, <2>3, <2>4, <2>5, <2>6 DEF Work
<1>4. CASE \E t \in Nat : Call(n, t)
  <2>1. PICK t \in Nat : worker' = [worker EXCEPT ![n] = [Idle EXCEPT !.ph = "calling", !.tries = t]]
    BY <1>4 DEF Call
  <2> DEFINE w == [Idle EXCEPT !.ph = "calling", !.tries = t]
  <2>2. w \in WorkerState /\ w.ph = "calling"
    BY DEF Idle, WorkerState, Phase
  <2>3. worker'[n] = w
    BY <2>1
  <2> HIDE DEF w
  <2> QED
    BY <1>1, <2>1, <2>2, <2>3
<1>5. CASE \E v \in Ends, d \in Data \cup {NoData} : EndWith(n, v, d)
  <2>1. PICK v \in Ends, d \in Data \cup {NoData} : worker' = [worker EXCEPT ![n] = Out(v, d)]
    BY <1>5 DEF EndWith
  <2>2. Out(v, d) \in WorkerState /\ Out(v, d).ph = "out" /\ Out(v, d).verdict = v
    BY DEF Out, WorkerState, Phase
  <2>3. worker'[n] = Out(v, d)
    BY <2>1
  <2> QED
    BY <1>1, <2>1, <2>2, <2>3
<1>6. CASE On([worker[n] EXCEPT !.ph = "backoff"])
  BY <1>1, <1>6 DEF WorkerState, Phase
<1> QED
  BY <1>2, <1>4, <1>5, <1>6

\* A worker's step is a step of a node that the scheduler waits for.
LEMMA WorkDuringWait ==
  ASSUME SInv, NEW n \in Node, Work(n)
  PROVE  /\ pc = "wait" /\ n \in ready /\ UNCHANGED <<graph, disk>>
         /\ worker' \in [Node -> WorkerState] /\ worker'[n].ph # "off"
         /\ \A m \in Node \ {n} : worker'[m] = worker[m]
         /\ worker'[n].ph = "out" => worker'[n].verdict \in (Verdict \ {"bypassed"}) \cup {"paused"}
<1>1. worker \in [Node -> WorkerState]
  BY DEF SInv, TypeOK
<1>2. /\ UNCHANGED <<graph, disk>> /\ worker[n].ph \in {"queued", "calling", "backoff"}
      /\ worker'[n] \in WorkerState /\ worker'[n].ph \in {"calling", "backoff", "out"}
      /\ worker' = [worker EXCEPT ![n] = worker'[n]]
      /\ worker'[n].ph = "out" => worker'[n].verdict \in (Verdict \ {"bypassed"}) \cup {"paused"}
  BY <1>1, WorkerStep
<1>3. n \in ready /\ pc = "wait"
  BY <1>2 DEF SInv, Pool
<1> QED
  BY <1>1, <1>2, <1>3

\* Recording a node of the step finishes or pauses it and touches no other.
LEMMA RecordStep ==
  ASSUME SInv, NEW n \in Node, Record(n)
  PROVE  /\ n \in todo /\ graph[n].st = "running" /\ disk' = graph' /\ Good(graph')
         /\ graph'[n].st \in {"paused", "done"} /\ graph'[n].after = graph[n].after
         /\ \A m \in Node \ {n} : graph'[m] = graph[m]
<1>1. n \in todo /\ pc = "record" /\ disk' = graph'
  BY TurnsAreLeft DEF Record
<1>2. n \in ready /\ graph[n].st = "running" /\ worker[n] \in WorkerState
  BY <1>1 DEF SInv, TypeOK, Pool, Running, In
<1>3. worker[n].verdict \in (Verdict \ {"bypassed"}) \cup {"paused"}
  BY <1>1, <1>2 DEF SInv, Pool
<1>4. worker[n].data \in Data \cup {NoData}
  BY <1>2 DEF WorkerState
<1>5. graph \in Graph
  BY DEF SInv, TypeOK
<1>6. CASE worker[n].verdict = "paused"
  <2>1. graph' = PausedAt(graph, n)
    BY <1>6 DEF Record
  <2> QED
    BY <1>1, <1>2, <1>5, <2>1, PausedGood, OneNode DEF SInv
<1>7. CASE worker[n].verdict # "paused"
  <2>1. graph' = Recorded(graph, n, worker[n].verdict, worker[n].data)
    BY <1>7 DEF Record
  <2>2. PICK v \in Verdict \ {"bypassed"}, d \in Data \cup {NoData} :
             v = worker[n].verdict /\ d = worker[n].data
    BY <1>3, <1>4, <1>7
  <2>3. Good(graph')
    BY <1>2, <2>1, <2>2, RecordedGood DEF SInv
  <2> QED
    BY <1>1, <1>2, <1>5, <2>1, <2>3, OneNode
<1> QED
  BY <1>6, <1>7

\* The patch of the plan or of the planner, or no patch.
LEMMA PatchStep ==
  ASSUME SInv, StartRun \/ \E n \in Node : Consult(n)
  PROVE  /\ graph = disk /\ disk' = graph'
         /\ \/ graph' = graph
            \/ \E p \in Patch : Valid(graph, p) /\ graph' = Applied(graph, p)
<1>1. CASE StartRun
  <2>1. [add |-> Plan, twice |-> {}, link |-> {}] \in Patch
    BY SuperstepAssumption DEF Patch
  <2> QED
    BY <1>1, <2>1 DEF StartRun, file, SInv, Synced
<1>2. CASE \E n \in Node : Consult(n)
  BY <1>2, RulePatchType DEF Consult, file, SInv, Synced
<1> QED
  BY <1>1, <1>2

\* A step at its limit hands the claimed nodes back as they were.
LEMMA HandedBackGraph ==
  ASSUME NEW g, Good(g)
  PROVE  LET h == HandedBack(Claimed(g), Claimable(g))
         IN /\ Good(h) /\ Present(h) = Present(g)
            /\ \A n \in Node : /\ h[n].after = g[n].after
                               /\ g[n].st = "done" => h[n] = g[n]
                               /\ h[n].st = "running" => g[n].st = "running"
<1> DEFINE c == Claimed(g)
           h == HandedBack(c, Claimable(g))
<1>1. g \in Graph /\ c \in Graph /\ Good(c)
  BY ClaimedGraph, ClaimedGood DEF Good
<1>2. /\ Present(c) = Present(g) /\ Blocked(g) \cap Claimable(g) = {}
      /\ \A n \in Node : c[n].after = g[n].after
      /\ \A n \in Node : /\ n \in Claimable(g) => g[n].st = "pending" /\ c[n].st = "running"
                         /\ n \in Blocked(g) => g[n].st = "pending" /\ c[n].st = "done"
                         /\ n \notin Claimable(g) /\ n \notin Blocked(g) => c[n] = g[n]
  BY <1>1, ClaimedGraph, ClaimedNode
<1> HIDE DEF c
<1>3. \A n \in Node : h[n] = IF n \in Claimable(g) THEN [c[n] EXCEPT !.st = "pending"] ELSE c[n]
  BY DEF HandedBack
<1>4. \A n \in Node : c[n] \in TaskSpec
  BY <1>1 DEF Graph
<1>5. ASSUME NEW n \in Node
      PROVE  /\ h[n] \in TaskSpec
             /\ h[n].after = c[n].after /\ h[n].verdict = c[n].verdict
             /\ h[n].st = IF n \in Claimable(g) THEN "pending" ELSE c[n].st
  <2>1. CASE n \in Claimable(g)
    <3>1. h[n] = [c[n] EXCEPT !.st = "pending"]
      BY <1>3, <2>1
    <3> HIDE DEF h
    <3> QED
      BY <1>4, <2>1, <3>1 DEF TaskSpec, TaskState
  <2>2. CASE n \notin Claimable(g)
    BY <1>3, <1>4, <2>2
  <2> QED
    BY <2>1, <2>2
<1>6. h \in Graph
  BY <1>5 DEF Graph, HandedBack
<1> HIDE DEF h
<1>7. Good(h)
  BY <1>1, <1>2, <1>5, <1>6, HeldBack
<1>8. Present(h) = Present(g)
  BY <1>2, <1>5 DEF Present
<1>9. \A n \in Node : /\ h[n].after = g[n].after
                      /\ g[n].st = "done" => h[n] = g[n]
                      /\ h[n].st = "running" => g[n].st = "running"
  BY <1>2, <1>3, <1>5
<1> QED
  BY <1>7, <1>8, <1>9 DEF h, c

\* What the process finds in graph.json when it goes on.
LEMMA ReloadedNode ==
  ASSUME NEW g, Good(g)
  PROVE  /\ Good(Reloaded(g))
         /\ \A n \in Node : LET h == Reloaded(g)[n]
                            IN /\ h.st # "running" /\ h.after = g[n].after
                               /\ h = g[n] \/ (g[n].st = "running" /\ h.st = "pending")
<1>1. \A n \in Node : g[n] \in TaskSpec
  BY DEF Good, Graph
<1>2. \A n \in Node : Reloaded(g)[n] = IF g[n].st = "running" THEN [g[n] EXCEPT !.st = "pending"] ELSE g[n]
  BY DEF Reloaded
<1> QED
  BY <1>1, <1>2, ReloadedGood DEF TaskSpec

-------------------------------------------------------------------------------
(* Each part of the invariant is kept by every step.                       *)

\* The graph in memory stays good.
LEMMA GraphStep ==
  ASSUME SInv, Next
  PROVE  Good(graph')
<1>0. Good(graph) /\ Good(disk) /\ Good(EmptyGraph)
  BY EmptyGood DEF SInv
<1>1. ASSUME StartRun \/ \E n \in Node : Consult(n) PROVE Good(graph')
  BY <1>0, <1>1, PatchStep, AppliedGood
<1>2. CASE Claim
  BY <1>0, <1>2, ClaimedGood DEF Claim
<1>3. CASE Exceed
  BY <1>0, <1>3, HandedBackGraph DEF Exceed
<1>4. ASSUME NEW n \in Node, Record(n) PROVE Good(graph')
  BY <1>4, RecordStep
<1>5. CASE Wait \/ ApplyStep \/ EndStep \/ Finish
  BY <1>0, <1>5 DEF Wait, ApplyStep, EndStep, Finish, mem
<1>6. CASE Exit \/ Crash
  BY <1>0, <1>6 DEF Exit, Crash, Die
<1>7. ASSUME NEW n \in Node, Work(n) PROVE Good(graph')
  BY <1>0, <1>7, WorkDuringWait
<1>8. ASSUME NEW n \in Node, Answer(n) PROVE Good(graph')
  BY <1>0, <1>8, AnsweredGood DEF Answer
<1>9. CASE Load \/ Continue
  BY <1>0, <1>9, ReloadedGood DEF Load, Continue, Reopen
<1> QED
  BY <1>1, <1>2, <1>3, <1>4, <1>5, <1>6, <1>7, <1>8, <1>9 DEF Next, Schedule

\* Only a living process writes graph.json, and it writes its memory.
LEMMA DiskStep ==
  ASSUME SInv, Next, disk' # disk
  PROVE  disk' = graph' /\ pc # "dead" /\ pc' # "dead"
<1>1. ASSUME StartRun \/ \E n \in Node : Consult(n) PROVE disk' = graph'
  BY <1>1, PatchStep
<1>2. ASSUME NEW n \in Node, Work(n) PROVE FALSE
  BY <1>2, WorkDuringWait
<1>3. CASE Claim \/ Exceed \/ Wait \/ ApplyStep \/ EndStep \/ Finish \/ Exit \/ Crash \/ Load \/ Continue
  BY <1>3 DEF Claim, Exceed, Wait, ApplyStep, EndStep, Finish, Exit, Crash, Load, Continue, Die, Reopen,
              mem, file, AfterPlanning
<1>4. ASSUME NEW n \in Node, Record(n) \/ Answer(n) PROVE disk' = graph' /\ pc # "dead" /\ pc' # "dead"
  BY <1>4 DEF Record, Answer, sched
<1>5. ASSUME StartRun \/ \E n \in Node : Consult(n) PROVE pc # "dead" /\ pc' # "dead"
  BY <1>5 DEF StartRun, Consult, AfterPlanning
<1> QED
  BY <1>1, <1>2, <1>3, <1>4, <1>5 DEF Next, Schedule

\* A patch of the running process leaves running what runs.
LEMMA PatchRuns ==
  ASSUME SInv, StartRun \/ \E n \in Node : Consult(n)
  PROVE  In(graph', "running") = In(graph, "running")
<1>1. graph \in Graph
  BY DEF SInv, TypeOK
<1>2. CASE graph' = graph
  BY <1>2
<1>3. CASE \E p \in Patch : Valid(graph, p) /\ graph' = Applied(graph, p)
  <2>1. PICK p \in Patch : Valid(graph, p) /\ graph' = Applied(graph, p)
    BY <1>3
  <2>2. \A n \in Node : Applied(graph, p)[n].st = "running" <=> graph[n].st = "running"
    BY <1>1, <2>1, PatchKeepsRunning
  <2> QED
    BY <2>1, <2>2 DEF In
<1> QED
  BY <1>2, <1>3, PatchStep

\* The memory and graph.json go on agreeing.
LEMMA SyncedStep ==
  ASSUME SInv, Next
  PROVE  Synced'
<1>0. graph \in Graph /\ disk \in Graph /\ Synced /\ Good(disk)
  BY DEF SInv, TypeOK
<1>a. ASSUME disk' = graph', pc' # "dead"
      PROVE  Synced'
  BY <1>a DEF Synced, Saved
<1>1. ASSUME StartRun \/ \E n \in Node : Consult(n) PROVE Synced'
  BY <1>1, <1>a, PatchStep DEF StartRun, Consult, AfterPlanning
<1>2. CASE Claim
  <2>1. CASE Claimable(graph) # {}
    BY <1>2, <2>1, <1>a DEF Claim
  <2>2. CASE Claimable(graph) = {}
    <3>1. pc = "claim" /\ pc' = "finish" /\ disk' = disk /\ graph' = Claimed(graph)
      BY <1>2, <2>2 DEF Claim, file
    <3>2. ASSUME NEW n \in Node PROVE Saved(n)'
      <4>1. Saved(n)
        BY <1>0, <3>1 DEF Synced
      <4>2. \/ graph'[n] = graph[n]
            \/ graph[n].st = "pending" /\ graph'[n].st = "done" /\ graph'[n].after = graph[n].after
        BY <1>0, <2>2, <3>1, ClaimedNode, ClaimedGraph
      <4> QED
        BY <3>1, <4>1, <4>2 DEF Saved
    <3> QED
      BY <3>1, <3>2 DEF Synced
  <2> QED
    BY <2>1, <2>2
<1>3. CASE Exceed
  BY <1>3, <1>a DEF Exceed
<1>4. ASSUME NEW n \in Node, Record(n) PROVE Synced'
  BY <1>4, <1>a DEF Record
<1>5. CASE Wait \/ ApplyStep \/ EndStep \/ Finish
  BY <1>0, <1>5, <1>a DEF Wait, ApplyStep, EndStep, Finish, AfterPlanning, mem, file, Synced
<1>6. CASE Exit \/ Crash
  BY <1>6 DEF Exit, Crash, Die, Synced
<1>7. ASSUME NEW n \in Node, Work(n), UNCHANGED sched PROVE Synced'
  BY <1>0, <1>7, WorkDuringWait DEF sched, Synced
<1>8. ASSUME NEW n \in Node, Answer(n) PROVE Synced'
  BY <1>8, <1>a DEF Answer, sched
<1>9. CASE Load \/ Continue
  <2>1. graph' = Reloaded(disk) /\ disk' = disk /\ pc' = "claim"
    BY <1>9 DEF Load, Continue, Reopen, file
  <2> QED
    BY <1>0, <2>1, ReloadedNode DEF Synced, Saved
<1> QED
  BY <1>1, <1>2, <1>3, <1>4, <1>5, <1>6, <1>7, <1>8, <1>9 DEF Next, Schedule

\* A future is of a node of the step, and has ended once the wait is over.
LEMMA PoolStep ==
  ASSUME SInv, Next
  PROVE  Pool'
<1>0. /\ graph \in Graph /\ worker \in [Node -> WorkerState]
      /\ Pool /\ todo \subseteq ready /\ ready \subseteq Node
  BY DEF SInv, TypeOK
<1>a. Idle.ph = "off" /\ Queued.ph = "queued"
  BY DEF Idle, Queued
<1>b. In(EmptyGraph, "running") = {}
  BY DEF In, EmptyGraph, Absent
<1>1. CASE StartRun
  BY <1>0, <1>1, PatchRuns DEF StartRun, Pool, Running
<1>2. CASE Claim
  <2>1. /\ pc = "claim" /\ graph' = Claimed(graph) /\ ready' = Claimable(graph) /\ todo' = {}
        /\ pc' = (IF ready' = {} THEN "finish" ELSE "wait")
        /\ In(graph, "running") = {} /\ \A n \in Node : worker[n].ph = "off"
    BY <1>0, <1>2 DEF Claim, Pool, Running
  <2>2. \A n \in Node : n \in ready' <=> graph'[n].st = "running"
    <3>1. \A n \in Node : graph[n].st # "running"
      BY <2>1 DEF In
    <3> QED
      BY <1>0, <2>1, <3>1, ClaimedNode
  <2>3. In(graph', "running") = ready'
    BY <2>1, <2>2 DEF In, Claimable
  <2>4. \A n \in Node : IF n \in ready' THEN worker'[n] = Queued ELSE worker'[n] = worker[n]
    BY <1>2 DEF Claim
  <2> QED
    BY <1>a, <2>1, <2>3, <2>4 DEF Pool, Running
<1>3. CASE Exceed
  <2>1. \A n \in Node : graph'[n].st = "running" => graph[n].st = "running"
    BY <1>3, HandedBackGraph DEF Exceed, SInv
  <2> QED
    BY <1>0, <1>3, <2>1 DEF Exceed, Pool, Running, In
<1>4. CASE Wait
  BY <1>0, <1>4 DEF Wait, AllDone, InPhase, Pool, Running, mem
<1>5. ASSUME NEW n \in Node, Record(n) PROVE Pool'
  <2>1. /\ pc = "record" /\ todo' = todo \ {n} /\ n \in todo /\ UNCHANGED <<worker, ready>>
        /\ pc' = (IF todo' = {} THEN "apply" ELSE "record")
    BY <1>5, RecordStep DEF Record
  <2>2. In(graph', "running") = In(graph, "running") \ {n}
    <3>1. graph'[n].st # "running" /\ \A m \in Node \ {n} : graph'[m] = graph[m]
      BY <1>5, RecordStep
    <3> QED
      BY <3>1 DEF In
  <2> QED
    BY <1>0, <2>1, <2>2 DEF Pool, Running
<1>6. CASE ApplyStep
  BY <1>0, <1>6 DEF ApplyStep, AfterPlanning, Pool, Running
<1>7. ASSUME NEW n \in Node, Consult(n) PROVE Pool'
  <2>1. In(graph', "running") = {} /\ pc = "plan"
    BY <1>0, <1>7, PatchRuns DEF Consult, Pool, Running
  <2> QED
    BY <1>0, <1>7, <2>1 DEF Consult, AfterPlanning, Pool, Running
<1>8. CASE EndStep
  BY <1>0, <1>8, <1>a DEF EndStep, Pool, Running, mem
<1>9. CASE Finish
  BY <1>0, <1>9 DEF Finish, Pool, Running, mem
<1>10. CASE Exit \/ Crash
  BY <1>10, <1>a, <1>b DEF Exit, Crash, Die, Pool, Running
<1>11. ASSUME NEW n \in Node, Work(n), UNCHANGED sched PROVE Pool'
  <2>1. /\ pc = "wait" /\ n \in ready /\ graph' = graph
        /\ \A m \in Node \ {n} : worker'[m] = worker[m]
        /\ worker'[n].ph = "out" => worker'[n].verdict \in (Verdict \ {"bypassed"}) \cup {"paused"}
    BY <1>11, WorkDuringWait
  <2> QED
    BY <1>0, <1>11, <2>1 DEF sched, Pool, Running
<1>12. ASSUME NEW n \in Node, Answer(n) PROVE Pool'
  <2>1. graph'[n].st = "pending" /\ graph[n].st = "paused" /\ \A m \in Node \ {n} : graph'[m] = graph[m]
    BY <1>0, <1>12, OneNode DEF Answer
  <2>2. In(graph', "running") = In(graph, "running")
    BY <2>1 DEF In
  <2> QED
    BY <1>0, <1>12, <2>2 DEF Answer, sched, Pool, Running
<1>13. CASE Load \/ Continue
  <2>1. /\ pc \in {"dead", "returned"} /\ pc' = "claim" /\ graph' = Reloaded(disk)
        /\ UNCHANGED <<worker, ready, todo>>
    BY <1>13 DEF Load, Continue, Reopen
  <2>2. In(graph', "running") = {}
    BY <2>1, ReloadedNode DEF SInv, In
  <2> QED
    BY <1>0, <2>1, <2>2 DEF Pool, Running
<1> QED
  BY <1>1, <1>2, <1>3, <1>4, <1>5, <1>6, <1>7, <1>8, <1>9, <1>10, <1>11, <1>12, <1>13 DEF Next, Schedule

\* From the turn of the loop to the last future nothing changes what nodes read.
LEMMA SnapshotStep ==
  ASSUME SInv, Next
  PROVE  Snapshot'
<1>0. Snapshot
  BY DEF SInv
<1>1. CASE StartRun
  BY <1>1 DEF StartRun, Snapshot, Mark
<1>2. CASE Claim
  BY <1>0, <1>2 DEF Claim, Snapshot
<1>3. CASE Exceed \/ Wait \/ ApplyStep \/ Finish \/ Exit \/ Crash
  BY <1>3 DEF Exceed, Wait, ApplyStep, Finish, Exit, Crash, Die, AfterPlanning, Snapshot
<1>4. ASSUME NEW n \in Node, Record(n) \/ Consult(n) PROVE Snapshot'
  BY <1>4 DEF Record, Consult, AfterPlanning, Snapshot
<1>5. CASE EndStep
  BY <1>5 DEF EndStep, Snapshot, Mark, mem
<1>6. ASSUME NEW n \in Node, Work(n), UNCHANGED <<chan, sched>> PROVE Snapshot'
  BY <1>0, <1>6, WorkDuringWait DEF sched, Snapshot
<1>7. ASSUME NEW n \in Node, Answer(n) PROVE Snapshot'
  BY <1>0, <1>7 DEF Answer, sched, Snapshot
<1>8. CASE Load \/ Continue
  BY <1>8 DEF Load, Continue, Reopen, Snapshot, Mark
<1> QED
  BY <1>1, <1>2, <1>3, <1>4, <1>5, <1>6, <1>7, <1>8 DEF Next, Schedule

\* Channels go on being channels.
LEMMA ChannelStep ==
  ASSUME SInv, Next
  PROVE  ChannelState(chan') /\ ChannelState(saved')
<1>0. ChannelState(chan) /\ ChannelState(saved)
  BY DEF SInv
<1>1. ChannelState(FreshChannels)
  BY DEF ChannelState, FreshChannels
<1>2. \A made : ChannelState(AppliedTo(chan, made))
  BY <1>0 DEF ChannelState, AppliedTo
<1>3. ChannelState(Restored(saved))
  <2> DEFINE ch == [step |-> saved.step, held |-> saved.held, version |-> saved.version]
  <2>1. saved = ch /\ saved.step \in Nat
    BY <1>0 DEF ChannelState
  <2>2. Restored(ch) = [step |-> saved.step,
                        held |-> [c \in Channel |-> IF Kind[c] = "reducer" /\ saved.held[c] = <<>>
                                                      THEN Fresh(c) ELSE saved.held[c]],
                        version |-> saved.version]
    BY DEF Restored
  <2> QED
    BY <2>1, <2>2 DEF ChannelState
<1>4. chan' \in {chan, FreshChannels, Restored(saved)} \cup {AppliedTo(chan, Made(worker, Concluded(worker, ready)))}
  BY DEF Next, Schedule, StartRun, Claim, Exceed, Wait, ApplyStep, EndStep, Finish, Exit, Record, Consult,
         Answer, Continue, Crash, Load, Reopen, Die, mem
<1>5. saved' \in {saved, chan, chan'}
  BY DEF Next, Schedule, StartRun, Claim, Exceed, Wait, ApplyStep, EndStep, Finish, Exit, Record, Consult,
         Answer, Continue, Crash, Load, Reopen, Die, file
<1> QED
  BY <1>0, <1>1, <1>2, <1>3, <1>4, <1>5

\* The state machine keeps to its types.
LEMMA TypeStep ==
  ASSUME SInv, Next
  PROVE  TypeOK'
<1> USE DEF TypeOK
<1>0. TypeOK /\ Idle \in WorkerState /\ Queued \in WorkerState
  BY DEF SInv, Idle, Queued, WorkerState, Phase
<1>1. graph' \in Graph /\ disk' \in Graph
  BY <1>0, GraphStep, DiskStep DEF Good
<1>2. chan'.step \in Nat /\ saved'.step \in Nat
  BY ChannelStep DEF ChannelState
<1>3. worker' \in [Node -> WorkerState]
  <2>1. ASSUME NEW n \in Node, Work(n) PROVE worker' \in [Node -> WorkerState]
    BY <2>1, WorkDuringWait
  <2> QED
    BY <1>0, <2>1 DEF Next, Schedule, StartRun, Claim, Exceed, Wait, ApplyStep, EndStep, Finish, Exit, Record,
                Consult, Answer, Continue, Crash, Load, Die
<1>4. step' \in Nat /\ deaths' \in Nat /\ pc' \in PC
  BY <1>0 DEF Next, Schedule, StartRun, Claim, Exceed, Wait, ApplyStep, EndStep, Finish, Exit, Record, Consult,
         Answer, Continue, Crash, Load, Reopen, Die, AfterPlanning, sched, PC
<1>5. fired' \subseteq Rules
  BY <1>0 DEF Next, Schedule, StartRun, Claim, Exceed, Wait, ApplyStep, EndStep, Finish, Exit, Record, Consult,
         Answer, Continue, Crash, Load, Reopen, Die, sched, Firing
<1>6. todo' \subseteq ready' /\ ready' \subseteq Node
  <2>1. todo = {} \/ pc \in {"record", "plan", "raised"}
    BY DEF SInv, Pool
  <2>2. Claimable(graph) \subseteq Node
    BY DEF Claimable, In
  <2> QED
    BY <1>0, <2>1, <2>2 DEF Next, Schedule, StartRun, Claim, Exceed, Wait, ApplyStep, EndStep, Finish, Exit,
                Record, Consult, Answer, Continue, Crash, Load, Reopen, Die, sched, Concluded
<1> QED
  BY <1>1, <1>2, <1>3, <1>4, <1>5, <1>6

-------------------------------------------------------------------------------
(* The inductive invariant, and what follows from it.                      *)

\* The initial state satisfies the invariant.
LEMMA SInvInit == Init => SInv
<1> SUFFICES ASSUME Init PROVE SInv
  OBVIOUS
<1>1. Good(graph) /\ Good(disk) /\ graph \in Graph /\ disk \in Graph
  BY EmptyGood DEF Init, Good
<1>2. ChannelState(chan) /\ ChannelState(saved)
  BY DEF Init, ChannelState, FreshChannels
<1>3. In(graph, "running") = {} /\ \A n \in Node : worker[n].ph = "off"
  BY DEF Init, In, EmptyGraph, Absent, Idle
<1>4. Synced /\ Pool /\ Snapshot
  BY <1>3 DEF Init, Synced, Pool, Running, Snapshot
<1>5. TypeOK
  BY <1>1, <1>2 DEF Init, TypeOK, ChannelState, Idle, WorkerState, Phase, PC
<1> QED
  BY <1>1, <1>2, <1>4, <1>5 DEF SInv

\* Every step keeps the invariant.
LEMMA SInvStep == SInv /\ [Next]_vars => SInv'
<1>1. ASSUME SInv, Next PROVE SInv'
  <2>1. Good(graph') /\ Good(disk')
    BY <1>1, GraphStep, DiskStep DEF SInv
  <2> QED
    BY <1>1, <2>1, TypeStep, ChannelStep, SyncedStep, PoolStep, SnapshotStep DEF SInv
<1>2. ASSUME SInv, UNCHANGED vars PROVE SInv'
  BY <1>2 DEF vars, sched, SInv, TypeOK, Synced, Saved, Pool, Running, In, Snapshot
<1> QED
  BY <1>1, <1>2

\* The invariant holds throughout every behaviour.
THEOREM SuperstepInvariance == Spec => []SInv
BY SInvInit, SInvStep, PTL DEF Spec

\* The store and the scheduler keep to their types, whatever is killed.
THEOREM SuperstepTypeCorrect == Spec => []TypeOK
<1>1. SInv => TypeOK
  BY DEF SInv
<1> QED
  BY <1>1, SuperstepInvariance, PTL

\* All nodes of a step run against one snapshot: an action is called, first or
\* again, only while graph and channels are those the step began with.
THEOREM SnapshotNeverMoves == Spec => OneSnapshot
<1>1. ASSUME SInv, Next, calls' # calls
      PROVE  graph = Claimed(mark.graph) /\ Visible(chan) = Visible(mark.chan)
  <2>1. PICK n \in Node : Work(n)
    BY <1>1 DEF Next, Schedule, StartRun, Claim, Exceed, Wait, ApplyStep, EndStep, Finish, Exit, Record,
                Consult, Answer, Continue, Crash, Load, Die
  <2>2. pc = "wait"
    BY <1>1, <2>1, WorkDuringWait
  <2> QED
    BY <1>1, <2>2 DEF SInv, Snapshot
<1>2. SInv /\ [Next]_vars =>
        [calls' # calls => graph = Claimed(mark.graph) /\ Visible(chan) = Visible(mark.chan)]_vars
  BY <1>1 DEF vars
<1> QED
  BY <1>2, SuperstepInvariance, PTL DEF Spec, OneSnapshot

\* No step changes a finished node of graph.json.
LEMMA DoneStep ==
  ASSUME SInv, Next, NEW n \in Node, disk[n].st = "done"
  PROVE  disk'[n] = disk[n]
<1> SUFFICES ASSUME disk' # disk PROVE disk'[n] = disk[n]
  OBVIOUS
<1>1. disk' = graph' /\ pc # "dead" /\ pc' # "dead" /\ graph \in Graph
  BY DiskStep DEF SInv, TypeOK
<1>2. graph[n] = disk[n]
  BY <1>1 DEF SInv, Synced, Saved
<1> SUFFICES graph'[n] = graph[n]
  BY <1>1, <1>2
<1>3. ASSUME StartRun \/ \E m \in Node : Consult(m) PROVE graph'[n] = graph[n]
  BY <1>1, <1>2, <1>3, PatchStep, AppliedGraph
<1>4. CASE Claim
  <2>1. n \notin Claimable(graph) /\ n \notin Blocked(graph)
    BY <1>1, <1>2, ClaimedNode
  <2> QED
    BY <1>1, <1>4, <2>1, ClaimedNode DEF Claim
<1>5. CASE Exceed
  BY <1>2, <1>5, HandedBackGraph DEF Exceed, SInv
<1>6. ASSUME NEW m \in Node, Record(m) PROVE graph'[n] = graph[n]
  BY <1>2, <1>6, RecordStep
<1>7. ASSUME NEW m \in Node, Work(m) PROVE FALSE
  BY <1>7, WorkDuringWait
<1>8. ASSUME NEW m \in Node, Answer(m) PROVE graph'[n] = graph[n]
  BY <1>1, <1>2, <1>8, OneNode DEF Answer
<1>9. CASE Wait \/ ApplyStep \/ EndStep \/ Finish
  BY <1>9 DEF Wait, ApplyStep, EndStep, Finish, mem
<1>10. ~(Exit \/ Crash \/ Load \/ Continue)
  BY DEF Exit, Crash, Load, Continue, Die, Reopen, file
<1> QED
  BY <1>3, <1>4, <1>5, <1>6, <1>7, <1>8, <1>9, <1>10 DEF Next, Schedule

-------------------------------------------------------------------------------
(* How graph.json steps in DurableGraph.                                   *)

\* The verdicts of DurableGraph are the results in graph.json.
LEMMA MappedSets ==
  ASSUME Told(disk)
  PROVE  DG!Finished = Done(disk) /\ DG!Failed = Unresolved(disk)
BY DEF DG!Finished, DG!Failed, Told, Done, In, Unresolved

\* A patch, of the plan or of the planner, is a step that grows the graph.
LEMMA GrowStep ==
  ASSUME Good(disk), NEW p \in Patch, Valid(disk, p), disk' = Applied(disk, p)
  PROVE  DG!Grow
<1>1. Grows(disk, disk')
  BY PatchGrows
<1>2. [n \in Node |-> disk'[n].verdict] = [n \in Node |-> disk[n].verdict]
  BY <1>1 DEF Grows
<1>3. \A n \in DG!Finished : n \in Node /\ disk[n].verdict # "none"
  BY DEF DG!Finished
<1> QED
  BY <1>1, <1>2, <1>3 DEF Grows, DG!Grow

\* A step that changes neither nodes nor dependencies nor a finished node
\* gives verdicts, each for its reason.
LEMMA FinishStep ==
  ASSUME Good(disk), Good(disk'), Present(disk') = Present(disk),
         \A n \in Node : /\ disk'[n].after = disk[n].after
                         /\ disk[n].st = "done" => disk'[n] = disk[n]
  PROVE  DG!Finish
<1>1. [n \in Node |-> disk'[n].after] = [n \in Node |-> disk[n].after]
  OBVIOUS
<1>2. Told(disk) /\ Told(disk')
  BY DEF Good
<1>3. DG!Finished = Done(disk) /\ DG!Finished' = Done(disk') /\ DG!Failed' = Unresolved(disk')
  BY <1>2, MappedSets, VerdictsAreDone DEF DG!Finished, DG!Failed, Told, Done, In, Unresolved
<1>4. \A n \in Done(disk) : n \in Node /\ disk'[n] = disk[n]
  BY DEF Done, In
<1>5. \A n \in Node \ Present(disk) : disk'[n].verdict = "none"
  BY <1>2 DEF Told, Present
<1>6. Present(disk) \subseteq Node
  BY DEF Present
<1> QED
  BY <1>1, <1>3, <1>4, <1>5, <1>6, VerdictsHaveReasons DEF DG!Finish

\* Every step of the executor is a step of DurableGraph, or none.
LEMMA RefinementStep == SInv /\ SInv' /\ [Next]_vars => [DG!DNext]_(DG!dvars)
<1> SUFFICES ASSUME SInv, SInv', Next, disk' # disk
             PROVE  DG!DNext
  BY DEF vars, DG!dvars, Present
<1>0. disk' = graph' /\ pc # "dead" /\ graph \in Graph /\ Good(disk) /\ Good(disk')
  BY DiskStep DEF SInv, TypeOK
<1>a. /\ Present(graph) = Present(disk)
      /\ \A n \in Node : graph[n].after = disk[n].after
  BY <1>0 DEF SInv, Synced, Saved, Present
<1>b. ASSUME Present(graph') = Present(graph),
             \A n \in Node : graph'[n].after = graph[n].after
      PROVE  DG!DNext
  BY <1>0, <1>a, <1>b, DoneStep, FinishStep DEF DG!DNext
<1>1. ASSUME StartRun \/ \E n \in Node : Consult(n) PROVE DG!DNext
  <2>1. graph = disk /\ graph' # graph
    BY <1>0, <1>1, PatchStep
  <2>2. PICK p \in Patch : Valid(graph, p) /\ graph' = Applied(graph, p)
    BY <1>1, <2>1, PatchStep
  <2> QED
    BY <1>0, <2>1, <2>2, GrowStep DEF DG!DNext
<1>2. CASE Claim
  BY <1>0, <1>2, <1>b, ClaimedGraph DEF Claim
<1>3. CASE Exceed
  BY <1>3, <1>b, HandedBackGraph DEF Exceed, SInv
<1>4. ASSUME NEW n \in Node, Record(n) PROVE DG!DNext
  <2>1. /\ graph[n].st = "running" /\ graph'[n].st \in {"paused", "done"}
        /\ graph'[n].after = graph[n].after /\ \A m \in Node \ {n} : graph'[m] = graph[m]
    BY <1>4, RecordStep
  <2>2. Present(graph') = Present(graph)
    BY <2>1 DEF Present
  <2> QED
    BY <1>b, <2>1, <2>2
<1>5. CASE Wait \/ ApplyStep \/ EndStep \/ Finish
  BY <1>5, <1>b DEF Wait, ApplyStep, EndStep, Finish, mem
<1>6. ASSUME NEW n \in Node, Answer(n) PROVE DG!DNext
  <2>1. /\ graph[n].st = "paused" /\ graph'[n].st = "pending"
        /\ graph'[n].after = graph[n].after /\ \A m \in Node \ {n} : graph'[m] = graph[m]
    BY <1>0, <1>6, OneNode DEF Answer
  <2>2. Present(graph') = Present(graph)
    BY <2>1 DEF Present
  <2> QED
    BY <1>b, <2>1, <2>2
<1>7. ASSUME NEW n \in Node, Work(n) PROVE FALSE
  BY <1>7, WorkDuringWait
<1>8. ~(Exit \/ Crash \/ Load \/ Continue)
  BY DEF Exit, Crash, Load, Continue, Die, Reopen, file
<1> QED
  BY <1>1, <1>2, <1>3, <1>4, <1>5, <1>6, <1>7, <1>8 DEF Next, Schedule

\* The superstep executor, with its threads, step limit, conflicts, pauses and
\* crashes, implements the abstract promise of graph.json too.
THEOREM SuperstepRefinement == Spec => KeepsItsPromise
<1>1. Init => DG!DInit
  BY DEF Init, DG!DInit, EmptyGraph, Absent, Present
<1> QED
  BY <1>1, RefinementStep, SuperstepInvariance, PTL DEF Spec, KeepsItsPromise, DG!DSpec

===============================================================================
