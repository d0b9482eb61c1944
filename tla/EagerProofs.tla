------------------------------ MODULE EagerProofs ------------------------------
(***************************************************************************)
(* Theorems about EagerExecutor, for every plan, every rule set, every     *)
(* number of workers, tries and crashes.                                   *)
(*                                                                         *)
(* None of the safety properties is inductive.  What makes them so is how  *)
(* the memory, graph.json and the futures agree (Synced), what a future    *)
(* can hold (Futures), what the scheduler knows when it stops (Quiet) and  *)
(* when a write's only call is still ahead (OneCall).                      *)
(***************************************************************************)
EXTENDS EagerExecutor, GraphStoreProofs

\* graph.json is up to date on n, but for a bypass that is not saved yet and,
\* right after a load, for a node that was mid-flight and is pending again.
Saved(n) ==
  \/ graph[n] = disk[n]
  \/ /\ disk[n].st \in {"pending", "running"}
     /\ graph[n].st \in {"pending", "done"}
     /\ graph[n].after = disk[n].after

Synced ==
  /\ pc = "dead" => graph = EmptyGraph
  /\ pc # "dead" => \A n \in Node : Saved(n)
  /\ pc \in {"start", "plan"} => graph = disk
  /\ \A n \in Node : worker[n].ph # "off" <=> graph[n].st = "running"

Futures ==
  /\ batch \subseteq InPhase("out")
  /\ \A n \in Node : worker[n].ph = "out" =>
       worker[n].verdict \in (Verdict \ {"bypassed"}) \cup {"paused"}
  /\ \A n \in Node : worker[n].ph = "calling" => worker[n].tries >= 1
  /\ \A w \in Writes : worker[w].ph # "backoff"

Quiet ==
  pc \in {"finish", "returned"} =>
    /\ InFlight = {}
    /\ \A n \in In(graph, "pending") :
         graph[n].answer = "none" => ~(graph[n].after \subseteq Done(graph))

\* In this life the action of w has not been called yet.
Ahead(w) ==
  \/ graph[w].st \in {"absent", "pending", "paused"}
  \/ worker[w].ph = "queued"
  \/ worker[w].ph = "out" /\ worker[w].verdict = "paused"

OneCall ==
  \A w \in Writes \ Asking :
    /\ calls[w] <= deaths + 1
    /\ Ahead(w) => calls[w] <= deaths

IInv ==
  /\ TypeOK /\ Good(graph) /\ Good(disk)
  /\ Synced /\ Futures /\ Quiet /\ OneCall

-------------------------------------------------------------------------------

\* What the worker of n may do: it moves n's future on, and calls the action
\* at most once, from a node that was queued or between two attempts.
LEMMA WorkerStep ==
  ASSUME worker \in [Node -> WorkerState], NEW n \in Node, Work(n)
  PROVE  /\ UNCHANGED <<graph, disk, env>>
         /\ worker[n].ph \in {"queued", "calling", "backoff"}
         /\ worker'[n] \in WorkerState /\ worker'[n].ph \in {"calling", "backoff", "out"}
         /\ worker' = [worker EXCEPT ![n] = worker'[n]]
         /\ worker'[n].ph = "out" => worker'[n].verdict \in (Verdict \ {"bypassed"}) \cup {"paused"}
         /\ worker'[n].ph = "calling" => worker'[n].tries >= 1
         /\ worker'[n].ph = "backoff" =>
              worker[n].ph = "calling" /\ n \in Flaky /\ worker[n].tries < Attempts(n)
         /\ \/ /\ calls' = [calls EXCEPT ![n] = @ + 1] /\ worker'[n].ph = "calling"
               /\ worker[n].ph = "backoff" \/ (worker[n].ph = "queued" /\ MayCall(n))
            \/ /\ calls' = calls /\ worker'[n].ph # "calling"
               /\ worker'[n].ph = "out" /\ worker'[n].verdict = "paused"
                    => worker[n].ph = "queued" \/ n \in Asking
<1>1. worker[n] \in WorkerState /\ worker \in [Node -> WorkerState]
  OBVIOUS
<1>2. ASSUME NEW t \in Nat \ {0}, Call(n, t)
      PROVE  /\ worker'[n] \in WorkerState /\ worker'[n].ph = "calling" /\ worker'[n].tries = t
             /\ worker' = [worker EXCEPT ![n] = worker'[n]]
             /\ calls' = [calls EXCEPT ![n] = @ + 1]
  BY <1>1, <1>2 DEF Call, Idle, WorkerState, Phase
<1>3. ASSUME NEW v \in (Verdict \ {"bypassed"}) \cup {"paused"}, NEW d \in Data \cup {NoData},
             EndWith(n, v, d)
      PROVE  /\ worker'[n] \in WorkerState /\ worker'[n].ph = "out" /\ worker'[n].verdict = v
             /\ worker' = [worker EXCEPT ![n] = worker'[n]]
             /\ calls' = calls
  BY <1>1, <1>3 DEF EndWith, Out, WorkerState, Phase
<1>4. CASE Pick(n)
  <2>1. PreviewVerdicts(n) \subseteq Verdict \ {"bypassed"}
    BY DEF PreviewVerdicts, Verdict
  <2>2. \/ MayCall(n) /\ Call(n, 1)
        \/ \E v \in (Verdict \ {"bypassed"}) \cup {"paused"} : EndWith(n, v, NoData)
    BY <1>4, <2>1 DEF Pick, Verdict
  <2>3. worker[n].ph = "queued" /\ UNCHANGED <<graph, disk, env>>
    BY <1>4 DEF Pick
  <2>4. CASE MayCall(n) /\ Call(n, 1)
    BY <1>2, <2>3, <2>4
  <2>5. CASE \E v \in (Verdict \ {"bypassed"}) \cup {"paused"} : EndWith(n, v, NoData)
    BY <1>3, <2>3, <2>5
  <2> QED
    BY <2>2, <2>4, <2>5
<1>5. CASE Return(n)
  <2>1. PICK o \in Outcomes[n] : EndWith(n, o.verdict, o.data)
    BY <1>5 DEF Return
  <2>2. o.verdict \in Verdict \ {"bypassed"} /\ o.data \in Data
    BY WorkerAssumption
  <2>3. worker[n].ph = "calling" /\ UNCHANGED <<graph, disk, env>> /\ o.verdict # "paused"
    BY <1>5, <2>2 DEF Return, Verdict
  <2> QED
    BY <1>3, <2>1, <2>2, <2>3
<1>6. CASE Interrupt(n)
  BY <1>3, <1>6 DEF Interrupt
<1>7. CASE Flake(n)
  <2>1. worker[n].ph = "calling" /\ n \in Flaky /\ UNCHANGED <<graph, disk, env>>
    BY <1>7 DEF Flake
  <2>2. CASE worker[n].tries < Attempts(n)
    <3>1. worker' = [worker EXCEPT ![n] = [worker[n] EXCEPT !.ph = "backoff"]] /\ calls' = calls
      BY <1>7, <2>2 DEF Flake
    <3>2. worker'[n] = [worker[n] EXCEPT !.ph = "backoff"]
      BY <1>1, <3>1
    <3>3. worker'[n] \in WorkerState /\ worker'[n].ph = "backoff"
      BY <1>1, <3>2 DEF WorkerState, Phase
    <3> QED
      BY <2>1, <2>2, <3>1, <3>2, <3>3
  <2>3. CASE ~(worker[n].tries < Attempts(n))
    <3>1. EndWith(n, "failed", NoData)
      BY <1>7, <2>3 DEF Flake
    <3> QED
      BY <1>3, <2>1, <3>1 DEF Verdict
  <2> QED
    BY <2>2, <2>3
<1>8. CASE Retry(n)
  <2>1. PICK t \in Nat \ {0} : t = worker[n].tries + 1
    BY <1>1 DEF WorkerState
  <2>2. Call(n, t)
    BY <1>8, <2>1 DEF Retry
  <2>3. worker[n].ph = "backoff" /\ UNCHANGED <<graph, disk, env>>
    BY <1>8 DEF Retry
  <2>4. /\ worker'[n] \in WorkerState /\ worker'[n].ph = "calling" /\ worker'[n].tries = t
        /\ worker' = [worker EXCEPT ![n] = worker'[n]]
        /\ calls' = [calls EXCEPT ![n] = @ + 1]
    BY <1>2, <2>2
  <2>5. worker'[n].tries >= 1
    BY <2>4
  <2> QED
    BY <2>3, <2>4, <2>5
<1>9. CASE Fail(n)
  <2>1. PICK v \in {"declined", "failed"} : EndWith(n, v, NoData)
    BY <1>9 DEF Fail
  <2>2. v \in Verdict \ {"bypassed"} /\ v # "paused"
    BY DEF Verdict
  <2> QED
    BY <1>3, <1>9, <2>1, <2>2 DEF Fail
<1> QED
  BY <1>4, <1>5, <1>6, <1>7, <1>8, <1>9 DEF Work

\* What a worker's step changes, in a state of the right types.
LEMMA WorkStep ==
  ASSUME TypeOK, NEW n \in Node, Work(n)
  PROVE  /\ UNCHANGED <<graph, disk, env>>
         /\ worker[n].ph \in {"queued", "calling", "backoff"}
         /\ worker'[n] \in WorkerState /\ worker'[n].ph \in {"calling", "backoff", "out"}
         /\ worker' = [worker EXCEPT ![n] = worker'[n]]
         /\ worker'[n].ph = "out" => worker'[n].verdict \in (Verdict \ {"bypassed"}) \cup {"paused"}
         /\ worker'[n].ph = "calling" => worker'[n].tries >= 1
         /\ worker'[n].ph = "backoff" =>
              worker[n].ph = "calling" /\ n \in Flaky /\ worker[n].tries < Attempts(n)
         /\ \/ /\ calls' = [calls EXCEPT ![n] = @ + 1] /\ worker'[n].ph = "calling"
               /\ worker[n].ph = "backoff" \/ (worker[n].ph = "queued" /\ MayCall(n))
            \/ /\ calls' = calls /\ worker'[n].ph # "calling"
               /\ worker'[n].ph = "out" /\ worker'[n].verdict = "paused"
                    => worker[n].ph = "queued" \/ n \in Asking
BY WorkerStep DEF TypeOK

\* The state machine keeps to its types.
LEMMA TypeStep == TypeOK /\ [Next]_vars => TypeOK'
<1> SUFFICES ASSUME TypeOK, [Next]_vars
             PROVE  TypeOK'
  OBVIOUS
<1> USE DEF TypeOK
<1>0. Idle \in WorkerState /\ Queued \in WorkerState
  BY DEF Idle, Queued, WorkerState, Phase
<1>1. CASE StartRun
  <2> DEFINE p == [add |-> Plan, twice |-> {}, link |-> {}]
  <2>1. p \in Patch
    BY EagerAssumption DEF Patch
  <2>2. Valid(graph, p) => Applied(graph, p) \in Graph
    BY <2>1, AppliedGraph
  <2> QED
    BY <1>1, <2>2 DEF StartRun, PC
<1>2. CASE Claim
  <2>1. graph' = Claimed(graph) /\ Claimed(graph) \in Graph
    BY <1>2, ClaimedGraph DEF Claim
  <2>2. disk' \in Graph
    BY <1>2, <2>1 DEF Claim, ClaimCheckpoint
  <2>3. worker' \in [Node -> WorkerState]
    BY <1>0, <1>2 DEF Claim
  <2> QED
    BY <1>2, <2>1, <2>2, <2>3 DEF Claim, PC
<1>3. CASE Wait
  BY <1>3 DEF Wait, InPhase, PC
<1>4. CASE Finish
  BY <1>4 DEF Finish, PC
<1>5. CASE Exit
  BY <1>0, <1>5, EmptyGood DEF Exit, PC, Good
<1>6. ASSUME NEW n \in Node, Handle(n)
      PROVE  TypeOK'
  <2>1. worker[n] \in WorkerState /\ graph[n] \in TaskSpec
    BY DEF Graph
  <2>2. CASE worker[n].verdict = "paused"
    <3>1. [graph[n] EXCEPT !.st = "paused", !.answer = "none"] \in TaskSpec
      BY <2>1 DEF TaskSpec, TaskState
    <3>2. PausedAt(graph, n) \in Graph
      BY <3>1 DEF PausedAt, Graph
    <3> QED
      BY <1>0, <1>6, <2>2, <3>2 DEF Handle, AfterOutcome, PC
  <2>3. CASE worker[n].verdict # "paused"
    <3>1. [graph[n] EXCEPT !.st = "done", !.verdict = worker[n].verdict, !.data = worker[n].data]
            \in TaskSpec
      BY <2>1, <2>3 DEF WorkerState, TaskSpec, TaskState
    <3>2. Recorded(graph, n, worker[n].verdict, worker[n].data) \in Graph
      BY <3>1 DEF Recorded, Graph
    <3> QED
      BY <1>0, <1>6, <2>3, <3>2 DEF Handle, PC
  <2> QED
    BY <2>2, <2>3
<1>7. ASSUME NEW n \in Node, Consult(n)
      PROVE  TypeOK'
  <2> DEFINE p == RulePatch(graph, Firing(graph, fired, n))
  <2>1. Valid(graph, p) => Applied(graph, p) \in Graph
    BY RulePatchType, AppliedGraph
  <2>2. fired' \subseteq Rules
    BY <1>7 DEF Consult, Firing
  <2>3. graph' \in Graph /\ disk' \in Graph /\ pc' \in PC
    BY <1>7, <2>1 DEF Consult, AfterOutcome, PC
  <2> QED
    BY <1>7, <2>2, <2>3 DEF Consult
<1>8. ASSUME NEW n \in Node, Work(n), UNCHANGED sched
      PROVE  TypeOK'
  <2>1. UNCHANGED <<graph, disk, env>> /\ worker' \in [Node -> WorkerState]
    BY <1>8, WorkStep
  <2>2. calls' \in [Node -> Nat]
    BY <1>8, WorkStep
  <2> QED
    BY <1>8, <2>1, <2>2 DEF sched
<1>9. ASSUME NEW n \in Node, Answer(n)
      PROVE  TypeOK'
  <2>1. PICK a \in {"yes", "no"} : graph' = Answered(graph, n, a)
    BY <1>9 DEF Answer
  <2>2. [graph[n] EXCEPT !.st = "pending", !.answer = a] \in TaskSpec
    <3>1. graph[n] \in TaskSpec
      BY DEF Graph
    <3> HIDE DEF TypeOK
    <3> QED
      BY <3>1 DEF TaskSpec, TaskState
  <2>3. graph' \in Graph
    BY <2>1, <2>2 DEF Answered, Graph
  <2> QED
    BY <1>9, <2>3 DEF Answer, sched
<1>10. CASE Continue
  BY <1>10 DEF Continue, PC
<1>11. CASE Crash
  BY <1>0, <1>11, EmptyGood DEF Crash, PC, Good
<1>12. CASE Load
  <2>1. \A m \in Node : Reloaded(disk)[m] \in TaskSpec
    BY DEF Reloaded, Graph, TaskSpec, TaskState
  <2>2. Reloaded(disk) \in Graph
    BY <2>1 DEF Reloaded, Graph
  <2> QED
    BY <1>12, <2>2 DEF Load, PC
<1>13. CASE UNCHANGED vars
  BY <1>13 DEF vars, sched
<1> QED
  BY <1>1, <1>2, <1>3, <1>4, <1>5, <1>6, <1>7, <1>8, <1>9, <1>10, <1>11, <1>12, <1>13
  DEF Next, Schedule, Person

\* The initial state has the types.
LEMMA TypeInit == Init => TypeOK
<1>1. EmptyGraph \in Graph
  BY EmptyGood DEF Good
<1> QED
  BY <1>1 DEF Init, TypeOK, Idle, WorkerState, Phase, PC

\* The store and the scheduler keep to their types in every behaviour.
THEOREM TypeCorrect == Spec => []TypeOK
BY TypeInit, TypeStep, PTL DEF Spec

-------------------------------------------------------------------------------
(* Each part of the invariant is kept by every step.                       *)

\* Handling a future records or pauses a running node, never another.
LEMMA HandleStep ==
  ASSUME IInv, NEW n \in Node, Handle(n)
  PROVE  /\ worker[n].ph = "out" /\ graph[n].st = "running"
         /\ Good(graph') /\ disk' = graph'
         /\ \/ graph' = PausedAt(graph, n) /\ worker[n].verdict = "paused"
            \/ /\ graph' = Recorded(graph, n, worker[n].verdict, worker[n].data)
               /\ worker[n].verdict \in Verdict \ {"bypassed"}
               /\ worker[n].data \in Data \cup {NoData}
<1>1. worker[n].ph = "out" /\ disk' = graph'
  BY DEF Handle, IInv, Futures, InPhase
<1>2. graph[n].st = "running"
  BY <1>1 DEF IInv, Synced
<1>3. worker[n].verdict \in (Verdict \ {"bypassed"}) \cup {"paused"}
  BY <1>1 DEF IInv, Futures
<1>4. worker[n].data \in Data \cup {NoData}
  BY DEF IInv, TypeOK, WorkerState
<1>5. CASE worker[n].verdict = "paused"
  <2>1. graph' = PausedAt(graph, n)
    BY <1>5 DEF Handle
  <2>2. Good(PausedAt(graph, n))
    BY <1>2, PausedGood DEF IInv
  <2> QED
    BY <1>1, <1>2, <1>5, <2>1, <2>2
<1>6. CASE worker[n].verdict # "paused"
  <2> DEFINE v == worker[n].verdict
             d == worker[n].data
  <2>1. graph' = Recorded(graph, n, v, d)
    BY <1>6 DEF Handle
  <2>2. PICK v1 \in Verdict \ {"bypassed"}, d1 \in Data \cup {NoData} : v1 = v /\ d1 = d
    BY <1>3, <1>4, <1>6
  <2>3. Good(Recorded(graph, n, v1, d1))
    BY <1>2, RecordedGood DEF IInv
  <2> QED
    BY <1>1, <1>2, <2>1, <2>2, <2>3
<1> QED
  BY <1>5, <1>6

\* A patch of the plan or of the planner is applied to memory and graph.json.
LEMMA PatchStep ==
  ASSUME IInv, NEW p \in Patch, Valid(graph, p), graph' = Applied(graph, p), disk' = graph'
  PROVE  Good(graph')
BY AppliedGood DEF IInv

\* No step breaks the graph in memory.
LEMMA GraphGoodStep ==
  ASSUME IInv, Next
  PROVE  Good(graph')
<1>0. Good(graph) /\ Good(disk)
  BY DEF IInv
<1>1. CASE StartRun
  <2> DEFINE p == [add |-> Plan, twice |-> {}, link |-> {}]
  <2>1. p \in Patch
    BY EagerAssumption DEF Patch
  <2>2. (Valid(graph, p) /\ graph' = Applied(graph, p) /\ disk' = graph') \/ graph' = graph
    BY <1>1 DEF StartRun
  <2> HIDE DEF p
  <2> QED
    BY <1>0, <2>1, <2>2, PatchStep
<1>2. CASE Claim
  BY <1>0, <1>2, ClaimedGood DEF Claim
<1>3. CASE Wait \/ Finish \/ Continue
  BY <1>0, <1>3 DEF Wait, Finish, Continue
<1>4. CASE Exit \/ Crash
  BY <1>4, EmptyGood DEF Exit, Crash
<1>5. ASSUME NEW n \in Node, Handle(n) PROVE Good(graph')
  BY <1>5, HandleStep
<1>6. ASSUME NEW n \in Node, Consult(n) PROVE Good(graph')
  <2> DEFINE p == RulePatch(graph, Firing(graph, fired, n))
  <2>1. p \in Patch
    BY RulePatchType
  <2>2. (Valid(graph, p) /\ graph' = Applied(graph, p) /\ disk' = graph') \/ graph' = graph
    BY <1>6 DEF Consult
  <2> HIDE DEF p
  <2> QED
    BY <1>0, <2>1, <2>2, PatchStep
<1>7. ASSUME NEW n \in Node, Work(n) PROVE Good(graph')
  BY <1>0, <1>7, WorkStep DEF IInv
<1>8. ASSUME NEW n \in Node, Answer(n) PROVE Good(graph')
  BY <1>0, <1>8, AnsweredGood DEF Answer
<1>9. CASE Load
  BY <1>0, <1>9, ReloadedGood DEF Load
<1> QED
  BY <1>1, <1>2, <1>3, <1>4, <1>5, <1>6, <1>7, <1>8, <1>9 DEF Next, Schedule, Person

\* graph.json is always an earlier or the present graph in memory.
LEMMA DiskStep ==
  ASSUME IInv, Next
  PROVE  disk' = disk \/ disk' = graph'
<1>1. ASSUME NEW n \in Node, Work(n) PROVE disk' = disk
  BY <1>1, WorkStep DEF IInv
<1> QED
  BY <1>1 DEF Next, Schedule, Person, StartRun, Claim, ClaimCheckpoint, Wait, Finish, Exit, Handle,
              Consult, Answer, Continue, Crash, Load

\* The memory, graph.json and the futures go on agreeing.
LEMMA SyncedStep ==
  ASSUME IInv, Next
  PROVE  Synced'
<1>0. graph \in Graph /\ disk \in Graph /\ worker \in [Node -> WorkerState] /\ Synced
  BY DEF IInv, TypeOK
<1>a. Idle.ph = "off" /\ Queued.ph = "queued"
  BY DEF Idle, Queued
<1>b. \A n \in Node : EmptyGraph[n].st = "absent"
  BY DEF EmptyGraph, Absent
<1>c. ASSUME pc \in {"start", "plan"}, UNCHANGED worker,
             pc' \in PC \ {"dead", "start", "plan"},
             \/ UNCHANGED <<graph, disk>>
             \/ \E p \in Patch : Valid(graph, p) /\ graph' = Applied(graph, p) /\ disk' = graph'
      PROVE  Synced'
  <2>1. \A n \in Node : graph'[n].st = "running" <=> graph[n].st = "running"
    BY <1>0, <1>c, PatchKeepsRunning
  <2>2. graph' = disk'
    BY <1>0, <1>c DEF Synced
  <2> QED
    BY <1>0, <1>c, <2>1, <2>2 DEF Synced, Saved
<1>1. CASE StartRun
  <2>1. [add |-> Plan, twice |-> {}, link |-> {}] \in Patch
    BY EagerAssumption DEF Patch
  <2> QED
    BY <1>1, <1>c, <2>1 DEF StartRun, PC
<1>2. CASE Claim
  <2>1. graph' = Claimed(graph) /\ pc # "dead" /\ pc' \notin {"dead", "start", "plan"}
    BY <1>2 DEF Claim
  <2>2. ASSUME NEW n \in Node PROVE worker'[n].ph # "off" <=> graph'[n].st = "running"
    BY <1>0, <1>2, <1>a, <2>1, ClaimedNode DEF Claim, Synced
  <2>3. ASSUME NEW n \in Node PROVE Saved(n)'
    <3>1. CASE disk' = graph'
      BY <3>1 DEF Saved
    <3>2. CASE disk' # graph'
      <4>1. Claimable(graph) = {} /\ disk' = disk
        BY <1>2, <3>2 DEF Claim, ClaimCheckpoint
      <4>2. Saved(n)
        BY <1>0, <2>1 DEF Synced
      <4>3. CASE n \in Blocked(graph)
        <5>1. graph[n].st = "pending" /\ graph'[n].st = "done"
          BY <1>0, <2>1, <4>3, ClaimedNode
        <5>2. graph'[n].after = graph[n].after
          BY <1>0, <2>1, ClaimedGraph
        <5> QED
          BY <4>1, <4>2, <5>1, <5>2 DEF Saved
      <4>4. CASE n \notin Blocked(graph)
        <5>1. graph'[n] = graph[n]
          BY <1>0, <2>1, <4>1, <4>4, ClaimedNode
        <5> QED
          BY <4>1, <4>2, <5>1 DEF Saved
      <4> QED
        BY <4>3, <4>4
    <3> QED
      BY <3>1, <3>2
  <2> QED
    BY <2>1, <2>2, <2>3 DEF Synced
<1>3. CASE Wait \/ Continue
  BY <1>0, <1>3 DEF Wait, Continue, Synced, Saved
<1>4. CASE Finish
  BY <1>0, <1>4 DEF Finish, Synced, Saved
<1>5. CASE Exit \/ Crash
  BY <1>5, <1>a, <1>b DEF Exit, Crash, Synced
<1>6. ASSUME NEW n \in Node, Handle(n) PROVE Synced'
  <2>1. /\ disk' = graph' /\ worker' = [worker EXCEPT ![n] = Idle]
        /\ pc' \notin {"dead", "start"}
    BY <1>6 DEF Handle, AfterOutcome
  <2>2. graph'[n].st # "running" /\ \A m \in Node \ {n} : graph'[m] = graph[m]
    BY <1>0, <1>6, HandleStep, OneNode
  <2>3. \A m \in Node : worker'[m].ph # "off" <=> graph'[m].st = "running"
    BY <1>0, <1>a, <2>1, <2>2 DEF Synced
  <2> QED
    BY <2>1, <2>3 DEF Synced, Saved
<1>7. ASSUME NEW n \in Node, Consult(n) PROVE Synced'
  BY <1>7, <1>c, RulePatchType DEF Consult, AfterOutcome, PC
<1>8. ASSUME NEW n \in Node, Work(n), UNCHANGED sched PROVE Synced'
  <2>1. UNCHANGED <<graph, disk, pc>>
    BY <1>8, WorkStep DEF IInv, sched
  <2>2. \A m \in Node : worker'[m].ph # "off" <=> worker[m].ph # "off"
    BY <1>0, <1>8, WorkStep DEF IInv
  <2> QED
    BY <1>0, <2>1, <2>2 DEF Synced, Saved
<1>9. ASSUME NEW n \in Node, Answer(n) PROVE Synced'
  <2>1. PICK a \in {"yes", "no"} : graph' = Answered(graph, n, a)
    BY <1>9 DEF Answer
  <2>2. graph'[n].st # "running" /\ \A m \in Node \ {n} : graph'[m] = graph[m]
    BY <1>0, <2>1, OneNode
  <2>3. \A m \in Node : worker'[m].ph # "off" <=> graph'[m].st = "running"
    BY <1>0, <1>9, <2>2 DEF Answer, Synced
  <2> QED
    BY <1>9, <2>3 DEF Answer, sched, Synced, Saved
<1>10. CASE Load
  <2>1. \A n \in Node : graph'[n] = IF disk[n].st = "running"
                                      THEN [disk[n] EXCEPT !.st = "pending"] ELSE disk[n]
    BY <1>10 DEF Load, Reloaded
  <2>2. \A n \in Node : graph'[n].st # "running" /\ graph'[n].after = disk[n].after
    BY <1>0, <2>1 DEF Graph, TaskSpec
  <2>3. \A n \in Node : worker'[n].ph = "off"
    BY <1>0, <1>10, <1>b DEF Load, Synced
  <2>4. \A n \in Node : disk[n].st = "running" => graph'[n].st = "pending"
    BY <1>0, <2>1 DEF Graph, TaskSpec
  <2> QED
    BY <1>10, <2>1, <2>2, <2>3, <2>4 DEF Load, Synced, Saved
<1> QED
  BY <1>1, <1>2, <1>3, <1>4, <1>5, <1>6, <1>7, <1>8, <1>9, <1>10 DEF Next, Schedule, Person

\* No future is handled before it ends, ends with a bypass, or repeats a write.
LEMMA FuturesStep ==
  ASSUME IInv, Next
  PROVE  Futures'
<1>0. worker \in [Node -> WorkerState] /\ Futures /\ graph \in Graph
  BY DEF IInv, TypeOK
<1>a. Idle.ph = "off" /\ Queued.ph = "queued"
  BY DEF Idle, Queued
<1>b. Writes \subseteq Node
  BY WorkerAssumption
<1>1. CASE StartRun \/ Finish \/ Continue \/ Load
  BY <1>0, <1>1 DEF StartRun, Finish, Continue, Load, Futures, InPhase
<1>2. CASE Claim
  <2>1. ASSUME NEW n \in Node
        PROVE  worker'[n] = worker[n] \/ (worker[n].ph = "off" /\ worker'[n] = Queued)
    BY <1>0, <1>2, ClaimedNode DEF Claim, IInv, Synced
  <2> QED
    BY <1>0, <1>2, <1>a, <1>b, <2>1 DEF Claim, Futures, InPhase
<1>3. CASE Wait
  BY <1>0, <1>3 DEF Wait, Futures, InPhase
<1>4. CASE Exit \/ Crash
  BY <1>4, <1>a, <1>b DEF Exit, Crash, Futures, InPhase
<1>5. ASSUME NEW n \in Node, Handle(n) PROVE Futures'
  BY <1>0, <1>5, <1>a, <1>b DEF Handle, Futures, InPhase
<1>6. ASSUME NEW n \in Node, Consult(n) PROVE Futures'
  BY <1>0, <1>6 DEF Consult, Futures, InPhase
<1>7. ASSUME NEW n \in Node, Work(n), UNCHANGED sched PROVE Futures'
  <2>1. /\ worker[n].ph \in {"queued", "calling", "backoff"}
        /\ \A m \in Node \ {n} : worker'[m] = worker[m]
        /\ worker'[n].ph = "out" =>
             worker'[n].verdict \in (Verdict \ {"bypassed"}) \cup {"paused"}
        /\ worker'[n].ph = "calling" => worker'[n].tries >= 1
        /\ worker'[n].ph = "backoff" => worker[n].ph = "calling" /\ worker[n].tries < Attempts(n)
    BY <1>0, <1>7, WorkStep DEF IInv
  <2>2. n \notin batch /\ batch' = batch
    BY <1>0, <1>7, <2>1 DEF Futures, InPhase, sched
  <2>3. n \in Writes => worker'[n].ph # "backoff"
    <3>1. SUFFICES ASSUME n \in Writes, worker[n].ph = "calling", worker[n].tries < 1 PROVE FALSE
      BY <2>1 DEF Attempts
    <3>2. worker[n].tries \in Nat /\ worker[n].tries >= 1
      BY <1>0, <3>1 DEF Futures, WorkerState
    <3> QED
      BY <3>1, <3>2
  <2> QED
    BY <1>0, <1>b, <2>1, <2>2, <2>3 DEF Futures, InPhase
<1>8. ASSUME NEW n \in Node, Answer(n) PROVE Futures'
  BY <1>0, <1>8 DEF Answer, sched, Futures, InPhase
<1> QED
  BY <1>1, <1>2, <1>3, <1>4, <1>5, <1>6, <1>7, <1>8 DEF Next, Schedule, Person

\* When the loop ends nothing is in flight and nothing could be claimed.
LEMMA QuietStep ==
  ASSUME IInv, Next
  PROVE  Quiet'
<1>0. graph \in Graph /\ Quiet
  BY DEF IInv, TypeOK
<1>1. CASE Claim
  <2> SUFFICES ASSUME pc' = "finish" PROVE Quiet'
    BY <1>1 DEF Claim, Quiet
  <2>1. Claimable(graph) = {} /\ InFlight = {} /\ graph' = Claimed(graph)
    BY <1>1 DEF Claim
  <2>2. InFlight' = {}
    BY <1>1, <2>1 DEF Claim, InFlight
  <2>3. ASSUME NEW n \in In(graph', "pending")
        PROVE  ~(graph'[n].after \subseteq Done(graph'))
    <3>1. n \in Node /\ graph'[n].st = "pending"
      BY DEF In
    <3>2. n \notin Blocked(graph) /\ graph[n].st = "pending"
      BY <1>0, <2>1, <3>1, ClaimedNode
    <3>3. ~(graph[n].after \subseteq Done(graph) \cup Blocked(graph))
      BY <2>1, <3>1, <3>2 DEF Claimable, In
    <3> QED
      BY <1>0, <2>1, <3>1, <3>3, ClaimedGraph
  <2> QED
    BY <2>2, <2>3 DEF Quiet
<1>2. CASE Finish
  BY <1>0, <1>2 DEF Finish, Quiet, InFlight, In, Done
<1>3. ASSUME NEW n \in Node, Answer(n) PROVE Quiet'
  <2>1. PICK a \in {"yes", "no"} : graph' = Answered(graph, n, a)
    BY <1>3 DEF Answer
  <2>2. /\ \A m \in Node \ {n} : graph'[m] = graph[m]
        /\ graph'[n].answer # "none" /\ graph'[n].st # "done" /\ graph[n].st # "done"
    BY <1>0, <1>3, <2>1, OneNode DEF Answer
  <2>3. Done(graph') = Done(graph)
    BY <2>2 DEF Done, In
  <2>4. UNCHANGED <<pc, worker>> /\ pc = "returned"
    BY <1>3 DEF Answer, sched
  <2> QED
    BY <1>0, <2>2, <2>3, <2>4 DEF Quiet, In, InFlight
<1>4. ASSUME NEW n \in Node, Work(n), UNCHANGED sched PROVE Quiet'
  <2>1. n \in InFlight
    BY <1>4, WorkStep DEF IInv, InFlight
  <2> QED
    BY <1>0, <1>4, <2>1 DEF Quiet, sched
<1>5. ASSUME NEW n \in Node, Handle(n) \/ Consult(n) PROVE Quiet'
  BY <1>5 DEF Handle, Consult, AfterOutcome, Quiet
<1>6. CASE StartRun \/ Wait \/ Exit \/ Continue \/ Crash \/ Load
  BY <1>6 DEF StartRun, Wait, Exit, Continue, Crash, Load, Quiet
<1> QED
  BY <1>1, <1>2, <1>3, <1>4, <1>5, <1>6 DEF Next, Schedule, Person

\* A write that cannot ask is called once per life: every step that makes its
\* call possible again comes before the call or with the end of the process.
LEMMA OneCallStep ==
  ASSUME IInv, Next
  PROVE  OneCall'
<1> SUFFICES ASSUME NEW w \in Writes \ Asking
             PROVE  /\ calls'[w] <= deaths' + 1
                    /\ Ahead(w)' => calls'[w] <= deaths'
  BY DEF OneCall
<1>0. /\ w \in Node /\ calls[w] \in Nat /\ deaths \in Nat
      /\ calls[w] <= deaths + 1 /\ (Ahead(w) => calls[w] <= deaths)
      /\ graph \in Graph /\ graph[w].st \in TaskState /\ worker \in [Node -> WorkerState]
  BY WorkerAssumption DEF IInv, TypeOK, OneCall, Graph, TaskSpec
<1>a. ASSUME UNCHANGED <<calls, deaths>>, Ahead(w)' => Ahead(w)
      PROVE  calls'[w] <= deaths' + 1 /\ (Ahead(w)' => calls'[w] <= deaths')
  BY <1>0, <1>a
<1>b. Idle.ph = "off" /\ Queued.ph = "queued"
  BY DEF Idle, Queued
<1>c. ASSUME UNCHANGED <<worker, calls, deaths>>,
             \/ UNCHANGED graph
             \/ \E p \in Patch : Valid(graph, p) /\ graph' = Applied(graph, p)
      PROVE  calls'[w] <= deaths' + 1 /\ (Ahead(w)' => calls'[w] <= deaths')
  <2>1. graph[w].st \in {"running", "done"} => graph'[w] = graph[w]
    BY <1>0, <1>c, AppliedGraph
  <2>2. Ahead(w)' => Ahead(w)
    BY <1>0, <1>c, <2>1 DEF Ahead, TaskState
  <2> QED
    BY <1>a, <1>c, <2>2
<1>1. CASE StartRun
  <2>1. [add |-> Plan, twice |-> {}, link |-> {}] \in Patch
    BY EagerAssumption DEF Patch
  <2> QED
    BY <1>1, <1>c, <2>1 DEF StartRun
<1>2. CASE Claim
  <2>1. UNCHANGED <<calls, deaths>> /\ graph' = Claimed(graph)
    BY <1>2 DEF Claim
  <2>2. CASE w \in Claimable(graph) \cup Blocked(graph)
    BY <1>0, <1>a, <2>1, <2>2, ClaimedNode DEF Ahead
  <2>3. CASE w \notin Claimable(graph) \cup Blocked(graph)
    <3>1. graph'[w] = graph[w]
      BY <1>0, <2>1, <2>3, ClaimedNode
    <3>2. worker'[w] = worker[w]
      BY <1>0, <1>2, <2>3 DEF Claim
    <3> QED
      BY <1>a, <2>1, <3>1, <3>2 DEF Ahead
  <2> QED
    BY <2>2, <2>3
<1>3. CASE Wait \/ Finish \/ Continue
  BY <1>3, <1>c DEF Wait, Finish, Continue
<1>4. CASE Exit \/ Crash
  BY <1>0, <1>4 DEF Exit, Crash
<1>5. ASSUME NEW n \in Node, Handle(n)
      PROVE  calls'[w] <= deaths' + 1 /\ (Ahead(w)' => calls'[w] <= deaths')
  <2>1. UNCHANGED <<calls, deaths>> /\ worker' = [worker EXCEPT ![n] = Idle]
    BY <1>5 DEF Handle
  <2>2. CASE w = n
    <3>1. worker'[w].ph = "off" /\ worker[w].ph = "out"
      BY <1>0, <1>5, <1>b, <2>1, <2>2, HandleStep
    <3>2. graph'[w].st = "done" \/ worker[w].verdict = "paused"
      BY <1>0, <1>5, <2>2, HandleStep, OneNode
    <3> QED
      BY <1>a, <2>1, <3>1, <3>2 DEF Ahead
  <2>3. CASE w # n
    <3>1. graph'[w] = graph[w]
      BY <1>0, <1>5, <2>3, HandleStep, OneNode
    <3> QED
      BY <1>0, <1>a, <2>1, <2>3, <3>1 DEF Ahead
  <2> QED
    BY <2>2, <2>3
<1>6. ASSUME NEW n \in Node, Consult(n)
      PROVE  calls'[w] <= deaths' + 1 /\ (Ahead(w)' => calls'[w] <= deaths')
  BY <1>6, <1>c, RulePatchType DEF Consult
<1>7. ASSUME NEW n \in Node, Work(n), UNCHANGED sched
      PROVE  calls'[w] <= deaths' + 1 /\ (Ahead(w)' => calls'[w] <= deaths')
  <2>1. deaths' = deaths /\ graph' = graph
    BY <1>7, WorkStep DEF IInv, sched
  <2>2. CASE w # n
    <3>1. worker'[w] = worker[w] /\ calls'[w] = calls[w]
      BY <1>0, <1>7, <2>2, WorkStep DEF IInv, TypeOK
    <3> QED
      BY <1>0, <2>1, <3>1 DEF Ahead
  <2>3. CASE w = n
    <3>1. graph[w].st = "running"
      BY <1>7, <2>3, WorkStep DEF IInv, Synced
    <3>2. worker[w].ph # "backoff"
      BY DEF IInv, Futures
    <3>3. CASE calls' = [calls EXCEPT ![w] = @ + 1] /\ worker'[w].ph = "calling"
      <4>1. worker[w].ph = "queued"
        <5>1. calls' # calls
          BY <1>0, <3>3 DEF IInv, TypeOK
        <5> QED
          BY <1>7, <2>3, <3>2, <5>1, WorkStep DEF IInv
      <4>2. calls[w] <= deaths /\ calls'[w] = calls[w] + 1
        BY <1>0, <3>3, <4>1 DEF Ahead, IInv, TypeOK
      <4>3. ~Ahead(w)'
        BY <2>1, <3>1, <3>3 DEF Ahead
      <4> QED
        BY <1>0, <2>1, <4>2, <4>3
    <3>4. CASE calls' = calls
      <4>1. Ahead(w)' => worker[w].ph = "queued"
        BY <1>0, <1>7, <2>1, <2>3, <3>1, <3>4, WorkStep DEF IInv, Ahead
      <4> QED
        BY <1>a, <2>1, <3>4, <4>1 DEF Ahead
    <3> QED
      BY <1>7, <2>3, <3>3, <3>4, WorkStep DEF IInv
  <2> QED
    BY <2>2, <2>3
<1>8. ASSUME NEW n \in Node, Answer(n)
      PROVE  calls'[w] <= deaths' + 1 /\ (Ahead(w)' => calls'[w] <= deaths')
  <2>1. w # n => graph'[w] = graph[w]
    BY <1>0, <1>8, OneNode DEF Answer
  <2> QED
    BY <1>8, <1>a, <2>1 DEF Answer, sched, Ahead
<1>9. CASE Load
  <2>1. graph[w].st = "absent"
    BY <1>0, <1>9 DEF Load, IInv, Synced, EmptyGraph, Absent
  <2> QED
    BY <1>a, <1>9, <2>1 DEF Load, Ahead
<1> QED
  BY <1>1, <1>2, <1>3, <1>4, <1>5, <1>6, <1>7, <1>8, <1>9 DEF Next, Schedule, Person

-------------------------------------------------------------------------------
(* The inductive invariant, and what follows from it.                      *)

\* The initial state satisfies the invariant.
LEMMA IInvInit == Init => IInv
<1> SUFFICES ASSUME Init PROVE IInv
  OBVIOUS
<1>1. TypeOK /\ Good(graph) /\ Good(disk)
  BY TypeInit, EmptyGood DEF Init
<1>2. \A n \in Node : worker[n].ph = "off" /\ graph[n].st = "absent"
  BY DEF Init, Idle, EmptyGraph, Absent
<1>3. Synced /\ Quiet
  BY <1>2 DEF Init, Synced, Saved, Quiet
<1>4. Futures /\ OneCall
  BY <1>2, WorkerAssumption DEF Init, Futures, OneCall
<1> QED
  BY <1>1, <1>3, <1>4 DEF IInv

\* Every step keeps the invariant.
LEMMA IInvStep == IInv /\ [Next]_vars => IInv'
<1>1. ASSUME IInv, Next PROVE IInv'
  <2>1. TypeOK'
    BY <1>1, TypeStep DEF IInv
  <2>2. Good(graph') /\ Good(disk')
    BY <1>1, GraphGoodStep, DiskStep DEF IInv
  <2>3. Synced' /\ Futures' /\ Quiet' /\ OneCall'
    BY <1>1, SyncedStep, FuturesStep, QuietStep, OneCallStep
  <2> QED
    BY <2>1, <2>2, <2>3 DEF IInv
<1>2. ASSUME IInv, UNCHANGED vars PROVE IInv'
  BY <1>2 DEF vars, sched, IInv, TypeOK, Synced, Saved, Futures, Quiet, OneCall, Ahead, InFlight,
              InPhase, In, Done
<1> QED
  BY <1>1, <1>2

\* The invariant holds throughout every behaviour.
THEOREM Invariance == Spec => []IInv
BY IInvInit, IInvStep, PTL DEF Spec

\* The graph in memory and graph.json stay acyclic, closed and in the budget.
THEOREM StaysWellFormed == Spec => []GraphsWellFormed
<1>1. IInv => GraphsWellFormed
  BY DEF IInv, Good, GraphsWellFormed
<1> QED
  BY <1>1, Invariance, PTL

\* No node starts too early and no verdict is without its reason.
THEOREM StaysJustified == Spec => []VerdictsJustified
<1>1. IInv => VerdictsJustified
  BY DEF IInv, Good, VerdictsJustified
<1> QED
  BY <1>1, Invariance, PTL

\* In memory and on disk: a valid graph whose verdicts have their reasons.
THEOREM StaysSound == Spec => []GraphsSound
BY StaysWellFormed, StaysJustified, PTL DEF GraphsSound

\* A write action that asks nothing itself is called at most once per process.
THEOREM WritesOnce == Spec => []WriteOncePerLife
<1>1. IInv => WriteOncePerLife
  BY DEF IInv, OneCall, WriteOncePerLife
<1> QED
  BY <1>1, Invariance, PTL

\* A run that returns leaves no node behind: as the graph has no cycle, every
\* chain of unfinished nodes ends at one that waits for a person.
THEOREM NobodyStranded == Spec => []NothingStranded
<1>1. ASSUME IInv, pc = "returned"
      PROVE  In(graph, "running") = {}
  BY <1>1 DEF IInv, Quiet, Synced, InFlight, In
<1>2. ASSUME IInv, pc = "returned",
             NEW T \in SUBSET {n \in In(graph, "pending") : graph[n].answer = "none"},
             Stranded(T), T # {}
      PROVE  FALSE
  <2>1. T \subseteq Present(graph)
    BY DEF In, Present
  <2>2. Acyclic([n \in Node |-> graph[n].after], Present(graph))
    BY <1>2 DEF IInv, Good, WellFormed
  <2>3. PICK n \in T : [m \in Node |-> graph[m].after][n] \cap T = {}
    BY <1>2, <2>1, <2>2 DEF Acyclic
  <2>4. n \in Node /\ graph[n].after \cap T = {}
    BY <2>1, <2>3 DEF Present
  <2>5. graph[n].after \subseteq Done(graph)
    BY <1>2, <2>4 DEF Stranded
  <2> QED
    BY <1>2, <2>5 DEF IInv, Quiet, In
<1>3. IInv => NothingStranded
  BY <1>1, <1>2 DEF NothingStranded
<1> QED
  BY <1>3, Invariance, PTL

\* An action is called only for a node that graph.json shows as claimed.
THEOREM OnlyClaimedAreCalled == Spec => CallsAreClaimed
<1>1. ASSUME IInv, Next, NEW n \in Node, calls'[n] # calls[n]
      PROVE  disk[n].st = "running"
  <2>1. PICK m \in Node : Work(m)
    BY <1>1 DEF Next, Schedule, Person, StartRun, Claim, Wait, Finish, Exit, Handle, Consult, Answer,
                Continue, Crash, Load
  <2>2. m = n /\ worker[n].ph # "off"
    BY <1>1, <2>1, WorkStep DEF IInv, TypeOK
  <2>3. graph[n].st = "running"
    BY <1>1, <2>2 DEF IInv, Synced
  <2>4. graph[n] = disk[n]
    BY <1>1, <2>3 DEF IInv, Synced, Saved, EmptyGraph, Absent
  <2> QED
    BY <2>3, <2>4
<1>2. IInv /\ [Next]_vars => [\A n \in Node : calls'[n] # calls[n] => disk[n].st = "running"]_vars
  BY <1>1 DEF vars
<1> QED
  BY <1>2, Invariance, PTL DEF Spec, CallsAreClaimed

\* A write is called only with the consent graph.json holds for it.
THEOREM WritesHaveConsent == Spec => WritesNeedConsent
<1>1. ASSUME IInv, Next, NEW w \in Writes, calls'[w] # calls[w]
      PROVE  ~env.dry /\ (env.approve => disk[w].answer = "yes")
  <2>1. PICK m \in Node : Work(m)
    BY <1>1 DEF Next, Schedule, Person, StartRun, Claim, Wait, Finish, Exit, Handle, Consult, Answer,
                Continue, Crash, Load
  <2>2. w \in Node
    BY WorkerAssumption
  <2>3. m = w /\ worker[w].ph # "off"
    BY <1>1, <2>1, <2>2, WorkStep DEF IInv, TypeOK
  <2>4. MayCall(w)
    <3>1. worker[w].ph # "backoff"
      BY <1>1 DEF IInv, Futures
    <3> QED
      BY <1>1, <2>1, <2>2, <2>3, <3>1, WorkStep DEF IInv
  <2>5. graph[w].st = "running"
    BY <1>1, <2>2, <2>3 DEF IInv, Synced
  <2>6. graph[w] = disk[w]
    BY <1>1, <2>2, <2>5 DEF IInv, Synced, Saved, EmptyGraph, Absent
  <2> QED
    BY <2>4, <2>6 DEF MayCall
<1>2. IInv /\ [Next]_vars =>
        [\A w \in Writes : calls'[w] # calls[w] =>
            ~env.dry /\ (env.approve => disk[w].answer = "yes")]_vars
  BY <1>1 DEF vars
<1> QED
  BY <1>2, Invariance, PTL DEF Spec, WritesNeedConsent

\* Together: what a run, its retries, deaths and reloads may call, and how often.
THEOREM CallsStaySafe == Spec => CallsAreSafe
BY WritesOnce, OnlyClaimedAreCalled, WritesHaveConsent, PTL DEF CallsAreSafe

-------------------------------------------------------------------------------
(* The planner's follow-ups reach the join in time.                        *)

\* The follow-up of r is in the graph and so is every target of its links;
\* of these, the ones that wait for the watched node wait for it too.
Landed(g, r) ==
  /\ r.add \subseteq Present(g)
  /\ \A l \in r.link :
       /\ l[2] \in Present(g)
       /\ r.watch \in Deps[l[2]] => l[1] \in g[l[2]].after \/ g[l[2]].verdict = "bypassed"

\* While no process has died: what is not shown to the planner yet has no
\* dependent that is past its claim, and what was shown has landed.
Joined ==
  deaths = 0 =>
    /\ pc # "dead"
    /\ \A n \in Present(graph) : Deps[n] \subseteq graph[n].after
    /\ \A n \in In(graph, "paused") : Deps[n] \subseteq Done(graph)
    /\ unseen # {} => pc = "plan"
    /\ \A n \in unseen :
         /\ unseen = {n} /\ graph[n].st = "done"
         /\ \A m \in Present(graph) : n \in Deps[m] =>
              graph[m].st = "pending" \/ graph[m].verdict = "bypassed"
    /\ \A r \in fired : graph[r.watch].st = "done" /\ r.watch \notin unseen
    /\ pc # "raised" =>
         \A r \in Rules : Triggered(graph, r) /\ r.watch \notin unseen => Landed(graph, r)

\* A rule watches and links nodes.
LEMMA RuleTyped ==
  ASSUME NEW r \in Rules
  PROVE  /\ r.watch \in Node /\ r.add \subseteq Node /\ r.verdict # "bypassed"
         /\ \A l \in r.link : l \in Node \X Node /\ l[1] \in Node /\ l[2] \in Node
BY RuleAssumption DEF Rule

\* An accepted patch gives a new node the dependencies it is written with, and
\* every target of its links the dependency.
LEMMA PatchLinks ==
  ASSUME NEW g \in Graph, NEW p \in Patch, Valid(g, p)
  PROVE  /\ \A n \in p.add : Deps[n] \subseteq Applied(g, p)[n].after
         /\ \A l \in p.link : l[1] \in Applied(g, p)[l[2]].after
<1>1. p.add \subseteq Node /\ \A l \in p.link : l = <<l[1], l[2]>> /\ l[1] \in Node /\ l[2] \in Node
  BY DEF Patch
<1>2. \A n \in Node : Applied(g, p)[n].after = Proposed(g, p)[n]
  BY DEF Applied, Graph, TaskSpec, Absent
<1>3. \A n \in Node : Proposed(g, p)[n] = (IF n \in p.add THEN Deps[n] ELSE g[n].after)
                                            \cup {d \in Node : <<d, n>> \in p.link}
  BY DEF Proposed
<1>4. ASSUME NEW l \in p.link PROVE l[1] \in Proposed(g, p)[l[2]]
  <2>1. <<l[1], l[2]>> \in p.link /\ l[1] \in Node /\ l[2] \in Node
    BY <1>1
  <2> QED
    BY <1>3, <2>1
<1> QED
  BY <1>1, <1>2, <1>3, <1>4

\* What has landed stays: the graph only grows and a bypass is final.
LEMMA LandedStays ==
  ASSUME NEW g, NEW h, NEW r \in Rules, Landed(g, r), Present(g) \subseteq Present(h),
         \A n \in Present(g) : /\ g[n].after \subseteq h[n].after
                               /\ g[n].verdict = "bypassed" => h[n].verdict = "bypassed"
  PROVE  Landed(h, r)
BY DEF Landed

\* A patch disturbs none of it.
LEMMA PatchJoined ==
  ASSUME IInv, Joined, deaths = 0, NEW p \in Patch, Valid(graph, p), graph' = Applied(graph, p)
  PROVE  /\ \A n \in Present(graph') : Deps[n] \subseteq graph'[n].after
         /\ \A n \in In(graph', "paused") : Deps[n] \subseteq Done(graph')
         /\ \A r \in fired : graph'[r.watch].st = "done"
         /\ \A r \in Rules : Triggered(graph', r) => Triggered(graph, r)
         /\ \A r \in Rules : Landed(graph, r) => Landed(graph', r)
<1>0. graph \in Graph /\ graph' \in Graph /\ p.add \subseteq Node
  BY AppliedGraph DEF IInv, TypeOK, Patch
<1>1. /\ Present(graph') = Present(graph) \cup p.add /\ Done(graph') = Done(graph)
      /\ \A n \in Node : graph[n].st \in {"running", "done"} => graph'[n] = graph[n]
      /\ \A n \in p.add : graph'[n].st = "pending" /\ graph[n].st = "absent"
      /\ \A n \in Node \ p.add : graph'[n].st = graph[n].st /\ graph[n].after \subseteq graph'[n].after
                                 /\ graph'[n].verdict = graph[n].verdict
  BY <1>0, AppliedGraph
<1>2. \A n \in p.add : Deps[n] \subseteq graph'[n].after
  BY <1>0, PatchLinks
<1>3. \A n \in Present(graph) : n \in Node \ p.add
  BY <1>1 DEF Present
<1>4. \A n \in Present(graph') : Deps[n] \subseteq graph'[n].after
  BY <1>1, <1>2, <1>3 DEF Joined
<1>5. \A n \in In(graph', "paused") : n \in In(graph, "paused")
  BY <1>1 DEF In
<1>6. ASSUME NEW n \in Node, graph'[n].st = "done"
      PROVE  graph'[n] = graph[n]
  BY <1>1, <1>6 DEF Done, In
<1>7. \A r \in Rules : Triggered(graph', r) => Triggered(graph, r)
  BY <1>6, RuleTyped DEF Triggered
<1>8. \A r \in fired : graph'[r.watch].st = "done"
  BY <1>1, RuleTyped DEF Joined, IInv, TypeOK
<1>9. \A r \in Rules : Landed(graph, r) => Landed(graph', r)
  BY <1>1, <1>3, LandedStays
<1> QED
  BY <1>1, <1>4, <1>5, <1>7, <1>8, <1>9 DEF Joined

\* The planner's turn lands every rule that fires, in time.
LEMMA ConsultLands ==
  ASSUME IInv, Joined, deaths = 0, NEW n \in Node, Consult(n), pc' # "raised",
         NEW r \in Rules, r.watch = n, Triggered(graph, r)
  PROVE  Landed(graph', r)
<1> DEFINE R == Firing(graph, fired, n)
           p == RulePatch(graph, R)
<1>0. graph \in Graph /\ pc = "plan" /\ n \in unseen /\ p \in Patch
  BY RulePatchType DEF IInv, TypeOK, Consult
<1>1. r \in R
  BY <1>0 DEF Joined, Firing, Triggered
<1>2. \/ p.add = {} /\ p.link = {} /\ graph' = graph
      \/ Valid(graph, p) /\ graph' = Applied(graph, p)
  BY DEF Consult
<1>3. /\ r.add \subseteq p.add \cup Present(graph)
      /\ \A l \in r.link : graph[l[2]].st \in {"absent", "pending"} => l \in p.link
  BY <1>1 DEF RulePatch
<1>4. Present(graph') = Present(graph) \cup p.add /\ p.add \subseteq Node
  BY <1>0, <1>2, AppliedGraph DEF Patch
<1>5. ASSUME NEW l \in r.link
      PROVE  /\ l[2] \in Present(graph')
             /\ n \in Deps[l[2]] => l[1] \in graph'[l[2]].after \/ graph'[l[2]].verdict = "bypassed"
  <2>1. l[2] \in Node /\ graph[l[2]] \in TaskSpec
    BY <1>0, RuleTyped DEF Graph
  <2>2. CASE graph[l[2]].st \in {"absent", "pending"}
    <3>1. l \in p.link
      BY <1>3, <2>2
    <3>2. Valid(graph, p) /\ graph' = Applied(graph, p)
      BY <1>2, <3>1
    <3>3. l[2] \in Present(graph) \cup p.add
      BY <3>1, <3>2 DEF Valid
    <3>4. l[1] \in graph'[l[2]].after
      BY <1>0, <3>1, <3>2, PatchLinks
    <3> QED
      BY <1>4, <3>3, <3>4
  <2>3. CASE graph[l[2]].st \notin {"absent", "pending"}
    <3>1. l[2] \in Present(graph)
      BY <2>1, <2>3 DEF Present
    <3>2. n \in Deps[l[2]] => graph[l[2]].verdict = "bypassed"
      BY <1>0, <2>3, <3>1 DEF Joined
    <3>3. graph[l[2]].verdict = "bypassed" => graph[l[2]].st = "done"
      BY <2>1 DEF IInv, Good, Told
    <3>4. graph[l[2]].verdict = "bypassed" => graph'[l[2]] = graph[l[2]]
      BY <1>0, <1>2, <2>1, <3>3, AppliedGraph
    <3> QED
      BY <1>4, <3>1, <3>2, <3>4
  <2> QED
    BY <2>2, <2>3
<1>6. r.add \subseteq Present(graph')
  BY <1>3, <1>4
<1> QED
  BY <1>5, <1>6 DEF Landed

\* Recording or pausing a running node overtakes no dependent: none of them
\* was claimed, and what had landed is still there.
LEMMA HandleJoined ==
  ASSUME IInv, Joined, deaths = 0, NEW n \in Node, Handle(n)
  PROVE  Joined'
<1>0. /\ graph \in Graph /\ Justified(graph) /\ Told(graph) /\ pc = "handle" /\ unseen = {}
      /\ UNCHANGED <<fired, deaths>>
  BY DEF IInv, TypeOK, Good, Handle, Joined
<1>1. /\ graph[n].st = "running" /\ graph'[n].st \in {"paused", "done"}
      /\ graph'[n].after = graph[n].after
      /\ \A m \in Node \ {n} : graph'[m] = graph[m]
  BY <1>0, HandleStep, OneNode
<1>2. /\ Present(graph') = Present(graph) /\ n \in Present(graph)
      /\ Done(graph) \subseteq Done(graph') /\ n \notin Done(graph)
  BY <1>1 DEF Present, Done, In
<1>3. graph[n].after \subseteq Done(graph) /\ Deps[n] \subseteq graph[n].after
  BY <1>0, <1>1, <1>2 DEF Justified, Joined
<1>4. \A m \in Present(graph') : Deps[m] \subseteq graph'[m].after
  BY <1>0, <1>1, <1>2, <1>3 DEF Joined, Present
<1>5. \A m \in In(graph', "paused") : Deps[m] \subseteq Done(graph')
  BY <1>0, <1>1, <1>2, <1>3 DEF Joined, In
<1>6. \A r \in fired : graph'[r.watch].st = "done" /\ r.watch # n
  <2>1. \A r \in fired : r.watch \in Node /\ graph[r.watch].st = "done"
    BY <1>0, RuleTyped DEF Joined, IInv, TypeOK
  <2> QED
    BY <1>1, <2>1
<1>7. ASSUME NEW r \in Rules, r.watch # n, Triggered(graph', r), pc' # "raised"
      PROVE  Landed(graph', r)
  <2>1. Triggered(graph, r)
    BY <1>1, <1>7, RuleTyped DEF Triggered
  <2>2. Landed(graph, r)
    BY <1>0, <2>1 DEF Joined
  <2>3. graph[n].verdict # "bypassed"
    BY <1>0, <1>1 DEF Told
  <2>4. \A m \in Present(graph) : /\ graph[m].after \subseteq graph'[m].after
                                  /\ graph[m].verdict = "bypassed" => graph'[m].verdict = "bypassed"
    BY <1>1, <2>3 DEF Present
  <2> QED
    BY <1>2, <2>2, <2>4, LandedStays
<1>8. ASSUME NEW m \in Present(graph), n \in Deps[m]
      PROVE  graph'[m].st = "pending" \/ graph'[m].verdict = "bypassed"
  <2>1. n \in graph[m].after /\ m # n /\ m \in Node
    BY <1>0, <1>2, <1>3, <1>8 DEF Joined, Present
  <2>2. graph[m].st \in TaskState /\ graph[m].st # "absent"
    BY <1>0, <2>1 DEF Graph, TaskSpec, Present
  <2>3. graph[m].st # "paused"
    BY <1>0, <1>2, <1>8, <2>1 DEF Joined, In
  <2>4. graph[m].st = "running" \/ (graph[m].st = "done" /\ graph[m].verdict # "bypassed")
          => graph[m].after \subseteq Done(graph)
    BY <1>0, <2>1 DEF Justified
  <2> QED
    BY <1>1, <1>2, <2>1, <2>2, <2>3, <2>4 DEF TaskState
<1>9. CASE worker[n].verdict = "paused"
  <2>1. unseen' = {} /\ pc' \notin {"dead", "raised"} /\ graph' = PausedAt(graph, n)
    BY <1>0, <1>9 DEF Handle, AfterOutcome
  <2>2. graph'[n].st = "paused"
    BY <1>0, <2>1, OneNode
  <2>3. ASSUME NEW r \in Rules, Triggered(graph', r)
        PROVE  Landed(graph', r)
    BY <1>7, <2>1, <2>2, <2>3 DEF Triggered
  <2> QED
    BY <1>0, <1>4, <1>5, <1>6, <2>1, <2>3 DEF Joined
<1>10. CASE worker[n].verdict # "paused"
  <2>1. /\ unseen' = {n} /\ pc' = "plan"
        /\ graph' = Recorded(graph, n, worker[n].verdict, worker[n].data)
    BY <1>10 DEF Handle
  <2>2. graph'[n].st = "done"
    BY <1>0, <2>1, OneNode
  <2> QED
    BY <1>0, <1>2, <1>4, <1>5, <1>6, <1>7, <1>8, <2>1, <2>2 DEF Joined
<1> QED
  BY <1>9, <1>10

\* claim_ready starts no dependent of what the planner has not seen: it runs
\* only when everything is shown; and no rule waits for a bypass.
LEMMA ClaimJoined ==
  ASSUME IInv, Joined, deaths = 0, Claim
  PROVE  Joined'
<1>0. /\ graph \in Graph /\ Told(graph) /\ pc = "claim" /\ unseen = {} /\ unseen' = {}
      /\ graph' = Claimed(graph) /\ pc' \notin {"dead", "raised"} /\ UNCHANGED <<fired, deaths>>
  BY DEF IInv, TypeOK, Good, Claim, Joined
<1>1. /\ Present(graph') = Present(graph) /\ Done(graph') = Done(graph) \cup Blocked(graph)
      /\ \A n \in Node : graph'[n].after = graph[n].after
  BY <1>0, ClaimedGraph
<1>2. \A n \in Node : graph[n].st \notin {"pending"} => graph'[n] = graph[n]
  BY <1>0, ClaimedNode
<1>3. \A n \in Node : graph'[n].st = "paused" => graph'[n] = graph[n]
  BY <1>0, ClaimedNode
<1>4. ASSUME NEW n \in Node, graph'[n].st = "done", graph'[n].verdict # "bypassed"
      PROVE  graph'[n] = graph[n]
  <2>1. n \notin Claimable(graph)
    BY <1>0, <1>4, ClaimedNode
  <2>2. CASE n \in Blocked(graph)
    <3>1. graph'[n] = [graph[n] EXCEPT !.st = "done", !.verdict = "bypassed"]
      BY <1>0, <2>1, <2>2 DEF Claimed
    <3> QED
      BY <1>0, <1>4, <3>1 DEF Graph, TaskSpec
  <2> QED
    BY <1>0, <2>1, <2>2, ClaimedNode
<1>5. \A n \in Present(graph') : Deps[n] \subseteq graph'[n].after
  BY <1>0, <1>1 DEF Joined, Present
<1>6. \A n \in In(graph', "paused") : Deps[n] \subseteq Done(graph')
  BY <1>0, <1>1, <1>3 DEF Joined, In
<1>7. \A r \in fired : graph'[r.watch].st = "done"
  BY <1>0, <1>2, RuleTyped DEF Joined, IInv, TypeOK
<1>8. ASSUME NEW r \in Rules, Triggered(graph', r)
      PROVE  Landed(graph', r)
  <2>1. Triggered(graph, r)
    BY <1>4, <1>8, RuleTyped DEF Triggered
  <2>2. Landed(graph, r)
    BY <1>0, <2>1 DEF Joined
  <2>3. \A n \in Present(graph) : graph[n].verdict = "bypassed" => graph'[n] = graph[n]
    BY <1>0, <1>2 DEF Told, Present
  <2> QED
    BY <1>1, <2>2, <2>3, LandedStays DEF Present
<1> QED
  BY <1>0, <1>5, <1>6, <1>7, <1>8 DEF Joined

\* Every step keeps it.
LEMMA JoinedStep == IInv /\ Joined /\ [Next]_vars => Joined'
<1> SUFFICES ASSUME IInv, Joined, [Next]_vars, deaths' = 0
             PROVE  Joined'
  BY DEF Joined
<1>0. deaths = 0 /\ pc # "dead" /\ graph \in Graph /\ worker \in [Node -> WorkerState]
  <2>1. deaths \in Nat /\ (deaths' = deaths \/ deaths' = deaths + 1)
    BY DEF Next, Schedule, Person, StartRun, Claim, Wait, Finish, Exit, Handle, Consult, Answer,
           Continue, Crash, Load, sched, vars, IInv, TypeOK
  <2> QED
    BY <2>1 DEF Joined, IInv, TypeOK
<1>a. ASSUME UNCHANGED <<graph, unseen, deaths>>, pc' # "dead", pc # "plan", pc # "raised",
             fired' \in {fired, {}}
      PROVE  Joined'
  BY <1>0, <1>a DEF Joined
<1>1. CASE StartRun
  <2> DEFINE p == [add |-> Plan, twice |-> {}, link |-> {}]
  <2>1. p \in Patch
    BY EagerAssumption DEF Patch
  <2>2. unseen = {} /\ unseen' = {} /\ UNCHANGED <<fired, deaths>>
    BY <1>0, <1>1 DEF StartRun, Joined
  <2>3. CASE Valid(graph, p)
    <3>1. graph' = Applied(graph, p) /\ pc' = "claim" /\ pc = "start"
      BY <1>1, <2>3 DEF StartRun
    <3> HIDE DEF p
    <3>2. /\ \A n \in Present(graph') : Deps[n] \subseteq graph'[n].after
          /\ \A n \in In(graph', "paused") : Deps[n] \subseteq Done(graph')
          /\ \A r \in fired : graph'[r.watch].st = "done"
          /\ \A r \in Rules : Triggered(graph', r) => Triggered(graph, r)
          /\ \A r \in Rules : Landed(graph, r) => Landed(graph', r)
      BY <1>0, <2>1, <2>3, <3>1, PatchJoined
    <3> QED
      BY <1>0, <2>2, <3>1, <3>2 DEF Joined
  <2>4. CASE ~Valid(graph, p)
    BY <1>0, <1>1, <2>2, <2>4 DEF StartRun, Joined
  <2> QED
    BY <2>3, <2>4
<1>2. CASE Claim
  BY <1>0, <1>2, ClaimJoined
<1>3. CASE Wait \/ Finish \/ Continue
  BY <1>3, <1>a DEF Wait, Finish, Continue
<1>4. ASSUME NEW n \in Node, Handle(n) PROVE Joined'
  BY <1>0, <1>4, HandleJoined
<1>5. ASSUME NEW n \in Node, Consult(n) PROVE Joined'
  <2> DEFINE R == Firing(graph, fired, n)
             p == RulePatch(graph, R)
  <2>1. /\ pc = "plan" /\ unseen = {n} /\ unseen' = {} /\ graph[n].st = "done"
        /\ fired' = fired \cup R /\ pc' # "dead" /\ deaths' = deaths
    BY <1>0, <1>5 DEF Consult, Joined, AfterOutcome
  <2>2. graph' = graph \/ (Valid(graph, p) /\ graph' = Applied(graph, p))
    BY <1>5 DEF Consult
  <2>3. /\ \A m \in Present(graph') : Deps[m] \subseteq graph'[m].after
        /\ \A m \in In(graph', "paused") : Deps[m] \subseteq Done(graph')
        /\ \A r \in fired : graph'[r.watch].st = "done"
        /\ \A r \in Rules : Triggered(graph', r) => Triggered(graph, r)
        /\ \A r \in Rules : Landed(graph, r) => Landed(graph', r)
    <3>1. CASE graph' = graph
      BY <1>0, <3>1 DEF Joined
    <3>2. CASE Valid(graph, p) /\ graph' = Applied(graph, p)
      <4>1. p \in Patch
        BY RulePatchType
      <4> HIDE DEF p
      <4> QED
        BY <1>0, <3>2, <4>1, PatchJoined
    <3> QED
      BY <2>2, <3>1, <3>2
  <2>4. graph'[n].st = "done"
    BY <1>0, <2>1, <2>2, RulePatchType, AppliedGraph
  <2>5. \A r \in fired' : graph'[r.watch].st = "done"
    BY <2>1, <2>3, <2>4 DEF Firing
  <2>6. ASSUME pc' # "raised", NEW r \in Rules, Triggered(graph', r)
        PROVE  Landed(graph', r)
    <3>1. Triggered(graph, r)
      BY <2>3, <2>6
    <3>2. r.watch # n => Landed(graph, r)
      BY <1>0, <2>1, <3>1 DEF Joined
    <3>3. r.watch = n => Landed(graph', r)
      BY <1>0, <1>5, <2>6, <3>1, ConsultLands
    <3> QED
      BY <2>3, <3>2, <3>3
  <2> QED
    BY <2>1, <2>3, <2>5, <2>6 DEF Joined
<1>6. ASSUME NEW n \in Node, Work(n), UNCHANGED sched PROVE Joined'
  <2>1. graph' = graph
    BY <1>6, WorkStep DEF IInv
  <2> QED
    BY <1>6, <2>1 DEF Joined, sched
<1>7. ASSUME NEW n \in Node, Answer(n) PROVE Joined'
  <2>1. PICK a \in {"yes", "no"} : graph' = Answered(graph, n, a)
    BY <1>7 DEF Answer
  <2>2. /\ graph[n].st = "paused" /\ graph'[n].st = "pending"
        /\ graph'[n].after = graph[n].after /\ graph'[n].verdict = graph[n].verdict
        /\ \A m \in Node \ {n} : graph'[m] = graph[m]
    BY <1>0, <1>7, <2>1, OneNode DEF Answer
  <2>3. Present(graph') = Present(graph) /\ Done(graph') = Done(graph)
    BY <2>2 DEF Present, Done, In
  <2>4. pc = "returned" /\ unseen = {} /\ UNCHANGED sched
    BY <1>0, <1>7 DEF Answer, Joined
  <2>5. \A m \in Present(graph') : Deps[m] \subseteq graph'[m].after
    BY <1>0, <2>2, <2>3 DEF Joined, Present
  <2>6. \A m \in In(graph', "paused") : Deps[m] \subseteq Done(graph')
    BY <1>0, <2>2, <2>3 DEF Joined, In
  <2>7. \A r \in fired : graph'[r.watch].st = "done"
    BY <1>0, <2>2, RuleTyped DEF Joined, IInv, TypeOK
  <2>8. ASSUME NEW r \in Rules, Triggered(graph', r) PROVE Landed(graph', r)
    <3>1. Triggered(graph, r)
      BY <2>2, <2>8, RuleTyped DEF Triggered
    <3>2. Landed(graph, r)
      BY <1>0, <2>4, <3>1 DEF Joined
    <3> QED
      BY <2>2, <2>3, <3>2, LandedStays DEF Present
  <2> QED
    BY <2>4, <2>5, <2>6, <2>7, <2>8, <1>0 DEF sched, Joined
<1>8. CASE Exit \/ Crash \/ Load
  BY <1>0, <1>8 DEF Exit, Crash, Load
<1>9. CASE UNCHANGED vars
  BY <1>9 DEF Joined, vars, sched
<1> QED
  BY <1>1, <1>2, <1>3, <1>4, <1>5, <1>6, <1>7, <1>8, <1>9 DEF Next, Schedule, Person

\* In a process that is not killed, every rule whose outcome the planner has
\* seen has its follow-up in the graph, and every linked node that waits for
\* the watched node waits for the follow-up: no thread timing, pause or other
\* rule lets the join start first.
THEOREM FollowUpsAlwaysJoin == Spec => []FollowUpsJoined
<1>1. Init => Joined
  <2>1. Init => Present(graph) = {} /\ Done(graph) = {} /\ In(graph, "paused") = {}
    BY DEF Init, EmptyGraph, Absent, Present, Done, In
  <2>2. Init => \A r \in Rules : ~Triggered(graph, r)
    BY RuleTyped DEF Init, EmptyGraph, Absent, Triggered
  <2> QED
    BY <2>1, <2>2 DEF Init, Joined
<1>2. Joined => FollowUpsJoined
  BY DEF Joined, FollowUpsJoined, Landed, Honoured
<1> QED
  BY <1>1, <1>2, JoinedStep, Invariance, PTL DEF Spec

-------------------------------------------------------------------------------
(* graph.json implements DurableGraph.                                     *)

\* While the process lives a finished node stays as it is in memory.
LEMMA DoneKept ==
  ASSUME IInv, Next, pc # "dead", pc' # "dead", NEW n \in Node, graph[n].st = "done"
  PROVE  graph'[n] = graph[n]
<1>0. graph \in Graph
  BY DEF IInv, TypeOK
<1>1. CASE StartRun
  <2>1. [add |-> Plan, twice |-> {}, link |-> {}] \in Patch
    BY EagerAssumption DEF Patch
  <2> QED
    BY <1>0, <1>1, <2>1, AppliedGraph DEF StartRun
<1>2. CASE Claim
  <2>1. n \notin Claimable(graph) /\ n \notin Blocked(graph)
    BY <1>0, ClaimedNode
  <2> QED
    BY <1>0, <1>2, <2>1, ClaimedNode DEF Claim
<1>3. ASSUME NEW m \in Node, Handle(m) PROVE graph'[n] = graph[n]
  BY <1>0, <1>3, HandleStep, OneNode
<1>4. ASSUME NEW m \in Node, Consult(m) PROVE graph'[n] = graph[n]
  BY <1>0, <1>4, RulePatchType, AppliedGraph DEF Consult
<1>5. ASSUME NEW m \in Node, Work(m) PROVE graph'[n] = graph[n]
  BY <1>5, WorkStep DEF IInv
<1>6. ASSUME NEW m \in Node, Answer(m) PROVE graph'[n] = graph[n]
  BY <1>0, <1>6, OneNode DEF Answer
<1>7. CASE Wait \/ Finish \/ Continue \/ Exit \/ Crash \/ Load
  BY <1>7 DEF Wait, Finish, Continue, Exit, Crash, Load
<1> QED
  BY <1>1, <1>2, <1>3, <1>4, <1>5, <1>6, <1>7 DEF Next, Schedule, Person

\* Only a living process writes graph.json.
LEMMA WriterLives ==
  ASSUME IInv, Next, disk' # disk
  PROVE  pc # "dead" /\ pc' # "dead" /\ disk' = graph'
<1>1. ASSUME NEW m \in Node, Work(m) PROVE FALSE
  BY <1>1, WorkStep DEF IInv
<1>2. pc # "dead" /\ pc' # "dead"
  BY <1>1 DEF Next, Schedule, Person, StartRun, Claim, Wait, Finish, Exit, Handle, Consult, Answer,
              Continue, Crash, Load, AfterOutcome, sched
<1> QED
  BY <1>2, DiskStep

\* No step changes a finished node of graph.json.
LEMMA DoneStep ==
  ASSUME IInv, Next, NEW n \in Node, disk[n].st = "done"
  PROVE  disk'[n] = disk[n]
<1> SUFFICES ASSUME disk' # disk PROVE disk'[n] = disk[n]
  OBVIOUS
<1>1. pc # "dead" /\ pc' # "dead" /\ disk' = graph'
  BY WriterLives
<1>2. graph[n] = disk[n]
  BY <1>1 DEF IInv, Synced, Saved
<1> QED
  BY <1>1, <1>2, DoneKept

\* A finished node of graph.json is final.
THEOREM DoneStaysDone == Spec => DoneIsDurable
<1>1. IInv /\ [Next]_vars => [\A n \in Node : disk[n].st = "done" => disk'[n] = disk[n]]_vars
  BY DoneStep DEF vars
<1> QED
  BY <1>1, Invariance, PTL DEF Spec, DoneIsDurable

-------------------------------------------------------------------------------
(* How graph.json steps in DurableGraph.                                   *)

\* The verdicts of DurableGraph are the results in graph.json.
LEMMA MappedSets ==
  ASSUME Told(disk)
  PROVE  DG!Finished = Done(disk) /\ DG!Failed = Unresolved(disk)
BY DEF DG!Finished, DG!Failed, Told, Done, In, Unresolved

\* A patch, of the plan or of the planner, is a step that grows the graph.
LEMMA GrowStep ==
  ASSUME Good(disk), NEW p \in Patch, Valid(disk, p), disk' = Applied(disk, p)
  PROVE  DG!Grow
<1>1. Grows(disk, disk')
  BY PatchGrows
<1>2. [n \in Node |-> disk'[n].verdict] = [n \in Node |-> disk[n].verdict]
  BY <1>1 DEF Grows
<1>3. \A n \in DG!Finished : n \in Node /\ disk[n].verdict # "none"
  BY DEF DG!Finished
<1> QED
  BY <1>1, <1>2, <1>3 DEF Grows, DG!Grow

\* A step that changes neither nodes nor dependencies nor a finished node
\* gives verdicts, each for its reason.
LEMMA FinishStep ==
  ASSUME Good(disk), Good(disk'), Present(disk') = Present(disk),
         \A n \in Node : /\ disk'[n].after = disk[n].after
                         /\ disk[n].st = "done" => disk'[n] = disk[n]
  PROVE  DG!Finish
<1>1. [n \in Node |-> disk'[n].after] = [n \in Node |-> disk[n].after]
  OBVIOUS
<1>2. Told(disk) /\ Told(disk')
  BY DEF Good
<1>3. DG!Finished = Done(disk) /\ DG!Finished' = Done(disk') /\ DG!Failed' = Unresolved(disk')
  BY <1>2, MappedSets, VerdictsAreDone DEF DG!Finished, DG!Failed, Told, Done, In, Unresolved
<1>4. \A n \in Done(disk) : n \in Node /\ disk'[n] = disk[n]
  BY DEF Done, In
<1>5. \A n \in Node \ Present(disk) : disk'[n].verdict = "none"
  BY <1>2 DEF Told, Present
<1>6. Present(disk) \subseteq Node
  BY DEF Present
<1> QED
  BY <1>1, <1>3, <1>4, <1>5, <1>6, VerdictsHaveReasons DEF DG!Finish

\* Every step of the executor is a step of DurableGraph, or none.
LEMMA RefinementStep == IInv /\ IInv' /\ [Next]_vars => [DG!DNext]_(DG!dvars)
<1> SUFFICES ASSUME IInv, IInv', Next, disk' # disk
             PROVE  DG!DNext
  BY DEF vars, DG!dvars, Present
<1>0. pc # "dead" /\ disk' = graph' /\ graph \in Graph /\ disk \in Graph
  BY WriterLives DEF IInv, TypeOK
<1>a. /\ Present(graph) = Present(disk)
      /\ \A n \in Node : graph[n].after = disk[n].after
  BY <1>0 DEF IInv, Synced, Saved, Present
<1>b. ASSUME Present(graph') = Present(graph),
             \A n \in Node : graph'[n].after = graph[n].after
      PROVE  DG!DNext
  BY <1>0, <1>a, <1>b, DoneStep, FinishStep DEF DG!DNext, IInv
<1>1. CASE StartRun
  <2>1. [add |-> Plan, twice |-> {}, link |-> {}] \in Patch
    BY EagerAssumption DEF Patch
  <2>2. PICK p \in Patch : Valid(graph, p) /\ graph' = Applied(graph, p)
    BY <1>1, <2>1 DEF StartRun
  <2>3. graph = disk
    BY <1>1 DEF StartRun, IInv, Synced
  <2> QED
    BY <1>0, <2>2, <2>3, GrowStep DEF DG!DNext, IInv
<1>2. CASE Claim
  BY <1>0, <1>2, <1>b, ClaimedGraph DEF Claim
<1>3. ASSUME NEW n \in Node, Handle(n) PROVE DG!DNext
  <2>1. \A m \in Node : graph'[m].after = graph[m].after
    BY <1>0, <1>3, HandleStep, OneNode
  <2>2. graph[n].st = "running" /\ graph'[n].st \in {"paused", "done"}
    BY <1>0, <1>3, HandleStep, OneNode
  <2>3. \A m \in Node \ {n} : graph'[m] = graph[m]
    BY <1>0, <1>3, HandleStep, OneNode
  <2>4. Present(graph') = Present(graph)
    BY <2>2, <2>3 DEF Present
  <2> QED
    BY <1>b, <2>1, <2>4
<1>4. ASSUME NEW n \in Node, Consult(n) PROVE DG!DNext
  <2>1. PICK p \in Patch : Valid(graph, p) /\ graph' = Applied(graph, p)
    BY <1>4, RulePatchType DEF Consult
  <2>2. graph = disk
    BY <1>4 DEF Consult, IInv, Synced
  <2> QED
    BY <1>0, <2>1, <2>2, GrowStep DEF DG!DNext, IInv
<1>5. CASE Finish
  BY <1>5, <1>b DEF Finish
<1>6. ASSUME NEW n \in Node, Answer(n) PROVE DG!DNext
  <2>1. PICK a \in {"yes", "no"} : graph' = Answered(graph, n, a)
    BY <1>6 DEF Answer
  <2>2. graph[n].st = "paused"
    BY <1>6 DEF Answer
  <2>3. \A m \in Node : graph'[m].after = graph[m].after
    BY <1>0, <2>1, OneNode
  <2>4. Present(graph') = Present(graph)
    BY <1>0, <2>1, <2>2, OneNode DEF Present
  <2> QED
    BY <1>b, <2>3, <2>4
<1>7. ASSUME NEW n \in Node, Work(n) PROVE FALSE
  BY <1>7, WorkStep DEF IInv
<1>8. ~(Wait \/ Continue \/ Exit \/ Crash \/ Load)
  BY DEF Wait, Continue, Exit, Crash, Load
<1> QED
  BY <1>1, <1>2, <1>3, <1>4, <1>5, <1>6, <1>7, <1>8 DEF Next, Schedule, Person

\* The executor, with its threads, pauses, planner and crashes, implements the
\* abstract promise of graph.json.
THEOREM Refinement == Spec => KeepsItsPromise
<1>1. Init => DG!DInit
  BY DEF Init, DG!DInit, EmptyGraph, Absent, Present
<1> QED
  BY <1>1, RefinementStep, Invariance, PTL DEF Spec, KeepsItsPromise, DG!DSpec

===============================================================================
