--------------------------- MODULE SuperstepExecutor ---------------------------
(***************************************************************************)
(* LiveGraphExecutor with mode="superstep": every ready node runs in the   *)
(* pool against the same snapshot; when all have finished, their outcomes  *)
(* are recorded, their channel writes applied and the planner asked, all   *)
(* in node-id order (agentkit/graph/engine.py, _run_supersteps).  The      *)
(* process may die between any two of these, and graph.json be continued.  *)
(***************************************************************************)
EXTENDS NodeWorker, RulePlanner, Channels
LOCAL INSTANCE SequencesExt

CONSTANTS
  Plan,         \* the nodes of the plan file
  WritesOf,     \* WritesOf[n]: the channel writes of a result n's action returns
  MaxSteps,     \* LiveGraphExecutor.max_steps
  MaxCrashes    \* bound: how often the process may be killed

ASSUME SuperstepAssumption ==
  /\ Plan \subseteq Node
  /\ \A n \in Node : \A c \in DOMAIN WritesOf[n] : WritesOf[n][c] \in Write
  /\ ToSet(IdOrder) = Node
  /\ MaxSteps \in Nat /\ MaxCrashes \in Nat

VARIABLES
  chan,     \* the ChannelState in memory
  saved,    \* the ChannelState in graph.json
  step,     \* GraphStore.step: supersteps recorded so far
  pc,       \* where the scheduler thread is
  ready,    \* the nodes of the step: the keys of `futures`
  todo,     \* of these, the ones still to record, or to show the planner
  fired,    \* RulePlanner.fired of this process
  mark,     \* history: the store and the planner as the step finds them
  deaths    \* history: how often a process has ended without returning

sched == <<step, pc, ready, todo, fired, mark, deaths>>
mem == <<graph, chan>>
file == <<disk, saved>>
vars == <<graph, disk, worker, calls, env, chan, saved, sched>>

PC == {"start", "claim", "wait", "record", "apply", "plan", "end",
       "finish", "returned", "raised", "dead"}

Mark(g, ch, past) == [graph |-> g, chan |-> ch, fired |-> past]

Init ==
  /\ graph = EmptyGraph /\ disk = EmptyGraph
  /\ chan = FreshChannels /\ saved = FreshChannels
  /\ worker = [n \in Node |-> Idle]
  /\ calls = [n \in Node |-> 0]
  /\ env \in [dry: BOOLEAN, approve: BOOLEAN]
  /\ step = 0 /\ pc = "start" /\ ready = {} /\ todo = {}
  /\ fired = {} /\ mark = Mark(EmptyGraph, FreshChannels, {}) /\ deaths = 0

-------------------------------------------------------------------------------
(* Reading a step                                                          *)

\* Mutant: outcomes are taken in the order of a set.
InAnyOrder(S) == S

\* sorted(... key=id): the one whose turn it is among those left.
Turn(S) ==
  {IdOrder[i] : i \in {j \in DOMAIN IdOrder :
     IdOrder[j] \in S /\ \A k \in 1..(j - 1) : IdOrder[k] \notin S}}

\* `writes`: a result that the action itself returned, whatever its verdict,
\* carries its writes; previews, refusals and crashes write nothing.
Made(w, R) ==
  [n \in {m \in R : w[m].data # NoData /\ DOMAIN WritesOf[m] # {}} |-> WritesOf[n]]

Concluded(w, R) == {n \in R : w[n].verdict # "paused"}

\* Mutant: the step goes on with the first futures that are done.
SomeDone == ready \cap InPhase("out") # {}

\* Mutant: the future of a node that paused is never done.
AllHaveVerdicts == \A n \in ready : worker[n].ph = "out" /\ worker[n].verdict # "paused"

\* wait(ALL_COMPLETED)
AllDone == ready \subseteq InPhase("out")

-------------------------------------------------------------------------------
(* run, continue_from and the loop of _run_supersteps                      *)

StartRun ==
  LET p == [add |-> Plan, twice |-> {}, link |-> {}]
  IN /\ pc = "start"
     /\ IF Valid(graph, p)
          THEN /\ graph' = Applied(graph, p) /\ disk' = graph' /\ saved' = chan
               /\ pc' = "claim" /\ mark' = Mark(graph', chan, {})
          ELSE pc' = "raised" /\ UNCHANGED <<graph, file, mark>>
     /\ UNCHANGED <<worker, calls, env, chan, step, ready, todo, fired, deaths>>

\* claim_ready, and every claimed node goes to the pool.
Claim ==
  /\ pc = "claim"
  /\ Claimable(graph) # {} => step < MaxSteps
  /\ graph' = Claimed(graph)
  /\ ready' = Claimable(graph)
  /\ IF ready' = {}
       THEN pc' = "finish" /\ UNCHANGED <<file, worker>>
       ELSE /\ pc' = "wait" /\ disk' = graph' /\ saved' = chan
            /\ worker' = [n \in Node |-> IF n \in ready' THEN Queued ELSE worker[n]]
  /\ UNCHANGED <<calls, env, chan, step, todo, fired, mark, deaths>>

\* The claim is handed back, so that the saved graph can be continued.
HandedBack(g, R) == [n \in Node |-> IF n \in R THEN [g[n] EXCEPT !.st = "pending"] ELSE g[n]]

\* StepLimitExceeded
Exceed ==
  /\ pc = "claim"
  /\ Claimable(graph) # {} /\ step >= MaxSteps
  /\ graph' = HandedBack(Claimed(graph), Claimable(graph))
  /\ disk' = graph' /\ saved' = chan
  /\ pc' = "raised"
  /\ UNCHANGED <<worker, calls, env, chan, step, ready, todo, fired, mark, deaths>>

Wait ==
  /\ pc = "wait" /\ AllDone
  /\ todo' = ready
  /\ pc' = "record"
  /\ UNCHANGED <<worker, calls, env, mem, file, step, ready, fired, mark, deaths>>

\* pause, or record without its channel writes: a checkpoint each.
Record(n) ==
  /\ pc = "record" /\ n \in Turn(todo)
  /\ graph' = IF worker[n].verdict = "paused" THEN PausedAt(graph, n)
              ELSE Recorded(graph, n, worker[n].verdict, worker[n].data)
  /\ disk' = graph' /\ saved' = chan
  /\ todo' = todo \ {n}
  /\ pc' = IF todo' = {} THEN "apply" ELSE "record"
  /\ UNCHANGED <<worker, calls, env, chan, step, ready, fired, mark, deaths>>

AfterPlanning(left) == IF left = {} THEN "end" ELSE "plan"

\* step += 1 and apply_step.  A conflict raises before the checkpoint; a
\* step without channels and without writes only counts.
ApplyStep ==
  LET made == Made(worker, Concluded(worker, ready))
      write == Channel # {} \/ DOMAIN made # {}
  IN /\ pc = "apply"
     /\ step' = step + 1
     /\ chan' = IF write THEN AppliedTo(chan, made) ELSE chan
     /\ IF write /\ Conflicts(made)
          THEN pc' = "raised" /\ UNCHANGED <<file, todo>>
          ELSE /\ disk' = graph /\ saved' = chan'
               /\ todo' = Concluded(worker, ready)
               /\ pc' = AfterPlanning(todo')
     /\ UNCHANGED <<graph, worker, calls, env, ready, fired, mark, deaths>>

\* _plan of one node of the step; an exception ends the run.
Consult(n) ==
  LET R == Firing(graph, fired, n)
      p == RulePatch(graph, R)
  IN /\ pc = "plan" /\ n \in Turn(todo)
     /\ todo' = todo \ {n}
     /\ fired' = fired \cup R
     /\ IF p.add = {} /\ p.link = {}
          THEN pc' = AfterPlanning(todo') /\ UNCHANGED <<graph, file>>
          ELSE IF Valid(graph, p)
                 THEN /\ graph' = Applied(graph, p) /\ disk' = graph' /\ saved' = chan
                      /\ pc' = AfterPlanning(todo')
                 ELSE pc' = "raised" /\ UNCHANGED <<graph, file>>
     /\ UNCHANGED <<worker, calls, env, chan, step, ready, mark, deaths>>

\* snapshot("loop"), and the next turn of the loop.
EndStep ==
  /\ pc = "end"
  /\ mark' = Mark(graph, chan, fired)
  /\ worker' = [n \in Node |-> Idle]
  /\ ready' = {}
  /\ pc' = "claim"
  /\ UNCHANGED <<calls, env, mem, file, step, todo, fired, deaths>>

\* Nothing can start: the last checkpoint (no channel has a finish of its own).
Finish ==
  /\ pc = "finish"
  /\ disk' = graph /\ saved' = chan
  /\ pc' = "returned"
  /\ UNCHANGED <<mem, worker, calls, env, step, ready, todo, fired, mark, deaths>>

-------------------------------------------------------------------------------
(* The process and the person                                              *)

Die ==
  /\ deaths' = deaths + 1
  /\ pc' = "dead"
  /\ graph' = EmptyGraph /\ chan' = FreshChannels /\ step' = 0
  /\ worker' = [n \in Node |-> Idle] /\ ready' = {} /\ todo' = {}
  /\ UNCHANGED <<file, calls, env, fired, mark>>

\* The exception leaves continue_from; no future is left in the pool.
Exit == pc = "raised" /\ Die

Crash ==
  /\ pc \notin {"start", "raised", "dead"}
  /\ deaths < MaxCrashes
  /\ Die

\* MaxCrashes also bounds how often a run that died is continued: one that is
\* at its step limit, and has channels to count it, dies at once each time.
\* GraphStore.load: the channels as they were saved, the step counter from
\* them (0 in a run without channels).
Reopen ==
  /\ graph' = Reloaded(disk) /\ chan' = Restored(saved) /\ step' = saved.step
  /\ fired' = {} /\ mark' = Mark(graph', chan', {})
  /\ pc' = "claim"

Load ==
  /\ pc = "dead"
  /\ Present(disk) # {}
  /\ deaths <= MaxCrashes
  /\ Reopen
  /\ UNCHANGED <<file, worker, calls, env, ready, todo, deaths>>

Answer(n) ==
  /\ pc = "returned"
  /\ graph[n].st = "paused"
  /\ \E a \in {"yes", "no"} : graph' = Answered(graph, n, a)
  /\ disk' = graph' /\ saved' = chan
  /\ UNCHANGED <<worker, calls, env, chan, sched>>

\* resume_task loads graph.json and goes on with approve_writes=True.
Continue ==
  /\ pc = "returned"
  /\ \E n \in In(graph, "pending") : graph[n].answer # "none"
  /\ Reopen
  /\ env' = [env EXCEPT !.approve = TRUE]
  /\ UNCHANGED <<file, worker, calls, ready, todo, deaths>>

Schedule ==
  \/ StartRun \/ Claim \/ Exceed \/ Wait \/ ApplyStep \/ EndStep \/ Finish \/ Exit
  \/ \E n \in Node : Record(n) \/ Consult(n)

Next ==
  \/ Schedule
  \/ \E n \in Node : Work(n) /\ UNCHANGED <<chan, saved, sched>>
  \/ \E n \in Node : Answer(n)
  \/ Continue
  \/ Crash
  \/ Load

Spec == Init /\ [][Next]_vars

\* As in EagerExecutor: the scheduler and the pool run, every attempt ends.
FairSpec ==
  /\ Spec
  /\ WF_vars(Schedule)
  /\ \A n \in Node : WF_vars(Work(n) /\ UNCHANGED <<chan, saved, sched>>)

-------------------------------------------------------------------------------
(* One step as a function of the outcomes alone                            *)

\* What a step makes of the store m, when its nodes end as w says: all
\* outcomes at once, then all writes at once, then the planner in id order.
StepOf(m, w) ==
  LET R == Claimable(m.graph)
      over == Concluded(w, R)
      outcomes == [n \in Node |->
                     IF n \notin R THEN Claimed(m.graph)[n]
                     ELSE IF n \notin over THEN PausedAt(Claimed(m.graph), n)[n]
                     ELSE Recorded(Claimed(m.graph), n, w[n].verdict, w[n].data)[n]]
      made == Made(w, over)
      conflict == (Channel # {} \/ DOMAIN made # {}) /\ Conflicts(made)
      start == [graph |-> outcomes, fired |-> m.fired, stop |-> conflict]
      end == FoldLeft(Planned, start, SelectSeq(IdOrder, LAMBDA n : n \in over))
  IN [graph |-> end.graph, fired |-> end.fired, stop |-> end.stop,
      chan |-> IF conflict \/ Channel = {} THEN m.chan ELSE AppliedTo(m.chan, made)]

-------------------------------------------------------------------------------
(* Properties                                                              *)

\* The store and the scheduler keep to their types.
TypeOK ==
  /\ graph \in Graph /\ disk \in Graph
  /\ worker \in [Node -> WorkerState]
  /\ chan.step \in Nat /\ saved.step \in Nat /\ step \in Nat
  /\ pc \in PC
  /\ todo \subseteq ready /\ ready \subseteq Node
  /\ fired \subseteq Rules
  /\ deaths \in Nat

\* Thread timing never changes the state, the planner's patches or the
\* checkpoint: a step leaves in graph.json what StepOf says of the store it
\* began with and of its nodes' outcomes, and nothing else, however its
\* threads and its checkpoints interleave, also when it ends in an exception.
TimingIsInvisible ==
  [][(pc = "end" \/ (pc' = "raised" /\ pc \in {"apply", "plan"})) /\ pc' # "dead" =>
       LET s == StepOf(mark, worker)
       IN /\ s.stop <=> pc' = "raised"
          /\ disk' = s.graph /\ saved' = s.chan /\ fired' = s.fired]_vars

\* All nodes of a step run against one snapshot: whenever an action is called
\* (again), the results and channels it can read are those of the step's start.
OneSnapshot ==
  [][calls' # calls => graph = Claimed(mark.graph) /\ Visible(chan) = Visible(mark.chan)]_vars

\* Every run that is not killed ends, by returning or with an exception.
RunEnds == pc = "claim" ~> pc \in {"returned", "dead"}

===============================================================================
