----------------------------- MODULE EagerExecutor -----------------------------
(***************************************************************************)
(* LiveGraphExecutor in its default mode "eager": one scheduler thread     *)
(* claims nodes, waits for the first futures to finish, records each       *)
(* outcome and asks the rule planner (agentkit/graph/rule_planner.py) what *)
(* to add.  The process may die between any two steps; graph.json can be   *)
(* loaded and continued.  A person answers paused nodes when the run has   *)
(* returned (agentkit/harness/run_one.py, resume_task).                    *)
(***************************************************************************)
EXTENDS NodeWorker, RulePlanner

CONSTANTS
  Plan,         \* the nodes of the plan file
  MaxCrashes    \* bound: how often the process may be killed

ASSUME EagerAssumption ==
  /\ Plan \subseteq Node
  /\ MaxCrashes \in Nat

VARIABLES
  pc,       \* where the scheduler thread is
  batch,    \* the finished futures `wait` returned that are still to handle
  unseen,   \* the node, if any, that is recorded and the planner has not seen
  fired,    \* RulePlanner.fired of this process
  deaths    \* history: how often a process has ended without returning

sched == <<pc, batch, unseen, fired, deaths>>
vars == <<graph, disk, worker, calls, env, sched>>

PC == {"start", "claim", "finish", "wait", "handle", "plan", "returned", "raised", "dead"}

Init ==
  /\ graph = EmptyGraph /\ disk = EmptyGraph
  /\ worker = [n \in Node |-> Idle]
  /\ calls = [n \in Node |-> 0]
  /\ env \in [dry: BOOLEAN, approve: BOOLEAN]
  /\ pc = "start" /\ batch = {} /\ unseen = {}
  /\ fired = {} /\ deaths = 0

-------------------------------------------------------------------------------
(* run and continue_from                                                   *)

\* run(): the plan is the first patch; a plan the store refuses raises.
StartRun ==
  LET p == [add |-> Plan, twice |-> {}, link |-> {}]
  IN /\ pc = "start"
     /\ IF Valid(graph, p)
          THEN graph' = Applied(graph, p) /\ disk' = graph' /\ pc' = "claim"
          ELSE pc' = "raised" /\ UNCHANGED <<graph, disk>>
     /\ UNCHANGED <<worker, calls, env, batch, unseen, fired, deaths>>

\* The graph is saved only when something was claimed: a bypass alone is not.
ClaimCheckpoint(g, ready) == IF ready # {} THEN g ELSE disk

\* claim_ready, and every claimed node goes to the pool.
Claim ==
  LET ready == Claimable(graph)
  IN /\ pc = "claim"
     /\ graph' = Claimed(graph)
     /\ disk' = ClaimCheckpoint(graph', ready)
     /\ worker' = [n \in Node |-> IF n \in ready THEN Queued ELSE worker[n]]
     /\ pc' = IF ready = {} /\ InFlight = {} THEN "finish" ELSE "wait"
     /\ UNCHANGED <<calls, env, batch, unseen, fired, deaths>>

\* wait(FIRST_COMPLETED): everything that has finished by then.
Wait ==
  /\ pc = "wait"
  /\ InPhase("out") # {}
  /\ batch' = InPhase("out")
  /\ pc' = "handle"
  /\ UNCHANGED <<graph, disk, worker, calls, env, unseen, fired, deaths>>

\* Mutant: the loop waits for more futures and forgets to claim again.
NeverClaimAgain(left) == "handle"

AfterOutcome(left) == IF left = {} THEN "claim" ELSE "handle"

\* One finished future, in the order of a set: no verdict pauses the node,
\* a verdict is recorded (and checkpointed) before the planner is asked.
Handle(n) ==
  /\ pc = "handle" /\ n \in batch
  /\ batch' = batch \ {n}
  /\ worker' = [worker EXCEPT ![n] = Idle]
  /\ IF worker[n].verdict = "paused"
       THEN /\ graph' = PausedAt(graph, n)
            /\ pc' = AfterOutcome(batch')
            /\ UNCHANGED unseen
       ELSE /\ graph' = Recorded(graph, n, worker[n].verdict, worker[n].data)
            /\ pc' = "plan" /\ unseen' = {n}
  /\ disk' = graph'
  /\ UNCHANGED <<calls, env, fired, deaths>>

\* _plan: an exception of the planner or of apply ends the run.
Consult(n) ==
  LET R == Firing(graph, fired, n)
      p == RulePatch(graph, R)
  IN /\ pc = "plan" /\ n \in unseen
     /\ unseen' = {}
     /\ fired' = fired \cup R
     /\ IF p.add = {} /\ p.link = {}
          THEN pc' = AfterOutcome(batch) /\ UNCHANGED <<graph, disk>>
          ELSE IF Valid(graph, p)
                 THEN graph' = Applied(graph, p) /\ disk' = graph' /\ pc' = AfterOutcome(batch)
                 ELSE pc' = "raised" /\ UNCHANGED <<graph, disk>>
     /\ UNCHANGED <<worker, calls, env, batch, deaths>>

\* Nothing is running and nothing can start: the last checkpoint.
Finish ==
  /\ pc = "finish"
  /\ disk' = graph
  /\ pc' = "returned"
  /\ UNCHANGED <<graph, worker, calls, env, batch, unseen, fired, deaths>>

\* An exception leaves `with ThreadPoolExecutor`, which first runs every
\* queued and running future to its end; nobody reads their outcomes.
Exit ==
  /\ pc = "raised"
  /\ InFlight = InPhase("out")
  /\ deaths' = deaths + 1
  /\ pc' = "dead"
  /\ graph' = EmptyGraph /\ worker' = [n \in Node |-> Idle] /\ batch' = {} /\ unseen' = {}
  /\ UNCHANGED <<disk, calls, env, fired>>

-------------------------------------------------------------------------------
(* The process and the person                                              *)

Crash ==
  /\ pc \notin {"start", "dead"}
  /\ deaths < MaxCrashes
  /\ deaths' = deaths + 1
  /\ pc' = "dead"
  /\ graph' = EmptyGraph /\ worker' = [n \in Node |-> Idle] /\ batch' = {} /\ unseen' = {}
  /\ UNCHANGED <<disk, calls, env, fired>>

\* GraphStore.load and continue_from, with a new planner.
Load ==
  /\ pc = "dead"
  /\ Present(disk) # {}
  /\ graph' = Reloaded(disk)
  /\ pc' = "claim" /\ fired' = {}
  /\ UNCHANGED <<disk, worker, calls, env, batch, unseen, deaths>>

\* store.resume: the answer is saved before anything runs again.
Answer(n) ==
  /\ pc = "returned"
  /\ graph[n].st = "paused"
  /\ \E a \in {"yes", "no"} : graph' = Answered(graph, n, a)
  /\ disk' = graph'
  /\ UNCHANGED <<worker, calls, env, sched>>

\* resume_task goes on with a new planner and with approve_writes=True.
Continue ==
  /\ pc = "returned"
  /\ \E n \in In(graph, "pending") : graph[n].answer # "none"
  /\ pc' = "claim" /\ fired' = {}
  /\ env' = [env EXCEPT !.approve = TRUE]
  /\ UNCHANGED <<graph, disk, worker, calls, batch, unseen, deaths>>

Schedule ==
  \/ StartRun \/ Claim \/ Wait \/ Finish \/ Exit
  \/ \E n \in Node : Handle(n) \/ Consult(n)

Person == (\E n \in Node : Answer(n)) \/ Continue

Next ==
  \/ Schedule
  \/ \E n \in Node : Work(n) /\ UNCHANGED sched
  \/ Person
  \/ Crash
  \/ Load

Spec == Init /\ [][Next]_vars

\* The scheduler thread and the pool's threads run (attempts end: every call
\* of the transport has a timeout), and the person answers.  Nothing makes a
\* dead process start again.
FairSpec ==
  /\ Spec
  /\ WF_vars(Schedule)
  /\ \A n \in Node : WF_vars(Work(n) /\ UNCHANGED sched)
  /\ \A n \in Node : WF_vars(Answer(n))
  /\ WF_vars(Continue)

-------------------------------------------------------------------------------
(* Properties                                                              *)

\* The store and the scheduler keep to their types.
TypeOK ==
  /\ graph \in Graph /\ disk \in Graph
  /\ worker \in [Node -> WorkerState]
  /\ calls \in [Node -> Nat]
  /\ env \in [dry: BOOLEAN, approve: BOOLEAN]
  /\ pc \in PC
  /\ batch \subseteq Node /\ unseen \subseteq Node
  /\ fired \subseteq Rules
  /\ deaths \in Nat

\* Whatever plan, planner, pauses and crashes do, the graph in memory and the
\* checkpoint stay valid graphs (GraphStore.apply validates whole patches).
GraphsWellFormed == WellFormed(graph) /\ WellFormed(disk)

\* No node starts before its dependencies allow it and no verdict is without
\* its reason, in memory and in every checkpoint (claim_ready, apply's refusal
\* of edges into started nodes, from_dict).
VerdictsJustified == Justified(graph) /\ Justified(disk)

\* Both at any time, in memory and in graph.json.
GraphsSound == GraphsWellFormed /\ VerdictsJustified

\* A finished node in graph.json is final: no later step, crash, load, answer
\* or planner patch changes its result or its dependencies.
DoneIsDurable == [][\A n \in Node : disk[n].st = "done" => disk'[n] = disk[n]]_vars

\* An action is called only for a node that graph.json shows as claimed and
\* without a result: what was saved as finished never runs again.
CallsAreClaimed ==
  [][\A n \in Node : calls'[n] # calls[n] => disk[n].st = "running"]_vars

\* A write action is called at most once per process, whatever fails: the
\* only thing that can repeat it is the death of the process it ran in.
WriteOncePerLife == \A w \in Writes \ Asking : calls[w] <= deaths + 1

\* A write is never called in a dry run, and where writes need approval only
\* once graph.json holds a person's "yes" for it.
WritesNeedConsent ==
  [][\A w \in Writes : calls'[w] # calls[w] =>
       ~env.dry /\ (env.approve => disk[w].answer = "yes")]_vars

\* What holds of the calls to the platform, whatever fails, dies or is
\* retried: only claimed nodes call, writes once per process and only with
\* consent.
CallsAreSafe == []WriteOncePerLife /\ CallsAreClaimed /\ WritesNeedConsent

\* A node that waits neither for a person nor for a node that does.
Stranded(T) == \A n \in T : \A d \in graph[n].after \ Done(graph) : d \in T

\* When the run returns nothing is mid-flight, and every unfinished node
\* waits, through its dependencies, for a paused or an answered node.
NothingStranded ==
  pc = "returned" =>
    LET waiting == {n \in In(graph, "pending") : graph[n].answer = "none"}
    IN /\ In(graph, "running") = {}
       /\ \A T \in SUBSET waiting : Stranded(T) => T = {}

\* The planner's follow-ups reach the join in time: a node that depends on a
\* watched node never starts between the outcome and the rule's link.
FollowUpsJoined ==
  deaths = 0 /\ pc # "raised" =>
    \A r \in Rules : Triggered(graph, r) /\ r.watch \notin unseen => Honoured(graph, r)

\* While people answer, every run that is not killed ends, and by itself, with
\* a verdict for every node: it never waits for a future, a dependency or a
\* patch that cannot come.
EveryNodeEnds == []<>(pc = "dead" \/ (pc = "returned" /\ Present(graph) = Done(graph)))

\* What the documents say of a crashed run: it continues from graph.json, so
\* it returns with the follow-ups that the outcomes in it call for.
FollowUpsSurviveCrash ==
  pc = "returned" => \A r \in Rules : Triggered(disk, r) => r.add \subseteq Present(disk)

===============================================================================
