------------------------------ MODULE NodeWorker ------------------------------
(***************************************************************************)
(* What a worker thread of LiveGraphExecutor's pool does with one node:    *)
(* _execute, _call, _preview and _approval of agentkit/graph/engine.py,    *)
(* under the retry policy of agentkit/graph/policies.py.                   *)
(*                                                                         *)
(* A thread only reads the graph; its outcome waits in worker[n] (the      *)
(* Future) until the scheduler takes it.                                   *)
(***************************************************************************)
EXTENDS GraphStore

CONSTANTS
  Writes,       \* nodes whose action is registered with writes=True
  Previewable,  \* the write nodes whose action has a preview
  Asking,       \* nodes whose action may call interrupt()
  Flaky,        \* nodes whose tool may fail with the transport error FLAKY
  Faulty,       \* nodes whose action may be refused, time out or crash
  Outcomes,     \* Outcomes[n]: the results [verdict, data] n's action may return
  MaxTries,     \* RetryPolicy.max_attempts of a read
  MaxWorkers    \* size of the thread pool

ASSUME WorkerAssumption ==
  /\ Writes \subseteq Node
  /\ Previewable \subseteq Writes
  /\ Asking \subseteq Node /\ Flaky \subseteq Node /\ Faulty \subseteq Node
  /\ Outcomes \in [Node -> SUBSET [verdict: Verdict \ {"bypassed"}, data: Data]]
  /\ MaxTries \in Nat \ {0}
  /\ MaxWorkers \in Nat \ {0}

VARIABLES
  graph,    \* the store in memory
  disk,     \* the last checkpoint written to graph.json
  worker,   \* worker[n]: how far the thread (or the queued future) of n is
  calls,    \* history: how often n's action was called, over all processes
  env       \* [dry, approve]: RunEnv.dry_run and approve_writes

Phase == {"off", "queued", "calling", "backoff", "out"}

WorkerState == [ph: Phase, tries: Nat,
                verdict: Verdict \cup {"none", "paused"}, data: Data \cup {NoData}]

Idle == [ph |-> "off", tries |-> 0, verdict |-> "none", data |-> NoData]

Queued == [Idle EXCEPT !.ph = "queued"]

\* The thread ends with this outcome; verdict "paused" stands for _Paused.
Out(verdict, data) == [ph |-> "out", tries |-> 0, verdict |-> verdict, data |-> data]

InPhase(ph) == {n \in Node : worker[n].ph = ph}
InFlight == {n \in Node : worker[n].ph # "off"}
Busy == InPhase("calling") \cup InPhase("backoff")

\* policy_for: a write gets a single attempt, whatever its policy says.
Attempts(n) == IF n \in Writes THEN 1 ELSE MaxTries

-------------------------------------------------------------------------------

\* One call of the action's function.
Call(n, tries) ==
  /\ worker' = [worker EXCEPT ![n] = [Idle EXCEPT !.ph = "calling", !.tries = tries]]
  /\ calls' = [calls EXCEPT ![n] = @ + 1]

EndWith(n, verdict, data) ==
  /\ worker' = [worker EXCEPT ![n] = Out(verdict, data)]
  /\ UNCHANGED calls

\* _preview: nothing to show declines; an empty preview resolves, one with
\* content is handed to a person, one that crashes fails.
PreviewVerdicts(n) ==
  IF n \in Previewable THEN {"resolved", "handed_off", "failed"} ELSE {"declined"}

\* Mutant: the approval gate lets any answer through.
MayCallOnAnyAnswer(n) ==
  n \in Writes => ~env.dry /\ (env.approve => graph[n].answer # "none")

\* A write is called neither in a dry run nor, where writes need approval,
\* without the answer "yes".
MayCall(n) ==
  n \in Writes => ~env.dry /\ (env.approve => graph[n].answer = "yes")

\* A pool thread takes the queued node and _execute begins.
Pick(n) ==
  /\ worker[n].ph = "queued"
  /\ Cardinality(Busy) < MaxWorkers
  /\ \/ MayCall(n) /\ Call(n, 1)
     \/ /\ n \in Writes /\ env.dry
        /\ \E v \in PreviewVerdicts(n) : EndWith(n, v, NoData)
     \/ /\ n \in Writes /\ ~env.dry /\ env.approve
        /\ \/ graph[n].answer = "none" /\ EndWith(n, "paused", NoData)
           \/ graph[n].answer = "no" /\ EndWith(n, "declined", NoData)
           \/ n \in Previewable /\ EndWith(n, "failed", NoData)
  /\ UNCHANGED <<graph, disk, env>>

\* The action returns; NodeResult.of turns the value into a result.
Return(n) ==
  /\ worker[n].ph = "calling"
  /\ \E o \in Outcomes[n] : EndWith(n, o.verdict, o.data)
  /\ UNCHANGED <<graph, disk, env>>

\* The action calls interrupt() and nobody has answered this node yet.  Once
\* somebody has, interrupt() returns the answer and never raises again.
Interrupt(n) ==
  /\ worker[n].ph = "calling"
  /\ n \in Asking
  /\ graph[n].answer = "none"
  /\ EndWith(n, "paused", NoData)
  /\ UNCHANGED <<graph, disk, env>>

\* SeatCallFailure of kind FLAKY: wait and retry while the policy allows.
Flake(n) ==
  /\ worker[n].ph = "calling"
  /\ n \in Flaky
  /\ IF worker[n].tries < Attempts(n)
       THEN /\ worker' = [worker EXCEPT ![n].ph = "backoff"]
            /\ UNCHANGED calls
       ELSE EndWith(n, "failed", NoData)
  /\ UNCHANGED <<graph, disk, env>>

Retry(n) ==
  /\ worker[n].ph = "backoff"
  /\ Call(n, worker[n].tries + 1)
  /\ UNCHANGED <<graph, disk, env>>

\* MISSING, NOT_IN_SEAT and DENIED decline; a timeout (the attempt's own
\* thread is abandoned), any other transport error or exception fails.
Fail(n) ==
  /\ worker[n].ph = "calling"
  /\ n \in Faulty
  /\ \E v \in {"declined", "failed"} : EndWith(n, v, NoData)
  /\ UNCHANGED <<graph, disk, env>>

Work(n) == Pick(n) \/ Return(n) \/ Interrupt(n) \/ Flake(n) \/ Retry(n) \/ Fail(n)

-------------------------------------------------------------------------------
(* What graph.json means to whoever reads it                               *)

\* Whichever executor the workers serve, graph.json implements the promise of
\* DurableGraph, through every crash.
DG == INSTANCE DurableGraph WITH
        present <- Present(disk),
        after <- [n \in Node |-> disk[n].after],
        verdict <- [n \in Node |-> disk[n].verdict]

KeepsItsPromise == DG!DSpec

===============================================================================
