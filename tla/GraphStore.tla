------------------------------ MODULE GraphStore ------------------------------
(***************************************************************************)
(* The task graph of agentkit/graph/engine.py: class TaskSpec, GraphPatch  *)
(* and the methods of GraphStore that change nodes.  Every method body     *)
(* runs under the store's lock, so each is one function from a graph to a  *)
(* graph here; the executors (EagerExecutor, SuperstepExecutor) decide     *)
(* when it is called, and by which thread.                                 *)
(*                                                                         *)
(* A graph is a function on every id that a plan or a planner may use; an  *)
(* id that is not a key of `specs` is "absent".                            *)
(***************************************************************************)
EXTENDS Integers, FiniteSets

CONSTANTS
  Node,         \* ids of nodes, of the plan and of the planner's additions
  Deps,         \* Deps[n] is the `after` list n is written with
  Settled,      \* the nodes with requires = "settled"; the others "resolved"
  Registered,   \* the nodes whose action is in the registry
  MaxNodes,     \* the node budget, GraphStore.max_nodes
  Data,         \* what a result's data can be, as far as rules tell it apart
  NoData        \* the data of a node without a result

ASSUME StoreAssumption ==
  /\ IsFiniteSet(Node)
  /\ Deps \in [Node -> SUBSET Node]
  /\ Settled \subseteq Node
  /\ Registered \subseteq Node
  /\ MaxNodes \in Nat

Verdict == {"resolved", "declined", "handed_off", "failed", "bypassed"}

TaskState == {"absent", "pending", "running", "paused", "done"}

\* st is the property TaskSpec.state; answer is the `resume` field: what a
\* person answered to the node's interrupt, once somebody did.
TaskSpec == [st: TaskState, verdict: Verdict \cup {"none"}, data: Data \cup {NoData},
             after: SUBSET Node, answer: {"none", "yes", "no"}]

Graph == [Node -> TaskSpec]

Absent == [st |-> "absent", verdict |-> "none", data |-> NoData,
           after |-> {}, answer |-> "none"]

EmptyGraph == [n \in Node |-> Absent]

In(g, state) == {n \in Node : g[n].st = state}
Present(g) == {n \in Node : g[n].st # "absent"}
Done(g) == In(g, "done")
Unresolved(g) == {n \in Done(g) : g[n].verdict # "resolved"}

-------------------------------------------------------------------------------
(* GraphStore.apply: the whole patch is validated before anything changes. *)

\* A patch: nodes to add, ids it lists more than once, and edges
\* <<dependency, node>> to add.
Patch == [add: SUBSET Node, twice: SUBSET Node, link: SUBSET (Node \X Node)]

\* The `after` of every node once p is applied.
Proposed(g, p) ==
  [n \in Node |-> (IF n \in p.add THEN Deps[n] ELSE g[n].after)
                    \cup {d \in Node : <<d, n>> \in p.link}]

\* No cycle among the nodes of S: every nonempty part of S has a member that
\* depends on nothing in that part.  The code searches depth first.
Acyclic(after, S) ==
  \A T \in SUBSET S : T # {} => \E n \in T : after[n] \cap T = {}

\* `started_at is None and result is None`: a pausing node clears started_at.
Unstarted(g, n) == g[n].st \in {"pending", "paused"}

Valid(g, p) ==
  LET known == Present(g) \cup p.add
  IN /\ Cardinality(Present(g)) + Cardinality(p.add) <= MaxNodes
     /\ p.add \subseteq Registered
     /\ p.add \cap Present(g) = {} /\ p.twice = {}
     /\ \A n \in p.add : Deps[n] \subseteq known
     /\ \A l \in p.link : /\ l[1] \in known /\ l[2] \in known
                          /\ l[2] \in Present(g) => Unstarted(g, l[2])
     /\ Acyclic(Proposed(g, p), known)

Applied(g, p) ==
  [n \in Node |->
     [(IF n \in p.add THEN [Absent EXCEPT !.st = "pending"] ELSE g[n])
        EXCEPT !.after = Proposed(g, p)[n]]]

-------------------------------------------------------------------------------
(* GraphStore.claim_ready: first every node whose requirement can no       *)
(* longer be met is bypassed, until nothing changes; then every pending    *)
(* node whose dependencies all have a result is claimed.                   *)

\* B is closed under one pass of the bypass loop.
BypassClosed(g, B) ==
  \A n \in In(g, "pending") \ Settled :
    g[n].after \cap (Unresolved(g) \cup B) # {} => n \in B

\* The loop runs to a fixed point: the least closed set of pending nodes.
Blocked(g) ==
  {n \in In(g, "pending") :
     \A B \in SUBSET In(g, "pending") : BypassClosed(g, B) => n \in B}

\* Mutant: `any` for `all`: one finished dependency is enough.
ClaimableOnFirstDep(g) ==
  {n \in In(g, "pending") \ Blocked(g) :
     \/ g[n].after = {}
     \/ g[n].after \cap (Done(g) \cup Blocked(g)) # {}}

\* Mutant: the partial join waits for resolved dependencies like any node.
ClaimableWhenResolved(g) ==
  {n \in In(g, "pending") \ Blocked(g) :
     /\ g[n].after \subseteq Done(g) \cup Blocked(g)
     /\ g[n].after \cap (Unresolved(g) \cup Blocked(g)) = {}}

Claimable(g) ==
  {n \in In(g, "pending") \ Blocked(g) :
     g[n].after \subseteq Done(g) \cup Blocked(g)}

Claimed(g) ==
  [n \in Node |->
     CASE n \in Blocked(g) -> [g[n] EXCEPT !.st = "done", !.verdict = "bypassed"]
       [] n \in Claimable(g) -> [g[n] EXCEPT !.st = "running"]
       [] OTHER -> g[n]]

-------------------------------------------------------------------------------
(* GraphStore.record, pause and resume, and from_dict.                     *)

Recorded(g, n, verdict, data) ==
  [g EXCEPT ![n] = [@ EXCEPT !.st = "done", !.verdict = verdict, !.data = data]]

\* pause clears started_at and any earlier answer.
PausedAt(g, n) == [g EXCEPT ![n] = [@ EXCEPT !.st = "paused", !.answer = "none"]]

\* resume keeps the answer with the node; the node is pending again.
Answered(g, n, a) == [g EXCEPT ![n] = [@ EXCEPT !.st = "pending", !.answer = a]]

\* Mutant: from_dict resets failed nodes too, so that they are tried again.
ReloadedRetryingFailures(g) ==
  [n \in Node |-> IF g[n].st = "running" \/ g[n].verdict = "failed"
                    THEN [g[n] EXCEPT !.st = "pending", !.verdict = "none", !.data = NoData]
                    ELSE g[n]]

\* from_dict: what was mid-flight when the run died is pending again.
Reloaded(g) ==
  [n \in Node |-> IF g[n].st = "running" THEN [g[n] EXCEPT !.st = "pending"] ELSE g[n]]

-------------------------------------------------------------------------------
(* What a graph must satisfy whatever is done to it.                       *)

\* A graph whose plan-time and planner-time patches were all validated: no
\* dependency on an id that is not there, no cycle, within the budget.
WellFormed(g) ==
  /\ \A n \in Node : g[n].after \subseteq Present(g)
  /\ Acyclic([n \in Node |-> g[n].after], Present(g))
  /\ Cardinality(Present(g)) <= MaxNodes

\* A node that runs, or ran, had all its dependencies finished, and resolved
\* unless it is a partial join; a bypassed one had a dependency that failed it.
Justified(g) ==
  \A n \in Node :
    /\ g[n].st = "running" \/ (g[n].st = "done" /\ g[n].verdict # "bypassed")
         => /\ g[n].after \subseteq Done(g)
            /\ n \notin Settled => g[n].after \cap Unresolved(g) = {}
    /\ g[n].st = "done" /\ g[n].verdict = "bypassed"
         => n \notin Settled /\ g[n].after \cap Unresolved(g) # {}

===============================================================================
