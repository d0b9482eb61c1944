------------------------------ MODULE RulePlanner ------------------------------
(***************************************************************************)
(* RulePlanner of agentkit/graph/rule_planner.py: on_outcome turns one     *)
(* recorded outcome into the patch of the rules that fire on it.           *)
(***************************************************************************)
EXTENDS GraphStore

CONSTANTS
  Rules         \* the rules of the plan file

\* A rule watches one node; it fires when the node ends with that verdict and
\* data in `on`, and then adds nodes and links <<dependency, node>>.  The plan
\* file cannot name "bypassed": the planner is not asked about a bypass.
Rule == [watch: Node, verdict: Verdict \ {"bypassed"}, on: SUBSET (Data \cup {NoData}),
         add: SUBSET Node, link: SUBSET (Node \X Node)]

ASSUME RuleAssumption == Rules \subseteq Rule

\* The rules that fire on the outcome of n in g: each at most once per
\* planner, whose memory of fired rules is `past`.
Firing(g, past, n) ==
  {r \in Rules \ past : r.watch = n /\ r.verdict = g[n].verdict /\ g[n].data \in r.on}

\* Mutant: the planner drops a link whenever its target is already there.
PatchLinkingNewNodesOnly(g, R) ==
  LET new == (UNION {r.add : r \in R}) \ Present(g)
  IN [add |-> new,
      twice |-> {n \in new : \E r, s \in R : r # s /\ n \in r.add \cap s.add},
      link |-> {l \in UNION {r.link : r \in R} : g[l[2]].st = "absent"}]

\* One patch from all the rules that fire; nodes that exist are not added
\* again, nodes that have started gain no edge.
RulePatch(g, R) ==
  LET new == (UNION {r.add : r \in R}) \ Present(g)
  IN [add |-> new,
      twice |-> {n \in new : \E r, s \in R : r # s /\ n \in r.add \cap s.add},
      link |-> {l \in UNION {r.link : r \in R} : g[l[2]].st \in {"absent", "pending"}}]

\* The planner's turn for n in s = [graph, fired, stop]; stop: it has raised.
Planned(s, n) ==
  LET R == Firing(s.graph, s.fired, n)
      p == RulePatch(s.graph, R)
  IN IF s.stop THEN s
     ELSE IF p.add = {} /\ p.link = {} THEN [s EXCEPT !.fired = @ \cup R]
     ELSE IF Valid(s.graph, p) THEN [s EXCEPT !.fired = @ \cup R, !.graph = Applied(s.graph, p)]
     ELSE [s EXCEPT !.fired = @ \cup R, !.stop = TRUE]

\* The outcome of r.watch in g makes r fire.
Triggered(g, r) ==
  /\ g[r.watch].st = "done"
  /\ g[r.watch].verdict = r.verdict /\ g[r.watch].data \in r.on

\* The rule's follow-up is in the graph, and every node the rule links to it
\* that also waits for the watched node waits for the follow-up too.
Honoured(g, r) ==
  /\ r.add \subseteq Present(g)
  /\ \A l \in r.link : r.watch \in Deps[l[2]] /\ l[2] \in Present(g) =>
       l[1] \in g[l[2]].after \/ g[l[2]].verdict = "bypassed"

===============================================================================
