------------------------------ MODULE Routing ------------------------------
(***************************************************************************)
(* From a question to a plan and the design file it is about: the plan     *)
(* files of the pack (packs/designreview/plans), the rule router           *)
(* (agentkit/agents/router.py, packs/designreview/router.py) and the LLM   *)
(* planner for a question no route matches                                 *)
(* (agentkit/agents/llm_planner.py).                                       *)
(*                                                                         *)
(* A question matches a route or none; it gives a record id or words that  *)
(* occur in the names of files; it may name revisions.  What is read to    *)
(* resolve it is in Calibration.                                           *)
(***************************************************************************)
EXTENDS Naturals, FiniteSets, SequencesExt, Functions

CONSTANTS
    MaxPlanned,     \* LLMPlanner.max_nodes
    NoFile          \* no design file

-----------------------------------------------------------------------------
(* The plan files.  A node has an action, the nodes it waits for, the      *)
(* parameters its arguments need and whether it waits for them only to     *)
(* settle.  A rule adds a node when the one it watches ends that way.      *)

Node(action, after, needs) == [action |-> action, after |-> after, needs |-> needs, settled |-> FALSE]

DesignFile == Node("load_design_file", {}, {"file_id"})
ReadAfterFile(action) == Node(action, {"design_file"}, {"file_id"})
Checklists == Node("list_failed_checklists", {"release_gate"}, {"file_id"})

Rule(name, watch, verdict, id, node) ==
    [name |-> name, watch |-> watch, verdict |-> verdict, id |-> id, node |-> node]

GateBlocked == Rule("failed_checklists_when_gate_blocked", "release_gate", "resolved", "failed_checklists", Checklists)

DfmStandards == Node("gather_dfm_standards", {"revisions", "release_gate"}, {})

RevDiffDfm ==
    [name |-> "rev_diff_dfm",
     nodes |-> [design_file |-> DesignFile,
                revisions |-> ReadAfterFile("list_revisions"),
                release_gate |-> ReadAfterFile("read_release_gate"),
                feedback |-> ReadAfterFile("list_feedback"),
                dfm_standards |-> DfmStandards],
     rules |-> {GateBlocked,
                Rule("failed_checklists_when_gate_unreadable", "release_gate", "failed",
                     "failed_checklists", [Checklists EXCEPT !.settled = TRUE])}]

ReleaseHandoff ==
    [name |-> "release_handoff",
     nodes |-> [design_file |-> DesignFile,
                release_gate |-> ReadAfterFile("read_release_gate"),
                feedback |-> ReadAfterFile("list_feedback"),
                milestones |-> Node("list_milestones", {"design_file"}, {}),
                cross_seat |-> [Node("find_cross_seat_dependencies", {"release_gate", "feedback"}, {})
                                  EXCEPT !.settled = TRUE]],
     rules |-> {GateBlocked,
                Rule("file_handoffs_when_proposed", "cross_seat", "resolved",
                     "file_handoffs", Node("raise_handoffs", {"cross_seat"}, {}))}]

RouteDeclined ==
    [name |-> "route_declined", nodes |-> [route |-> Node("decline", {}, {"reason"})], rules |-> {}]

ToolRefusal ==
    [name |-> "tool_refusal",
     nodes |-> [tool_check |-> Node("probe_tool_offered", {}, {"tool"}),
                design_file |-> [DesignFile EXCEPT !.after = {"tool_check"}]],
     rules |-> {}]

\* In the order of their file names.
PlanFiles == <<ReleaseHandoff, RevDiffDfm, RouteDeclined, ToolRefusal>>

\* load_plan
PlanFile(name) == PlanFiles[CHOOSE i \in DOMAIN PlanFiles : PlanFiles[i].name = name]

\* Actions that write.
Writing == {"raise_handoffs"}

\* The parameters some route has resolved from the question.
Resolvable == {"file_id"}

-----------------------------------------------------------------------------
(* LLMPlanner: the catalogue of nodes an LLM may choose from. *)

ReadOnly(node) == node.action \notin Writing /\ node.needs \subseteq Resolvable

\* The nodes of one more plan file: the first definition of an id counts; an
\* id that has another action here is not offered.
Offer(offered, plan) ==
    LET new == {n \in DOMAIN plan.nodes \ DOMAIN offered : ReadOnly(plan.nodes[n])}
        disputed == {n \in DOMAIN plan.nodes \cap DOMAIN offered : plan.nodes[n].action # offered[n].action}
    IN [n \in (DOMAIN offered \cup new) \ disputed |-> IF n \in new THEN plan.nodes[n] ELSE offered[n]]

\* A node is offered when everything it waits for is.
WithDependencies(offered) ==
    LET Closed == {S \in SUBSET DOMAIN offered : \A n \in S : offered[n].after \subseteq S}
    IN Restrict(offered, UNION Closed)

\* The plan files in the order of their names; route_declined offers nothing.
Catalogue == WithDependencies(Offer(Offer(Offer(<<>>, ReleaseHandoff), RevDiffDfm), ToolRefusal))

\* Mutant: every rule on an offered node, whatever it adds.
AnyRules == UNION {PlanFiles[i].rules : i \in DOMAIN PlanFiles}

CatalogueRules == {r \in UNION {PlanFiles[i].rules : i \in DOMAIN PlanFiles} : ReadOnly(r.node)}

\* The picked nodes and all that they wait for.
Chosen(picked) ==
    LET Closed == {S \in SUBSET DOMAIN Catalogue : picked \subseteq S /\ \A n \in S : Catalogue[n].after \subseteq S}
    IN {n \in DOMAIN Catalogue : \A S \in Closed : n \in S}

\* choose(): is the reply one to follow?
Usable(picked) ==
    /\ picked # {} /\ picked \subseteq DOMAIN Catalogue
    /\ Cardinality(Chosen(picked)) <= MaxPlanned

-----------------------------------------------------------------------------
(* A route: the plan to run, the file it is about, who decided it, and     *)
(* (of the LLM planner) the nodes and rules themselves.                    *)

RuleRoute(name) == [plan |-> name, aim |-> NoFile, planner |-> "rules", why |-> "matched"]

\* A refusal, with its reason.
Decline(planner, reason) == [plan |-> "route_declined", aim |-> NoFile, planner |-> planner, why |-> reason]

LlmRoute(picked) ==
    LET ids == Chosen(picked)
    IN [plan |-> "llm_plan", aim |-> NoFile, planner |-> "llm", why |-> "chosen", nodes |-> Restrict(Catalogue, ids),
        rules |-> {r \in CatalogueRules : r.watch \in ids /\ r.node.after \subseteq ids}]

\* plan_for_route: the plan is rebuilt from the route if the LLM made it.
PlanOf(route) ==
    IF route.plan = "llm_plan" THEN [name |-> "llm_plan", nodes |-> route.nodes, rules |-> route.rules]
    ELSE PlanFile(route.plan)

-----------------------------------------------------------------------------
(* resolve_design_file: which file the words of a question mean.  `files`  *)
(* has for each file how well its name matches (0: not at all; a name      *)
(* within a tenth of the best scores the same) and its versions.           *)

\* Mutant: those that have it, or any one.
OrAny(some, all) == IF some = {} /\ all # {} THEN {CHOOSE f \in all : TRUE} ELSE some

\* Those that have it, or all when none has.
OrAll(some, all) == IF some = {} THEN all ELSE some

\* Files whose names match best.
TopScored(files) ==
    LET score == {files[f].score : f \in DOMAIN files}
    IN {f \in DOMAIN files : files[f].score > 0 /\ \A s \in score : files[f].score >= s}

\* With revisions named, those of them with versions to compare.
BestMatches(files, top, revs) ==
    IF revs = {} THEN top ELSE OrAll({f \in top : Len(files[f].versions) >= 2}, top)
=============================================================================
