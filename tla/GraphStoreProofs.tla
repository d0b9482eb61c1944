--------------------------- MODULE GraphStoreProofs ---------------------------
(***************************************************************************)
(* Lemmas on the operations of GraphStore: each keeps a graph a graph, its *)
(* verdicts justified and its dependencies well formed.  They hold for     *)
(* every set of nodes, every plan and every patch.                         *)
(***************************************************************************)
EXTENDS RulePlanner, FiniteSetTheorems, TLAPS

\* The bypass loop of claim_ready ends closed: one more pass adds nothing.
LEMMA BlockedClosed ==
  ASSUME NEW g \in Graph
  PROVE  BypassClosed(g, Blocked(g))
<1> SUFFICES ASSUME NEW n \in In(g, "pending") \ Settled,
                    g[n].after \cap (Unresolved(g) \cup Blocked(g)) # {},
                    NEW B \in SUBSET In(g, "pending"), BypassClosed(g, B)
             PROVE  n \in B
  BY DEF BypassClosed, Blocked
<1>1. Blocked(g) \subseteq B
  BY DEF Blocked
<1>2. g[n].after \cap (Unresolved(g) \cup B) # {}
  BY <1>1
<1> QED
  BY <1>2 DEF BypassClosed

\* The bypass loop bypasses a node only for a reason: the node requires
\* resolved dependencies and one of them did not resolve or is bypassed too.
LEMMA BlockedHasReason ==
  ASSUME NEW g \in Graph, NEW n \in Blocked(g)
  PROVE  n \notin Settled /\ g[n].after \cap (Unresolved(g) \cup Blocked(g)) # {}
<1> DEFINE C == {m \in In(g, "pending") \ Settled :
                   g[m].after \cap (Unresolved(g) \cup Blocked(g)) # {}}
<1>1. C \subseteq Blocked(g)
  BY BlockedClosed DEF BypassClosed
<1>2. BypassClosed(g, C)
  <2> SUFFICES ASSUME NEW m \in In(g, "pending") \ Settled,
                      g[m].after \cap (Unresolved(g) \cup C) # {}
               PROVE  m \in C
    BY DEF BypassClosed
  <2>1. g[m].after \cap (Unresolved(g) \cup Blocked(g)) # {}
    BY <1>1
  <2> QED
    BY <2>1
<1>3. C \in SUBSET In(g, "pending")
  OBVIOUS
<1>4. n \in C
  BY <1>2, <1>3 DEF Blocked
<1> QED
  BY <1>4

\* claim_ready returns a graph in which exactly the blocked nodes are newly
\* bypassed and exactly the claimable ones newly running.
LEMMA ClaimedGraph ==
  ASSUME NEW g \in Graph
  PROVE  /\ Claimed(g) \in Graph
         /\ \A n \in Node : Claimed(g)[n].after = g[n].after
         /\ Done(Claimed(g)) = Done(g) \cup Blocked(g)
         /\ Unresolved(Claimed(g)) = Unresolved(g) \cup Blocked(g)
         /\ Present(Claimed(g)) = Present(g)
         /\ Blocked(g) \subseteq In(g, "pending") /\ Claimable(g) \subseteq In(g, "pending")
         /\ Blocked(g) \cap Claimable(g) = {}
<1>1. Blocked(g) \subseteq In(g, "pending") /\ Claimable(g) \subseteq In(g, "pending")
      /\ Blocked(g) \cap Claimable(g) = {}
  BY DEF Blocked, Claimable
<1>2. ASSUME NEW n \in Node
      PROVE  /\ Claimed(g)[n] \in TaskSpec
             /\ Claimed(g)[n].after = g[n].after
             /\ Claimed(g)[n].st = "done" <=> g[n].st = "done" \/ n \in Blocked(g)
             /\ n \in Blocked(g) => Claimed(g)[n].verdict = "bypassed"
             /\ n \notin Blocked(g) => Claimed(g)[n].verdict = g[n].verdict
             /\ Claimed(g)[n].st = "absent" <=> g[n].st = "absent"
  <2>1. g[n] \in TaskSpec
    BY DEF Graph
  <2>2. CASE n \in Blocked(g)
    <3>1. Claimed(g)[n] = [g[n] EXCEPT !.st = "done", !.verdict = "bypassed"]
      BY <1>1, <2>2 DEF Claimed
    <3>2. g[n].st = "pending"
      BY <1>1, <2>2 DEF In
    <3> QED
      BY <2>1, <2>2, <3>1, <3>2 DEF TaskSpec, TaskState, Verdict
  <2>3. CASE n \in Claimable(g)
    <3>1. Claimed(g)[n] = [g[n] EXCEPT !.st = "running"] /\ n \notin Blocked(g)
      BY <1>1, <2>3 DEF Claimed
    <3>2. g[n].st = "pending"
      BY <1>1, <2>3 DEF In
    <3> QED
      BY <2>1, <2>3, <3>1, <3>2 DEF TaskSpec, TaskState
  <2>4. CASE n \notin Blocked(g) /\ n \notin Claimable(g)
    BY <2>1, <2>4 DEF Claimed
  <2> QED
    BY <2>2, <2>3, <2>4
<1>3. Claimed(g) \in Graph
  BY <1>2 DEF Graph, Claimed
<1>4. Done(Claimed(g)) = Done(g) \cup Blocked(g)
  BY <1>1, <1>2 DEF Done, In
<1>5. Unresolved(Claimed(g)) = Unresolved(g) \cup Blocked(g)
  <2>1. \A n \in Blocked(g) : Claimed(g)[n].verdict # "resolved" /\ g[n].st = "pending"
    BY <1>1, <1>2 DEF In
  <2> QED
    BY <1>1, <1>2, <1>4, <2>1 DEF Unresolved, Done, In
<1>6. Present(Claimed(g)) = Present(g)
  BY <1>2 DEF Present
<1> QED
  BY <1>1, <1>2, <1>3, <1>4, <1>5, <1>6

\* claim_ready gives every node it touches a justified state.
LEMMA ClaimedJustified ==
  ASSUME NEW g \in Graph, Justified(g)
  PROVE  Justified(Claimed(g))
<1> DEFINE h == Claimed(g)
<1> SUFFICES ASSUME NEW n \in Node
             PROVE  /\ h[n].st = "running" \/ (h[n].st = "done" /\ h[n].verdict # "bypassed")
                         => /\ h[n].after \subseteq Done(h)
                            /\ n \notin Settled => h[n].after \cap Unresolved(h) = {}
                    /\ h[n].st = "done" /\ h[n].verdict = "bypassed"
                         => n \notin Settled /\ h[n].after \cap Unresolved(h) # {}
  BY DEF Justified
<1>1. /\ h[n].after = g[n].after
      /\ Done(h) = Done(g) \cup Blocked(g)
      /\ Unresolved(h) = Unresolved(g) \cup Blocked(g)
      /\ Blocked(g) \subseteq In(g, "pending") /\ Claimable(g) \subseteq In(g, "pending")
      /\ Blocked(g) \cap Claimable(g) = {}
  BY ClaimedGraph
<1>2. g[n] \in TaskSpec
  BY DEF Graph
<1>3. CASE n \in Blocked(g)
  <2>1. h[n] = [g[n] EXCEPT !.st = "done", !.verdict = "bypassed"]
    BY <1>1, <1>3 DEF Claimed
  <2>2. h[n].st = "done" /\ h[n].verdict = "bypassed"
    BY <1>2, <2>1 DEF TaskSpec
  <2> QED
    BY <1>1, <1>3, <2>2, BlockedHasReason
<1>4. CASE n \in Claimable(g)
  <2>1. h[n] = [g[n] EXCEPT !.st = "running"]
    BY <1>1, <1>4 DEF Claimed
  <2>2. h[n].st = "running"
    BY <1>2, <2>1 DEF TaskSpec
  <2>3. g[n].after \subseteq Done(g) \cup Blocked(g)
    BY <1>4 DEF Claimable
  <2>4. n \notin Settled => g[n].after \cap (Unresolved(g) \cup Blocked(g)) = {}
    BY <1>1, <1>4, BlockedClosed DEF BypassClosed, Claimable
  <2> QED
    BY <1>1, <2>2, <2>3, <2>4
<1>5. CASE n \notin Blocked(g) /\ n \notin Claimable(g)
  <2>1. h[n] = g[n]
    BY <1>5 DEF Claimed
  <2>2. CASE g[n].st = "running" \/ (g[n].st = "done" /\ g[n].verdict # "bypassed")
    <3>1. g[n].after \subseteq Done(g)
      BY <2>2 DEF Justified
    <3>2. g[n].after \cap Blocked(g) = {}
      BY <1>1, <3>1 DEF Done, In
    <3> QED
      BY <1>1, <2>1, <2>2, <3>1, <3>2 DEF Justified
  <2>3. CASE g[n].st = "done" /\ g[n].verdict = "bypassed"
    BY <1>1, <2>1, <2>3 DEF Justified
  <2> QED
    BY <2>1, <2>2, <2>3
<1> QED
  BY <1>3, <1>4, <1>5

\* An accepted patch leaves every node that had started as it was.
LEMMA AppliedGraph ==
  ASSUME NEW g \in Graph, NEW p \in Patch, Valid(g, p)
  PROVE  /\ Applied(g, p) \in Graph
         /\ Present(Applied(g, p)) = Present(g) \cup p.add
         /\ Done(Applied(g, p)) = Done(g)
         /\ Unresolved(Applied(g, p)) = Unresolved(g)
         /\ \A n \in Node : g[n].st \in {"running", "done"} => Applied(g, p)[n] = g[n]
         /\ \A n \in p.add : g[n].st = "absent" /\ Applied(g, p)[n].st = "pending"
                                /\ Applied(g, p)[n].verdict = "none"
         /\ \A n \in Node \ p.add : /\ Applied(g, p)[n].st = g[n].st
                                    /\ Applied(g, p)[n].verdict = g[n].verdict
                                    /\ Applied(g, p)[n].answer = g[n].answer
                                    /\ g[n].after \subseteq Applied(g, p)[n].after
<1> DEFINE h == Applied(g, p)
<1>1. p.add \subseteq Node /\ p.add \cap Present(g) = {}
  BY DEF Patch, Valid
<1>2. \A n \in Node : Proposed(g, p)[n] = (IF n \in p.add THEN Deps[n] ELSE g[n].after)
                                          \cup {d \in Node : <<d, n>> \in p.link}
  BY DEF Proposed
<1>3. ASSUME NEW n \in Node
      PROVE  /\ h[n] \in TaskSpec
             /\ h[n].after = Proposed(g, p)[n]
             /\ n \in p.add => g[n].st = "absent" /\ h[n].st = "pending" /\ h[n].verdict = "none"
             /\ n \notin p.add => /\ h[n].st = g[n].st /\ h[n].verdict = g[n].verdict
                                  /\ h[n].answer = g[n].answer /\ h[n].data = g[n].data
                                  /\ g[n].after \subseteq h[n].after
  <2>1. g[n] \in TaskSpec /\ g[n].after \subseteq Node
    BY DEF Graph, TaskSpec
  <2>2. Proposed(g, p)[n] \subseteq Node
    BY <1>2, <2>1, StoreAssumption
  <2>3. CASE n \in p.add
    <3>1. h[n] = [[Absent EXCEPT !.st = "pending"] EXCEPT !.after = Proposed(g, p)[n]]
      BY <2>3 DEF Applied
    <3>2. g[n].st = "absent"
      BY <1>1, <2>3 DEF Present
    <3> QED
      BY <2>2, <2>3, <3>1, <3>2 DEF Absent, TaskSpec, TaskState
  <2>4. CASE n \notin p.add
    <3>1. h[n] = [g[n] EXCEPT !.after = Proposed(g, p)[n]]
      BY <2>4 DEF Applied
    <3> QED
      BY <1>2, <2>1, <2>2, <2>4, <3>1 DEF TaskSpec
  <2> QED
    BY <2>3, <2>4
<1>4. h \in Graph
  BY <1>3 DEF Graph, Applied
<1>5. Present(h) = Present(g) \cup p.add
  BY <1>1, <1>3 DEF Present
<1>6. Done(h) = Done(g) /\ Unresolved(h) = Unresolved(g)
  BY <1>3 DEF Done, In, Unresolved
<1>7. ASSUME NEW n \in Node, g[n].st \in {"running", "done"}
      PROVE  h[n] = g[n]
  <2>1. n \in Present(g) /\ n \notin p.add
    BY <1>1, <1>7 DEF Present
  <2>2. \A d \in Node : <<d, n>> \notin p.link
    BY <1>7, <2>1 DEF Valid, Unstarted
  <2>3. Proposed(g, p)[n] = g[n].after
    BY <1>2, <2>1, <2>2
  <2>4. h[n] = [g[n] EXCEPT !.after = g[n].after]
    BY <2>1, <2>3 DEF Applied
  <2> QED
    BY <2>4 DEF Graph, TaskSpec
<1> QED
  BY <1>1, <1>3, <1>4, <1>5, <1>6, <1>7

\* An accepted patch gives no started node a dependency, so what justified
\* its start or its verdict still does.
LEMMA AppliedJustified ==
  ASSUME NEW g \in Graph, NEW p \in Patch, Valid(g, p), Justified(g)
  PROVE  Justified(Applied(g, p))
<1> DEFINE h == Applied(g, p)
<1>1. ASSUME NEW n \in Node, h[n].st \in {"running", "done"}
      PROVE  g[n].st \in {"running", "done"} /\ h[n] = g[n]
  BY <1>1, AppliedGraph DEF Patch
<1>2. Done(h) = Done(g) /\ Unresolved(h) = Unresolved(g)
  BY AppliedGraph
<1> QED
  BY <1>1, <1>2 DEF Justified

\* An accepted patch keeps the graph acyclic, closed and within its budget.
LEMMA AppliedWellFormed ==
  ASSUME NEW g \in Graph, NEW p \in Patch, Valid(g, p), WellFormed(g)
  PROVE  WellFormed(Applied(g, p))
<1> DEFINE h == Applied(g, p)
<1>1. h \in Graph /\ Present(h) = Present(g) \cup p.add
  BY AppliedGraph
<1>2. p.add \subseteq Node /\ p.link \subseteq Node \X Node
  BY DEF Patch
<1>3. \A n \in Node : h[n].after = Proposed(g, p)[n]
  <2> SUFFICES ASSUME NEW n \in Node PROVE h[n].after = Proposed(g, p)[n]
    OBVIOUS
  <2>1. h[n] = [(IF n \in p.add THEN [Absent EXCEPT !.st = "pending"] ELSE g[n])
                  EXCEPT !.after = Proposed(g, p)[n]]
    BY DEF Applied
  <2> QED
    BY <2>1 DEF Graph, TaskSpec, Absent
<1>4. ASSUME NEW n \in Node PROVE h[n].after \subseteq Present(h)
  <2>1. {d \in Node : <<d, n>> \in p.link} \subseteq Present(h)
    BY <1>1 DEF Valid
  <2>2. (IF n \in p.add THEN Deps[n] ELSE g[n].after) \subseteq Present(h)
    BY <1>1 DEF Valid, WellFormed
  <2> QED
    BY <1>3, <2>1, <2>2 DEF Proposed
<1>5. Acyclic([n \in Node |-> h[n].after], Present(h))
  <2>1. [n \in Node |-> h[n].after] = Proposed(g, p)
    BY <1>3 DEF Proposed
  <2> QED
    BY <1>1, <2>1 DEF Valid
<1>6. Cardinality(Present(h)) <= MaxNodes
  <2>1. IsFiniteSet(Present(g)) /\ IsFiniteSet(p.add)
    BY <1>2, StoreAssumption, FS_Subset DEF Present
  <2>2. Present(g) \cap p.add = {}
    BY DEF Valid
  <2>3. Cardinality(Present(h)) = Cardinality(Present(g)) + Cardinality(p.add)
    <3>1. Cardinality(Present(g) \cup p.add) = Cardinality(Present(g))
            + Cardinality(p.add) - Cardinality(Present(g) \cap p.add)
      BY <2>1, FS_Union
    <3>2. Cardinality(Present(g) \cap p.add) = 0
      BY <2>2, FS_EmptySet
    <3>3. Cardinality(Present(g)) \in Nat /\ Cardinality(p.add) \in Nat
      BY <2>1, FS_CardinalityType
    <3>4. Cardinality(Present(h)) = Cardinality(Present(g) \cup p.add)
      BY <1>1
    <3> HIDE DEF h
    <3> QED
      BY <3>1, <3>2, <3>3, <3>4
  <2> QED
    BY <2>3 DEF Valid
<1> QED
  BY <1>4, <1>5, <1>6 DEF WellFormed

-------------------------------------------------------------------------------
(* What every operation keeps.                                             *)

\* A node has a verdict exactly when it is done; an id that is not there has
\* no dependencies.
Told(g) ==
  \A n \in Node : /\ g[n].verdict # "none" <=> g[n].st = "done"
                  /\ g[n].st = "absent" => g[n].after = {}

Good(g) == g \in Graph /\ WellFormed(g) /\ Justified(g) /\ Told(g)

\* A graph with the same nodes and the same dependencies is as well formed.
LEMMA SameShape ==
  ASSUME NEW g \in Graph, NEW h \in Graph, WellFormed(g), Present(h) = Present(g),
         \A n \in Node : h[n].after = g[n].after
  PROVE  WellFormed(h)
<1>1. [n \in Node |-> h[n].after] = [n \in Node |-> g[n].after]
  OBVIOUS
<1> QED
  BY <1>1 DEF WellFormed

\* A graph with fewer nodes and fewer dependencies is as well formed.
LEMMA ShrunkWellFormed ==
  ASSUME NEW g, WellFormed(g), NEW h, Present(h) \subseteq Present(g),
         \A n \in Node : h[n].after \subseteq g[n].after /\ h[n].after \subseteq Present(h)
  PROVE  WellFormed(h)
<1>1. Acyclic([n \in Node |-> h[n].after], Present(h))
  <2> SUFFICES ASSUME NEW T \in SUBSET Present(h), T # {}
               PROVE  \E n \in T : h[n].after \cap T = {}
    BY DEF Acyclic, Present
  <2>1. T \in SUBSET Present(g) /\ T \subseteq Node
    BY DEF Present
  <2>2. PICK n \in T : g[n].after \cap T = {}
    BY <2>1 DEF WellFormed, Acyclic
  <2> QED
    BY <2>1, <2>2
<1>2. Cardinality(Present(h)) <= MaxNodes
  <2>0. Present(g) \in SUBSET Node /\ Present(h) \in SUBSET Present(g)
    BY DEF Present
  <2>1. IsFiniteSet(Present(g))
    BY <2>0, StoreAssumption, FS_Subset
  <2>2. IsFiniteSet(Present(h)) /\ Cardinality(Present(h)) <= Cardinality(Present(g))
    BY <2>0, <2>1, FS_Subset
  <2>3. Cardinality(Present(h)) \in Nat /\ Cardinality(Present(g)) \in Nat
    BY <2>1, <2>2, FS_CardinalityType
  <2> QED
    BY <2>2, <2>3, StoreAssumption DEF WellFormed
<1> QED
  BY <1>1, <1>2 DEF WellFormed

\* A change that finishes nothing and starts nothing keeps the graph good.
LEMMA HeldBack ==
  ASSUME NEW g \in Graph, NEW h \in Graph, Good(g),
         \A n \in Node : /\ h[n].after = g[n].after
                         /\ h[n].verdict = g[n].verdict
                         /\ h[n].st = "absent" <=> g[n].st = "absent"
                         /\ h[n].st = "done" <=> g[n].st = "done"
                         /\ h[n].st = "running" => g[n].st = "running"
  PROVE  Good(h)
<1>1. Present(h) = Present(g)
  BY DEF Present
<1>2. Done(h) = Done(g) /\ Unresolved(h) = Unresolved(g)
  BY DEF Done, In, Unresolved
<1>3. WellFormed(h)
  BY <1>1, SameShape DEF Good
<1>4. Justified(h)
  BY <1>2 DEF Justified, Good
<1>5. Told(h)
  BY DEF Told, Good
<1> QED
  BY <1>3, <1>4, <1>5 DEF Good

\* The store before the plan is applied is good.
LEMMA EmptyGood == Good(EmptyGraph)
<1>1. EmptyGraph \in Graph
  BY DEF EmptyGraph, Absent, Graph, TaskSpec, TaskState
<1>2. Present(EmptyGraph) = {} /\ Done(EmptyGraph) = {}
  BY DEF EmptyGraph, Absent, Present, Done, In
<1>3. Cardinality({}) = 0
  BY FS_EmptySet
<1>4. WellFormed(EmptyGraph)
  <2>1. \A n \in Node : EmptyGraph[n].after = {}
    BY DEF EmptyGraph, Absent
  <2>2. Acyclic([n \in Node |-> EmptyGraph[n].after], Present(EmptyGraph))
    BY <1>2 DEF Acyclic
  <2>3. Cardinality(Present(EmptyGraph)) <= MaxNodes
    BY <1>2, <1>3, StoreAssumption
  <2> QED
    BY <2>1, <2>2, <2>3 DEF WellFormed
<1>5. Justified(EmptyGraph) /\ Told(EmptyGraph)
  BY DEF EmptyGraph, Absent, Justified, Told
<1> QED
  BY <1>1, <1>4, <1>5 DEF Good

\* claim_ready keeps the graph good.
LEMMA ClaimedGood ==
  ASSUME NEW g, Good(g)
  PROVE  Good(Claimed(g))
<1>1. g \in Graph
  BY DEF Good
<1>2. Claimed(g) \in Graph /\ Present(Claimed(g)) = Present(g)
      /\ \A n \in Node : Claimed(g)[n].after = g[n].after
  BY <1>1, ClaimedGraph
<1>3. WellFormed(Claimed(g))
  BY <1>1, <1>2, SameShape DEF Good
<1>4. Justified(Claimed(g))
  BY <1>1, ClaimedJustified DEF Good
<1>5. Told(Claimed(g))
  <2> SUFFICES ASSUME NEW n \in Node
               PROVE  Claimed(g)[n].verdict # "none" <=> Claimed(g)[n].st = "done"
    BY <1>1, <1>2 DEF Told, Good, Present
  <2>1. g[n] \in TaskSpec /\ (g[n].verdict # "none" <=> g[n].st = "done")
    BY <1>1 DEF Graph, Good, Told
  <2>2. CASE n \in Blocked(g)
    <3>1. Claimed(g)[n] = [g[n] EXCEPT !.st = "done", !.verdict = "bypassed"]
      BY <2>2 DEF Claimed, Claimable
    <3>2. Claimed(g)[n].st = "done" /\ Claimed(g)[n].verdict = "bypassed"
      BY <2>1, <3>1 DEF TaskSpec
    <3> QED
      BY <3>2
  <2>3. CASE n \in Claimable(g) /\ n \notin Blocked(g)
    <3>1. Claimed(g)[n] = [g[n] EXCEPT !.st = "running"]
      BY <2>3 DEF Claimed
    <3>2. g[n].st = "pending"
      BY <2>3 DEF Claimable, In
    <3> QED
      BY <2>1, <3>1, <3>2 DEF TaskSpec
  <2>4. CASE n \notin Claimable(g) /\ n \notin Blocked(g)
    BY <2>1, <2>4 DEF Claimed
  <2> QED
    BY <2>2, <2>3, <2>4
<1> QED
  BY <1>2, <1>3, <1>4, <1>5 DEF Good

\* apply keeps the graph good, whatever patch it accepts.
LEMMA AppliedGood ==
  ASSUME NEW g, Good(g), NEW p \in Patch, Valid(g, p)
  PROVE  Good(Applied(g, p))
<1>1. g \in Graph
  BY DEF Good
<1>2. Told(Applied(g, p))
  <2> SUFFICES ASSUME NEW n \in Node, Applied(g, p)[n].st = "absent"
               PROVE  Applied(g, p)[n].after = {}
    BY <1>1, AppliedGraph DEF Good, Told, Patch
  <2>1. n \notin p.add /\ n \notin Present(g)
    BY <1>1, AppliedGraph DEF Present
  <2>2. g[n].after = {}
    BY <2>1 DEF Good, Told, Present
  <2>3. {d \in Node : <<d, n>> \in p.link} = {}
    BY <2>1 DEF Valid
  <2>4. Applied(g, p)[n] = [g[n] EXCEPT !.after = {}]
    BY <2>1, <2>2, <2>3 DEF Applied, Proposed
  <2> QED
    BY <1>1, <2>4 DEF Graph, TaskSpec
<1> QED
  BY <1>1, <1>2, AppliedGraph, AppliedJustified, AppliedWellFormed DEF Good

\* record finishes a running node; whatever else runs or ran did not wait for it.
LEMMA RecordedGood ==
  ASSUME NEW g, Good(g), NEW n \in Node, g[n].st = "running",
         NEW v \in Verdict \ {"bypassed"}, NEW d \in Data \cup {NoData}
  PROVE  Good(Recorded(g, n, v, d))
<1> DEFINE h == Recorded(g, n, v, d)
<1>1. g \in Graph /\ \A m \in Node : g[m] \in TaskSpec
  BY DEF Good, Graph
<1>2. /\ h \in Graph
      /\ h[n].st = "done" /\ h[n].verdict = v /\ h[n].after = g[n].after
      /\ \A m \in Node \ {n} : h[m] = g[m]
  BY <1>1 DEF Recorded, Graph, TaskSpec, TaskState
<1>3. Present(h) = Present(g) /\ Done(h) = Done(g) \cup {n} /\ n \notin Done(g)
  BY <1>2 DEF Present, Done, In
<1>4. Unresolved(g) \subseteq Unresolved(h) /\ Unresolved(h) \subseteq Unresolved(g) \cup {n}
  <2>1. \A m \in Done(g) : h[m] = g[m] /\ m \in Done(h) /\ m \in Node
    BY <1>2, <1>3 DEF Done, In
  <2> HIDE DEF h
  <2> QED
    BY <1>3, <2>1 DEF Unresolved
<1>5. WellFormed(h)
  BY <1>1, <1>2, <1>3, SameShape DEF Good
<1>6. Justified(h)
  BY <1>2, <1>3, <1>4 DEF Justified, Good
<1>7. Told(h)
  BY <1>2 DEF Told, Good, Verdict
<1> QED
  BY <1>2, <1>5, <1>6, <1>7 DEF Good

\* pause and resume keep the graph good.
LEMMA PausedGood ==
  ASSUME NEW g, Good(g), NEW n \in Node, g[n].st = "running"
  PROVE  Good(PausedAt(g, n))
<1>1. g \in Graph /\ g[n] \in TaskSpec
  BY DEF Good, Graph
<1> DEFINE r == [g[n] EXCEPT !.st = "paused", !.answer = "none"]
<1>2. /\ r \in TaskSpec /\ r.st = "paused"
      /\ r.after = g[n].after /\ r.verdict = g[n].verdict
  BY <1>1 DEF TaskSpec, TaskState
<1>3. PausedAt(g, n) = [g EXCEPT ![n] = r]
  BY DEF PausedAt
<1> HIDE DEF r
<1> QED
  BY <1>1, <1>2, <1>3, HeldBack DEF Graph

\* resume only makes a paused node pending again.
LEMMA AnsweredGood ==
  ASSUME NEW g, Good(g), NEW n \in Node, g[n].st = "paused", NEW a \in {"yes", "no"}
  PROVE  Good(Answered(g, n, a))
<1>1. g \in Graph /\ g[n] \in TaskSpec
  BY DEF Good, Graph
<1> DEFINE r == [g[n] EXCEPT !.st = "pending", !.answer = a]
<1>2. /\ r \in TaskSpec /\ r.st = "pending"
      /\ r.after = g[n].after /\ r.verdict = g[n].verdict
  BY <1>1 DEF TaskSpec, TaskState
<1>3. Answered(g, n, a) = [g EXCEPT ![n] = r]
  BY DEF Answered
<1> HIDE DEF r
<1> QED
  BY <1>1, <1>2, <1>3, HeldBack DEF Graph

\* from_dict keeps the graph good.
LEMMA ReloadedGood ==
  ASSUME NEW g, Good(g)
  PROVE  Good(Reloaded(g))
<1>1. g \in Graph /\ \A m \in Node : g[m] \in TaskSpec
  BY DEF Good, Graph
<1>2. \A m \in Node : Reloaded(g)[m] = IF g[m].st = "running" THEN [g[m] EXCEPT !.st = "pending"] ELSE g[m]
  BY DEF Reloaded
<1>3. \A m \in Node : Reloaded(g)[m] \in TaskSpec
  BY <1>1, <1>2 DEF TaskSpec, TaskState
<1>4. Reloaded(g) \in Graph
  BY <1>3 DEF Graph, Reloaded
<1>5. \A m \in Node : /\ Reloaded(g)[m].after = g[m].after
                      /\ Reloaded(g)[m].verdict = g[m].verdict
                      /\ Reloaded(g)[m].st = IF g[m].st = "running" THEN "pending" ELSE g[m].st
  BY <1>1, <1>2 DEF TaskSpec
<1> QED
  BY <1>1, <1>4, <1>5, HeldBack

\* record, pause and resume touch one node, and not its dependencies.
LEMMA OneNode ==
  ASSUME NEW g \in Graph, NEW n \in Node
  PROVE  /\ \A v, d : LET h == Recorded(g, n, v, d)
                      IN /\ h[n].st = "done" /\ h[n].verdict = v /\ h[n].after = g[n].after
                         /\ \A m \in Node \ {n} : h[m] = g[m]
         /\ LET h == PausedAt(g, n)
            IN /\ h[n].st = "paused" /\ h[n].verdict = g[n].verdict /\ h[n].after = g[n].after
               /\ \A m \in Node \ {n} : h[m] = g[m]
         /\ \A a : LET h == Answered(g, n, a)
                   IN /\ h[n].st = "pending" /\ h[n].verdict = g[n].verdict
                      /\ h[n].after = g[n].after /\ h[n].answer = a
                      /\ \A m \in Node \ {n} : h[m] = g[m]
<1>1. g[n] \in TaskSpec /\ DOMAIN g = Node
  BY DEF Graph
<1>2. ASSUME NEW v, NEW d
      PROVE  LET h == Recorded(g, n, v, d)
             IN /\ h[n].st = "done" /\ h[n].verdict = v /\ h[n].after = g[n].after
                /\ \A m \in Node \ {n} : h[m] = g[m]
  BY <1>1 DEF Recorded, TaskSpec
<1>3. LET h == PausedAt(g, n)
      IN /\ h[n].st = "paused" /\ h[n].verdict = g[n].verdict /\ h[n].after = g[n].after
         /\ \A m \in Node \ {n} : h[m] = g[m]
  BY <1>1 DEF PausedAt, TaskSpec
<1>4. ASSUME NEW a
      PROVE  LET h == Answered(g, n, a)
             IN /\ h[n].st = "pending" /\ h[n].verdict = g[n].verdict
                /\ h[n].after = g[n].after /\ h[n].answer = a
                /\ \A m \in Node \ {n} : h[m] = g[m]
  BY <1>1 DEF Answered, TaskSpec
<1> QED
  BY <1>2, <1>3, <1>4

-------------------------------------------------------------------------------
(* The planner, and the claim of a node.                                   *)

\* What the planner proposes is a patch, whichever rules fire.
LEMMA RulePatchType ==
  ASSUME NEW g, NEW past, NEW n
  PROVE  RulePatch(g, Firing(g, past, n)) \in Patch
<1> DEFINE R == Firing(g, past, n)
<1>1. \A r \in R : r.add \subseteq Node /\ r.link \subseteq Node \X Node
  BY RuleAssumption DEF Firing, Rule
<1>2. UNION {r.add : r \in R} \subseteq Node /\ UNION {r.link : r \in R} \subseteq Node \X Node
  BY <1>1
<1> QED
  BY <1>2 DEF RulePatch, Patch

\* A patch starts nothing and stops nothing.
LEMMA PatchKeepsRunning ==
  ASSUME NEW g \in Graph, NEW p \in Patch, Valid(g, p), NEW n \in Node
  PROVE  Applied(g, p)[n].st = "running" <=> g[n].st = "running"
<1>1. CASE n \in p.add
  BY <1>1, AppliedGraph
<1>2. CASE n \notin p.add
  BY <1>2, AppliedGraph
<1> QED
  BY <1>1, <1>2

\* What claim_ready does to one node.
LEMMA ClaimedNode ==
  ASSUME NEW g \in Graph, NEW n \in Node
  PROVE  /\ n \in Claimable(g) => g[n].st = "pending" /\ Claimed(g)[n].st = "running"
         /\ n \in Blocked(g) => g[n].st = "pending" /\ Claimed(g)[n].st = "done"
         /\ n \notin Claimable(g) /\ n \notin Blocked(g) => Claimed(g)[n] = g[n]
<1>1. g[n] \in TaskSpec
  BY DEF Graph
<1>2. n \in Claimable(g) \cup Blocked(g) => g[n].st = "pending"
  BY DEF Claimable, Blocked, In
<1>3. CASE n \in Blocked(g)
  <2>1. Claimed(g)[n] = [g[n] EXCEPT !.st = "done", !.verdict = "bypassed"] /\ n \notin Claimable(g)
    BY <1>3 DEF Claimed, Claimable
  <2> QED
    BY <1>1, <1>2, <1>3, <2>1 DEF TaskSpec
<1>4. CASE n \in Claimable(g) /\ n \notin Blocked(g)
  <2>1. Claimed(g)[n] = [g[n] EXCEPT !.st = "running"]
    BY <1>4 DEF Claimed
  <2> QED
    BY <1>1, <1>2, <1>4, <2>1 DEF TaskSpec
<1>5. CASE n \notin Claimable(g) /\ n \notin Blocked(g)
  BY <1>5 DEF Claimed
<1> QED
  BY <1>3, <1>4, <1>5

-------------------------------------------------------------------------------
(* The steps of DurableGraph, said of two graphs.                          *)

Grows(g, h) ==
  /\ Present(g) \subseteq Present(h) /\ Present(h) \subseteq Node
  /\ \A n \in Node : /\ g[n].after \subseteq h[n].after /\ h[n].after \subseteq Present(h)
                     /\ g[n].verdict # "none" => h[n].after = g[n].after
                     /\ h[n].verdict = g[n].verdict

\* A patch, of the plan or of the planner, grows the graph.
LEMMA PatchGrows ==
  ASSUME NEW g, Good(g), NEW p \in Patch, Valid(g, p)
  PROVE  Grows(g, Applied(g, p))
<1> DEFINE h == Applied(g, p)
<1>0. g \in Graph /\ Told(g) /\ Good(h)
  BY AppliedGood DEF Good
<1>1. Present(g) \subseteq Present(h) /\ Present(h) \subseteq Node
  BY <1>0, AppliedGraph DEF Present
<1>2. ASSUME NEW n \in Node
      PROVE  g[n].after \subseteq h[n].after /\ h[n].after \subseteq Present(h)
  <2>1. n \in p.add => g[n].after = {}
    BY <1>0, AppliedGraph DEF Told
  <2>2. n \notin p.add => g[n].after \subseteq h[n].after
    BY <1>0, AppliedGraph
  <2> HIDE DEF h
  <2> QED
    BY <1>0, <2>1, <2>2 DEF Good, WellFormed
<1>3. ASSUME NEW n \in Node
      PROVE  /\ g[n].verdict # "none" => h[n] = g[n]
             /\ h[n].verdict = g[n].verdict
  <2>1. g[n].verdict # "none" => h[n] = g[n]
    BY <1>0, AppliedGraph DEF Told
  <2>2. n \in p.add => g[n].st = "absent" /\ h[n].verdict = "none"
    BY <1>0, AppliedGraph
  <2>3. n \in p.add => g[n].verdict = "none"
    BY <1>0, <2>2 DEF Told
  <2>4. n \notin p.add => h[n].verdict = g[n].verdict
    BY <1>0, AppliedGraph
  <2> HIDE DEF h
  <2> QED
    BY <2>1, <2>2, <2>3, <2>4
<1> HIDE DEF h
<1>4. Grows(g, h)
  BY <1>1, <1>2, <1>3 DEF Grows
<1> QED
  BY <1>4 DEF h

\* What has a verdict is done.
LEMMA VerdictsAreDone ==
  ASSUME NEW g, Told(g)
  PROVE  /\ {n \in Node : g[n].verdict # "none"} = Done(g)
         /\ {n \in Node : g[n].verdict # "none" /\ g[n].verdict # "resolved"} = Unresolved(g)
BY DEF Told, Done, In, Unresolved

\* A verdict that is there has its reason.
LEMMA VerdictsHaveReasons ==
  ASSUME NEW h, Good(h), NEW n \in Node, h[n].verdict # "none"
  PROVE  \/ /\ h[n].verdict = "bypassed"
            /\ n \notin Settled /\ h[n].after \cap Unresolved(h) # {}
         \/ /\ h[n].verdict \in Verdict \ {"bypassed"}
            /\ h[n].after \subseteq Done(h)
            /\ n \notin Settled => h[n].after \cap Unresolved(h) = {}
<1>1. h[n].st = "done"
  BY DEF Good, Told
<1>2. h[n].verdict \in Verdict
  BY DEF Good, Graph, TaskSpec
<1> QED
  BY <1>1, <1>2 DEF Good, Justified

===============================================================================
