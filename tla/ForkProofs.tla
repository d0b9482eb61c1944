------------------------------ MODULE ForkProofs ------------------------------
(***************************************************************************)
(* Theorems about ForkRun, for every plan, rule set, channel, mode of the  *)
(* run, kind of history and number of forks and crashes: nothing stale is  *)
(* left behind a fork, the follow-ups are those the results call for, and  *)
(* few lines of a history are lost.                                        *)
(*                                                                         *)
(* The invariant of the first says of the store, of graph.json and of      *)
(* every checkpoint ever put what NothingStale says of the store: any of   *)
(* them may be loaded or forked.                                           *)
(***************************************************************************)
EXTENDS ForkRun, GraphStoreProofs

\* In g every result that is not in r rests on what b says its node read, and
\* every bypass on a dependency that fails it.
RestsOn(g, b, r) ==
  \A n \in Done(g) \ r :
    /\ g[n].verdict = "bypassed" =>
         n \notin Settled /\ g[n].after \cap Unresolved(g) # {}
    /\ g[n].verdict # "bypassed" =>
         /\ g[n].after \subseteq Done(g)
         /\ b[n] = [d \in g[n].after |-> ResultOf(g, d)]

Rested(g, b, r) == g \in Graph /\ WellFormed(g) /\ RestsOn(g, b, r)

\* A ChannelState has these fields.
StateOfChannels(ch) == ch = [step |-> ch.step, held |-> ch.held, version |-> ch.version]

\* What is saved has these fields, and its results rest on one another.
Sound(s) ==
  /\ s = [graph |-> s.graph, chan |-> s.chan, time |-> s.time, text |-> s.text,
          basis |-> s.basis, replaced |-> s.replaced, unseen |-> s.unseen, dropped |-> s.dropped]
  /\ Rested(s.graph, s.basis, s.replaced) /\ StateOfChannels(s.chan)

\* s is a sequence, of whatever.
Listed(s) == s \in Seq({s[k] : k \in DOMAIN s})

FInv ==
  /\ Rested(graph, basis, replaced) /\ StateOfChannels(chan) /\ Sound(disk)
  /\ Listed(history) /\ \A k \in DOMAIN history : Sound(history[k])
  /\ Listed(lines) /\ Len(lines) = Len(history)
  /\ known \subseteq DOMAIN history

-------------------------------------------------------------------------------
(* What the operations on a graph keep.                                    *)

\* A change that leaves what is done alone leaves what it rests on alone.
LEMMA DoneKept ==
  ASSUME NEW g, NEW b, NEW r, RestsOn(g, b, r), NEW h,
         Done(h) = Done(g), \A n \in Done(g) : h[n] = g[n]
  PROVE  RestsOn(h, b, r)
<1>1. Unresolved(h) = Unresolved(g)
  BY DEF Unresolved
<1> SUFFICES ASSUME NEW n \in Done(g) \ r
             PROVE  /\ g[n].verdict = "bypassed" =>
                         n \notin Settled /\ g[n].after \cap Unresolved(g) # {}
                    /\ g[n].verdict # "bypassed" =>
                         /\ g[n].after \subseteq Done(g)
                         /\ b[n] = [d \in g[n].after |-> ResultOf(h, d)]
  BY <1>1 DEF RestsOn
<1>2. CASE g[n].verdict = "bypassed"
  BY <1>2 DEF RestsOn
<1>3. CASE g[n].verdict # "bypassed"
  <2>1. g[n].after \subseteq Done(g) /\ b[n] = [d \in g[n].after |-> ResultOf(g, d)]
    BY <1>3 DEF RestsOn
  <2>2. \A d \in g[n].after : ResultOf(h, d) = ResultOf(g, d)
    BY <2>1 DEF ResultOf
  <2> QED
    BY <1>3, <2>1, <2>2
<1> QED
  BY <1>2, <1>3

\* apply keeps what is done.
LEMMA AppliedRests ==
  ASSUME NEW g, NEW b, NEW r, Rested(g, b, r), NEW p \in Patch, Valid(g, p)
  PROVE  Rested(Applied(g, p), b, r)
<1>1. g \in Graph /\ WellFormed(g)
  BY DEF Rested
<1>2. \A n \in Done(g) : Applied(g, p)[n] = g[n]
  BY <1>1, AppliedGraph DEF Done, In
<1> QED
  BY <1>1, <1>2, AppliedGraph, AppliedWellFormed, DoneKept DEF Rested

\* The planner's turn keeps what is done, whatever it sees and proposes.
LEMMA PlannedRests ==
  ASSUME NEW g, NEW b, NEW r, Rested(g, b, r), NEW asked, NEW n
  PROVE  Rested(Planned([graph |-> g, fired |-> asked, stop |-> FALSE], n).graph, b, r)
<1> DEFINE s == [graph |-> g, fired |-> asked, stop |-> FALSE]
           p == RulePatch(g, Firing(g, asked, n))
<1>1. p \in Patch
  BY RulePatchType
<1>2. \/ Planned(s, n).graph = g
      \/ Valid(g, p) /\ Planned(s, n).graph = Applied(g, p)
  BY DEF Planned
<1> QED
  BY <1>1, <1>2, AppliedRests

\* from_dict keeps what is done.
LEMMA ReloadedRests ==
  ASSUME NEW g, NEW b, NEW r, Rested(g, b, r)
  PROVE  Rested(Reloaded(g), b, r)
<1>1. g \in Graph /\ WellFormed(g) /\ \A m \in Node : g[m] \in TaskSpec
  BY DEF Rested, Graph
<1>2. \A m \in Node : Reloaded(g)[m] = IF g[m].st = "running" THEN [g[m] EXCEPT !.st = "pending"] ELSE g[m]
  BY DEF Reloaded
<1>3. \A m \in Node : /\ Reloaded(g)[m] \in TaskSpec
                      /\ Reloaded(g)[m].after = g[m].after
                      /\ Reloaded(g)[m].st = IF g[m].st = "running" THEN "pending" ELSE g[m].st
  BY <1>1, <1>2 DEF TaskSpec, TaskState
<1>4. Reloaded(g) \in Graph
  BY <1>3 DEF Graph, Reloaded
<1>5. Present(Reloaded(g)) = Present(g) /\ Done(Reloaded(g)) = Done(g)
  BY <1>3 DEF Present, Done, In
<1>6. \A n \in Done(g) : Reloaded(g)[n] = g[n]
  BY <1>2 DEF Done, In
<1> QED
  BY <1>1, <1>3, <1>4, <1>5, <1>6, SameShape, DoneKept DEF Rested

-------------------------------------------------------------------------------
(* A fork                                                                  *)

\* The search for what depends on U misses nothing.
LEMMA DescendantsClosed ==
  ASSUME NEW g, NEW U, NEW n \in Present(g) \ U,
         g[n].after \cap (U \cup Descendants(g, U)) # {}
  PROVE  n \in Descendants(g, U)
<1> SUFFICES ASSUME NEW S \in SUBSET Node, ClosedAbove(g, U, S)
             PROVE  n \in S
  BY DEF Descendants
<1>1. U \subseteq S /\ Descendants(g, U) \subseteq S
  BY DEF ClosedAbove, Descendants
<1>2. g[n].after \cap S # {}
  BY <1>1
<1> QED
  BY <1>2 DEF ClosedAbove

\* The graph of a fork: what U does not reach is as it was, U has its new
\* results, nothing depends on a node that is gone.
LEMMA ForkedGraph ==
  ASSUME NEW g \in Graph, WellFormed(g), NEW upd \in Updates, DOMAIN upd \subseteq Present(g)
  PROVE  LET U == DOMAIN upd
             D == Descendants(g, U)
             h == Replaced(Undone(g, U), upd)
         IN /\ h \in Graph /\ WellFormed(h)
            /\ \A n \in Node \ U : n \in D => h[n].st # "done"
            /\ \A n \in Node \ U : n \notin D =>
                 /\ h[n].st = g[n].st /\ h[n].verdict = g[n].verdict /\ h[n].data = g[n].data
                 /\ h[n].after = g[n].after \ (D \ Plan)
            /\ \A n \in U : h[n].st = "done"
            /\ \A n \in D : n \notin U /\ h[n].st \in {"pending", "absent"}
            /\ Present(h) = Present(g) \ (D \ Plan)
            /\ \A n \in Present(h) : h[n].after = g[n].after \ (D \ Plan)
<1> DEFINE U == DOMAIN upd
           D == Descendants(g, U)
           u == Undone(g, U)
           h == Replaced(u, upd)
           gone == D \ Plan
<1>1. U \subseteq Node /\ \A n \in U : upd[n].verdict \in Verdict /\ upd[n].data \in Data
  BY ForkAssumption
<1>2. D \subseteq Present(g) /\ D \cap U = {} /\ D \subseteq Node
  BY DEF Descendants, Present
<1>3. ASSUME NEW n \in Node
      PROVE  /\ u[n] \in TaskSpec
             /\ n \in gone => u[n].st = "absent" /\ u[n].after = {}
             /\ n \notin gone => u[n].after = g[n].after \ gone
             /\ n \in D \ gone => u[n].st = "pending"
             /\ n \notin D => u[n].st = g[n].st /\ u[n].verdict = g[n].verdict /\ u[n].data = g[n].data
  <2>1. g[n] \in TaskSpec
    BY DEF Graph
  <2>2. CASE n \in gone
    <3>1. u[n] = Absent
      BY <2>2 DEF Undone
    <3> QED
      BY <2>2, <3>1 DEF Absent, TaskSpec, TaskState
  <2>3. CASE n \in D \ gone
    <3>1. u[n] = [[Absent EXCEPT !.st = "pending"] EXCEPT !.after = g[n].after \ gone]
      BY <2>3 DEF Undone
    <3> QED
      BY <2>1, <2>3, <3>1 DEF Absent, TaskSpec, TaskState
  <2>4. CASE n \notin D
    <3>1. u[n] = [g[n] EXCEPT !.after = g[n].after \ gone]
      BY <2>4 DEF Undone
    <3> QED
      BY <2>1, <2>4, <3>1 DEF TaskSpec
  <2> QED
    BY <2>2, <2>3, <2>4
<1> HIDE DEF D, u, gone
<1>4. ASSUME NEW n \in Node
      PROVE  /\ h[n] \in TaskSpec /\ h[n].after = u[n].after
             /\ n \in U => h[n].st = "done"
             /\ n \notin U => h[n] = u[n]
  <2>1. CASE n \in U
    <3>1. u = [m \in Node |-> u[m]]
      BY DEF u, Undone
    <3>2. Recorded(u, n, upd[n].verdict, upd[n].data)[n]
            = [u[n] EXCEPT !.st = "done", !.verdict = upd[n].verdict, !.data = upd[n].data]
      BY <3>1 DEF Recorded
    <3>3. h[n] = [Recorded(u, n, upd[n].verdict, upd[n].data)[n] EXCEPT !.answer = "none"]
      BY <2>1 DEF Replaced
    <3>4. u[n] \in TaskSpec /\ upd[n].verdict \in Verdict /\ upd[n].data \in Data
      BY <1>1, <1>3, <2>1
    <3> QED
      BY <2>1, <3>2, <3>3, <3>4 DEF TaskSpec, TaskState
  <2>2. CASE n \notin U
    <3>1. h[n] = u[n]
      BY <2>2 DEF Replaced
    <3> QED
      BY <1>3, <2>2, <3>1
  <2> QED
    BY <2>1, <2>2
<1>5. h = [n \in Node |-> h[n]]
  BY DEF Replaced
<1> HIDE DEF h, U
<1>6. h \in Graph
  BY <1>4, <1>5 DEF Graph
<1>7. gone \subseteq D
  BY DEF gone
<1>8. Present(h) = Present(g) \ gone
  BY <1>2, <1>3, <1>4, <1>7 DEF Present, U
<1>9. WellFormed(h)
  <2>1. \A n \in Node : h[n].after \subseteq g[n].after \ gone
    BY <1>3, <1>4
  <2>2. \A n \in Node : g[n].after \subseteq Present(g)
    BY DEF WellFormed
  <2> QED
    BY <1>8, <2>1, <2>2, ShrunkWellFormed
<1>10. /\ \A n \in U : h[n].st = "done"
       /\ \A n \in D : n \notin U /\ h[n].st \in {"pending", "absent"}
  BY <1>1, <1>2, <1>3, <1>4 DEF U
<1>11. \A n \in Present(h) : h[n].after = g[n].after \ gone
  BY <1>3, <1>4, <1>8 DEF Present
<1>12. \A n \in Node \ U : n \in D => h[n].st # "done"
  BY <1>10
<1>13. \A n \in Node \ U : n \notin D =>
          /\ h[n].st = g[n].st /\ h[n].verdict = g[n].verdict /\ h[n].data = g[n].data
          /\ h[n].after = g[n].after \ gone
  BY <1>3, <1>4, <1>7
<1> QED
  BY <1>6, <1>8, <1>9, <1>10, <1>11, <1>12, <1>13 DEF h, u, U, D, gone

\* A fork leaves nothing that rests on a result it has replaced or undone.
LEMMA ForkedRests ==
  ASSUME NEW g, NEW b, NEW r, Rested(g, b, r), NEW upd \in Updates, DOMAIN upd \subseteq Present(g)
  PROVE  LET h == Replaced(Undone(g, DOMAIN upd), upd)
         IN Rested(h, b, (r \cap Done(h)) \cup DOMAIN upd)
<1> DEFINE U == DOMAIN upd
           D == Descendants(g, U)
           h == Replaced(Undone(g, U), upd)
           q == (r \cap Done(h)) \cup U
<1>1. /\ h \in Graph /\ WellFormed(h) /\ g \in Graph /\ WellFormed(g)
      /\ \A n \in Node \ U : n \in D => h[n].st # "done"
      /\ \A n \in Node \ U : n \notin D =>
           /\ h[n].st = g[n].st /\ h[n].verdict = g[n].verdict /\ h[n].data = g[n].data
           /\ h[n].after = g[n].after \ (D \ Plan)
  BY ForkedGraph DEF Rested
<1> HIDE DEF h, D
<1>2. ASSUME NEW n \in Done(h) \ q
      PROVE  /\ n \in Done(g) \ r /\ n \notin U /\ n \notin D
             /\ g[n].after \cap (U \cup D) = {} /\ g[n].after \subseteq Node
             /\ h[n].after = g[n].after /\ h[n].verdict = g[n].verdict
  <2>1. n \in Node \ U /\ n \notin D /\ n \notin r /\ h[n].st = "done"
    BY <1>1, <1>2 DEF Done, In
  <2>2. n \in Done(g) /\ n \in Present(g)
    BY <1>1, <2>1 DEF Done, In, Present
  <2>3. g[n].after \cap (U \cup D) = {}
    BY <2>1, <2>2, DescendantsClosed DEF D
  <2>4. g[n].after \subseteq Node
    BY <1>1, <2>1 DEF Graph, TaskSpec
  <2> QED
    BY <1>1, <2>1, <2>2, <2>3, <2>4
<1>3. ASSUME NEW n \in Done(h) \ q, NEW d \in g[n].after
      PROVE  h[d].st = g[d].st /\ h[d].verdict = g[d].verdict /\ h[d].data = g[d].data /\ d \in Node
  BY <1>1, <1>2, <1>3
<1>4. ASSUME NEW n \in Done(h) \ q
      PROVE  /\ h[n].verdict = "bypassed" =>
                  n \notin Settled /\ h[n].after \cap Unresolved(h) # {}
             /\ h[n].verdict # "bypassed" =>
                  /\ h[n].after \subseteq Done(h)
                  /\ b[n] = [d \in h[n].after |-> ResultOf(h, d)]
  <2>1. CASE g[n].verdict = "bypassed"
    <3>1. n \notin Settled /\ g[n].after \cap Unresolved(g) # {}
      BY <1>2, <2>1 DEF Rested, RestsOn
    <3>2. h[n].after \cap Unresolved(h) # {}
      BY <1>2, <1>3, <3>1 DEF Unresolved, Done, In
    <3> QED
      BY <1>2, <2>1, <3>1, <3>2
  <2>2. CASE g[n].verdict # "bypassed"
    <3>1. g[n].after \subseteq Done(g) /\ b[n] = [d \in g[n].after |-> ResultOf(g, d)]
      BY <1>2, <2>2 DEF Rested, RestsOn
    <3>2. \A d \in g[n].after : ResultOf(h, d) = ResultOf(g, d) /\ d \in Done(h)
      BY <1>3, <3>1 DEF ResultOf, Done, In
    <3> QED
      BY <1>2, <2>2, <3>1, <3>2
  <2> QED
    BY <2>1, <2>2
<1>5. RestsOn(h, b, q)
  BY <1>4 DEF RestsOn
<1> QED
  BY <1>1, <1>5 DEF Rested, h

-------------------------------------------------------------------------------
(* A step                                                                  *)

\* h is g after the nodes of R have ended: what waited in vain is bypassed,
\* the rest is as it was.
RanFrom(g, h, R) ==
  /\ h \in Graph /\ WellFormed(h)
  /\ R \cap (Done(g) \cup Blocked(g)) = {} /\ Done(g) \cap Blocked(g) = {}
  /\ Done(h) = Done(g) \cup Blocked(g) \cup R
  /\ \A n \in Node : h[n].after = g[n].after
  /\ \A n \in Done(g) : h[n] = g[n] /\ Claimed(g)[n] = g[n]
  /\ \A n \in Blocked(g) : h[n] = Claimed(g)[n] /\ h[n].verdict = "bypassed"
  /\ \A n \in R : h[n].verdict # "bypassed"
  /\ \A n \in Node \ (R \cup Blocked(g)) : h[n] = g[n]

\* That is what a step makes of the graph.
LEMMA RanGraph ==
  ASSUME NEW g \in Graph, WellFormed(g), NEW R, R \subseteq Claimable(g),
         NEW out, out \in [R -> [verdict: Verdict \ {"bypassed"}, data: Data]]
  PROVE  RanFrom(g, Ran(g, R, out), R)
<1> DEFINE h == Ran(g, R, out)
<1>1. /\ Claimable(g) \subseteq In(g, "pending") /\ Blocked(g) \subseteq In(g, "pending")
      /\ Blocked(g) \cap Claimable(g) = {} /\ Claimed(g) \in Graph
      /\ \A n \in Node : Claimed(g)[n].after = g[n].after
  BY ClaimedGraph
<1>2. R \subseteq Node /\ R \cap (Done(g) \cup Blocked(g)) = {} /\ Done(g) \cap Blocked(g) = {}
      /\ Done(g) \subseteq Node /\ Blocked(g) \subseteq Node
  BY <1>1 DEF Done, In
<1>3. ASSUME NEW n \in R
      PROVE  /\ h[n] \in TaskSpec /\ h[n].st = "done" /\ h[n].verdict # "bypassed"
             /\ h[n].after = g[n].after /\ g[n].st # "absent"
  <2>1. n \in Node /\ g[n] \in TaskSpec /\ DOMAIN g = Node
    BY <1>2, <1>3 DEF Graph
  <2>2. h[n] = [g[n] EXCEPT !.st = "done", !.verdict = out[n].verdict, !.data = out[n].data]
    BY <1>3, <2>1 DEF Recorded, Ran
  <2>3. out[n].verdict \in Verdict \ {"bypassed"} /\ out[n].data \in Data
    BY <1>3
  <2>4. g[n].st = "pending"
    BY <1>1, <1>3 DEF In
  <2> HIDE DEF h
  <2> QED
    BY <2>1, <2>2, <2>3, <2>4 DEF TaskSpec, TaskState
<1>4. ASSUME NEW n \in Blocked(g)
      PROVE  /\ h[n] = Claimed(g)[n] /\ h[n] \in TaskSpec /\ h[n].st = "done"
             /\ h[n].verdict = "bypassed" /\ h[n].after = g[n].after /\ g[n].st # "absent"
  <2>1. n \in Node /\ g[n] \in TaskSpec /\ g[n].st = "pending"
    BY <1>1, <1>2, <1>4 DEF Graph, In
  <2>2. h[n] = Claimed(g)[n]
    BY <1>2, <1>4, <2>1 DEF Ran
  <2>3. Claimed(g)[n] = [g[n] EXCEPT !.st = "done", !.verdict = "bypassed"]
    BY <1>1, <1>4, <2>1 DEF Claimed
  <2> HIDE DEF h
  <2> QED
    BY <2>1, <2>2, <2>3 DEF TaskSpec, TaskState, Verdict
<1>5. ASSUME NEW n \in Node \ (R \cup Blocked(g))
      PROVE  h[n] = g[n] /\ h[n] \in TaskSpec
  BY <1>5 DEF Graph, Ran
<1>6. ASSUME NEW n \in Done(g)
      PROVE  h[n] = g[n] /\ Claimed(g)[n] = g[n]
  <2>1. n \in Node /\ n \notin R /\ n \notin Blocked(g) /\ n \notin Claimable(g)
    BY <1>1, <1>2, <1>6 DEF Done, In
  <2> QED
    BY <1>5, <2>1, ClaimedNode
<1>7. h = [n \in Node |-> h[n]]
  BY DEF Ran
<1> HIDE DEF h
<1>8. \A n \in Node : h[n] \in TaskSpec /\ h[n].after = g[n].after /\ (h[n].st = "absent" <=> g[n].st = "absent")
  BY <1>3, <1>4, <1>5
<1>9. h \in Graph
  BY <1>7, <1>8 DEF Graph
<1>10. WellFormed(h)
  <2>1. Present(h) = Present(g)
    BY <1>8 DEF Present
  <2> QED
    BY <1>8, <1>9, <2>1, SameShape
<1>11. Done(h) = Done(g) \cup Blocked(g) \cup R
  BY <1>2, <1>3, <1>4, <1>5 DEF Done, In
<1> QED
  BY <1>2, <1>3, <1>4, <1>5, <1>6, <1>8, <1>9, <1>10, <1>11 DEF h, RanFrom

\* What ends in a step rests on the results it was started with.
LEMMA StepRests ==
  ASSUME Rested(graph, basis, replaced), NEW R \in StepSets, Step(R)
  PROVE  Rested(graph', basis', replaced')
<1>1. R \subseteq Claimable(graph)
  BY DEF StepSets
<1>2. PICK out \in [R -> UNION {Outcomes[n] : n \in R}] :
                 /\ \A n \in R : out[n] \in Outcomes[n]
                 /\ graph' = Ran(graph, R, out)
                 /\ basis' = [n \in Node |->
                       IF n \in R THEN [d \in graph[n].after |-> ResultOf(Claimed(graph), d)]
                                  ELSE basis[n]]
                 /\ replaced' = replaced \ R
  BY DEF Step
<1>3. graph \in Graph /\ WellFormed(graph)
  BY DEF Rested
<1>4. out \in [R -> [verdict: Verdict \ {"bypassed"}, data: Data]]
  <2>1. \A n \in R : n \in Node
    BY <1>1 DEF Claimable, In
  <2>2. \A n \in R : out[n] \in [verdict: Verdict \ {"bypassed"}, data: Data]
    BY <1>2, <2>1, ForkAssumption
  <2> QED
    BY <2>2
<1> DEFINE h == Ran(graph, R, out)
<1>5. RanFrom(graph, h, R)
  BY <1>1, <1>3, <1>4, RanGraph
<1> HIDE DEF h
<1>6. Unresolved(graph) \cup Blocked(graph) \subseteq Unresolved(h)
  BY <1>5 DEF RanFrom, Unresolved
<1>7. ASSUME NEW d \in Done(graph) \cup Blocked(graph)
      PROVE  ResultOf(Claimed(graph), d) = ResultOf(h, d)
  BY <1>5, <1>7 DEF RanFrom, ResultOf
<1>8. ASSUME NEW n \in Done(h) \ (replaced \ R)
      PROVE  /\ h[n].verdict = "bypassed" =>
                  n \notin Settled /\ h[n].after \cap Unresolved(h) # {}
             /\ h[n].verdict # "bypassed" =>
                  /\ h[n].after \subseteq Done(h)
                  /\ basis'[n] = [d \in h[n].after |-> ResultOf(h, d)]
  <2>1. n \in Node /\ h[n].after = graph[n].after
    BY <1>5, <1>8 DEF RanFrom, Done, In
  <2>2. CASE n \in R
    <3>1. graph[n].after \subseteq Done(graph) \cup Blocked(graph)
      BY <1>1, <2>2 DEF Claimable
    <3>2. basis'[n] = [d \in graph[n].after |-> ResultOf(Claimed(graph), d)]
      BY <1>2, <2>1, <2>2
    <3>3. \A d \in graph[n].after : ResultOf(Claimed(graph), d) = ResultOf(h, d)
      BY <1>7, <3>1
    <3>4. [d \in graph[n].after |-> ResultOf(Claimed(graph), d)] = [d \in graph[n].after |-> ResultOf(h, d)]
      BY <3>3
    <3> QED
      BY <1>5, <2>1, <2>2, <3>1, <3>2, <3>4 DEF RanFrom
  <2>3. CASE n \in Blocked(graph)
    <3>1. n \notin Settled /\ graph[n].after \cap (Unresolved(graph) \cup Blocked(graph)) # {}
      BY <1>3, <2>3, BlockedHasReason
    <3> QED
      BY <1>5, <1>6, <2>1, <2>3, <3>1 DEF RanFrom
  <2>4. CASE n \in Done(graph) \ replaced
    <3>1. h[n] = graph[n] /\ n \notin R
      BY <1>5, <2>4 DEF RanFrom
    <3>2. CASE graph[n].verdict = "bypassed"
      <4>1. n \notin Settled /\ graph[n].after \cap Unresolved(graph) # {}
        BY <2>4, <3>2 DEF Rested, RestsOn
      <4> QED
        BY <1>6, <3>1, <3>2, <4>1
    <3>3. CASE graph[n].verdict # "bypassed"
      <4>1. graph[n].after \subseteq Done(graph) /\ basis[n] = [d \in graph[n].after |-> ResultOf(graph, d)]
        BY <2>4, <3>3 DEF Rested, RestsOn
      <4>2. \A d \in graph[n].after : ResultOf(graph, d) = ResultOf(h, d)
        BY <1>5, <4>1 DEF RanFrom, ResultOf
      <4>3. basis'[n] = basis[n]
        BY <1>2, <2>1, <3>1
      <4> QED
        BY <1>5, <3>1, <3>3, <4>1, <4>2, <4>3 DEF RanFrom
    <3> QED
      BY <3>2, <3>3
  <2> QED
    BY <1>5, <1>8, <2>2, <2>3, <2>4 DEF RanFrom
<1>9. graph' = h
  BY <1>2 DEF h
<1>10. RestsOn(h, basis', replaced \ R)
  BY <1>8 DEF RestsOn
<1> QED
  BY <1>2, <1>5, <1>9, <1>10 DEF RanFrom, Rested

-------------------------------------------------------------------------------
(* Nothing stale is left behind                                            *)

\* What Append does to a sequence of whatever.
LEMMA AppendListed ==
  ASSUME NEW s, Listed(s), NEW e
  PROVE  /\ Listed(Append(s, e)) /\ Len(Append(s, e)) = Len(s) + 1 /\ Len(s) \in Nat
         /\ DOMAIN s = 1..Len(s) /\ DOMAIN Append(s, e) = 1..(Len(s) + 1)
         /\ \A k \in DOMAIN s : Append(s, e)[k] = s[k]
         /\ Append(s, e)[Len(s) + 1] = e
<1> DEFINE S == {s[k] : k \in DOMAIN s}
           t == Append(s, e)
<1>1. s \in Seq(S \cup {e}) /\ s \in Seq(S)
  BY DEF Listed
<1> HIDE DEF S
<1>2. /\ t \in Seq(S \cup {e}) /\ Len(t) = Len(s) + 1 /\ Len(s) \in Nat
      /\ DOMAIN s = 1..Len(s) /\ DOMAIN t = 1..(Len(s) + 1)
      /\ \A k \in DOMAIN s : t[k] = s[k]
      /\ t[Len(s) + 1] = e
  BY <1>1
<1> HIDE DEF t
<1>3. t \in Seq({t[k] : k \in DOMAIN t})
  BY <1>2
<1> QED
  BY <1>2, <1>3 DEF t, Listed

\* A snapshot, whole or torn, adds a checkpoint of the store.
LEMMA PutKeeps ==
  ASSUME FInv, NEW cp, Sound(cp), NEW end, Put(cp, end)
  PROVE  /\ Listed(history') /\ \A k \in DOMAIN history' : Sound(history'[k])
         /\ Listed(lines') /\ Len(lines') = Len(history')
         /\ known' \subseteq DOMAIN history'
<1>1. Listed(history) /\ Listed(lines) /\ Len(lines) = Len(history)
  BY DEF FInv
<1> DEFINE e == IF format = "jsonl" THEN JsonlLine(end) ELSE SqliteRow(end)
<1>2. history' = Append(history, cp) /\ lines' = Append(lines, e)
  BY DEF Put
<1> HIDE DEF e
<1>3. /\ Listed(history') /\ Len(history') = Len(history) + 1 /\ Len(history) \in Nat
      /\ DOMAIN history = 1..Len(history) /\ DOMAIN history' = 1..(Len(history) + 1)
      /\ \A k \in DOMAIN history : history'[k] = history[k]
      /\ history'[Len(history) + 1] = cp
  BY <1>1, <1>2, AppendListed
<1>4. Listed(lines') /\ Len(lines') = Len(lines) + 1
  BY <1>1, <1>2, AppendListed
<1>5. \A k \in DOMAIN history' : Sound(history'[k])
  <2>1. \A k \in DOMAIN history' : k \in DOMAIN history \/ k = Len(history) + 1
    BY <1>3
  <2> QED
    BY <1>3, <2>1 DEF FInv
<1>6. known' \subseteq DOMAIN history'
  <2>1. known' \subseteq known \cup {Len(history')}
    BY DEF Put
  <2> QED
    BY <1>3, <2>1 DEF FInv
<1> QED
  BY <1>1, <1>3, <1>4, <1>5, <1>6

\* What is saved of a store is as sound as the store, whatever else is in it.
LEMMA SavedSound ==
  ASSUME NEW g, NEW b, NEW r, Rested(g, b, r), NEW when, NEW txt,
         NEW ch, StateOfChannels(ch), NEW other, StateOfChannels(other), NEW u, NEW l
  PROVE  LET s == [graph |-> g, chan |-> ch, time |-> when, text |-> txt,
                   basis |-> b, replaced |-> r, unseen |-> u, dropped |-> l]
         IN Sound(s) /\ Sound([s EXCEPT !.chan = other])
BY DEF Sound

\* The initial states.
LEMMA InitFInv ==
  ASSUME Init
  PROVE  FInv
<1>1. EmptyGraph \in Graph /\ WellFormed(EmptyGraph) /\ Done(EmptyGraph) = {}
  BY EmptyGood DEF Good, EmptyGraph, Absent, Done, In
<1>2. Rested(EmptyGraph, basis, replaced)
  BY <1>1 DEF Rested, RestsOn
<1>3. PlanPatch \in Patch
  BY ForkAssumption DEF PlanPatch, Patch
<1>4. Rested(graph, basis, replaced)
  BY <1>2, <1>3, PlanAssumption, AppliedRests DEF Init
<1>5. Listed(history) /\ Listed(lines) /\ Len(lines) = Len(history) /\ DOMAIN history = {}
  BY DEF Init, Listed
<1>6. StateOfChannels(chan)
  BY DEF Init, FreshChannels, StateOfChannels
<1>7. Sound(Saved)
  BY <1>4, <1>6, SavedSound DEF Saved
<1> QED
  BY <1>4, <1>5, <1>6, <1>7 DEF Init, FInv

\* A step and a consume leave a ChannelState.
LEMMA ChannelsStay ==
  ASSUME NEW ch, StateOfChannels(ch)
  PROVE  /\ \A made : StateOfChannels(AppliedTo(ch, made))
         /\ \A C : StateOfChannels(Consumed(ch, C)) /\ Consumed(ch, C).step = ch.step
         /\ StateOfChannels(Restored(ch))
<1>1. ASSUME NEW made PROVE StateOfChannels(AppliedTo(ch, made))
  BY DEF AppliedTo, StateOfChannels
<1>2. ASSUME NEW C PROVE StateOfChannels(Consumed(ch, C)) /\ Consumed(ch, C).step = ch.step
  <2> DEFINE full == {c \in C \cap Channel : Kind[c] = "barrier" /\ ch.held[c] = Names[c]}
             h == [c \in Channel |-> IF c \in full THEN {} ELSE ch.held[c]]
             v == [c \in Channel |-> IF c \in full THEN ch.step ELSE ch.version[c]]
  <2>1. Consumed(ch, C) = [ch EXCEPT !.held = h, !.version = v]
    BY DEF Consumed
  <2> HIDE DEF h, v
  <2>2. PICK s, hh, vv : ch = [step |-> s, held |-> hh, version |-> vv]
    BY DEF StateOfChannels
  <2>3. Consumed(ch, C) = [step |-> s, held |-> h, version |-> v] /\ ch.step = s
    BY <2>1, <2>2
  <2> QED
    BY <2>3 DEF StateOfChannels
<1>3. StateOfChannels(Restored(ch))
  BY DEF Restored, StateOfChannels
<1> QED
  BY <1>1, <1>2, <1>3

\* A node that ends.
LEMMA StepKeeps ==
  ASSUME FInv, NEW R \in StepSets, Step(R)
  PROVE  FInv'
<1>1. Rested(graph', basis', replaced')
  BY StepRests DEF FInv
<1>0. StateOfChannels(chan) /\ StateOfChannels(chan')
  <2>1. PICK made : chan' = AppliedTo(chan, made)
    BY DEF Step
  <2> QED
    BY <2>1, ChannelsStay DEF FInv
<1>2. Sound(Saved') /\ Sound([Saved' EXCEPT !.chan = chan])
  BY <1>0, <1>1, SavedSound DEF Saved
<1>3. disk' = disk \/ disk' = Saved' \/ disk' = [Saved' EXCEPT !.chan = chan]
  BY DEF Step, Raises
<1>4. UNCHANGED saver
  BY DEF Step
<1> QED
  BY <1>0, <1>1, <1>2, <1>3, <1>4 DEF FInv, saver

\* The planner.
LEMMA AskKeeps ==
  ASSUME FInv, Ask
  PROVE  FInv'
<1>1. PICK n : graph' = Planned([graph |-> graph, fired |-> fired, stop |-> FALSE], n).graph
  BY DEF Ask
<1>2. Rested(graph', basis', replaced')
  BY <1>1, PlannedRests DEF FInv, Ask
<1>0. StateOfChannels(chan')
  BY DEF FInv, Ask
<1>3. Sound(Saved')
  BY <1>0, <1>2, SavedSound DEF Saved
<1>4. disk' = disk \/ disk' = Saved'
  BY DEF Ask, Raises
<1>5. UNCHANGED saver
  BY DEF Ask
<1> QED
  BY <1>0, <1>2, <1>3, <1>4, <1>5 DEF FInv, saver

\* Snapshots and crashes.
LEMMA SnapshotKeeps ==
  ASSUME FInv, Snapshot \/ Crash
  PROVE  FInv'
<1>1. UNCHANGED <<store, disk>>
  BY DEF Snapshot, Crash
<1>2. Sound(Checkpoint)
  BY SavedSound DEF FInv, Checkpoint, Saved
<1>3. UNCHANGED saver \/ \E end : Put(Checkpoint, end)
  BY DEF Snapshot, Crash
<1>4. CASE UNCHANGED saver
  BY <1>1, <1>4 DEF FInv, store, saver
<1>5. CASE \E end : Put(Checkpoint, end)
  BY <1>1, <1>2, <1>5, PutKeeps DEF FInv, store
<1> QED
  BY <1>3, <1>4, <1>5

\* A new process, from graph.json or from a checkpoint.
LEMMA RestartKeeps ==
  ASSUME FInv, NEW s, Sound(s), Restart(s)
  PROVE  FInv'
<1>1. graph' = Reloaded(s.graph) /\ basis' = s.basis /\ replaced' = s.replaced
  BY DEF Restart, Open
<1>2. Rested(graph', basis', replaced')
  BY <1>1, ReloadedRests DEF Sound
<1>3. Readable \subseteq DOMAIN history
  <2>1. DOMAIN lines = DOMAIN history
    BY AppendListed DEF FInv
  <2> QED
    BY <2>1 DEF Readable, Parsed
<1>4. StateOfChannels(chan')
  <2>1. chan' = Restored(s.chan)
    BY DEF Restart, Open
  <2> QED
    BY <2>1, ChannelsStay DEF Sound
<1> QED
  BY <1>2, <1>3, <1>4 DEF FInv, Restart

\* A fork, of the store or of any checkpoint that is known.
LEMMA ForkKeeps ==
  ASSUME FInv, NEW upd \in Updates, Fork(upd)
  PROVE  FInv'
<1>1. PICK s : Sound(s) /\ ForkOf(s, upd)
  <2>1. Sound(Saved)
    BY SavedSound DEF FInv, Saved
  <2>2. ASSUME NEW k \in known PROVE Sound(Got(k))
    <3>1. Sound(history[k])
      BY DEF FInv
    <3>2. PICK g, c, t, x, b, r, u, l :
            /\ history[k] = [graph |-> g, chan |-> c, time |-> t, text |-> x, basis |-> b, replaced |-> r,
                             unseen |-> u, dropped |-> l]
            /\ Rested(g, b, r) /\ StateOfChannels(c)
      BY <3>1 DEF Sound
    <3>3. FromFile(k) = [graph |-> g, chan |-> c, time |-> t, text |-> x \cup HasOverwrite(g),
                         basis |-> b, replaced |-> r, unseen |-> u, dropped |-> l]
      BY <3>2 DEF FromFile
    <3>4. Sound(FromFile(k))
      BY <3>2, <3>3 DEF Sound
    <3> QED
      BY <3>1, <3>4 DEF Got
  <2> QED
    BY <2>1, <2>2 DEF Fork
<1> DEFINE h == Replaced(Undone(s.graph, DOMAIN upd), upd)
<1>2. /\ DOMAIN upd \subseteq Present(s.graph) /\ graph' = h /\ basis' = s.basis
      /\ replaced' = (s.replaced \cap Done(h)) \cup DOMAIN upd
  BY <1>1 DEF ForkOf, Forkable
<1>3. Rested(graph', basis', replaced')
  <2>1. Rested(s.graph, s.basis, s.replaced)
    BY <1>1 DEF Sound
  <2> QED
    BY <1>2, <2>1, ForkedRests
<1>6. StateOfChannels(chan')
  BY <1>1 DEF ForkOf, Rebuilt, StateOfChannels
<1>4. Sound(Saved')
  BY <1>3, <1>6, SavedSound DEF Saved
<1>5. disk' = Saved' /\ Put(Checkpoint', "whole")
  BY DEF Fork
<1> QED
  BY <1>3, <1>4, <1>5, <1>6, PutKeeps DEF FInv, Checkpoint

\* FInv is inductive.
LEMMA NextFInv ==
  ASSUME FInv, [Next]_vars
  PROVE  FInv'
<1>1. CASE \E R \in StepSets : Step(R)
  BY <1>1, StepKeeps
<1>2. CASE \E c \in Channel : Consume(c)
  BY <1>2, ChannelsStay DEF Consume, FInv, saver
<1>3. CASE Ask
  BY <1>3, AskKeeps
<1>4. CASE Snapshot \/ Crash
  BY <1>4, SnapshotKeeps
<1>5. CASE Load
  BY <1>5, RestartKeeps DEF Load, FInv
<1>6. CASE LoadLatest
  <2>1. DOMAIN lines = DOMAIN history
    BY AppendListed DEF FInv
  <2>2. PICK k \in DOMAIN history : Restart(history[k])
    BY <1>6, <2>1 DEF LoadLatest, Newest, Readable, Parsed
  <2> QED
    BY <2>2, RestartKeeps DEF FInv
<1>7. CASE \E upd \in Updates : Fork(upd)
  BY <1>7, ForkKeeps
<1>8. CASE UNCHANGED vars
  BY <1>8 DEF FInv, vars, store, saver
<1> QED
  BY <1>1, <1>2, <1>3, <1>4, <1>5, <1>6, <1>7, <1>8 DEF Next

\* Nothing stale is left behind a fork, a fork of a fork or of an old
\* checkpoint, a restart or a planner's patch: what a result rests on is what
\* its dependencies say now (fork, _undo_dependents, claim_ready and record).
THEOREM NeverStale == Spec => []NothingStale
<1>1. Init => FInv
  BY InitFInv
<1>2. FInv /\ [Next]_vars => FInv'
  BY NextFInv
<1>3. FInv => NothingStale
  BY DEF FInv, Rested, RestsOn, NothingStale
<1> QED
  BY <1>1, <1>2, <1>3, PTL DEF Spec

-------------------------------------------------------------------------------
(* The follow-ups are those the results call for                           *)

\* The nodes that a link of some rule makes n wait for.
Linked(n) == {d \in Node : <<d, n>> \in UNION {q.link : q \in Rules}}

\* A node waits for what it is written with, and for what it is linked to.
\* (A node that a fork has replaced may have lost a dependency.)
Shaped(g, r) ==
  /\ \A n \in Node : g[n].st \in {"absent", "pending", "done"}
  /\ r \subseteq Done(g)
  /\ Plan \subseteq Present(g)
  /\ \A n \in Present(g) : /\ g[n].after \subseteq Deps[n] \cup Linked(n)
                           /\ n \in Plan \/ n \notin r => Deps[n] \subseteq g[n].after

\* What the planner added is there because a rule asks for it.
Warranted(g, r) ==
  \A n \in Present(g) \ (Plan \cup r) :
    (\A q \in Rules : n \in q.add => q.watch \in Deps[n]) =>
      \E q \in Rules : n \in q.add /\ Triggered(g, q)

\* What a rule asks for is there, but for results no planner was shown and
\* links that were given up.
Fulfilled(g, u, d) ==
  \A q \in OwnFollowUps :
    Triggered(g, q) /\ q.watch \notin u =>
      /\ q.add \subseteq Present(g)
      /\ \A l \in q.link \ d : l[2] \in Plan /\ q.watch \in Deps[l[2]] => l[1] \in g[l[2]].after

CalledFor(g, r, u, d) == Shaped(g, r) /\ Warranted(g, r) /\ Fulfilled(g, u, d)

\* The same of something saved.
Kept(s) == CalledFor(s.graph, s.replaced, s.unseen, s.dropped)

\* Nothing that has run waits for an outcome the planner is still to see.
Unread ==
  \A n \in Done(graph) \ replaced : graph[n].verdict # "bypassed" => graph[n].after \cap pending = {}

\* While nothing has died and no fork was forked, the planner sees everything.
AllShown ==
  crashes = 0 /\ forks <= 1 =>
    /\ unseen \subseteq pending
    /\ forks = 0 => \A k \in DOMAIN history : history[k].unseen = {}

CInv ==
  /\ CalledFor(graph, replaced, unseen, dropped) /\ Kept(disk)
  /\ \A k \in DOMAIN history : Kept(history[k])
  /\ pending \subseteq Done(graph) /\ pending \subseteq unseen
  /\ pc \in {"run", "snap"} => pending = {}
  /\ \A q \in fired : q.watch \in Done(graph) \ pending
  /\ Unread /\ AllShown
  /\ forks \in Nat /\ crashes \in Nat /\ (pc = "dead" => crashes > 0)

\* What is undone depends on a node that is replaced or undone.
LEMMA DescendantsDepend ==
  ASSUME NEW g, NEW U, U \subseteq Node, NEW n \in Descendants(g, U)
  PROVE  g[n].after \cap (U \cup Descendants(g, U)) # {}
<1> DEFINE D == Descendants(g, U)
           S == (U \cup D) \ {n}
<1> SUFFICES ASSUME g[n].after \cap (U \cup D) = {}
             PROVE  FALSE
  OBVIOUS
<1>1. D \subseteq Present(g) \ U /\ Present(g) \subseteq Node
  BY DEF Descendants, Present
<1>2. ClosedAbove(g, U, S)
  <2>1. U \subseteq S
    BY <1>1
  <2>2. ASSUME NEW m \in Present(g), g[m].after \cap S # {}
        PROVE  m \in S
    <3>1. m # n
      BY <2>2
    <3>2. m \in U \cup D
      BY <2>2, DescendantsClosed
    <3> QED
      BY <3>1, <3>2
  <2> QED
    BY <2>1, <2>2 DEF ClosedAbove
<1>3. S \in SUBSET Node
  BY <1>1
<1> QED
  BY <1>2, <1>3 DEF Descendants

\* A rule watches and adds nodes.
LEMMA RulesOf ==
  ASSUME NEW q \in Rules
  PROVE  /\ q.watch \in Node /\ q.add \subseteq Node /\ q.verdict # "bypassed"
         /\ \A l \in q.link : l[1] \in Node /\ l[2] \in Node /\ l = <<l[1], l[2]>>
BY RuleAssumption DEF Rule

\* A step calls for no more than before: what ends is not yet shown.
LEMMA RanCalledFor ==
  ASSUME NEW g, NEW b, NEW r, Rested(g, b, r), NEW u, NEW d, CalledFor(g, r, u, d),
         NEW h, NEW R, R \subseteq Claimable(g), RanFrom(g, h, R)
  PROVE  CalledFor(h, r \ R, u \cup R, d)
<1>1. /\ \A n \in Node : h[n].after = g[n].after
      /\ Done(h) = Done(g) \cup Blocked(g) \cup R
      /\ \A n \in Done(g) : h[n] = g[n]
      /\ \A n \in Blocked(g) : h[n].verdict = "bypassed"
      /\ \A n \in Node \ (R \cup Blocked(g)) : h[n] = g[n]
      /\ R \cap (Done(g) \cup Blocked(g)) = {}
  BY DEF RanFrom
<1>2. R \subseteq In(g, "pending") /\ Blocked(g) \subseteq In(g, "pending")
  BY DEF Claimable, Blocked
<1>3. Present(h) = Present(g)
  BY <1>1, <1>2 DEF Present, In, Done
<1>4. r \ R = r
  BY <1>1 DEF CalledFor, Shaped
<1>5. ASSUME NEW q \in Rules, Triggered(h, q), q.watch \notin R
      PROVE  Triggered(g, q)
  <2>1. q.watch \in Node /\ q.watch \in Done(h) /\ q.watch \notin Blocked(g)
    BY <1>1, <1>5, RulesOf DEF Triggered, Done, In
  <2> QED
    BY <1>1, <1>5, <2>1 DEF Triggered
<1>6. ASSUME NEW q \in Rules, Triggered(g, q)
      PROVE  Triggered(h, q)
  <2>1. q.watch \in Done(g)
    BY <1>6, RulesOf DEF Triggered, Done, In
  <2> QED
    BY <1>1, <1>6, <2>1 DEF Triggered
<1>7. Shaped(h, r)
  <2>1. \A n \in Node : h[n].st \in {"absent", "pending", "done"}
    BY <1>1 DEF CalledFor, Shaped, Done, In
  <2> QED
    BY <1>1, <1>3, <2>1 DEF CalledFor, Shaped, Present
<1>8. Warranted(h, r)
  BY <1>3, <1>6 DEF CalledFor, Warranted
<1>9. Fulfilled(h, u \cup R, d)
  <2> SUFFICES ASSUME NEW q \in OwnFollowUps, Triggered(h, q), q.watch \notin u \cup R
               PROVE  /\ q.add \subseteq Present(h)
                      /\ \A l \in q.link \ d : l[2] \in Plan /\ q.watch \in Deps[l[2]] => l[1] \in h[l[2]].after
    BY DEF Fulfilled
  <2>1. q \in Rules
    BY DEF OwnFollowUps
  <2>2. Triggered(g, q)
    BY <1>5, <2>1
  <2>3. Plan \subseteq Node
    BY ForkAssumption
  <2> QED
    BY <1>1, <1>3, <2>2, <2>3 DEF CalledFor, Fulfilled
<1> QED
  BY <1>4, <1>7, <1>8, <1>9 DEF CalledFor

\* A plan that was accepted depends on nothing but itself.
LEMMA EmptyPlan ==
  ASSUME NEW n \in Plan
  PROVE  Deps[n] \subseteq Plan
<1>1. Present(EmptyGraph) = {}
  BY DEF EmptyGraph, Absent, Present
<1> QED
  BY <1>1, PlanAssumption DEF Valid, PlanPatch

\* A valid patch adds nodes that wait for what they are written with and links
\* that some rule has, and leaves what is done alone.
LEMMA PatchedNodes ==
  ASSUME NEW g \in Graph, WellFormed(g), NEW R \in SUBSET Rules, Valid(g, RulePatch(g, R)),
         RulePatch(g, R) \in Patch
  PROVE  LET p == RulePatch(g, R)
             h == Applied(g, p)
         IN /\ Present(h) = Present(g) \cup p.add /\ p.add \cap Present(g) = {}
            /\ Done(h) = Done(g) /\ \A n \in Done(g) : h[n] = g[n]
            /\ \A n \in p.add : h[n].st = "pending" /\ \E q \in R : n \in q.add
            /\ \A n \in Node \ p.add : h[n].st = g[n].st
            /\ \A n \in Node : h[n].after = (IF n \in p.add THEN Deps[n] ELSE g[n].after)
                                              \cup {d \in Node : <<d, n>> \in p.link}
            /\ \A n \in Node : {d \in Node : <<d, n>> \in p.link} \subseteq Linked(n)
<1> DEFINE p == RulePatch(g, R)
           h == Applied(g, p)
<1>1. \A n \in Node : h[n].after = Proposed(g, p)[n]
  <2> SUFFICES ASSUME NEW n \in Node
               PROVE  h[n].after = Proposed(g, p)[n]
    OBVIOUS
  <2>1. g[n] \in TaskSpec
    BY DEF Graph
  <2>2. h[n] = [(IF n \in p.add THEN [Absent EXCEPT !.st = "pending"] ELSE g[n])
                  EXCEPT !.after = Proposed(g, p)[n]]
    BY DEF Applied
  <2> HIDE DEF h, p
  <2> QED
    BY <2>1, <2>2 DEF Absent, TaskSpec
<1>2. \A n \in p.add : \E q \in R : n \in q.add
  BY DEF RulePatch
<1>3. p.link \subseteq UNION {q.link : q \in Rules}
  BY DEF RulePatch
<1>4. p.add \cap Present(g) = {}
  BY DEF Valid
<1> HIDE DEF p
<1> QED
  BY <1>1, <1>2, <1>3, <1>4, AppliedGraph DEF p, Proposed, Linked, Done, In

\* The planner, asked about one of the outcomes it is still to see, calls for
\* what its rules say, and what it has been shown is shown from then on.
LEMMA PlannedCalledFor ==
  ASSUME Rested(graph, basis, replaced), CInv, NEW n \in pending,
         NEW s, s = Planned([graph |-> graph, fired |-> fired, stop |-> FALSE], n)
  PROVE  LET R == Firing(graph, fired, n)
         IN /\ ~s.stop => CalledFor(s.graph, replaced, unseen \ {n},
                                    (dropped \ RulePatch(graph, R).link) \cup Forestalled(graph, R))
            /\ s.stop => s.graph = graph
            /\ Done(s.graph) = Done(graph) /\ \A m \in Done(graph) : s.graph[m] = graph[m]
            /\ s.fired = fired \cup R
<1> DEFINE g == graph
           R == Firing(g, fired, n)
           p == RulePatch(g, R)
           h == s.graph
           d == (dropped \ p.link) \cup Forestalled(g, R)
<1>1. p \in Patch /\ R \in SUBSET Rules /\ g \in Graph /\ WellFormed(g)
  <2>1. p \in Patch
    BY RulePatchType
  <2>2. R \in SUBSET Rules
    BY DEF Firing
  <2> QED
    BY <2>1, <2>2 DEF Rested
<1>2. /\ s.fired = fired \cup R
      /\ \/ p.add = {} /\ p.link = {} /\ h = g /\ ~s.stop
         \/ Valid(g, p) /\ h = Applied(g, p) /\ ~s.stop
         \/ h = g /\ s.stop
  <2> DEFINE t == [graph |-> g, fired |-> fired, stop |-> FALSE]
  <2>1. CASE p.add = {} /\ p.link = {}
    <3>1. s = [t EXCEPT !.fired = @ \cup R]
      BY <2>1 DEF Planned
    <3> QED
      BY <2>1, <3>1
  <2>2. CASE ~(p.add = {} /\ p.link = {}) /\ Valid(g, p)
    <3>1. s = [t EXCEPT !.fired = @ \cup R, !.graph = Applied(g, p)]
      BY <2>2 DEF Planned
    <3> QED
      BY <2>2, <3>1
  <2>3. CASE ~(p.add = {} /\ p.link = {}) /\ ~Valid(g, p)
    <3>1. s = [t EXCEPT !.fired = @ \cup R, !.stop = TRUE]
      BY <2>3 DEF Planned
    <3> QED
      BY <2>3, <3>1
  <2> QED
    BY <2>1, <2>2, <2>3
<1> HIDE DEF R
<1> DEFINE new(m) == {e \in Node : <<e, m>> \in p.link}
<1>3. /\ Done(h) = Done(g) /\ \A m \in Done(g) : h[m] = g[m]
      /\ s.stop => h = g
      /\ ~s.stop => /\ Present(h) = Present(g) \cup p.add /\ p.add \cap Present(g) = {}
                    /\ \A m \in p.add : h[m].st = "pending" /\ \E q \in R : m \in q.add
                    /\ \A m \in Node \ p.add : h[m].st = g[m].st
                    /\ \A m \in Node : h[m].after = (IF m \in p.add THEN Deps[m] ELSE g[m].after) \cup new(m)
                    /\ \A m \in Node : new(m) \subseteq Linked(m)
  <2>1. CASE Valid(g, p) /\ h = Applied(g, p) /\ ~s.stop
    <3> DEFINE k == Applied(g, p)
    <3>1. /\ Present(k) = Present(g) \cup p.add /\ p.add \cap Present(g) = {}
          /\ Done(k) = Done(g) /\ \A m \in Done(g) : k[m] = g[m]
          /\ \A m \in p.add : k[m].st = "pending" /\ \E q \in R : m \in q.add
          /\ \A m \in Node \ p.add : k[m].st = g[m].st
          /\ \A m \in Node : k[m].after = (IF m \in p.add THEN Deps[m] ELSE g[m].after) \cup new(m)
          /\ \A m \in Node : new(m) \subseteq Linked(m)
      BY <1>1, <2>1, PatchedNodes
    <3> HIDE DEF k, p, new
    <3> QED
      BY <2>1, <3>1 DEF k
  <2>2. CASE p.add = {} /\ p.link = {} /\ h = g /\ ~s.stop
    <3>1. \A m \in Node : new(m) = {}
      BY <2>2
    <3> QED
      BY <2>2, <3>1
  <2> QED
    BY <1>2, <2>1, <2>2
<1>4. n \in Done(g) /\ CalledFor(g, replaced, unseen, dropped) /\ Unread
      /\ \A q \in fired : q.watch # n
  BY DEF CInv
<1>5. \A q \in Rules : Triggered(h, q) <=> Triggered(g, q)
  <2>1. \A q \in Rules : q.watch \in Node
    BY RulesOf
  <2> QED
    BY <1>3, <2>1 DEF Triggered, Done, In
<1> HIDE DEF h, new
<1>6. ASSUME ~s.stop
      PROVE  CalledFor(h, replaced, unseen \ {n}, d)
  <2>1. Shaped(h, replaced)
    <3>1. Present(g) \subseteq Node /\ p.add \subseteq Node /\ replaced \subseteq Done(g) /\ Done(g) \subseteq Present(g)
      BY <1>1, <1>4 DEF Present, Patch, CalledFor, Shaped, Done, In
    <3>2. \A m \in Node : h[m].st \in {"absent", "pending", "done"}
      BY <1>3, <1>4, <1>6 DEF CalledFor, Shaped
    <3>3. \A m \in Present(g) : h[m].after = g[m].after \cup new(m) /\ new(m) \subseteq Linked(m)
      BY <1>3, <1>6, <3>1
    <3>4. \A m \in p.add : h[m].after = Deps[m] \cup new(m) /\ new(m) \subseteq Linked(m)
      BY <1>3, <1>6, <3>1
    <3>5. Present(h) = Present(g) \cup p.add /\ Done(h) = Done(g)
      BY <1>3, <1>6
    <3> HIDE DEF g, p
    <3> QED
      BY <1>4, <3>1, <3>2, <3>3, <3>4, <3>5 DEF CalledFor, Shaped
  <2>2. Warranted(h, replaced)
    <3> SUFFICES ASSUME NEW m \in Present(h) \ (Plan \cup replaced),
                        \A q \in Rules : m \in q.add => q.watch \in Deps[m]
                 PROVE  \E q \in Rules : m \in q.add /\ Triggered(h, q)
      BY DEF Warranted
    <3>1. CASE m \in Present(g)
      BY <1>4, <1>5, <3>1 DEF CalledFor, Warranted
    <3>2. CASE m \in p.add
      <4>1. PICK q \in R : m \in q.add
        BY <1>3, <1>6, <3>2
      <4>2. q \in Rules /\ Triggered(g, q)
        BY <1>4 DEF R, Firing, Triggered, Done, In
      <4> QED
        BY <1>5, <4>1, <4>2
    <3> QED
      BY <1>3, <1>6, <3>1, <3>2
  <2>3. Fulfilled(h, unseen \ {n}, d)
    <3> SUFFICES ASSUME NEW q \in OwnFollowUps, Triggered(h, q), q.watch \notin unseen \ {n}
                 PROVE  /\ q.add \subseteq Present(h)
                        /\ \A l \in q.link \ d : l[2] \in Plan /\ q.watch \in Deps[l[2]] => l[1] \in h[l[2]].after
      BY DEF Fulfilled
    <3>1. q \in Rules /\ Triggered(g, q)
      BY <1>5 DEF OwnFollowUps
    <3>2. \A l \in q.link : l[1] \in Node /\ l[2] \in Node /\ l = <<l[1], l[2]>>
      BY <3>1, RulesOf
    <3>3. \A l \in q.link : l \in p.link => l[1] \in h[l[2]].after
      BY <1>3, <1>6, <3>2 DEF new
    <3>4. Plan \subseteq Present(g) /\ Present(g) \subseteq Node /\ p.add \cap Present(g) = {}
      BY <1>3, <1>4, <1>6 DEF CalledFor, Shaped, Present
    <3>5. CASE q.watch # n
      <4>1. /\ q.add \subseteq Present(g)
            /\ \A l \in q.link \ dropped : l[2] \in Plan /\ q.watch \in Deps[l[2]] => l[1] \in g[l[2]].after
        BY <1>4, <3>1, <3>5 DEF CalledFor, Fulfilled
      <4>2. \A l \in q.link \ d : l \in p.link \/ l \notin dropped
        OBVIOUS
      <4>3. \A m \in Plan : g[m].after \subseteq h[m].after
        BY <1>3, <1>6, <3>4
      <4> HIDE DEF d
      <4> QED
        BY <1>3, <1>6, <3>3, <4>1, <4>2, <4>3
    <3>6. CASE q.watch = n
      <4>1. q \in R
        BY <1>4, <3>1, <3>6 DEF R, Firing, Triggered
      <4>2. q.add \subseteq Present(g) \cup p.add
        BY <4>1 DEF RulePatch
      <4>3. ASSUME NEW l \in q.link \ d, l[2] \in Plan, n \in Deps[l[2]]
            PROVE  l \in p.link
        <5>1. l \in UNION {w.link : w \in R} /\ l \notin Forestalled(g, R)
          BY <4>1, <4>3
        <5>2. g[l[2]].verdict # "bypassed" /\ l[2] \notin replaced
          BY <5>1 DEF Forestalled
        <5>3. l[2] \in Present(g) /\ n \in g[l[2]].after
          BY <1>4, <3>4, <4>3 DEF CalledFor, Shaped
        <5>4. g[l[2]].st # "done"
          <6>1. l[2] \in Done(g) => g[l[2]].after \cap pending = {}
            BY <1>4, <5>2 DEF Unread
          <6> QED
            BY <3>2, <5>3, <6>1 DEF Done, In
        <5>5. g[l[2]].st = "pending"
          BY <1>4, <3>2, <5>3, <5>4 DEF CalledFor, Shaped, Present
        <5> QED
          BY <5>1, <5>5 DEF RulePatch
      <4> HIDE DEF d, R, p
      <4> QED
        BY <1>3, <1>6, <3>3, <3>6, <4>2, <4>3
    <3> QED
      BY <3>5, <3>6
  <2> QED
    BY <2>1, <2>2, <2>3 DEF CalledFor
<1> QED
  BY <1>2, <1>3, <1>6 DEF h, R

\* A fork undoes what rests on the nodes it replaces, the follow-ups of rules
\* whose watched nodes are undone among it, and leaves the others.
LEMMA ForkedCalledFor ==
  ASSUME NEW g, NEW b, NEW r, Rested(g, b, r), NEW u, NEW d, CalledFor(g, r, u, d),
         NEW upd \in Updates, DOMAIN upd \subseteq Present(g)
  PROVE  LET h == Replaced(Undone(g, DOMAIN upd), upd)
         IN /\ CalledFor(h, (r \cap Done(h)) \cup DOMAIN upd, (u \cap Done(h)) \cup DOMAIN upd, d)
            /\ DOMAIN upd \subseteq Done(h)
            /\ \A n \in Done(h) \ DOMAIN upd : h[n].after \cap DOMAIN upd = {}
<1> DEFINE U == DOMAIN upd
           D == Descendants(g, U)
           h == Replaced(Undone(g, U), upd)
           v == (r \cap Done(h)) \cup U
           w == (u \cap Done(h)) \cup U
<1>1. /\ g \in Graph /\ U \subseteq Present(g) /\ Present(g) \subseteq Node /\ D \subseteq Node
      /\ \A n \in Node \ U : n \notin D =>
           h[n].st = g[n].st /\ h[n].verdict = g[n].verdict /\ h[n].data = g[n].data
      /\ \A n \in U : h[n].st = "done"
      /\ \A n \in D : n \notin U /\ h[n].st \in {"pending", "absent"}
      /\ Present(h) = Present(g) \ (D \ Plan)
      /\ \A n \in Present(h) : h[n].after = g[n].after \ (D \ Plan)
  BY ForkedGraph DEF Rested, Present, Descendants
<1>2. \A n \in Present(g) \ (U \cup D) : g[n].after \cap (U \cup D) = {}
  BY DescendantsClosed
<1>3. \A n \in D : g[n].after \cap (U \cup D) # {}
  BY <1>1, DescendantsDepend
<1> HIDE DEF h, D
<1>4. U \subseteq Done(h)
  BY <1>1 DEF Done, In
<1>5. \A n \in Done(h) \ U : n \notin D /\ n \in Present(g) /\ n \in Present(h) /\ n \in Done(g)
  BY <1>1 DEF Done, In, Present
<1>6. \A q \in Rules : q.watch \in Node
  BY RulesOf
<1>7. Shaped(h, v)
  <2>1. \A n \in Node : h[n].st \in {"absent", "pending", "done"}
    BY <1>1 DEF CalledFor, Shaped
  <2>2. v \subseteq Done(h)
    BY <1>4
  <2>3. Plan \subseteq Present(h)
    BY <1>1 DEF CalledFor, Shaped
  <2>4. ASSUME NEW n \in Present(h)
        PROVE  h[n].after \subseteq Deps[n] \cup Linked(n)
    BY <1>1, <2>4 DEF CalledFor, Shaped
  <2>5. ASSUME NEW n \in Present(h), n \in Plan
        PROVE  Deps[n] \subseteq h[n].after
    <3>1. Deps[n] \subseteq Plan
      BY <2>5, EmptyPlan
    <3> QED
      BY <1>1, <2>5, <3>1 DEF CalledFor, Shaped
  <2>6. ASSUME NEW n \in Present(h), n \notin Plan, n \notin v
        PROVE  Deps[n] \subseteq h[n].after
    <3>1. n \in Present(g) \ (U \cup D)
      BY <1>1, <2>6
    <3>2. n \notin r
      <4>1. n \in r => n \in Done(g)
        BY DEF CalledFor, Shaped
      <4>2. n \in Done(g) => n \in Done(h)
        BY <1>1, <3>1 DEF Done, In
      <4> QED
        BY <2>6, <4>1, <4>2
    <3>3. Deps[n] \subseteq g[n].after
      BY <3>1, <3>2 DEF CalledFor, Shaped
    <3> QED
      BY <1>1, <1>2, <2>6, <3>1, <3>3
  <2> HIDE DEF v
  <2> QED
    BY <2>1, <2>2, <2>3, <2>4, <2>5, <2>6 DEF Shaped
<1>8. Warranted(h, v)
  <2> SUFFICES ASSUME NEW n \in Present(h) \ (Plan \cup v),
                      \A q \in Rules : n \in q.add => q.watch \in Deps[n]
               PROVE  \E q \in Rules : n \in q.add /\ Triggered(h, q)
    BY DEF Warranted
  <2>1. n \in Present(g) \ (U \cup D)
    BY <1>1
  <2>2. n \notin r
    <3>1. n \in r => n \in Done(g)
      BY DEF CalledFor, Shaped
    <3>2. n \in Done(g) => n \in Done(h)
      BY <1>1, <2>1 DEF Done, In
    <3> QED
      BY <3>1, <3>2
  <2>3. PICK q \in Rules : n \in q.add /\ Triggered(g, q)
    BY <2>1, <2>2 DEF CalledFor, Warranted
  <2>4. q.watch \in g[n].after
    BY <2>1, <2>2, <2>3 DEF CalledFor, Shaped
  <2>5. q.watch \in Node \ U /\ q.watch \notin D
    BY <1>2, <1>6, <2>1, <2>4
  <2> QED
    BY <1>1, <2>3, <2>5 DEF Triggered
<1>9. Fulfilled(h, w, d)
  <2> SUFFICES ASSUME NEW q \in OwnFollowUps, Triggered(h, q), q.watch \notin w
               PROVE  /\ q.add \subseteq Present(h)
                      /\ \A l \in q.link \ d : l[2] \in Plan /\ q.watch \in Deps[l[2]] => l[1] \in h[l[2]].after
    BY DEF Fulfilled
  <2>1. q \in Rules /\ q.watch \in Node
    BY <1>6 DEF OwnFollowUps
  <2>2. q.watch \in Done(h) \ U
    BY <2>1 DEF Triggered, Done, In
  <2>3. q.watch \notin U \cup D /\ q.watch \notin u
    BY <1>5, <2>2
  <2>4. Triggered(g, q)
    BY <1>1, <2>1, <2>3 DEF Triggered
  <2>5. /\ q.add \subseteq Present(g)
        /\ \A l \in q.link \ d : l[2] \in Plan /\ q.watch \in Deps[l[2]] => l[1] \in g[l[2]].after
    BY <2>3, <2>4 DEF CalledFor, Fulfilled
  <2>6. ASSUME NEW n \in q.add
        PROVE  n \notin D
    <3>1. n \in Node /\ Deps[n] = {q.watch}
      BY <2>1, <2>6, RulesOf DEF OwnFollowUps
    <3>2. Linked(n) = {}
      BY <2>6 DEF OwnFollowUps, Linked
    <3>3. g[n].after \subseteq {q.watch}
      BY <2>5, <2>6, <3>1, <3>2 DEF CalledFor, Shaped
    <3> QED
      BY <1>3, <2>3, <3>3
  <2>7. \A l \in q.link : l[1] \in q.add \cup Plan
    BY DEF OwnFollowUps
  <2>8. Plan \subseteq Present(h)
    BY <1>7 DEF Shaped
  <2> HIDE DEF w
  <2> QED
    BY <1>1, <2>5, <2>6, <2>7, <2>8
<1>10. \A n \in Done(h) \ U : h[n].after \cap U = {}
  BY <1>1, <1>2, <1>5
<1> QED
  BY <1>4, <1>7, <1>8, <1>9, <1>10 DEF CalledFor, h

\* The initial states.
LEMMA InitCInv ==
  ASSUME Init
  PROVE  CInv
<1>1. /\ PlanPatch.add = Plan /\ PlanPatch.link = {} /\ Plan \subseteq Node
      /\ graph = Applied(EmptyGraph, PlanPatch)
  BY ForkAssumption DEF Init, PlanPatch
<1>3. \A n \in Node : /\ graph[n].st = IF n \in Plan THEN "pending" ELSE "absent"
                      /\ graph[n].after = IF n \in Plan THEN Deps[n] ELSE {}
  <2> SUFFICES ASSUME NEW n \in Node
               PROVE  /\ graph[n].st = IF n \in Plan THEN "pending" ELSE "absent"
                      /\ graph[n].after = IF n \in Plan THEN Deps[n] ELSE {}
    OBVIOUS
  <2>1. Proposed(EmptyGraph, PlanPatch)[n] = IF n \in Plan THEN Deps[n] ELSE {}
    BY <1>1 DEF Proposed, EmptyGraph, Absent
  <2>2. graph[n] = [(IF n \in Plan THEN [Absent EXCEPT !.st = "pending"] ELSE Absent)
                      EXCEPT !.after = Proposed(EmptyGraph, PlanPatch)[n]]
    BY <1>1 DEF Applied, EmptyGraph
  <2>3. CASE n \in Plan
    <3>1. graph[n] = [[Absent EXCEPT !.st = "pending"] EXCEPT !.after = Deps[n]]
      BY <2>1, <2>2, <2>3
    <3> QED
      BY <2>3, <3>1 DEF Absent
  <2>4. CASE n \notin Plan
    <3>1. graph[n] = [Absent EXCEPT !.after = {}]
      BY <2>1, <2>2, <2>4
    <3> QED
      BY <2>4, <3>1 DEF Absent
  <2> QED
    BY <2>3, <2>4
<1>4. Present(graph) = Plan /\ Done(graph) = {}
  BY <1>1, <1>3 DEF Present, Done, In
<1>5. CalledFor(graph, replaced, unseen, dropped)
  <2>1. \A q \in Rules : ~Triggered(graph, q)
    BY <1>3, RulesOf DEF Triggered
  <2>2. replaced = {}
    BY DEF Init
  <2>3. Fulfilled(graph, unseen, dropped)
    BY <2>1 DEF Fulfilled, OwnFollowUps
  <2> QED
    BY <1>1, <1>3, <1>4, <2>2, <2>3 DEF CalledFor, Shaped, Warranted
<1>6. Kept(disk)
  BY <1>5 DEF Init, Kept, Saved
<1> QED
  BY <1>4, <1>5, <1>6 DEF Init, CInv, Unread, AllShown

\* Nodes end.
LEMMA StepCInv ==
  ASSUME FInv, CInv, NEW R \in StepSets, Step(R)
  PROVE  CInv'
<1>1. R \subseteq Claimable(graph) /\ pending = {}
  BY DEF StepSets, Step, CInv
<1>2. PICK out \in [R -> UNION {Outcomes[n] : n \in R}] :
                 /\ \A n \in R : out[n] \in Outcomes[n]
                 /\ graph' = Ran(graph, R, out)
                 /\ replaced' = replaced \ R
                 /\ unseen' = unseen \cup R /\ pending' = R
  BY DEF Step
<1>3. out \in [R -> [verdict: Verdict \ {"bypassed"}, data: Data]]
  <2>1. \A n \in R : n \in Node
    BY <1>1 DEF Claimable, In
  <2>2. \A n \in R : out[n] \in [verdict: Verdict \ {"bypassed"}, data: Data]
    BY <1>2, <2>1, ForkAssumption
  <2> QED
    BY <2>2
<1>4. RanFrom(graph, graph', R)
  BY <1>1, <1>2, <1>3, RanGraph DEF FInv, Rested
<1>5. CalledFor(graph, replaced, unseen, dropped) /\ dropped' = dropped
  BY DEF CInv, Step
<1>6. CalledFor(graph', replaced', unseen', dropped')
  BY <1>1, <1>2, <1>4, <1>5, RanCalledFor DEF FInv
<1>7. Kept(disk')
  <2>1. disk' = disk \/ disk' = Saved' \/ disk' = [Saved' EXCEPT !.chan = chan]
    BY DEF Step, Raises
  <2>2. Kept(Saved') /\ Kept([Saved' EXCEPT !.chan = chan])
    BY <1>6 DEF Kept, Saved
  <2> QED
    BY <2>1, <2>2 DEF CInv
<1>8. /\ R \cap Done(graph) = {} /\ Done(graph') = Done(graph) \cup Blocked(graph) \cup R
      /\ \A n \in Node : graph'[n].after = graph[n].after
      /\ \A n \in Done(graph) : graph'[n] = graph[n]
      /\ \A n \in Blocked(graph) : graph'[n].verdict = "bypassed"
      /\ R \cap Blocked(graph) = {}
  BY <1>4 DEF RanFrom
<1>9. Unread'
  <2> SUFFICES ASSUME NEW n \in Done(graph') \ replaced', graph'[n].verdict # "bypassed"
               PROVE  graph'[n].after \cap R = {}
    BY <1>2 DEF Unread
  <2>1. graph'[n].after = graph[n].after
    BY <1>8 DEF Done, In
  <2>2. CASE n \in R
    BY <1>1, <1>8, <2>1, <2>2 DEF Claimable
  <2>3. CASE n \in Done(graph) /\ n \notin R
    <3>1. graph[n].after \subseteq Done(graph)
      BY <1>2, <1>8, <2>3 DEF FInv, Rested, RestsOn
    <3> QED
      BY <1>8, <2>1, <3>1
  <2> QED
    BY <1>8, <2>2, <2>3
<1>10. /\ pc' \in {"plan", "dead"} /\ fired' = fired /\ forks' = forks /\ history' = history
       /\ crashes' = crashes \/ (crashes' = crashes + 1)
       /\ pc' = "dead" => crashes' = crashes + 1
  BY DEF Step, Raises, saver
<1>11. AllShown'
  BY <1>1, <1>2, <1>10 DEF AllShown, CInv
<1> QED
  BY <1>1, <1>2, <1>6, <1>7, <1>8, <1>9, <1>10, <1>11 DEF CInv

\* The planner is asked.
LEMMA AskCInv ==
  ASSUME FInv, CInv, Ask
  PROVE  CInv'
<1>1. PICK n \in NextOutcome :
        LET s == Planned([graph |-> graph, fired |-> fired, stop |-> FALSE], n)
            R == Firing(graph, fired, n)
        IN /\ graph' = s.graph /\ fired' = s.fired /\ pending' = pending \ {n}
           /\ IF s.stop THEN Raises(disk) /\ UNCHANGED <<unseen, dropped>>
              ELSE /\ unseen' = unseen \ {n}
                   /\ dropped' = (dropped \ RulePatch(graph, R).link) \cup Forestalled(graph, R)
                   /\ disk' = Saved' /\ UNCHANGED crashes
                   /\ pc' = IF pending' # {} THEN pc ELSE IF pc = "plan" THEN "snap" ELSE "run"
  BY DEF Ask
<1> DEFINE s == Planned([graph |-> graph, fired |-> fired, stop |-> FALSE], n)
           R == Firing(graph, fired, n)
<1>2. n \in pending
  BY DEF NextOutcome
<1>3. /\ ~s.stop => CalledFor(s.graph, replaced, unseen \ {n},
                              (dropped \ RulePatch(graph, R).link) \cup Forestalled(graph, R))
      /\ s.stop => s.graph = graph
      /\ Done(s.graph) = Done(graph) /\ \A m \in Done(graph) : s.graph[m] = graph[m]
      /\ s.fired = fired \cup R
  BY <1>2, PlannedCalledFor DEF FInv
<1>4. \A q \in R : q.watch = n
  BY DEF Firing
<1>5. replaced' = replaced /\ history' = history /\ forks' = forks /\ pc \in {"plan", "ask"}
  BY DEF Ask, saver
<1> HIDE DEF s, R
<1>6. /\ graph' = s.graph /\ fired' = fired \cup R /\ pending' = pending \ {n}
      /\ s.stop => /\ unseen' = unseen /\ dropped' = dropped /\ disk' = disk
                   /\ pc' = "dead" /\ crashes' = crashes + 1
      /\ ~s.stop => /\ unseen' = unseen \ {n} /\ disk' = Saved' /\ crashes' = crashes
                    /\ dropped' = (dropped \ RulePatch(graph, R).link) \cup Forestalled(graph, R)
                    /\ pc' = IF pending' # {} THEN pc ELSE IF pc = "plan" THEN "snap" ELSE "run"
  BY <1>1, <1>3 DEF s, R, Raises
<1>7. CalledFor(graph', replaced', unseen', dropped')
  <2>1. CASE s.stop
    BY <1>3, <1>5, <1>6, <2>1 DEF CInv
  <2>2. CASE ~s.stop
    BY <1>3, <1>5, <1>6, <2>2
  <2> QED
    BY <2>1, <2>2
<1>8. Kept(disk')
  <2>1. Kept(Saved')
    BY <1>7 DEF Kept, Saved
  <2> QED
    BY <1>6, <2>1 DEF CInv
<1>9. Done(graph') = Done(graph) /\ \A m \in Done(graph) : graph'[m] = graph[m]
  BY <1>3, <1>6
<1>10. Unread'
  BY <1>5, <1>6, <1>9 DEF Unread, CInv
<1>11. AllShown'
  BY <1>5, <1>6 DEF AllShown, CInv
<1>12. pc' \in {"run", "snap"} => pending' = {}
  BY <1>5, <1>6
<1>13. \A q \in fired' : q.watch \in Done(graph') \ pending'
  BY <1>2, <1>4, <1>6, <1>9 DEF CInv
<1>14. pending' \subseteq Done(graph') /\ pending' \subseteq unseen'
  BY <1>6, <1>9 DEF CInv
<1>15. forks' \in Nat /\ crashes' \in Nat /\ (pc' = "dead" => crashes' > 0)
  BY <1>5, <1>6 DEF CInv
<1> QED
  BY <1>5, <1>7, <1>8, <1>10, <1>11, <1>12, <1>13, <1>14, <1>15 DEF CInv

\* A checkpoint of the store is put into the history.
LEMMA PutKept ==
  ASSUME FInv, CInv, NEW cp, Kept(cp), NEW end, Put(cp, end)
  PROVE  /\ \A k \in DOMAIN history' : Kept(history'[k])
         /\ \A k \in DOMAIN history' :
              (k \in DOMAIN history /\ history'[k] = history[k]) \/ history'[k] = cp
<1>1. history' = Append(history, cp)
  BY DEF Put
<1>2. /\ Len(history) \in Nat /\ DOMAIN history = 1..Len(history)
      /\ DOMAIN history' = 1..(Len(history) + 1)
      /\ \A k \in DOMAIN history : history'[k] = history[k]
      /\ history'[Len(history) + 1] = cp
  BY <1>1, AppendListed DEF FInv
<1>3. \A k \in DOMAIN history' : k \in DOMAIN history \/ k = Len(history) + 1
  BY <1>2
<1> QED
  BY <1>2, <1>3 DEF CInv

\* Snapshots and crashes.
LEMMA SnapshotCInv ==
  ASSUME FInv, CInv, Snapshot \/ Crash
  PROVE  CInv'
<1>1. UNCHANGED <<graph, replaced, unseen, dropped, fired, pending, disk, forks>>
  BY DEF Snapshot, Crash, store
<1>2. Kept(Checkpoint) /\ Checkpoint.unseen = unseen
  BY DEF CInv, Kept, Checkpoint, Saved
<1>3. CASE Snapshot
  <2>1. Put(Checkpoint, "whole") /\ pc = "snap" /\ pc' = "run" /\ crashes' = crashes
    BY <1>3 DEF Snapshot
  <2>2. /\ \A k \in DOMAIN history' : Kept(history'[k])
        /\ \A k \in DOMAIN history' :
             (k \in DOMAIN history /\ history'[k] = history[k]) \/ history'[k] = Checkpoint
    BY <1>2, <2>1, PutKept
  <2>3. AllShown'
    BY <1>1, <1>2, <2>1, <2>2 DEF AllShown, CInv
  <2> QED
    BY <1>1, <2>1, <2>2, <2>3 DEF CInv, Unread
<1>4. CASE Crash
  <2>1. /\ pc' = "dead" /\ crashes' = crashes + 1
        /\ (\E end : Put(Checkpoint, end)) \/ history' = history
    BY <1>4 DEF Crash, saver
  <2>2. \A k \in DOMAIN history' : Kept(history'[k])
    BY <1>2, <2>1, PutKept DEF CInv
  <2>3. AllShown' /\ crashes' > 0 /\ crashes' \in Nat
    BY <2>1 DEF AllShown, CInv
  <2> QED
    BY <1>1, <2>1, <2>2, <2>3 DEF CInv, Unread
<1> QED
  BY <1>3, <1>4

\* A new process.
LEMMA RestartCInv ==
  ASSUME FInv, CInv, NEW s, Sound(s), Kept(s), Restart(s)
  PROVE  CInv'
<1>1. /\ graph' = Reloaded(s.graph) /\ replaced' = s.replaced
      /\ unseen' = s.unseen /\ dropped' = s.dropped
      /\ fired' = {} /\ pending' = {} /\ pc' = "run" /\ pc = "dead"
      /\ history' = history /\ disk' = disk /\ forks' = forks /\ crashes' = crashes
  BY DEF Restart, Open, past
<1>2. graph' = s.graph
  <2>1. s.graph \in Graph /\ \A n \in Node : s.graph[n].st # "running"
    BY DEF Sound, Rested, Kept, CalledFor, Shaped
  <2>2. s.graph = [n \in Node |-> s.graph[n]]
    BY <2>1 DEF Graph
  <2> QED
    BY <1>1, <2>1, <2>2 DEF Reloaded
<1>3. CalledFor(graph', replaced', unseen', dropped')
  BY <1>1, <1>2 DEF Kept
<1>4. AllShown' /\ Unread'
  BY <1>1 DEF AllShown, Unread, CInv
<1> QED
  BY <1>1, <1>3, <1>4 DEF CInv

\* A fork.
LEMMA ForkCInv ==
  ASSUME FInv, CInv, NEW upd \in Updates, Fork(upd)
  PROVE  CInv'
<1>1. /\ pc = "run" /\ fired' = {} /\ pc' = "ask" /\ pending' = DOMAIN upd
      /\ disk' = Saved' /\ Put(Checkpoint', "whole")
      /\ forks' = forks + 1 /\ crashes' = crashes
  BY DEF Fork
<1>2. PICK s : /\ Rested(s.graph, s.basis, s.replaced) /\ Kept(s) /\ ForkOf(s, upd)
               /\ crashes = 0 /\ forks = 0 => s.unseen = {}
  <2>1. CASE ForkOf(Saved, upd)
    <3>1. Rested(Saved.graph, Saved.basis, Saved.replaced) /\ Kept(Saved)
      BY DEF FInv, CInv, Kept, Saved
    <3>2. crashes = 0 /\ forks = 0 => Saved.unseen = {}
      BY <1>1 DEF CInv, AllShown, Saved
    <3> QED
      BY <2>1, <3>1, <3>2
  <2>2. ASSUME NEW k \in known, ForkOf(Got(k), upd)
        PROVE  /\ Rested(Got(k).graph, Got(k).basis, Got(k).replaced) /\ Kept(Got(k))
               /\ crashes = 0 /\ forks = 0 => Got(k).unseen = {}
    <3>1. k \in DOMAIN history /\ Sound(history[k]) /\ Kept(history[k])
      BY DEF FInv, CInv
    <3>2. PICK g, c, t, x, b, r, u, l :
            history[k] = [graph |-> g, chan |-> c, time |-> t, text |-> x, basis |-> b, replaced |-> r,
                          unseen |-> u, dropped |-> l]
      BY <3>1 DEF Sound
    <3>3. FromFile(k) = [graph |-> g, chan |-> c, time |-> t, text |-> x \cup HasOverwrite(g),
                         basis |-> b, replaced |-> r, unseen |-> u, dropped |-> l]
      BY <3>2 DEF FromFile
    <3>4. /\ Got(k).graph = history[k].graph /\ Got(k).basis = history[k].basis
          /\ Got(k).replaced = history[k].replaced /\ Got(k).unseen = history[k].unseen
          /\ Got(k).dropped = history[k].dropped
      BY <3>2, <3>3 DEF Got
    <3>5. crashes = 0 /\ forks = 0 => history[k].unseen = {}
      BY <3>1 DEF CInv, AllShown
    <3> QED
      BY <3>1, <3>4, <3>5 DEF Sound, Kept
  <2> QED
    BY <2>1, <2>2 DEF Fork
<1> DEFINE U == DOMAIN upd
           h == Replaced(Undone(s.graph, U), upd)
<1>3. /\ U \subseteq Present(s.graph) /\ graph' = h
      /\ replaced' = (s.replaced \cap Done(h)) \cup U
      /\ unseen' = (s.unseen \cap Done(h)) \cup U /\ dropped' = s.dropped
  BY <1>2 DEF ForkOf, Forkable
<1> HIDE DEF h
<1>4. /\ CalledFor(h, (s.replaced \cap Done(h)) \cup U, (s.unseen \cap Done(h)) \cup U, s.dropped)
      /\ U \subseteq Done(h)
      /\ \A n \in Done(h) \ U : h[n].after \cap U = {}
  BY <1>2, <1>3, ForkedCalledFor DEF Kept, h
<1>5. CalledFor(graph', replaced', unseen', dropped')
  BY <1>3, <1>4
<1>6. Kept(disk') /\ Kept(Checkpoint')
  BY <1>1, <1>5 DEF Kept, Saved, Checkpoint
<1>7. \A k \in DOMAIN history' : Kept(history'[k])
  BY <1>1, <1>6, PutKept
<1>8. Unread'
  BY <1>1, <1>3, <1>4 DEF Unread
<1>9. AllShown'
  <2>1. forks \in Nat /\ (crashes = 0 /\ forks = 0 => unseen' = U)
    BY <1>2, <1>3 DEF CInv
  <2> QED
    BY <1>1, <2>1 DEF AllShown
<1> QED
  BY <1>1, <1>3, <1>4, <1>5, <1>6, <1>7, <1>8, <1>9 DEF CInv

\* CInv is inductive.
LEMMA NextCInv ==
  ASSUME FInv, CInv, [Next]_vars
  PROVE  CInv'
<1>1. CASE \E R \in StepSets : Step(R)
  BY <1>1, StepCInv
<1>2. CASE (\E c \in Channel : Consume(c)) \/ UNCHANGED vars
  <2>1. UNCHANGED <<graph, replaced, unseen, dropped, fired, pending, pc, disk, history, forks, crashes>>
    BY <1>2 DEF Consume, vars, store, saver, past
  <2> QED
    BY <2>1 DEF CInv, Unread, AllShown
<1>3. CASE Ask
  BY <1>3, AskCInv
<1>4. CASE Snapshot \/ Crash
  BY <1>4, SnapshotCInv
<1>5. CASE Load
  BY <1>5, RestartCInv DEF Load, FInv, CInv
<1>6. CASE LoadLatest
  <2>1. DOMAIN lines = DOMAIN history
    BY AppendListed DEF FInv
  <2>2. PICK k \in DOMAIN history : Restart(history[k])
    BY <1>6, <2>1 DEF LoadLatest, Newest, Readable, Parsed
  <2> QED
    BY <2>2, RestartCInv DEF FInv, CInv
<1>7. CASE \E upd \in Updates : Fork(upd)
  BY <1>7, ForkCInv
<1> QED
  BY <1>1, <1>2, <1>3, <1>4, <1>5, <1>6, <1>7 DEF Next

\* However a run is forked and taken up again, its follow-ups are those its
\* results call for (fork, apply, on_outcome, and continue_from with the
\* pending_outcomes of a fork).
THEOREM FollowUpsAreCalledFor == Spec => []FollowUpsMatchResults
<1>1. Init => FInv /\ CInv
  BY InitFInv, InitCInv
<1>2. FInv /\ CInv /\ [Next]_vars => FInv' /\ CInv'
  BY NextFInv, NextCInv
<1>3. CInv => FollowUpsMatchResults
  <2> SUFFICES ASSUME CInv, Over
               PROVE  /\ \A r \in OwnFollowUps :
                           Triggered(graph, r) /\ ((crashes = 0 /\ forks <= 1) \/ r.watch \notin unseen) =>
                             /\ r.add \subseteq Present(graph)
                             /\ \A l \in r.link \ dropped :
                                  l[2] \in Plan /\ r.watch \in Deps[l[2]] => l[1] \in graph[l[2]].after
                      /\ Warranted(graph, replaced)
    BY DEF FollowUpsMatchResults, Warranted
  <2>1. crashes = 0 /\ forks <= 1 => unseen = {}
    BY DEF CInv, Over, AllShown
  <2> QED
    BY <2>1 DEF CInv, CalledFor, Fulfilled
<1> QED
  BY <1>1, <1>2, <1>3, PTL DEF Spec

-------------------------------------------------------------------------------
(* Versions tell of every change                                           *)

\* update() returns true whenever it has changed the channel.
LEMMA UnreportedIsUnchanged ==
  ASSUME NEW c \in Channel, NEW held, NEW ws, ~Reported(c, held, ws)
  PROVE  Updated(c, held, ws) = held
<1>1. Kind[c] \in Kinds
  BY ChannelAssumption
<1>2. CASE Kind[c] \in {"ephemeral", "latest"}
  BY <1>2 DEF Reported, Updated
<1>3. CASE Kind[c] = "barrier"
  BY <1>3 DEF Reported
<1>4. CASE Kind[c] \in {"last_value", "topic", "reducer"}
  BY <1>4 DEF Reported, Updated
<1> QED
  BY <1>1, <1>2, <1>3, <1>4 DEF Kinds

\* A step that is no conflict gives its version to whatever it changes.
LEMMA StepVersions ==
  ASSUME NEW ch, NEW made, ~Conflicts(made), NEW c \in Channel,
         AppliedTo(ch, made).held[c] # ch.held[c]
  PROVE  AppliedTo(ch, made).version[c] = AppliedTo(ch, made).step
<1> DEFINE new == AppliedTo(ch, made)
           ws == GroupedFor(c, made)
<1>1. ~Undeclared(made) /\ Clashing(made) = {}
  BY DEF Conflicts
<1>2. c \in Merged(made)
  BY <1>1, ChannelAssumption DEF Merged
<1>3. /\ new.held[c] = Updated(c, ch.held[c], ws)
      /\ new.version[c] = IF Reported(c, ch.held[c], ws) THEN ch.step + 1 ELSE ch.version[c]
      /\ new.step = ch.step + 1
  BY <1>1, <1>2 DEF AppliedTo, Touched
<1> HIDE DEF new, ws
<1>4. Reported(c, ch.held[c], ws)
  BY <1>3, UnreportedIsUnchanged DEF new
<1> QED
  BY <1>3, <1>4 DEF new

\* A reader that remembers versions misses no change, whatever the kinds of the
\* channels and whatever was written (ChannelState.apply and consume, update of
\* each kind).
THEOREM VersionsTell == Spec => ChangesAreVersioned
<1>1. Init => FInv
  BY InitFInv
<1>2. FInv /\ [Next]_vars => FInv'
  BY NextFInv
<1> DEFINE Versioned == pc = "run" /\ pc' \in {"run", "plan"} =>
             \A c \in Channel : Seen(c, chan'.held[c]) # Seen(c, chan.held[c]) =>
               chan'.version[c] = chan'.step
<1>3. FInv /\ [Next]_vars => Versioned
  <2> SUFFICES ASSUME FInv, [Next]_vars, pc = "run", pc' \in {"run", "plan"},
                      NEW c \in Channel, chan'.held[c] # chan.held[c]
               PROVE  chan'.version[c] = chan'.step
    OBVIOUS
  <2>1. CASE \E R \in StepSets : Step(R)
    <3>1. PICK made : /\ chan' = AppliedTo(chan, made)
                      /\ Conflicts(made) => pc' = "dead"
      BY <2>1 DEF Step, Raises
    <3> QED
      BY <3>1, StepVersions
  <2>2. CASE \E d \in Channel : Consume(d)
    <3>1. PICK d \in Channel : chan' = Consumed(chan, {d})
      BY <2>2 DEF Consume
    <3>2. /\ chan'.step = chan.step
          /\ \E full : /\ chan'.held = [e \in Channel |-> IF e \in full THEN {} ELSE chan.held[e]]
                        /\ chan'.version = [e \in Channel |-> IF e \in full THEN chan.step ELSE chan.version[e]]
      BY <3>1 DEF Consumed, FInv, StateOfChannels
    <3> QED
      BY <3>2
  <2>3. CASE Ask \/ Snapshot \/ Crash \/ Load \/ LoadLatest
    BY <2>3 DEF Ask, Snapshot, Crash, Load, LoadLatest, Restart
  <2>4. CASE \E upd \in Updates : Fork(upd)
    BY <2>4 DEF Fork
  <2>5. CASE UNCHANGED vars
    BY <2>5 DEF vars, store
  <2> QED
    BY <2>1, <2>2, <2>3, <2>4, <2>5 DEF Next
<1>4. FInv /\ [Next]_vars => [Versioned]_vars
  BY <1>3
<1> QED
  BY <1>1, <1>2, <1>4, PTL DEF Spec, ChangesAreVersioned

-------------------------------------------------------------------------------
(* Few lines of a history are lost                                         *)

Lost == DOMAIN lines \ Parsed

\* What the next snapshot will lose: the line it adds, where that is joined to a
\* torn one, and a line that lacks but its end as well.
Owed ==
  IF format # "jsonl" \/ lines = <<>> THEN 0
  ELSE CASE lines[Len(lines)] = "torn" -> 1
         [] lines[Len(lines)] = "bare" -> 2
         [] OTHER -> 0

LInv ==
  /\ format \in {"jsonl", "sqlite"} /\ crashes \in Nat
  /\ Listed(lines) /\ IsFiniteSet(Lost)
  /\ format # "jsonl" => \A k \in DOMAIN lines : lines[k] # "bare"
  /\ Cardinality(Lost) + Owed <= (IF format = "jsonl" THEN 2 ELSE 1) * crashes

\* What one more line does: a whole one loses nothing that was not owed, and one
\* that is cut off loses itself or the next and itself.
LEMMA LineAdded ==
  ASSUME LInv, NEW cp, NEW end \in {"whole"} \cup Tears, Put(cp, end), UNCHANGED format
  PROVE  /\ Listed(lines') /\ IsFiniteSet(Lost')
         /\ format # "jsonl" => \A k \in DOMAIN lines' : lines'[k] # "bare"
         /\ end # "whole" => Cardinality(Lost') + Owed' <=
                               Cardinality(Lost) + Owed + (IF format = "jsonl" THEN 2 ELSE 1)
         /\ end = "whole" => Cardinality(Lost') + Owed' <= Cardinality(Lost) + Owed
<1> DEFINE e == IF format = "jsonl" THEN JsonlLine(end) ELSE SqliteRow(end)
           n == Len(lines)
           k == n + 1
           last == lines[n]
<1>1. Listed(lines) /\ lines' = Append(lines, e)
  BY DEF LInv, Put
<1>a. /\ lines # <<>> /\ last \in {"torn", "bare"} /\ format = "jsonl" =>
           e = IF end = "whole" THEN "joined" ELSE IF end = "bare" THEN "torn" ELSE end
      /\ ~(lines # <<>> /\ last \in {"torn", "bare"} /\ format = "jsonl") => e = end
  BY DEF JsonlLine, SqliteRow, Unended
<1>b. end \in {"whole", "torn", "bare", "split"} /\ (format # "jsonl" => end \in {"whole", "torn"})
  BY DEF Tears
<1> HIDE DEF e
<1>2. /\ Listed(lines') /\ Len(lines') = k /\ n \in Nat
      /\ DOMAIN lines = 1..n /\ DOMAIN lines' = 1..k
      /\ \A j \in DOMAIN lines : lines'[j] = lines[j]
      /\ lines'[k] = e
  BY <1>1, AppendListed
<1>c. lines' # <<>> /\ (lines = <<>> <=> n = 0) /\ (n # 0 => n \in DOMAIN lines)
  <2>1. lines = <<>> => n = 0
    OBVIOUS
  <2>2. n = 0 => lines = <<>>
    BY <1>1 DEF Listed
  <2> QED
    BY <1>2, <2>1, <2>2
<1>d. format # "jsonl" => \A j \in DOMAIN lines' : lines'[j] # "bare"
  <2>1. \A j \in DOMAIN lines' : j \in DOMAIN lines \/ j = k
    BY <1>2
  <2>2. format # "jsonl" => e # "bare"
    BY <1>a, <1>b
  <2> QED
    BY <1>2, <2>1, <2>2 DEF LInv
<1>3. k \notin Lost /\ (last = "bare" => n \notin Lost)
  <2>1. k \notin DOMAIN lines
    BY <1>2
  <2>2. \A j \in Lost : j \in DOMAIN lines /\ ~(lines[j] = "bare" /\ j = Len(lines))
    BY DEF Lost, Parsed
  <2> QED
    BY <2>1, <2>2
<1>4. IsFiniteSet(Lost) /\ Cardinality(Lost) \in Nat
  BY FS_CardinalityType DEF LInv
<1>5. \A j : j \in DOMAIN lines' <=> j \in DOMAIN lines \/ j = k
  BY <1>2
<1>6. Owed' = IF format # "jsonl" THEN 0 ELSE IF e = "torn" THEN 1 ELSE IF e = "bare" THEN 2 ELSE 0
  BY <1>2, <1>c DEF Owed
<1>7. CASE lines # <<>> /\ last = "bare"
  <2>1. format = "jsonl" /\ n \in DOMAIN lines /\ Owed = 2
    BY <1>7, <1>c DEF LInv, Owed
  <2>2. e \in {"joined", "torn", "split"} /\ (end = "whole" => e = "joined")
    BY <1>7, <1>a, <1>b, <2>1
  <2>3. Lost' = (Lost \cup {n}) \cup {k}
    <3>1. \A j \in DOMAIN lines : j \in Parsed' <=> lines[j] = "whole"
      BY <1>2 DEF Parsed
    <3>2. \A j \in DOMAIN lines : j \in Parsed <=> lines[j] = "whole" \/ j = n
      BY <1>7, <1>2 DEF Parsed
    <3>3. k \notin Parsed' /\ lines[n] # "whole" /\ k \notin DOMAIN lines
      BY <1>2, <1>7, <2>2 DEF Parsed
    <3> QED
      BY <1>5, <2>1, <3>1, <3>2, <3>3 DEF Lost
  <2>4. /\ IsFiniteSet(Lost \cup {n}) /\ Cardinality(Lost \cup {n}) = Cardinality(Lost) + 1
        /\ k \notin Lost \cup {n}
    <3>1. n \notin Lost /\ k \notin Lost /\ k # n
      <4>1. n \notin Lost /\ k \notin Lost
        BY <1>3, <1>7
      <4>2. n \in Nat
        BY <1>2
      <4> QED
        BY <4>1, <4>2
    <3>2. IsFiniteSet(Lost \cup {n}) /\ Cardinality(Lost \cup {n}) = Cardinality(Lost) + 1
      BY <1>4, <3>1, FS_AddElement
    <3> QED
      BY <3>1, <3>2
  <2>5. IsFiniteSet(Lost') /\ Cardinality(Lost') = Cardinality(Lost) + 2
    <3>1. IsFiniteSet(Lost') /\ Cardinality(Lost') = Cardinality(Lost \cup {n}) + 1
      BY <2>3, <2>4, FS_AddElement
    <3> QED
      BY <1>4, <2>4, <3>1
  <2> QED
    BY <1>2, <1>4, <1>6, <1>d, <2>1, <2>2, <2>5
<1>8. CASE ~(lines # <<>> /\ last = "bare")
  <2>1. Lost' = IF e \in {"whole", "bare"} THEN Lost ELSE Lost \cup {k}
    <3>1. \A j \in DOMAIN lines : j \in Parsed' <=> lines[j] = "whole"
      BY <1>2 DEF Parsed
    <3>2. \A j \in DOMAIN lines : j \in Parsed <=> lines[j] = "whole"
      BY <1>8, <1>2, <1>c DEF Parsed
    <3>3. (k \in Parsed' <=> e \in {"whole", "bare"}) /\ k \notin DOMAIN lines
      BY <1>2 DEF Parsed
    <3> QED
      BY <1>5, <3>1, <3>2, <3>3 DEF Lost
  <2>2. IsFiniteSet(Lost \cup {k}) /\ Cardinality(Lost \cup {k}) = Cardinality(Lost) + 1
    BY <1>3, <1>4, FS_AddElement
  <2>3. Owed = IF format = "jsonl" /\ lines # <<>> /\ last = "torn" THEN 1 ELSE 0
    BY <1>8 DEF Owed
  <2>4. CASE Owed = 1
    <3>1. e \in {"joined", "torn", "split"} /\ (end = "whole" => e = "joined")
      BY <1>a, <1>b, <2>3, <2>4
    <3> QED
      BY <1>2, <1>4, <1>6, <1>d, <2>1, <2>2, <2>3, <2>4, <3>1
  <2>5. CASE Owed = 0
    <3>1. e = end
      BY <1>8, <1>a, <2>3, <2>5
    <3> QED
      BY <1>2, <1>4, <1>6, <1>b, <1>d, <2>1, <2>2, <2>5, <3>1
  <2> QED
    BY <2>3, <2>4, <2>5
<1> QED
  BY <1>7, <1>8

\* However often a run dies in the middle of a snapshot, each death loses the
\* line it was writing and, in a file of lines, the one appended behind it, as
\* long as the file can be read at all (JsonlSaver.put and _read,
\* SqliteSaver.put).
THEOREM FewLinesLost == Spec => []HistoryLosesFew
<1>1. Init => LInv
  <2> SUFFICES ASSUME Init PROVE LInv
    OBVIOUS
  <2>1. Lost = {} /\ Owed = 0 /\ Listed(lines)
    BY DEF Init, Lost, Owed, Listed
  <2>2. format \in {"jsonl", "sqlite"}
    BY ForkAssumption DEF Init
  <2> QED
    BY <2>1, <2>2, FS_EmptySet DEF LInv, Init
<1>2. LInv /\ [Next]_vars => LInv'
  <2> SUFFICES ASSUME LInv, [Next]_vars PROVE LInv'
    OBVIOUS
  <2>1. UNCHANGED format
    BY DEF Next, Step, Consume, Ask, Snapshot, Crash, Load, LoadLatest, Restart, Fork, vars, mode
  <2>2. \/ UNCHANGED lines /\ crashes' \in {crashes, crashes + 1}
        \/ UNCHANGED crashes /\ \E cp : Put(cp, "whole")
        \/ crashes' = crashes + 1 /\ \E cp : \E end \in Tears : Put(cp, end)
    <3>1. CASE \E R \in StepSets : Step(R)
      BY <3>1 DEF Step, Raises, saver
    <3>2. CASE (\E c \in Channel : Consume(c)) \/ Load \/ LoadLatest
      BY <3>2 DEF Consume, Load, LoadLatest, Restart, saver, past
    <3>3. CASE Ask
      BY <3>3 DEF Ask, Raises, saver
    <3>4. CASE Snapshot
      BY <3>4 DEF Snapshot
    <3>5. CASE Crash
      BY <3>5 DEF Crash, saver
    <3>6. CASE \E upd \in Updates : Fork(upd)
      BY <3>6 DEF Fork
    <3>7. CASE UNCHANGED vars
      BY <3>7 DEF vars, saver, past
    <3> QED
      BY <3>1, <3>2, <3>3, <3>4, <3>5, <3>6, <3>7 DEF Next
  <2>3. Cardinality(Lost) \in Nat /\ Owed \in Nat
    BY FS_CardinalityType DEF LInv, Owed
  <2>4. CASE UNCHANGED lines /\ crashes' \in {crashes, crashes + 1}
    <3>1. Lost' = Lost /\ Owed' = Owed
      BY <2>1, <2>4 DEF Lost, Parsed, Owed
    <3> QED
      BY <2>1, <2>3, <2>4, <3>1 DEF LInv
  <2>5. CASE UNCHANGED crashes /\ \E cp : Put(cp, "whole")
    <3>1. /\ Listed(lines') /\ IsFiniteSet(Lost')
          /\ format # "jsonl" => \A k \in DOMAIN lines' : lines'[k] # "bare"
          /\ Cardinality(Lost') + Owed' <= Cardinality(Lost) + Owed
      BY <2>1, <2>5, LineAdded DEF Tears
    <3>2. Cardinality(Lost') \in Nat /\ Owed' \in Nat
      BY <3>1, FS_CardinalityType DEF Owed
    <3> QED
      BY <2>1, <2>3, <2>5, <3>1, <3>2 DEF LInv
  <2>6. CASE crashes' = crashes + 1 /\ \E cp : \E end \in Tears : Put(cp, end)
    <3>1. /\ Listed(lines') /\ IsFiniteSet(Lost')
          /\ format # "jsonl" => \A k \in DOMAIN lines' : lines'[k] # "bare"
          /\ Cardinality(Lost') + Owed' <=
               Cardinality(Lost) + Owed + (IF format = "jsonl" THEN 2 ELSE 1)
      <4>1. PICK cp : \E end \in Tears : Put(cp, end)
        BY <2>6
      <4>2. PICK end \in Tears : Put(cp, end)
        BY <4>1
      <4>3. end # "whole"
        BY DEF Tears
      <4> QED
        BY <2>1, <4>2, <4>3, LineAdded
    <3>2. Cardinality(Lost') \in Nat /\ Owed' \in Nat
      BY <3>1, FS_CardinalityType DEF Owed
    <3> QED
      BY <2>1, <2>3, <2>6, <3>1, <3>2 DEF LInv
  <2> QED
    BY <2>2, <2>4, <2>5, <2>6
<1>3. LInv => HistoryLosesFew
  <2> SUFFICES ASSUME LInv PROVE HistoryLosesFew
    OBVIOUS
  <2>1. Cardinality(Lost) \in Nat /\ Owed \in Nat
    BY FS_CardinalityType DEF LInv, Owed
  <2> QED
    BY <2>1 DEF LInv, HistoryLosesFew, Lost, Readable
<1> QED
  BY <1>1, <1>2, <1>3, PTL DEF Spec

===============================================================================
