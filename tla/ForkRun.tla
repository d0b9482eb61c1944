------------------------------- MODULE ForkRun -------------------------------
(***************************************************************************)
(* Channels, checkpoint history and forks of a run: ChannelState of        *)
(* agentkit/graph/channels.py, snapshot, fork and _rebuild_channels of     *)
(* GraphStore (agentkit/graph/engine.py), and the savers JsonlSaver        *)
(* (agentkit/graph/checkpoint.py) and SqliteSaver (sqlite_saver.py, one    *)
(* run's thread of it).  A node that may run ends in one step; threads,    *)
(* retries and pauses are in EagerExecutor and SuperstepExecutor.          *)
(***************************************************************************)
EXTENDS RulePlanner, Channels
LOCAL INSTANCE SequencesExt
LOCAL INSTANCE FiniteSetsExt

CONSTANTS
  Modes,        \* the modes of a run and formats of its history looked at
  Plan,         \* the nodes of the plan file
  Outcomes,     \* Outcomes[n]: the results [verdict, data] n's action may return
  WritesOf,     \* WritesOf[n][d]: the channel writes of its result with data d
  Text,         \* what an Overwrite becomes in a JSON file
  Updates,      \* what a fork may replace: functions from nodes to results
  MaxForks,     \* bounds: forks of a run,
  MaxCrashes,   \* deaths of its processes,
  MaxConsumes   \* and barriers consumed by their readers

ASSUME ForkAssumption ==
  /\ Modes \subseteq BOOLEAN \X {"jsonl", "sqlite"}
  /\ Plan \subseteq Node /\ ToSet(IdOrder) = Node
  /\ Outcomes \in [Node -> SUBSET [verdict: Verdict \ {"bypassed"}, data: Data]]
  /\ \A n \in Node : \A d \in Data : \A c \in DOMAIN WritesOf[n][d] : WritesOf[n][d][c] \in Write
  /\ Text \in Value
  /\ \A upd \in Updates : /\ DOMAIN upd \subseteq Node /\ DOMAIN upd # {}
                         /\ \A n \in DOMAIN upd : upd[n] \in [verdict: Verdict, data: Data]
  /\ {MaxForks, MaxCrashes, MaxConsumes} \subseteq Nat

PlanPatch == [add |-> Plan, twice |-> {}, link |-> {}]

\* A plan that GraphStore.apply refuses is never run.
ASSUME PlanAssumption == Valid(EmptyGraph, PlanPatch)

VARIABLES
  superstep,  \* the mode of the run
  format,     \* the history's: "jsonl" or "sqlite"
  graph,      \* GraphStore.specs
  chan,       \* GraphStore.channels
  time,       \* time[n]: when n got its result (finished_at)
  text,       \* the results that came from a file: their Overwrites are text
  fired,      \* RulePlanner.fired
  pending,    \* the outcomes the planner is still to see: of a step, or pending_outcomes of a fork
  pc,         \* "run", "plan" or, after a fork, "ask" the planner about them, take a "snap"shot, "dead"
  disk,       \* graph.json
  history,    \* the checkpoints ever made
  lines,      \* lines[k]: how history[k] stands in the history's file
  known,      \* the checkpoints a get() or list() of the process finds
  own,        \* those it has put itself
  basis,      \* history of the store: basis[n]: the results n read when it ran
  replaced,   \* history of the store: the nodes whose result a fork supplied
  unseen,     \* history of the store: the nodes that got their result, from a step or
              \* from a fork, and that no planner was asked about since
  dropped,    \* history of the store: the links that a rule gave up when it fired and
              \* none has made since, as the node was bypassed or a fork's result
  told,       \* history: the writes of the last step
  forks, crashes, consumes  \* history

mode == <<superstep, format>>
store == <<graph, chan, time, text, basis, replaced, unseen, dropped>>
saver == <<history, lines, known, own>>
past == <<told, forks, crashes, consumes>>
vars == <<mode, store, fired, pending, pc, disk, saver, past>>

\* to_dict, and with it the history of what is saved.
Saved == [graph |-> graph, chan |-> chan, time |-> time, text |-> text,
          basis |-> basis, replaced |-> replaced, unseen |-> unseen, dropped |-> dropped]

Init ==
  /\ \E md \in Modes : superstep = md[1] /\ format = md[2]
  /\ graph = Applied(EmptyGraph, PlanPatch)
  /\ chan = FreshChannels /\ time = [n \in Node |-> 0] /\ text = {}
  /\ basis = [n \in Node |-> <<>>] /\ replaced = {}
  /\ unseen = {} /\ dropped = {}
  /\ fired = {} /\ pending = {} /\ pc = "snap" /\ disk = Saved
  /\ history = <<>> /\ lines = <<>> /\ known = {} /\ own = {}
  /\ told = <<>>
  /\ forks = 0 /\ crashes = 0 /\ consumes = 0

-------------------------------------------------------------------------------
(* A step: nodes end, their writes are applied, the planner is asked       *)

ResultOf(g, n) == [verdict |-> g[n].verdict, data |-> g[n].data]

\* The writes of n's result as the store holds them.
WritesIn(g, txt, n) ==
  LET ws == IF g[n].data = NoData THEN <<>> ELSE WritesOf[n][g[n].data]
  IN [c \in DOMAIN ws |-> IF n \in txt /\ ws[c].over THEN [value |-> Text, over |-> FALSE] ELSE ws[c]]

Made(g, txt, R) ==
  [n \in {m \in R : DOMAIN WritesIn(g, txt, m) # {}} |-> WritesIn(g, txt, n)]

\* What waits in vain is bypassed, and the nodes of R end as out says.
Ran(g, R, out) ==
  [n \in Node |-> IF n \in R THEN Recorded(g, n, out[n].verdict, out[n].data)[n]
                  ELSE IF n \in Blocked(g) THEN Claimed(g)[n] ELSE g[n]]

\* In eager mode the outcomes come one at a time.
StepSets == IF superstep THEN {Claimable(graph)} \ {{}} ELSE {{n} : n \in Claimable(graph)}

LastTime(when) == Max({when[n] : n \in Node})

\* time.time(): later than all before.
Later(when, R) == [n \in Node |-> IF n \in R THEN LastTime(when) + 1 ELSE when[n]]

\* A conflict or a planner's exception: the process dies with what it has
\* checkpointed, in superstep mode the outcomes without their writes.
Raises(s) == pc' = "dead" /\ crashes' = crashes + 1 /\ disk' = s

Step(R) ==
  /\ pc = "run"
  /\ UNCHANGED <<mode, text, dropped, fired, saver, forks, consumes>>
  /\ \E out \in [R -> UNION {Outcomes[n] : n \in R}] :
       LET ran == Ran(graph, R, out)
           made == Made(ran, {}, R)
       IN /\ \A n \in R : out[n] \in Outcomes[n]
          /\ graph' = ran
          /\ chan' = AppliedTo(chan, made) /\ told' = made
          /\ time' = Later(time, R)
          /\ basis' = [n \in Node |-> IF n \in R THEN [d \in graph[n].after |-> ResultOf(Claimed(graph), d)]
                                                ELSE basis[n]]
          /\ replaced' = replaced \ R
          /\ unseen' = unseen \cup R /\ pending' = R
          /\ IF Conflicts(made) THEN Raises(IF superstep THEN [Saved' EXCEPT !.chan = chan] ELSE disk)
             ELSE pc' = "plan" /\ disk' = Saved' /\ UNCHANGED crashes

\* The outcomes are shown in the order of the ids.
NextOutcome == {n \in pending : \E i \in DOMAIN IdOrder :
                  IdOrder[i] = n /\ \A j \in 1..(i - 1) : IdOrder[j] \notin pending}

\* The links of the rules R that a bypass, or a fork's result, has forestalled.
Forestalled(g, R) ==
  {l \in UNION {r.link : r \in R} : g[l[2]].verdict = "bypassed" \/ l[2] \in replaced}

\* The planner sees the outcomes one by one, those of a step and, in
\* continue_from, the replaced ones of a fork.
Ask ==
  /\ pc \in {"plan", "ask"}
  /\ UNCHANGED <<mode, chan, time, text, basis, replaced, saver, told, forks, consumes>>
  /\ \E n \in NextOutcome :
       LET s == Planned([graph |-> graph, fired |-> fired, stop |-> FALSE], n)
           R == Firing(graph, fired, n)
       IN /\ graph' = s.graph /\ fired' = s.fired /\ pending' = pending \ {n}
          /\ IF s.stop THEN Raises(disk) /\ UNCHANGED <<unseen, dropped>>
             ELSE /\ unseen' = unseen \ {n}
                  /\ dropped' = (dropped \ RulePatch(graph, R).link) \cup Forestalled(graph, R)
                  /\ disk' = Saved' /\ UNCHANGED crashes
                  /\ pc' = IF pending' # {} THEN pc ELSE IF pc = "plan" THEN "snap" ELSE "run"

\* Whoever reads a barrier that has all its names consumes it.
Consume(c) ==
  /\ pc = "run" /\ consumes < MaxConsumes /\ Kind[c] = "barrier" /\ chan.held[c] = Names[c]
  /\ chan' = Consumed(chan, {c})
  /\ consumes' = consumes + 1
  /\ UNCHANGED <<mode, graph, time, text, basis, replaced, unseen, dropped, fired, pending, pc, disk, saver, told, forks, crashes>>

-------------------------------------------------------------------------------
(* The history: snapshot, JsonlSaver and SqliteSaver                       *)

\* How a death may leave the line it cuts off: "torn" somewhere, "bare", all
\* there but for its end, or "split" inside a character of several bytes, as
\* names and texts are written as they are (ensure_ascii=False).
Tears == IF format = "jsonl" THEN {"torn", "bare", "split"} ELSE {"torn"}

\* Mutant: a torn line swallows all that is appended after it.
JsonlLineAfterGarbage(end) ==
  IF end = "whole" /\ lines # <<>> /\ lines[Len(lines)] # "whole" THEN "joined" ELSE end

\* The last line has no end, and what is appended next is joined to it.
Unended == lines # <<>> /\ lines[Len(lines)] \in {"torn", "bare"}

JsonlLine(end) ==
  IF ~Unended THEN end
  ELSE CASE end = "whole" -> "joined" [] end = "bare" -> "torn" [] OTHER -> end

\* A row is inserted by one statement: torn, it is not there.
SqliteRow(end) == end

\* What a checkpoint keeps of the store; its id is its place in the history.
Checkpoint == Saved

Put(cp, end) ==
  /\ history' = Append(history, cp)
  /\ lines' = Append(lines, IF format = "jsonl" THEN JsonlLine(end) ELSE SqliteRow(end))
  /\ known' = IF end = "whole" THEN known \cup {Len(history')} ELSE known
  /\ own' = IF end = "whole" THEN own \cup {Len(history')} ELSE own

Snapshot ==
  /\ pc = "snap" /\ pc' = "run"
  /\ Put(Checkpoint, "whole") /\ told' = <<>>
  /\ UNCHANGED <<mode, store, fired, pending, disk, forks, crashes, consumes>>

\* The lines that can be parsed; the others are passed over.
Parsed == {k \in DOMAIN lines : lines[k] = "whole" \/ (lines[k] = "bare" /\ k = Len(lines))}

\* The file is read as strict UTF-8, outside the try that passes lines over: one
\* line split inside a character, and no saver can be made of the file.
Openable == \A k \in DOMAIN lines : lines[k] # "split"

\* _read: what a new process finds in the history.
Readable == IF Openable THEN Parsed ELSE {}

\* get(None): ids grow with the clock, which no restart sets back.
Newest == {k \in Readable : \A j \in Readable : j <= k}

\* The process dies, perhaps in the middle of a snapshot.
Crash ==
  /\ pc # "dead" /\ crashes < MaxCrashes
  /\ pc' = "dead" /\ crashes' = crashes + 1
  /\ \/ pc = "snap" /\ \E end \in Tears : Put(Checkpoint, end)
     \/ UNCHANGED saver
  /\ UNCHANGED <<mode, store, fired, pending, disk, told, forks, consumes>>

HasOverwrite(g) == {n \in Done(g) : g[n].data # NoData
                                    /\ \E c \in DOMAIN WritesOf[n][g[n].data] : WritesOf[n][g[n].data][c].over}

Open(s, fromFile) ==
  /\ graph' = Reloaded(s.graph) /\ chan' = Restored(s.chan) /\ time' = s.time
  /\ text' = s.text \cup (IF fromFile THEN HasOverwrite(s.graph) ELSE {})
  /\ basis' = s.basis /\ replaced' = s.replaced /\ fired' = {}
  /\ unseen' = s.unseen /\ dropped' = s.dropped

\* A new process opens the history and continues from s: only what is in the
\* history's file is known, and the outcomes a fork still had to plan are not.
Restart(s) ==
  /\ pc = "dead" /\ crashes <= MaxCrashes /\ Openable
  /\ Open(s, TRUE)
  /\ pending' = {} /\ pc' = "run" /\ known' = Readable /\ own' = {}
  /\ UNCHANGED <<mode, disk, history, lines, past>>

\* GraphStore.load and continue_from.
Load == Restart(disk)

\* Where graph.json is gone, the run goes on from the newest checkpoint.
LoadLatest == \E k \in Newest : Restart(history[k])

\* What is read from the file is JSON.
FromFile(k) == [history[k] EXCEPT !.text = @ \cup HasOverwrite(history[k].graph)]

\* get(): a JsonlSaver still has what its own process put as it was.
Got(k) == IF k \in own /\ format = "jsonl" THEN history[k] ELSE FromFile(k)

-------------------------------------------------------------------------------
(* fork                                                                    *)

\* S has the nodes of U and everything that depends on a node of S.
ClosedAbove(g, U, S) ==
  U \subseteq S /\ \A n \in Present(g) : g[n].after \cap S # {} => n \in S

\* Everything that depends on a node of U, but for U itself: the nodes the
\* stack of the search comes to, the least such set.
Descendants(g, U) ==
  {n \in Present(g) \ U : \A S \in SUBSET Node : ClosedAbove(g, U, S) => n \in S}

\* Mutant: the nodes that the planner added are run again like the others.
UndoneAlike(g, U) ==
  [n \in Node |-> IF n \in Descendants(g, U) THEN [Absent EXCEPT !.st = "pending", !.after = g[n].after] ELSE g[n]]

\* Mutant: what is left keeps its dependencies on the nodes that are gone.
UndoneDangling(g, U) ==
  [n \in Node |->
     IF n \in Descendants(g, U) \ Plan THEN Absent
     ELSE IF n \in Descendants(g, U) THEN [Absent EXCEPT !.st = "pending", !.after = g[n].after]
     ELSE g[n]]

\* Plan nodes are pending again, nodes the planner added are removed, and
\* with them the dependencies on them.
Undone(g, U) ==
  LET gone == Descendants(g, U) \ Plan
  IN [n \in Node |->
        IF n \in gone THEN Absent
        ELSE [(IF n \in Descendants(g, U) THEN [Absent EXCEPT !.st = "pending"] ELSE g[n])
                EXCEPT !.after = g[n].after \ gone]]

Replaced(g, upd) ==
  [n \in Node |-> IF n \in DOMAIN upd
                    THEN [Recorded(g, n, upd[n].verdict, upd[n].data)[n] EXCEPT !.answer = "none"]
                    ELSE g[n]]

\* Mutant: the writes are replayed in the order of the ids.
InIdOrder(g, when) == SelectSeq(IdOrder, LAMBDA n : n \in Done(g))

\* sorted(... key=(finished_at, id))
InOrder(g, when) ==
  FlattenSeq([t \in 1..LastTime(when) |->
    SelectSeq(IdOrder, LAMBDA n : n \in Done(g) /\ when[n] = t)])

\* What channel c holds after each of the writers of done, one per step.
Replayed(g, txt, done, c) ==
  LET OneMore(seen, n) == Append(seen, Updated(c, Last(seen), GroupedFor(c, Made(g, txt, {n}))))
  IN FoldLeft(OneMore, <<Fresh(c)>>, done)

Writers(g, when, txt) == SelectSeq(InOrder(g, when), LAMBDA n : DOMAIN WritesIn(g, txt, n) # {})

\* _rebuild_channels: the writes of the finished nodes, one node per step.
Rebuilt(g, when, txt) ==
  LET done == Writers(g, when, txt)
      replayed == [c \in Channel |-> Replayed(g, txt, done, c)]
      steps(c) == {i \in DOMAIN done :
                     Reported(c, replayed[c][i], GroupedFor(c, Made(g, txt, {done[i]})))}
  IN [step |-> Len(done),
      held |-> [c \in Channel |-> Last(replayed[c])],
      version |-> [c \in Channel |-> Max(steps(c) \cup {0})]]

\* No fork of a state in which a replaced node is unknown, or whose writes
\* cannot be replayed: the fork raises and nothing changes.
Forkable(s, upd) ==
  /\ DOMAIN upd \subseteq Present(s.graph)
  /\ LET g == Replaced(Undone(s.graph, DOMAIN upd), upd)
     IN \A n \in Done(g) : ~Conflicts(Made(g, s.text, {n}))

\* The new store takes the place of the old one, which is left as it is.
ForkOf(s, upd) ==
  LET g == Replaced(Undone(s.graph, DOMAIN upd), upd)
      txt == (s.text \cap Done(g)) \ DOMAIN upd
      when == Later([n \in Node |-> IF n \in Done(g) THEN s.time[n] ELSE 0], DOMAIN upd)
  IN /\ Forkable(s, upd)
     /\ graph' = g /\ time' = when /\ text' = txt
     /\ chan' = Rebuilt(g, when, txt)
     /\ basis' = s.basis /\ replaced' = (s.replaced \cap Done(g)) \cup DOMAIN upd
     /\ unseen' = (s.unseen \cap Done(g)) \cup DOMAIN upd /\ dropped' = s.dropped

Fork(upd) ==
  /\ pc = "run" /\ forks < MaxForks
  /\ \/ ForkOf(Saved, upd)
     \/ \E k \in known : ForkOf(Got(k), upd)
  /\ fired' = {} /\ pc' = "ask"
  /\ pending' = DOMAIN upd
  /\ disk' = Saved' /\ Put(Checkpoint', "whole")
  /\ forks' = forks + 1 /\ told' = <<>>
  /\ UNCHANGED <<mode, crashes, consumes>>

Next ==
  \/ \E R \in StepSets : Step(R)
  \/ \E c \in Channel : Consume(c)
  \/ Ask \/ Snapshot \/ Crash \/ Load \/ LoadLatest
  \/ \E upd \in Updates : Fork(upd)

Spec == Init /\ [][Next]_vars
-------------------------------------------------------------------------------
(* Properties                                                              *)

\* Nothing stale is left behind a fork: every result that no fork supplied
\* rests on the results its dependencies have now, the ones it read when it
\* ran, and every bypassed node on a dependency that still fails it; the
\* graph has no cycle and no dangling dependency.
NothingStale ==
  /\ WellFormed(graph)
  /\ \A n \in Done(graph) \ replaced :
       IF graph[n].verdict = "bypassed"
         THEN n \notin Settled /\ graph[n].after \cap Unresolved(graph) # {}
         ELSE basis[n] = [d \in graph[n].after |-> ResultOf(graph, d)]

Over == pc = "run" /\ Claimable(graph) = {}

\* The rules whose follow-ups wait for the watched node and nothing else, and
\* that link nothing but nodes of the plan and their own follow-ups.
OwnFollowUps ==
  {r \in Rules : /\ \A n \in r.add : /\ Deps[n] = {r.watch}
                                     /\ \A q \in Rules : \A l \in q.link : l[2] # n
                 /\ \A l \in r.link : l[1] \in r.add \cup Plan}

\* However often a run is forked, from wherever, and taken up again, its
\* follow-ups are those its results call for.  When nothing is left to run, the
\* follow-up of every rule that applies is there and the nodes of the plan that
\* it is linked to, and that wait for the watched node, wait for it too (unless
\* they had been bypassed or replaced when the rule fired): always in a run
\* forked once and never interrupted, and else for every result that a planner
\* was asked about.  And a node that the planner added is there only while a
\* rule that adds it applies, for nodes that wait for what their rules watch.
FollowUpsMatchResults ==
  Over =>
    /\ \A r \in OwnFollowUps :
         Triggered(graph, r) /\ ((crashes = 0 /\ forks <= 1) \/ r.watch \notin unseen) =>
           /\ r.add \subseteq Present(graph)
           /\ \A l \in r.link \ dropped :
                l[2] \in Plan /\ r.watch \in Deps[l[2]] => l[1] \in graph[l[2]].after
    /\ \A n \in Present(graph) \ (Plan \cup replaced) :
         (\A r \in Rules : n \in r.add => r.watch \in Deps[n]) =>
           \E r \in Rules : n \in r.add /\ Triggered(graph, r)

\* A fork's channels hold what the run's own would: between steps the live
\* channels are what a replay of the finished nodes' writes makes, for the
\* kinds that keep what they are told, as long as no Overwrite was read from a
\* file and no step of supersteps was cut short.  (Ephemeral values and consumed barriers are there again after a fork.)
ReplayMakesTheSame ==
  pc # "dead" /\ (superstep => crashes = 0) =>
    \A c \in Channel :
      /\ Kind[c] \in {"last_value", "topic", "reducer"}
      /\ \A n \in text : c \in DOMAIN WritesOf[n][graph[n].data] => ~WritesOf[n][graph[n].data][c].over
      => chan.held[c] = Last(Replayed(graph, text, Writers(graph, time, text), c))

\* A reader that remembers versions misses nothing: whenever what get()
\* returns changes, the channel carries the version of that step, values that
\* vanish (an Ephemeral, a Topic of the latest step, a consumed barrier)
\* included.  (ChannelState: "every channel that changed gets the same new
\* version number".)
ChangesAreVersioned ==
  [][pc = "run" /\ pc' \in {"run", "plan"} =>
       \A c \in Channel : Seen(c, chan'.held[c]) # Seen(c, chan.held[c]) =>
         chan'.version[c] = chan'.step]_vars

\* What a step's writers told a channel is in it or the step is an error: a
\* single-value channel holds the value of its one writer, a topic one entry
\* per writer at its end, a barrier its writers' names.
NoSilentOverwrite ==
  [][pc = "run" /\ pc' = "plan" =>
       \A n \in DOMAIN told' : \A c \in DOMAIN told'[n] :
         LET v == told'[n][c].value
         IN CASE Kind[c] \in {"last_value", "ephemeral"} -> chan'.held[c] = <<v>>
              [] Kind[c] = "barrier" -> v \in chan'.held[c]
              [] Kind[c] = "reducer" -> TRUE
              [] OTHER -> LET end == Len(chan'.held[c]) - Cardinality({m \in DOMAIN told' : c \in DOMAIN told'[m]})
                          IN end >= 0 /\ \E i \in DOMAIN chan'.held[c] : i > end /\ chan'.held[c][i] = v]_vars

\* A reader of a channel learns of every write: none is lost at the channel
\* and none goes unannounced.
ReadersMissNothing == ChangesAreVersioned /\ NoSilentOverwrite

\* A process that can open the history finds every checkpoint ever put but for
\* the one a crash cut off and, in a file of lines, the one appended behind it,
\* whichever of the two the crash or the append makes unreadable.  (A file with a
\* line split inside a character cannot be opened: then all of it is lost.)
HistoryLosesFew ==
  Openable => Cardinality(DOMAIN lines \ Readable) <= (IF format = "jsonl" THEN 2 ELSE 1) * crashes

===============================================================================
