# agentkit: specification, model checking and proofs

agentkit runs a *task* (a question about a design-review platform) as a graph of
tool calls, records everything it did in a *run folder*, and grades that folder.
This directory holds TLA+ models of the parts of it where order, failure or
concurrency decide whether a run is correct, the TLC configurations that check
them on small instances, and theorems proved with TLAPS for every instance.

## 1. The system

| Part | State it keeps | Operations | Talks to |
|---|---|---|---|
| Task graph store (`agentkit/graph/engine.py`, `GraphStore`) | nodes with dependencies, result, start and pause marks; channels; last checkpoint | `apply`, `claim_ready`, `record`, `apply_step`, `pause`, `resume`, `fork`, `snapshot`, `checkpoint`, `load` | executors, planner, `graph.json` |
| Executor and pool (`LiveGraphExecutor`) | futures in flight, step counter | `run`, `continue_from`, eager loop, superstep loop, `_execute` per node | store, planner, actions |
| Rule planner (`rule_planner.py`) | names of the rules that fired | `on_outcome` | store (reads), executor (patch) |
| Channels (`channels.py`) | value and version per channel | `apply`, `consume`, `finish`, save and restore | store |
| Checkpoint history (`checkpoint.py`, `sqlite_saver.py`) | list of checkpoints | `put`, `get`, `list` | store, resume, fork |
| Run lifecycle (`harness/run_one.py`, `record/run_record.py`) | `taskrun.json`, `graph.json`, journal | `run_task`, `resume_task` | executor, service, batch |
| Seat RPC client (`transport/seat_rpc.py`, `wire.py`) | session token | `ensure_token`, `renew`, post with one resend, retry of reads | external platform |
| Tool journal (`transport/journal.py`) | sequence number, lines | `invoke_tool` | seat client |
| LLM gateway (`llm/gateway.py`, `economics.py`) | per-key rate windows, cool-downs, cache, ledger | `call`: rows of a tier, keys of a row, attempts of a key | providers |
| Answering (`answer/narrator.py`) | none of its own | `compose_answer`: cascade of tiers, audit, rewrite, template | gateway |
| Run service (`service/core.py`, `http.py`, `mcp.py`) | run slots, in-flight count, frozen clock | questions, streams, JSON-RPC messages | run lifecycle |
| Webhooks (`service/hooks.py`) | remembered deliveries | `HookGate.question` | run service |
| Routing (`agents/router.py`, `llm_planner.py`, the pack's `router.py` and plans) | none of its own | question to plan and file | platform reads |
| Batch runner, replay, clean-up (`harness/batch.py`, `replay.py`, `cleanup.py`) | manifest, run folders, ground truth | batch loop, control replay, replay faults | run lifecycle, platform |
| Grading and self-test (`harness/checks.py`, `grade.py`, `goldens.py`, `mutants.py`) | none: functions of a run folder | `check_run`, `overall_status`, `calibrate` | the pack's checks |
| Design-review pack (`packs/designreview`) | none of its own; escalations on the platform | actions, `raise_handoffs`, `build_finding`, checks | executor, seat client |
| Simulator (`sim/sim_platform.py`) | a fixture's rows, armed faults | edits, failing and truncated reads | harness |

Retrieval, telemetry, viewer, finding memory, the transport's catalogue, scripts
and the older `core/` engine are listed in `PROJECT.json` with the reason they are
not modelled.

### What is hard here

* **Threads.** Actions run in a pool while one scheduler thread changes the
  graph; several futures can be done when `wait` returns, and the planner's
  patch for the first changes the graph the others are recorded in.
* **Crashes.** `graph.json` is replaced atomically after most changes, not after
  all: a bypass alone is not saved, and the planner is asked *after* the outcome
  is saved.
* **Writes.** A write action must not run in a dry run, not without a person's
  yes when that is asked for, and not twice because a retry policy says so.
* **People.** A paused node can be answered much later, by another process.
* **Other people's platform.** Other teams edit it while a run reads it, replies
  are lost, lists come back in part, and a grader looks at it twice: a moved
  value is not a wrong one, and what was filed must be taken back.
* **Two readings.** Agent and verifiers read the same data by their own code; a
  third piece of code breaks runs to see whether the verifiers notice.
* **Growth.** Rules add nodes and edges while the graph runs; the join they link
  to must not start first, and the budget and acyclicity must survive.

## 2. Modules

| Module | Models | State and actions |
|---|---|---|
| `GraphStore` | `TaskSpec`, `GraphPatch`, and the methods of `GraphStore` that change nodes | no variables: every method body runs under the store's lock, so each is a function from a graph to a graph (`Valid`/`Applied` = `apply`, `Blocked`/`Claimable`/`Claimed` = `claim_ready`, `Recorded`, `PausedAt`, `Answered`, `Reloaded` = `from_dict`) |
| `NodeWorker` | `_execute`, `_call`, `_approval`, `_preview`, `interrupt`, retry policies | `worker[n]` is a future and its thread: `Pick`, `Return`, `Interrupt`, `Flake`, `Retry`, `Fail`; `calls` counts how often the action's function was called |
| `RulePlanner` | `RulePlanner.on_outcome` | `Firing` are the rules an outcome fires, `RulePatch` the patch they make; the caller keeps `fired` |
| `EagerExecutor` | `run`, `continue_from`, `_run_eager`, `_plan`, load, `resume_task`'s answers | `pc` is where the scheduler thread is; `StartRun`, `Claim`, `Wait`, `Handle`, `Consult`, `Finish`, `Exit`, `Crash`, `Load`, `Answer`, `Continue` |
| `Channels` | every channel kind and `ChannelState.apply` / `consume` | no variables: a channel state is a record of contents, versions and the step counter |
| `SuperstepExecutor` | the same entry points with `mode="superstep"`: `_run_supersteps`, `apply_step`, step limit | composes `GraphStore`, `NodeWorker`, `RulePlanner`, `Channels`; `Claim`, `Exceed`, `Wait`, `Record`, `ApplyStep`, `Consult`, `EndStep`, and the crash, load and answer actions |
| `DurableGraph` | what `graph.json` promises its readers | abstract: nodes, dependencies and verdicts, `Grow` and `Finish`; both executors implement it |
| `SeatSession` | `SeatSession`, `SeatRpcClient._post_envelope` and `_post_once`, `UrllibWire.send` | `call[c]` is one thread's tool call: `StartCall`, `FirstLock`, `Renew`, `KeepToken`, `Login`, `LoginFails`, `Headers`, `Reject`, `GetReply`, `NoReply`, `Garbled`; the platform, external, is `Expire` and `Processed` |
| `RunFolder` | `run_task`, `resume_task`, `_conclude`, `TaskRun.open_in` and `finish`, `JournaledSeatClient.invoke_tool`, `JsonlAppender` | the files `record`, `file` (`graph.json`) and `lines` (the journal) and the one command that works on them: `Open`, `Resume`, `Answer`, `Reopen`, `Start`, `Fail`, `Pause`, `Conclude`, `Done`, `Exit`, `Crash`; of the graph only `Claim`, `Number`, `Send`, `Journal`, `Abandon`, `Late`, `Finish` |
| `ForkRun` | `fork`, `_rebuild_channels`, `snapshot`, `JsonlSaver`, `SqliteSaver`, every channel kind in a running graph | a node ends in one `Step`; then `Ask` shows the planner its outcomes one by one; `Consume`, `Snapshot`, `Crash`, `Load`, `LoadLatest`, `Fork`; `lines` is the history as a file |
| `HookGate` | the memory of `HookGate` | no variables: the methods run under the gate's lock |
| `RunService` | `AgentService.slot` and `run`, the handlers of `http.py`, `hooks.py` and `mcp.py`, `clock.py` | `pc[r]` is one handler thread: `Check`, `CheckMessage`, `Verify`, `Look`, `Duplicate`, `FirstDelivery`, `FillQuestion`, `Acquire`, `Busy`, `Count`, `Enter`, `NeverEnters`, `Thaw`, `Uncount`, `Release` |
| `LLMGateway` | `_call_detailed`, `_try_key`, `RateState`, `ResponseCache`, `CostLedger` | one call's place in its tier, row and key: `OpenRow`, `SkipKey`, `TakeKey`, `Send`, `Reply`, `Refusal`, `Retry`, `KeyFault`, `RowFault` |
| `AnswerCascade` | `compose_answer` | `Compose`, `Ask`, `OverBudget`, `NextTier`, `CutOff`, `Passes`, `Fails` over `LLMGateway` |
| `DesignReview`, `Reviews` | `build_finding`, the template, what an answer says, `standards_query`; the task's validation | no variables: functions of the nodes' results |
| `Verifiers`, `Reviews` | the built-in checks and the pack's, goldens, `overall_status`, `score_batch` | no variables: functions of one run folder |
| `SelfTest` | `harness/mutants.py` and the pack's `mutants.py` | no variables: the mutants that apply to a passing run |
| `Routing` | plan files, rule router, the pack's `resolve_design_file`, the LLM planner's catalogue | no variables |
| `WriteBatch` | `run_batch` for a task that files hand-offs, `raise_handoffs`, clean-up, `cleanup.py` | probes one by one, the agent's reads and filings, `Cleanup...`, `Sweep`; other teams `Move` and `Reply`; kills and lost replies |
| `Calibration` | one dry run of a task, its routing, nodes and grade; control replays and replay faults | `ObserveBefore`, `RouteByRules`, `RouteByLlm`, `ListFiles`, `ListCut`, `ReadNotes`, `NotesCut`, `NotesUnreadable`, `ReadNode`, `CutShort`, `Flaky`, `Compute`, `Bypass`, `Conclude`, `ObserveAfter`, `Move`, `Control`, `Fault` |
| `MC...` | small instances | constants for TLC |
| `GraphStoreProofs`, `EagerProofs`, `SuperstepProofs`, `PlatformProofs`, `RunFolderProofs`, `ServiceProofs`, `AgentProofs`, `ForkProofs` | lemmas and theorems | |

`EagerExecutor` has the threads, `ForkRun` the forks, `Calibration` the content of
a run. The three agree on the store's operations: `EagerExecutor` and `ForkRun` by
extending `GraphStore` and `RulePlanner`; `Calibration` evaluates the graph a plan
and its rules give, because only the results matter there. `WriteBatch` and
`Calibration` share `Verifiers`, so a check has one definition.

`EagerExecutor` is the executor of runs that declare no channel, which is how
every plan of the repository's pack runs; channels are modelled in
superstep mode, where their order matters.

A node is `absent`, `pending`, `running`, `paused` or `done`, exactly the values
of the property `TaskSpec.state` and "not a key of `specs`". A result keeps its
verdict and only as much of its data as the rules tell apart. The bypass loop of
`claim_ready`, which runs until nothing changes, is the least closed set of
pending nodes, so the order in which the dictionary is scanned does not matter.

## 3. Runs

`engine_eager` (`MCEagerExecutor.cfg`). Plan: a gate and a read feed a write that
files the finding; the answer is a partial join of the gate and the write. A
blocked gate makes a rule add a follow-up and link it into the answer; a failed
follow-up asks for one node more than the budget; a refused read asks for a
cycle. Flaky and failing actions, an action that asks a person, a write with a
preview, both values of `dry_run` and `approve_writes`, two workers, two tries
and one crash: large enough that a bypass, a partial join, a pause, a retry, a
planner error and a crash meet in one behaviour; six nodes and one crash keep it
at about 112,000 states. `MaxCrashes` bounds only `Crash`; loading is not
bounded by it.

`GraphsSound`: memory and `graph.json` hold a valid graph whose starts and verdicts have
their reasons. `NothingStranded`: a run that returns leaves only nodes that wait, through
their dependencies, for a person. `FollowUpsJoined`: the planner's link reaches the join
before the join starts. `DoneIsDurable`: what is finished in `graph.json` stays as it is.
The run also checks `CallsAreSafe` (a call is of a node
that `graph.json` shows as claimed, under the consent it needs, and a write is
called at most once in the life of a process) and, under `FairSpec`, `EveryNodeEnds`:
in a run that nothing kills every node gets its verdict. The fairness is what the
code has: the scheduler thread runs; a pool thread runs its node and every attempt
ends, because the transport sets a timeout on each call; the person answers (the
code cannot promise that, and the property says what follows when they do).
Nothing restarts a dead process, so a planner error may end the run for good: the
property says so.

`engine_crash` (`MCEagerCrash.cfg`). Expected to fail: the documents say a
crashed run continues from `graph.json`. TLC finds the behaviour in which the
process dies after the outcome of the gate is saved and before the planner is
asked: the loaded run returns without the follow-up.

`forks` (`MCForkRun.cfg`). Two nodes that may end in one step, one that waits for
both, a follow-up of the first that it waits for too; the second may decline, so that
a fork can bring a bypassed node back; together they write one channel of each kind
(single-value, ephemeral, topic, latest topic, reducer, barrier), one of them with
an `Overwrite`. One fork, one death and one `consume`, in superstep mode with a
JSONL history and in eager mode with a SQLite one; the other two pairs of mode and
format also pass and are left out to keep the run short. `NothingStale`:
after a fork no result rests on what was replaced. `FollowUpsMatchResults`: the
planner's nodes are those the final results ask for. Two history variables say which
results no planner was asked about (`unseen`: a process died before, or a fork was
forked, because `pending_outcomes` are not saved) and which links a rule had to give up
(`dropped`: the node was bypassed or replaced when the rule fired). The property demands
that a run forked at most once and never interrupted ends with nothing unseen. `ReplayMakesTheSame`: the channels a fork
rebuilds are the ones the run had, an `Overwrite` that has become text aside.
`HistoryLosesFew`: as long as the history can be opened, a death costs at most the
checkpoint it cut off and, in a file of lines, the one appended behind it. A line can be
cut off anywhere (`Tears`): before its end ("torn"; the next line joins it), just before
the line end ("bare"; whole until the next line joins it), or inside a character
("split"; the file is no UTF-8 any more and `Openable` is false).
`ReadersMissNothing`: whatever a reader of a channel sees change carries a new
version, and a second writer of a single-value channel never wins in silence.

`engine_superstep` (`MCSuperstep.cfg`). Two reads of one step feed a partial join
that files the finding; each read's outcome can make a rule add a follow-up. Both
follow-ups write the single-value channel, so a step can end in a conflict, and a
declined read asks for more than the budget has left once the first rule has fired:
the planner then raises in the middle of a step. `TimingIsInvisible` compares every
step with `StepOf`, which computes it from the outcomes alone, in one go;
`OneSnapshot` says that whenever an action is called the store and the channels are
those of the step's start. `MaxSteps = 3` makes the step
limit reachable and `MaxCrashes = 1` bounds both `Crash` and `Load`.
`KeepsItsPromise` is the refinement of `DurableGraph`, `RunEnds` the end of every run
under the fairness of `engine_eager`.

`seat_session` (`MCSeatSession.cfg`). A reading and a writing thread share one
login, with and without a password, with and without a token to begin with. The
platform may stop accepting any token at any time; any request or reply may be
lost; a login may fail. `MaxTokens = 3` lets a token be replaced twice, which is
what a third party to a renewal needs; `ReadAttempts = 2` is the least that tells
a read from a write. Fairness: each thread runs, and its requests end because the
wire sets a timeout. No fairness is asked of the lock: a caller that waits is
served because the other caller's call ends.

`run_folder` (`MCRunFolder.cfg`). Two writes that a person must allow, answered
together or one after the other, so a run can pause and be resumed twice; a read with
a timeout before one of them, whose abandoned attempt may write its journal line at
any later moment of the process; a write behind the other that asks nobody. Every
stage may fail, and the command is killed at most twice anywhere (`MaxCrashes = 2`):
a kill while a paused run exits or is being answered leaves it paused, and the next
resume can be killed again. Three files are changed one after the other here; the
properties say what a reader may conclude from the record: `JournalIsSound` relates
it to the journal (unique numbers; every call sent is there unless the command was
killed), `FinalIsFinal` to the graph.

`run_folder_paused` (`MCRunFolderPaused.cfg`). Expected to fail: the documents say
a paused run continues in the same folder. `resume_task` saves the answers in
`graph.json` before the record; TLC kills it in between. The record is "paused",
no node is, and the command line refuses to resume with or without an answer.

`service` (`MCRunService.cfg`). A webhook delivery sent twice, another one with a bad
body, and a question over HTTP or as a JSON-RPC message; two slots, a memory of one
delivery, a skew of one tick and a clock up to 3, so the second copy can come while
the first is remembered, after it was pushed out, and at the edge of the window.
`NeverOverLimit`: never more runs than slots, each slot in use belongs to one request,
and no more runs are counted as in flight than slots are in use. `SlotsComeBack`: every
slot comes back for good (fairness: handler threads run and a run ends).
`OneRunPerDelivery` names the two ways a copy may get through: pushed out of a full
memory, or stale between the looks at the clock. `FrozenByRunsInside`: the
process-wide clock is frozen by exactly the runs inside, in any order of leaving.

`answer_cascade` (`MCAnswerCascade.cfg`). A cheap tier with a row of two keys and a
good tier with three rows, one without a key; one call per window and key, a window
of 2, two attempts, cool-downs of 1, a run of at most 2 ticks, a cache of two
replies, a cost limit of 2 and two answers: keys get limited, spent and cooled in
both tiers, and the cost limit is passed in the middle of a cascade (about 1.97
million states, the longest run). `WindowBounded`: a key's calls within a window exceed
its limit by the attempts of one call at most. `FailedMeansAllTried`: a tier fails only
when every key of every row is ruled out. `SpendingBounded`: the limit is looked at
before a call, so what is paid exceeds it by less than one reply per row with a key.
`SpentKeysRest`: a key whose budget is spent gets no further call. `AlwaysAnswered`:
every question gets an answer, from the template if need be. Fairness: the calling
thread goes on and every HTTP call has a timeout.

`write_batch` (`MCWriteBatch.cfg`). A hand-off task run twice, in a dry, a writing and
a writing-and-keeping batch, on a file with a blocker of one team and an item of two;
one move of the data, one reply of an assignee, one fault (a lost reply, a failing
look-up, a kill of the harness or of the agent). `PassedRunsLeaveNothing`: a run that
passes has recorded what it filed, and nothing is open after a clean-up that says
done. `FiledOnce`: two escalations of one subject are open only if more of what the
platform lists for it, closed ones included, was there than fits on the one page that
`open_escalations_with_subject` asks for. `Page = 2` stands for the code's 50
(`handoffs.py:194`) and `Filtered = FALSE` for a platform that does not heed the subject,
so that other subjects' rows and withdrawn ones fill the page within two repeats; with
`Page = 2` the second filing happens, too, once three are listed.
`MovedDataIsNotBlamed`: items that changed once are drift and not a failure.
`PassingTasksRanInFull`: a task that passes was run every time it was due.

`cleanup_leak` (`MCWriteBatchCut.cfg`, with a page that shows everything). Expected to fail: when the platform returns
the feedback only in part, the node files what it sees, the finding declines the
section without its escalations, and clean-up, which reads them there, reports
"done" while they stay open.

`calibration` (`MCCalibration.cfg`). 52 cases: the tasks of the pack in small
(comparison of named or newest revisions, release and hand-offs, a missing file, an
absent tool, a declined route, routed questions with two candidate files, questions
for the LLM planner) on a few platforms each; one retry, one edit by another team,
at most two of edits and failing or truncated reads. Every order of the nodes, every
answer the audit may meet, then every replay. `HonestRunsPass`: on a quiet platform
an audited run is passed by every check, and its control replay passes again. `CalibrationIsOk`: every mutant of a passing
run is caught by the check it is aimed at, and no check is left that nobody has shown
can fail. `NothingToBreak` names the checks that no mutant applies to; one of them is
`unexpected_state_change` where a task's checks observe nothing (`StateChanged`), as for
declined and for LLM-planned routed tasks. `MovedDataIsDrift`: an edit of the task's file during the run is drift. `ReplaysAreJudgedRight`:
a run replayed with its own result has the same finding again, in whatever order the
nodes settle, and one replayed with a wrong result fails the check aimed at. `NeverAGuess`: a routed run is about the file
that fits best among those the router could read in full. The router's reads may fail
(`ListFails`, `NotesUnreadable`) or come back cut (`ListCut`, `NotesCut`), which nothing
looks at; `narrowing.dark` has the files such a read leaves in the dark, every file
behind a cut list and otherwise the one whose notes were asked for. A failing read may
cost a file its place and not change the order of the others. `PlansOnlyRead`: a plan of the LLM's choice, rules included, only
reads. No fairness: nothing here is about termination.

Deadlock checking is off where the system stops: a run that has returned with nothing
paused, or a dead process nobody restarts, is at its end. It is on in `calibration`
only, whose end is a step of its own (`Done`).

## 4. Proofs

`GraphStoreProofs` proves about each operation of the store that it returns a
graph, keeps it acyclic, closed and within its budget (`WellFormed`) and keeps
every start and verdict justified (`Justified`). Two lemmas carry most of it: the
bypassed set is closed under the loop (`BlockedClosed`), and a node is in it only
for a reason (`BlockedHasReason`, which is where *least* is used).

`EagerProofs` proves eleven properties for every set of nodes, every plan, every rule
set, every number of workers, tries and crashes, from the assumptions on the constants
stated in the modules. None is inductive alone. The inductive invariant `IInv` adds to
`TypeOK` and the two graph invariants

* `Synced`: a node is running exactly when it has a future, and `graph.json`
  differs from memory only by bypasses not yet saved or, right after a load, by
  nodes that were mid-flight;
* `Futures`: the batch holds only finished futures, none carries a bypass, a
  write never waits for a second attempt;
* `Quiet`: when the loop is left nothing is in flight and every pending node has
  an unfinished dependency or an answer;
* `OneCall`: as long as a write can still be called in this life, it was called
  at most once for every earlier life.

`NothingStranded` then follows from acyclicity: a set of pending nodes that wait
only for each other would have a member that waits for nothing. The refinement
of `DurableGraph` (`KeepsItsPromise`) is proved step by step with the same invariant.
`FollowUpsJoined` needs one more, `Joined`: the scheduler asks the planner about one
outcome at a time, and as long as that outcome has not been shown, no dependent of its
node is past its claim; so the link finds the join still pending, or bypassed. What a
rule asks for is `Landed` in the graph then, and no operation of the store takes it
back. The theorem is about processes that do not die: `engine_crash` shows that a crash
breaks it.

`SuperstepProofs` proves for superstep mode the type invariant, `OneSnapshot` and
`KeepsItsPromise`. The invariant `SInv` has, besides the graph invariants in memory and
on disk and the types of the channels and their saved copy, `Synced` as above; `Pool`:
the futures are those of the step's nodes, and all have ended when the step's outcomes
are recorded; and `Snapshot`: while the step's actions run, the store is what claiming
made of the store it started from, and the channels have not changed. The channels are
kept abstract there: what a step writes is used only through its type.

`PlatformProofs` is about the two modules of what talks to the platform. Of `WriteBatch`
it proves the four safety properties, for any items, owners, hand-off lists, repetitions
and any number of other teams' edits and answers, lost replies and deaths:

* `OnceInv` (`FiledOnce`): whoever the write node is about to file for has no open
  escalation, as it looked and only it files, or there is more than a page to look at
  (`Overfull`), which stays so because nothing is ever taken off the list;
* `Files`, `WhoseInv` and `ScoreInv` (`PassedRunsLeaveNothing`,
  `PassingTasksRanInFull`): which ground truth there is in each phase; the escalations
  of a run are in none of the files from before it wrote and in the whole list after it,
  if that could be read, so a run that passes has all of them in its record
  (`PassMeans`); while it cleans up, what is not among its targets any more is closed or
  the report says error; and what the manifest says of a passed run stays true, because
  closed escalations stay closed;
* `TimeInv` (`MovedDataIsNotBlamed`): if the items changed at most once, there is a state
  S at most one item away from the present one, such that the change came during the
  first probes, during the run, or during the last probes, and everything read so far is
  from S or from the present state accordingly. What the agent found may mix a gate of
  one state and a list of the other; because they are one item apart, what it proposes is
  that of one of the two (`OneOfThem`), and the checks accept both, the count of critical
  items included (`Judged`). The theorem assumes that what stands for a failed read is
  no verdict and no hand-off list (`UnreadAssumption`).

Of `SeatSession` it proves the type invariant with the mutual exclusion of logins,
`OneLoginPerToken` and `WritesAppliedOnce` for any number of callers and tokens.
The invariant adds that the present token is the newest issued and every replaced
one is older, that whoever is inside the lock came for the token that is still
there (which is the second look at the token that both `ensure_token` and `renew`
take), and that a write whose call has not ended was not processed (which is the
single attempt of `UrllibWire.send`).

`RunFolderProofs` proves the type invariant, `JournalNumbersUnique`,
`CallsAreJournalled`, `SentOnceAfterYes` and `FinalIsFinal` for every acyclic plan and
any number of kills and resumes. The inductive invariant has

* `Life`: which values of the record go with which stage of a command, and that
  `graph.json` is what the command has in memory, with no running node in it when
  the record says "paused";
* `Threads`: threads live only while the graph runs, a thread before its
  outcome belongs to a running node, and abandoned attempts die with the process;
* `Numbers`: numbers held by threads and abandoned attempts are below the next
  one and different from each other and from the journal's. The journal has a
  largest number (stated as an invariant, because a line is only ever appended:
  this is what makes `max` in `resume_task` defined without induction);
* `Calls`: a call that was sent is in the journal or its thread is about to write
  it, unless the command was killed, which the record shows;
* `Unsent`: a node that is on its way to its call has not called in an earlier life.

`FinalIsFinal` adds `Complete` (a run that concludes has finished every node): when
nothing is ready, running or paused, a node that is not done would be in a set of nodes
that all wait for one another. That is the only use of the assumption that a plan has
no cycle, which `GraphStore.apply` enforces (`engine.py:298`).

`ServiceProofs` proves the three safety invariants of `RunService` for any number of
requests, slots, deliveries and any size of the gate's memory, each with an inductive
invariant of its own:

* `SlotsInv` (`NeverOverLimit`): which counters a thread holds at each place, with the
  cardinalities of the holders and of the counted;
* `GateInv` (`OneRunPerDelivery`): what the gate remembers stands for a delivery that
  was let through, and one that was let through is remembered, was pushed out, or has
  become too old to be accepted. A copy can then pass only in the two ways the property
  names;
* `FrozenInv` (`FrozenByRunsInside`): the clock's list has every instant as often as
  runs with that instant are inside. Leaving takes *the first* equal entry out, so the
  proof goes through the positions of a value in a list and the bijection between those
  before and after an entry is taken out (`AtWithout`).

`LeastNat` (every non-empty set of naturals has a least element, from the library's
well-founded order) stands in for induction: a statement about all numbers is proved
by taking the least counterexample.

`AgentProofs` proves, for any tiers, rows, keys and limits, the four safety properties
of `answer_cascade`:

* `WalkInv` (`FailedMeansAllTried`): where a call is in its tier; every row before its
  place is ruled out, and every key of its row that it does not have ahead of it;
* `RateInv` (`WindowBounded`, `SpentKeysRest`): a key's recorded calls are in order; a
  key in use was below its limit when it was taken and has had at most one call for each
  attempt since; a spent key cools down beyond the end of the run, so it is never the
  one in use;
* `SpendInv` (`SpendingBounded`): in the middle of a call the ledger is below the limit
  plus the rows with a key that are behind it.

`WindowIsExact` justifies the model: `Recent` takes the recorded calls from a position
on, the code filters the list by time, and the order of the list makes the two equal.

It also proves four of the six properties of `calibration`, for any tasks, platforms, notes, edits
and orders in which the nodes settle. All rest on `Candidates` (what is narrowed, kept or
chosen is a file of the platform, and every record has its fields):

* `PlannedInv` (`PlansOnlyRead`): the route of the LLM planner is what it chose from the
  catalogue. The catalogue is closed under dependencies, has only readers
  (`CatalogueReads`) and keeps of the rules only those that add such nodes; the choice is
  the least closed set around the reply (`ChosenIsClosed`), so what a rule adds later
  reads, too, and waits for nodes that are there.
* `SearchInv` (`NeverAGuess`): unless the list of files was cut, only the best matches
  become candidates (`Best`). Of those no longer to be read, the kept ones have notes that
  name the revisions asked about (`Confirmed`), since a part of the notes can name them
  only if the whole does (`NamesInPart`), and those whose notes were read in full are kept
  if they do. So a file that was not in the dark and fits as well as the chosen one would
  have been kept beside it (`WellAimed`). Behind a cut list every file is in the dark.
* `Looks`, `Reading` (`MovedDataIsDrift`): the two observations differ by one edit, and
  every node has read the platform as one of them shows it. The compared versions are then
  a pair of one of the two histories (`PairIsThere`), the finding is that pair's
  (`DeltaOfRows`), the answer is the finding's (`AnswerFields`), and a check that finds
  its expectation moved says "drift" before it says "fail" (`JudgedAsDrift`).

* `PlanInv`, `SameInv` (`ControlFindsTheSame`, half of `ReplaysAreJudgedRight`): in every
  plan of the pack, and in every choice of the LLM planner's, each node and each node a
  rule adds comes after all that it waits for *and* after all whose results its action
  takes (`OrderedPlan`, with the position of each id as its `Rank`). Results are `Lawful`
  if each is what its node makes of the others. Two lawful sets of results with nothing
  left to run are the same (`OneEnd`: a node of least rank on which they differ would
  have the same inputs in both), so a faultless run ends in one way whatever its order.
  What a fork keeps is lawful, because what it undoes is closed under what waits for it
  (`ForkIsLawful`); the replay then settles to the results of the run it continues.
* `FaultInv` (`ReplayFaultsAreCaught`, the other half): a run that passed saw the gate,
  the schedule and the newest note as the verifier did (`PassedGate`, `PassedSchedule`,
  `PassedRevisions`), so what a fault puts in their place is wrong by the ground truth
  too. The replaced result stays to the end, the finding and the answer carry it
  (`AlteredIsCompared`), and the check aimed at sees a contradiction that is no drift
  (`GateIsCaught`, `ScheduleIsCaught`, `RevisionsAreCaught`). A history is only added to
  (`HistoryRead`): that makes the newest note read the newest one compared.

Two premises come from attempts to prove these. `before.file = "there"` in
`MovedDataIsDrift`: on a file that does not exist a hand-off run reads no schedule and
fails its schedule check, whatever was edited meanwhile. And `NewestIsCompared`: an altered
note is seen only if the task's own file was read and its newest version is the later of
the two compared. Two others fell away, as nothing in the proof used them: that the
platform was still as last observed, and that the altered list was read whole.

`ForkProofs` proves `NothingStale`, `FollowUpsMatchResults`, `ChangesAreVersioned` and
`HistoryLosesFew` for every plan, rule set, mode and number of forks and deaths:

* `FInv` (`NothingStale`): because a fork may start from any checkpoint and a process
  from `graph.json`, the invariant is said of the store, of the file and of the whole
  history at once. What a result rests on has ended, too. A fork keeps it because
  `Descendants` is the least set closed under the dependencies: a node outside it depends
  on nothing replaced or undone (`DescendantsClosed`); and taking out the planner's nodes
  leaves no dependency on them (`ForkedGraph`). A step keeps it because what it claims
  waited for results that no later step changes (`RanGraph`). That the plan itself is one
  that `GraphStore.apply` accepts is an assumption (`PlanAssumption`).
* `CInv` (`FollowUpsMatchResults`): again of the store, the file and the whole history.
  `Shaped` says what a node can wait for (its own dependencies and what some rule links
  to it), `Warranted` that a planner's node has a rule that applies, `Fulfilled` that a
  rule that applies has its nodes and links. A fork keeps the second because a follow-up
  waits for the watched node and is undone with it, and the third because it depends on
  nothing else: what is undone depends on something undone (`DescendantsDepend`). The
  planner's turn keeps the third because no node that has run waits for an outcome still
  to be shown (`Unread`), so a link comes in time, and because `fired` holds only rules
  whose watched node has been shown. `AllShown` says when nothing is left unseen.
* the kinds of the channels (`ChangesAreVersioned`): an `update` that returns False has
  changed nothing (`UnreportedIsUnchanged`, kind by kind), and a step without a conflict
  gives its number to every channel whose `update` returned True. `FInv` says beside the
  above that the channels of the store, the file and the history have their three fields.
* `LInv` (`HistoryLosesFew`): a line that a death has cut off counts for itself and for
  the line that will be joined to it, and what is still to be lost is `Owed`: one for a
  torn last line, two for a bare one, which can still be read.

`CallsStaySafe` and `JournalStaysSound` join three and two of the theorems above into the
properties that `engine_eager` and `run_folder` check. `TypeOK` is proved for the eager
executor, superstep mode, the run folder and the seat session; their runs do not spend
a property on it. A verdict that an action returns is never `"bypassed"`: the type of a
rule's `verdict` and of a future's say so, because only the store makes bypasses.

Only model-checked: the liveness properties (fairness is outside the prover's reach);
`TimingIsInvisible`, whose atomic step is a fold over the outcomes in any order; of forks
`ReplayMakesTheSame`, where what a channel holds is a fold over all the writes it ever
had (induction over data), and the second half of `ReadersMissNothing`
(`NoSilentOverwrite`), which turns on what the recursive `SelectSeq` returns; of
`calibration` `HonestRunsPass` and `CalibrationIsOk`, which depend on what the goldens
of a task demand: they hold of the repository's tasks, and not of every task that
`ValidTask` accepts.

## 5. Assumptions and what is left out

* A killed process loses its memory and nothing of `graph.json` (writes go to a
  temporary file that replaces it). A journal line torn by a kill does not count.
* An attempt abandoned after its timeout has no later effect on the graph; the
  code discards its result.
* Actions are their outcomes: which verdicts and data they may return is a
  constant.
* Channel writes are a function of the node; only a result that the action itself
  returned carries them. A conflict leaves the channels before it changed in
  memory; the run dies and that state never reaches `graph.json`.
* A named reducer is a constant operator; `finish()` does nothing in any kind.
* A token that the platform issued in a login whose reply was lost is known to
  nobody and left out. A session without a password has the environment's token.
* The platform processes a request at most once per attempt, and only with a token
  it accepts at that moment: that is what "a rejected token means the request was
  never processed" (`seat_rpc.py:20`) asks of it.
* Run folder: one command at a time works on it, and each run has a folder of its
  own, as batch ids and service run ids give it. The process of a command ends
  after it (`run_one`); in the service, which pauses nothing, an abandoned read
  could write to the journal of a finished run for longer. Each node makes one
  call; the router's reads before the graph and the answer's after it are left
  out. An abandoned attempt has its number already, and what it sends is not
  counted. The graph is reduced to what the files show of it: a claim that ends in
  a pause or a refusal is one step.
* Retry waits and clock values are left out of the engine; only their order matters.
* Forks: the snapshot and the checkpoint of a fork are one step. Checkpoint ids grow
  with the clock, assumed not to be set back over a restart. A list written to a
  topic is its elements.
  A history with a line split inside a character is excluded by `Openable`; what the
  command does with the exception is not modelled.
* Service: the bounds of 3; the clock is one per process (`core.py:20-21`); what a
  stream's caller reads or misses is not modelled, nor reads of earlier runs.
* Gateway: one call at a time (the threads of a run share one gateway, but only the
  answer uses it); each reply costs one.
* WriteBatch: every file has a project, so the decline of `list_milestones` without one
  (`handoffs.py:311-312`) is left out. One batch at a time; a session is part of the call it serves. A late
  delivery of a call after a kill and a failing probe of the assignees are left out.
* Calibration: the harness's observation is one step (`WriteBatch` has a step for each
  probe); no write runs, hence not the two mutants of filed escalations; edits touch
  the task's file only and fall between the two observations; the ranking and paging
  of standards and the rows of failed checklists are left out.
  The proofs assume that a platform's files are finitely many and have the fields of
  `FileRecord` (`PlatformAssumption`), that the value that stands for a failed look is
  no history and no schedule (`UnreadLooksAssumption`), that a rule route names a plan of
  the pack (`RoutesAssumption`), and that the quantity a replay fault writes into a note
  is in no real one (`InventedAssumption`).
* An answer is what a reader takes from its text; regular expressions, wording and
  quarantine are not modelled.

### Differences between code and documents without a run of their own

Met while modelling, and either excluded from a property (which says so) or outside it.

* Engine: a crash between `record()` and `apply_step()` loses channel writes
  (`engine.py:590-594`, against `channels.py:22-23`).
* Seat session: `_post_envelope` remembers a token that `auth_headers` reads again, so
  with a renewal in between a caller can get `TOKEN_EXPIRED` without a login of its own
  (`seat_rpc.py:251`).
* Forks: `fork` says that "its rules decide again" about what it removes
  (`engine.py:408-411`). But `pending_outcomes` are not in a checkpoint (443, 461-471), the
  one that `fork` takes itself (445) included. A fork of that checkpoint asks the planner
  about its own replaced nodes only, and the follow-up that the first fork removed stays
  away though nothing died: TLC finds it when two forks may replace different nodes
  (`MaxForks = 2`) and `unseen` is left out of `FollowUpsMatchResults`. At a node the planner added, a fork loses the follow-ups whose rule watches a
  node that is not undone. A node that was bypassed when a rule fired, and that a fork makes
  pending again, does not wait for the rule's follow-up: the link was dropped and the rule
  is not asked again (`rule_planner.py:96`). Ephemeral values, topics of the latest step
  and consumed barriers are there again after a rebuild. An `Overwrite` is text after a
  load, and in every checkpoint read from a file (`channels.py:46`).
* Checkpoint history: the reader passes over "a line torn by a crash mid-write"
  (`checkpoint.py:159`). But lines are written with `ensure_ascii=False` (162) and read
  as strict UTF-8, outside the `try` (151-152): one line cut inside a character raises
  `UnicodeDecodeError`, and the whole history cannot be opened, against "rebuilt from the
  file on open" (139).
* Hand-offs: "never file the same hand-off twice" (`handoffs.py:224`), but the look asks
  for one page of 50 rows and reads no further (193-195). Withdrawn escalations of the
  subject count, and on a platform that ignores the filter those of others do; an open
  one that is not on the page is filed again.
* Standards: `STANDARDS_MAX_PAGES` caps the reading at 1000 records without saying so
  (`actions.py:103-122`).
* Checks (`packs/designreview/checks.py`): `_expected(b, "before", fid) or want` (428;
  518-523 alike) and `before or after` with no milestones turn drift into a failure,
  against lines 11-12 of the file; the release verdict (188-193) and a comparison whose
  revisions are gone afterwards have no drift. With one version the agent answers a
  question about the latest from none, and the verifier expects a refusal. A label used
  twice means the newest version to the finding and the first to the verifier.
* Self-test: the mutant for `unexpected_state_change` needs an observation outside the
  pack's writes (`harness/mutants.py:69-71`); where no check observes anything (`routed_as`
  and `answer_audited` do not) the check stays unexercised. `duplicate_read` and a control replay do not work on a write run that
  filed; `golden_broken` is not caught when the first golden is about tools it cannot
  reach; `latest_note_altered` applies though the newest note is outside the comparison;
  a batch without goldens reports `golden` as unexercised; a moved batch reports MISSED
  because `calibrate` counts only "fail".
* Write runs: a look-up that fails outside the `try` (`handoffs.py:223`) loses what was
  filed before; an agent killed after filing leaves no finding (`cleanup.py:7-9`). The
  audit lets an answer claim "filed" when all hand-offs were open before; the grader's
  `no_filing_claim` fails it. `unexpected_state_change` blames moved data in a write run.
* Routing: notes that cannot be read (`router.py:61-62`) or come back cut (60 takes
  `"data"` of `read_all` and not `"complete"`) make the router pick the other candidate,
  and a truncated file list is taken as whole (73), all against "never a guess" in
  line 15; a tie broken by notes makes the plan read them again, which
  `tool_call_budget` fails; the router's reads are not retried; a node id that two plans
  disagree on is offered again when a third has it (`llm_planner.py:96`).

### Not modelled

The older `core/dag_engine.py`, `harness/runner.py`, scripts and clients: kept for
earlier results. Retrieval, telemetry (spans, exporter), viewer: no effect on a run or
its grade. Configuration parsing, playbooks, preflight, pareto and report statistics:
functions of files without a protocol. Finding memory (`memory/store.py`): an
append-only file that is read at the end of a run; two runs of a service about one
record may compare their findings in either order, which no document forbids. The
transport's catalogue and the classification of tool names: a cache filled once.

## 6. Plan

Done: the eager engine with its abstraction and theorems; superstep mode against an
atomic step; channels, forks and histories; the seat client and the run folder with
their theorems; service and webhooks; gateway and answering; the write batch; review,
grading, self-test, replay and routing.

Next, in this order:

1. `LLMGateway` for two threads: two looks at a rate window before either call.
2. Write runs in `Calibration`; `score_batch` over several tasks.
