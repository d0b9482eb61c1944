---------------------------- MODULE Calibration ----------------------------
(***************************************************************************)
(* One dry run of a task of the design-review pack, from the ground truth  *)
(* before it to its grade (agentkit/harness/batch.py), and the replays of  *)
(* it (agentkit/harness/replay.py): the run continues from its saved graph *)
(* with one node's result replaced, is answered again and graded against   *)
(* the copied ground truth.  A control replaces a result by itself; a      *)
(* replay fault (packs/designreview/replay_faults.py) by a wrong one.      *)
(*                                                                         *)
(* Meanwhile other teams edit the platform (SimPlatform.apply_edits), and  *)
(* reads fail or come back cut (its call and result faults).               *)
(*                                                                         *)
(* A task gives the plan and the file itself or only a question, which is  *)
(* routed (agentkit/harness/run_one.py plan_and_params).  Nodes settle in  *)
(* any order their dependencies allow; what a settled node makes the       *)
(* planner add is a function of the results (EagerExecutor has the         *)
(* planner's steps).  ForkRun models which results a fork undoes in        *)
(* general; here it is what depends on the replaced node.                  *)
(***************************************************************************)
EXTENDS SelfTest

CONSTANTS
    Case,       \* [task, world]: a task and the platform it is asked about
    File,       \* the design files a platform may have
    Note,       \* the version notes other teams write
    Retries,    \* how often a node is tried again after a flaky failure
    MaxMoves,   \* edits by other teams
    MaxTrouble  \* edits, and reads that fail or are cut short

\* The platform: its design files, each with how well the question matches its
\* name, its history, its release blockers and its open serious feedback.
VersionNote == [rev : Rev \cup {NoRev}, qty : SUBSET Quantity, words : SUBSET Word]
FileRecord == [score : Nat, versions : Seq(VersionNote), gate : SUBSET Item, rows : SUBSET Item]
IsDates(milestones) == \E M \in SUBSET Milestone : milestones \in [M -> [due : Int, done : BOOLEAN]]

IsPlatform(w) ==
    /\ w = [files |-> w.files, milestones |-> w.milestones, standards |-> w.standards, tools |-> w.tools]
    /\ \E F \in SUBSET File : w.files \in [F -> FileRecord]
    /\ IsDates(w.milestones)

ASSUME TasksAssumption == \A c \in Case : TaskDef(c.task) /\ ValidTask(c.task)

\* A route of the pack names one of its plans.
ASSUME RoutesAssumption == \A c \in Case : c.task.question.match \in {"none"} \cup {PlanFiles[i].name : i \in DOMAIN PlanFiles}

ASSUME PlatformAssumption ==
    /\ IsFiniteSet(File) /\ NoFile \notin File
    /\ Note \subseteq VersionNote /\ Today \in Int
    /\ \A c \in Case : IsPlatform(c.world)

\* What a mutant or a replay fault makes a note say is in no note.
ASSUME InventedAssumption == Invented \notin Quantity

\* What stands for a failed look is no history and no schedule.
ASSUME UnreadLooksAssumption == Unread \notin Seq(VersionNote) /\ ~IsDates(Unread)

VARIABLES
    task, world, phase,
    route,      \* the plan and the file it is about
    narrowing,  \* candidate files: still to be read, confirmed by their notes, all; and
                \* the "dark" ones, of which the router did not read all there is
    before, after, results, tries, journal, start, record,
    replay,     \* what is replayed: "none", "control" or a replay fault
    base,       \* the graded run a replay continues
    moves, faults

trialVars == <<task, world, phase, route, narrowing, before, after, results, tries, journal, start, record,
          replay, base, moves, faults>>

-----------------------------------------------------------------------------
(* Plans. *)

ToolOf == [load_design_file |-> "DesignFile.get", list_revisions |-> "DesignVersion.list",
           read_release_gate |-> "endpoint.designreview.release_readiness", list_feedback |-> "DesignFeedback.list",
           gather_dfm_standards |-> "DesignStandard.list", list_failed_checklists |-> "DesignChecklistResult.list",
           list_milestones |-> "DesignMilestone.list"]

\* f, with v at x.
With(f, x, v) == [y \in DOMAIN f \cup {x} |-> IF y = x THEN v ELSE f[y]]

Fires(rule, res) ==
    /\ rule.watch \in DOMAIN res /\ res[rule.watch].verdict = rule.verdict
    /\ rule.verdict = "resolved" =>
         IF rule.watch = "cross_seat" THEN DOMAIN res["cross_seat"].data # {} ELSE res[rule.watch].data # {}

\* The plan's nodes and what its rules have added, given the results so far.
Graph(plan, res) ==
    LET fired == {r \in plan.rules : Fires(r, res)}
    IN [n \in DOMAIN plan.nodes \cup {r.id : r \in fired} |->
          IF n \in DOMAIN plan.nodes THEN plan.nodes[n] ELSE (CHOOSE r \in fired : r.id = n).node]

\* What a fork at node n undoes: everything that depends on it.
Undone(graph, n) ==
    LET Closed == {S \in SUBSET DOMAIN graph :
                     \A m \in DOMAIN graph : graph[m].after \cap (S \cup {n}) # {} => m \in S}
    IN {m \in DOMAIN graph : \A S \in Closed : m \in S}

Now == Graph(PlanOf(route), results)

\* The platform as it is seen from a file.
Seen(platform, file) ==
    LET f == IF file \in DOMAIN platform.files THEN platform.files[file]
             ELSE [versions |-> <<>>, gate |-> {}, rows |-> {}]
    IN [versions |-> f.versions, gate |-> f.gate, rows |-> f.rows, esc |-> <<>>, milestones |-> platform.milestones,
        standards |-> platform.standards, tools |-> platform.tools,
        file |-> IF file \in DOMAIN platform.files THEN "there" ELSE "missing"]

-----------------------------------------------------------------------------
(* The run. *)

NoRecord == [ended |-> "running"]

TrialInit ==
    /\ \E c \in Case : task = c.task /\ world = c.world
    /\ phase = "before" /\ replay = "none" /\ base = NoRecord
    /\ route = [RuleRoute(task.plan) EXCEPT !.aim = IF task.plan = "route" THEN NoFile ELSE task.file]
    /\ narrowing = [left |-> {}, kept |-> {}, all |-> {}, dark |-> {}]
    /\ before = Unread /\ after = Unread /\ record = NoRecord
    /\ results = <<>> /\ tries = <<>> /\ journal = <<>> /\ start = <<>>
    /\ moves = 0 /\ faults = 0

\* Ground truth, read with the harness's own login.
ObserveBefore ==
    /\ phase = "before"
    /\ before' = Seen(world, task.file)
    /\ phase' = IF task.plan = "route" THEN "route" ELSE "run"
    /\ UNCHANGED <<task, world, route, narrowing, after, results, tries, journal, start, record, replay, base,
                   moves, faults>>

\* The faults of the platform work while the agent runs: not in the harness's
\* own looks.  (SimSession arms them for run_task.)
Armed == phase \notin {"before", "after", "graded", "failed"} /\ faults + moves < MaxTrouble

Logged(call, outcome) == journal' = With(journal, call, Append(CallsOf(journal, call), outcome))

-----------------------------------------------------------------------------
(* Routing a question. *)

Unrouted == <<task, world, before, after, results, tries, start, record, replay, base, moves>>

Decide(decision) == route' = decision /\ phase' = "run"

Aim(file) == Decide([route EXCEPT !.aim = file])

Revs == IF task.ask.latest THEN {} ELSE {task.ask.from, task.ask.to}

\* The file is still to be found, unless the question gives its record id.
Resolving(decision) ==
    IF task.question.id # NoFile THEN Decide([decision EXCEPT !.aim = task.question.id])
    ELSE route' = decision /\ phase' = "resolve"

RouteByRules ==
    /\ phase = "route"
    /\ IF task.question.match # "none" THEN Resolving(RuleRoute(task.question.match))
       ELSE ~task.question.llm /\ Decide(Decline("rules", "no route matched"))
    /\ UNCHANGED <<Unrouted, narrowing, journal, faults>>

\* No route matched and the LLM planner is on.  A reply it cannot use, or
\* none, keeps the refusal.
RouteByLlm ==
    /\ phase = "route" /\ task.question.match = "none" /\ task.question.llm
    /\ \E picked \in SUBSET (DOMAIN Catalogue \cup {"file_handoffs"}) :
         IF Usable(picked) THEN Resolving(LlmRoute(picked)) ELSE Decide(Decline("rules", "no route matched"))
    /\ UNCHANGED <<Unrouted, narrowing, journal, faults>>

Ambiguous == Decide(Decline(route.planner, "ambiguous"))

\* A tie is narrowed by version notes if the question names revisions.
Choose(top, dark) ==
    LET tie == Cardinality(top) > 1 /\ Revs # {}
        rivals == IF tie THEN top ELSE {}
    IN /\ narrowing' = [left |-> rivals, kept |-> {}, all |-> rivals, dark |-> dark]
       /\ CASE top = {} -> Decide(Decline(route.planner, "unknown"))
            [] Cardinality(top) = 1 -> \A f \in top : Aim(f)
            [] tie -> phase' = "narrow" /\ UNCHANGED route
            [] OTHER -> Ambiguous

\* The files are listed.
ListFiles ==
    /\ phase = "resolve"
    /\ Logged(<<"DesignFile.list", NoFile>>, "ok")
    /\ Choose(BestMatches(world.files, TopScored(world.files), Revs), {})
    /\ UNCHANGED <<Unrouted, faults>>

\* The platform lists a part of them and says so, which nobody looks at.  Words
\* count by how many of the listed names have them, so that any of the listed
\* files may match best.
ListCut ==
    /\ phase = "resolve" /\ Armed /\ DOMAIN world.files # {}
    /\ Logged(<<"DesignFile.list", NoFile>>, "ok")
    /\ \E top \in SUBSET DOMAIN world.files \ {DOMAIN world.files} :
         Choose(BestMatches(world.files, top, Revs), DOMAIN world.files)
    /\ faults' = faults + 1
    /\ UNCHANGED Unrouted

\* A failure to list them ends the run: nothing tries a router's read again.
ListFails ==
    /\ phase = "resolve" /\ Armed
    /\ Logged(<<"DesignFile.list", NoFile>>, "flaky")
    /\ phase' = "failed" /\ faults' = faults + 1
    /\ UNCHANGED <<Unrouted, route, narrowing>>

\* _notes_name, for one candidate f; after the last one the choice is made.
Confirm(f, named, dark) ==
    LET kept == narrowing.kept \cup (IF named THEN {f} ELSE {})
        top == OrAll(kept, narrowing.all)
    IN /\ narrowing' = [narrowing EXCEPT !.left = @ \ {f}, !.kept = kept, !.dark = @ \cup dark]
       /\ CASE narrowing.left # {f} -> UNCHANGED <<route, phase>>
            [] narrowing.left = {f} /\ Cardinality(top) = 1 -> \A g \in top : Aim(g)
            [] OTHER -> Ambiguous

Names(versions, revs) == revs \subseteq {versions[v].rev : v \in DOMAIN versions}

ReadNotes(f) ==
    /\ phase = "narrow" /\ f \in narrowing.left
    /\ Logged(<<"DesignVersion.list", f>>, "ok")
    /\ Confirm(f, Names(world.files[f].versions, Revs), {})
    /\ UNCHANGED <<Unrouted, faults>>

\* All but the newest of its notes come back, and nobody looks whether that is all.
NotesCut(f) ==
    /\ phase = "narrow" /\ f \in narrowing.left /\ Armed /\ world.files[f].versions # <<>>
    /\ Logged(<<"DesignVersion.list", f>>, "ok")
    /\ Confirm(f, Names(Front(world.files[f].versions), Revs), {f})
    /\ faults' = faults + 1
    /\ UNCHANGED Unrouted

\* A file whose notes cannot be read is not confirmed.
NotesUnreadable(f) ==
    /\ phase = "narrow" /\ f \in narrowing.left /\ Armed
    /\ Logged(<<"DesignVersion.list", f>>, "flaky")
    /\ Confirm(f, FALSE, {f})
    /\ faults' = faults + 1
    /\ UNCHANGED Unrouted

-----------------------------------------------------------------------------
(* The nodes of the plan. *)

\* The nodes whose turn it is: whatever they wait for has settled.  A node runs
\* if all of it resolved or it only waits for it to settle.
Turns ==
    LET graph == Now
    IN IF phase # "run" THEN {}
       ELSE {[node |-> n, action |-> graph[n].action,
              runs |-> graph[n].settled \/ \A d \in graph[n].after : Resolved(results, d)] :
                n \in {m \in DOMAIN graph \ DOMAIN results : graph[m].after \subseteq DOMAIN results}}

\* Actions that read the platform with one tool.
Reads(turn) == turn.runs /\ turn.action \in DOMAIN ToolOf

Result(verdict, data) == [verdict |-> verdict, data |-> data]

Settle(turn, result) == results' = With(results, turn.node, result)

\* What the action's tool returns.
DataFor(action) ==
    LET platform == Seen(world, route.aim)
    IN CASE action = "list_revisions" -> [rows |-> platform.versions, whole |-> TRUE]
         [] action = "read_release_gate" -> platform.gate
         [] action = "list_feedback" -> [rows |-> platform.rows, whole |-> TRUE]
         [] action = "list_milestones" -> platform.milestones
         [] action = "gather_dfm_standards" -> GatherStandards(platform, results)
         [] OTHER -> {}

Journalled(turn, outcome) == Logged(<<ToolOf[turn.action], route.aim>>, outcome)

Idle == <<task, world, route, narrowing, before, after, start, record, replay, base, moves>>

\* The read succeeds, or says for good that there is no such record.
ReadNode(turn) ==
    /\ Reads(turn)
    /\ IF turn.action = "load_design_file" /\ route.aim \notin DOMAIN world.files
       THEN Journalled(turn, "missing") /\ Settle(turn, Result("declined", {}))
       ELSE Journalled(turn, "ok") /\ Settle(turn, Result("resolved", DataFor(turn.action)))
    /\ UNCHANGED <<Idle, phase, tries, faults>>

\* What the platform may return of a list: all but the newest version, all but
\* one of the feedback rows.
Cuts(action) ==
    LET seen == Seen(world, route.aim)
    IN CASE action = "list_revisions" /\ seen.versions # <<>> -> {Front(seen.versions)}
         [] action = "list_feedback" -> {seen.rows \ {i} : i \in seen.rows}
         [] OTHER -> {}

\* The platform returns a part of a list and says that there are more rows.
CutShort(turn) ==
    /\ Reads(turn) /\ Armed
    /\ Journalled(turn, "ok")
    /\ \E rows \in Cuts(turn.action) : Settle(turn, Result("resolved", [rows |-> rows, whole |-> FALSE]))
    /\ faults' = faults + 1
    /\ UNCHANGED <<Idle, phase, tries>>

Tried(n) == IF n \in DOMAIN tries THEN tries[n] ELSE 0

\* A flaky read is tried again, and fails once the retries are used up.
Flaky(turn) ==
    /\ Reads(turn) /\ Armed
    /\ Journalled(turn, "flaky")
    /\ faults' = faults + 1
    /\ tries' = With(tries, turn.node, Tried(turn.node) + 1)
    /\ IF Tried(turn.node) = Retries THEN Settle(turn, Result("failed", {})) ELSE UNCHANGED results
    /\ UNCHANGED <<Idle, phase>>

\* Actions that make no call, or none in a dry run.
Compute(turn) ==
    /\ turn.runs /\ ~Reads(turn)
    /\ Settle(turn,
         CASE turn.action = "find_cross_seat_dependencies" ->
                LET read == Read(results)
                IN Result("resolved", ProposeHandoffs(OpenSeriousItems(read.gate, read.rows)))
           [] turn.action = "raise_handoffs" -> Result("handed_off", {})
           [] turn.action = "probe_tool_offered" ->
                Result(IF AiReview \in world.tools THEN "resolved" ELSE "declined", {})
           [] turn.action = "decline" -> Result("declined", {}))
    /\ UNCHANGED <<Idle, phase, tries, journal, faults>>

Bypass(turn) ==
    /\ ~turn.runs
    /\ Settle(turn, Result("bypassed", {}))
    /\ UNCHANGED <<Idle, phase, tries, journal, faults>>

\* The finding, the answer and its audit; a replay answers with the template.
Conclude ==
    LET finding == Review(results, task.ask)
    IN /\ phase = "run" /\ Turns = {}
       /\ \E answer \in IF replay = "none" THEN AnswersOf(finding) ELSE {Template(finding)} :
            record' = [ended |-> "done", dry |-> TRUE, finding |-> finding, answer |-> answer,
                       route |-> IF task.plan = "route" THEN route ELSE Unread, audit |-> AuditOk(answer, finding)]
       /\ phase' = IF replay = "none" THEN "after" ELSE "graded"
       /\ UNCHANGED <<task, world, route, narrowing, before, after, results, tries, journal, start, replay, base,
                      moves, faults>>

ObserveAfter ==
    /\ phase = "after"
    /\ after' = Seen(world, task.file) /\ phase' = "graded"
    /\ UNCHANGED <<task, world, route, narrowing, before, results, tries, journal, start, record, replay, base,
                   moves, faults>>

-----------------------------------------------------------------------------
(* Other teams' edits. *)

\* On the file's versions, and on what it is released and scheduled by.  (What
\* happens to other files after the routing is not read.)
EditsOf(f) ==
    {[world EXCEPT !.files[f].versions = Append(@, note)] : note \in Note}
    \cup {[world EXCEPT !.files[f].gate = gate] : gate \in SUBSET Item}
    \cup UNION {{[world EXCEPT !.files[f].versions[v] = note] : note \in Note} : v \in DOMAIN world.files[f].versions}

Rescheduled ==
    UNION {{[world EXCEPT !.milestones = With(@, m, date)] : date \in [due : {Today - 1, Today + 1}, done : BOOLEAN]} :
             m \in Milestone}

Move ==
    /\ phase \in {"run", "after"} /\ moves < MaxMoves /\ faults + moves < MaxTrouble
    /\ world' \in (Rescheduled \cup UNION {EditsOf(f) : f \in DOMAIN world.files \cap {task.file}}) \ {world}
    /\ moves' = moves + 1
    /\ UNCHANGED <<task, phase, route, narrowing, before, after, results, tries, journal, start, record, replay,
                   base, faults>>

-----------------------------------------------------------------------------
(* Replays. *)

Bundle == [task |-> task, record |-> record, journal |-> journal, start |-> start,
           before |-> before, after |-> after, planted |-> FALSE]

NewestNote(rows) == rows[Len(rows)]

\* A quantity of the newest note becomes one nobody stated.
AlteredNote(rows) ==
    LET q == CHOOSE q \in NewestNote(rows).qty : TRUE
    IN [rows EXCEPT ![Len(rows)].qty = (@ \ {q}) \cup {Invented}]

ReplayFaults ==
    [gate_reports_ready |-> [node |-> "release_gate", target |-> "release_gate_matches_db"],
     latest_note_altered |-> [node |-> "revisions", target |-> "revision_delta_matches_db"],
     milestones_unreadable |-> [node |-> "milestones", target |-> "schedule_matches_db"]]

\* What a replay fault makes of a node's result; none when it does not apply.
Altered(fault, result) ==
    IF result.verdict # "resolved" THEN {}
    ELSE CASE fault = "gate_reports_ready" -> IF result.data = {} THEN {} ELSE {Result("resolved", {})}
           [] fault = "latest_note_altered" ->
                IF result.data.rows = <<>> THEN {}
                ELSE IF NewestNote(result.data.rows).qty = {} THEN {}
                ELSE {Result("resolved", [result.data EXCEPT !.rows = AlteredNote(@)])}
           [] fault = "milestones_unreadable" -> {Result("failed", {})}

\* fork: node n has the given result, what depends on it is to run again.  The
\* replay keeps the run's route and its journal starts with the run's calls.
Continue(label, n, result) ==
    /\ replay' = label /\ base' = record /\ phase' = "run"
    /\ results' = With([m \in DOMAIN results \ Undone(Now, n) |-> results[m]], n, result)
    /\ start' = [call \in DOMAIN journal |-> Len(journal[call])]
    /\ tries' = <<>> /\ record' = NoRecord
    /\ UNCHANGED <<task, world, route, narrowing, before, after, journal, moves, faults>>

\* Only a passing run is replayed.
Replayable == phase = "graded" /\ replay = "none" /\ Grade(Bundle) = "pass"

\* calibrate_replays' control: the first node of a plan, the one that waits for none.
Control ==
    /\ Replayable
    /\ \E n \in DOMAIN Now : Now[n].after = {} /\ Continue("control", n, results[n])

Fault(fault) ==
    LET n == ReplayFaults[fault].node
    IN /\ Replayable /\ ReplayFaults[fault].target \in ChecksOf(Bundle) /\ n \in DOMAIN results
       /\ \E result \in Altered(fault, results[n]) : Continue(fault, n, result)

Done == phase \in {"graded", "failed"} /\ UNCHANGED trialVars

TrialNext ==
    \/ ObserveBefore
    \/ RouteByRules \/ RouteByLlm \/ ListFiles \/ ListCut \/ ListFails
    \/ \E f \in DOMAIN world.files : ReadNotes(f) \/ NotesCut(f) \/ NotesUnreadable(f)
    \/ \E turn \in Turns : ReadNode(turn) \/ CutShort(turn) \/ Flaky(turn) \/ Compute(turn) \/ Bypass(turn)
    \/ Conclude
    \/ ObserveAfter
    \/ Move
    \/ Control
    \/ \E fault \in DOMAIN ReplayFaults : Fault(fault)
    \/ Done

TrialSpec == TrialInit /\ [][TrialNext]_trialVars

-----------------------------------------------------------------------------
(* Properties. *)

Graded(label) == phase = "graded" /\ replay = label

\* Every read came back, and whole.
CleanReads ==
    /\ narrowing.dark = {}
    /\ \A n \in DOMAIN results : results[n].verdict # "failed"
    /\ \A n \in {"revisions", "feedback"} : ~Incomplete(results, n)

\* The question has one reading: no label is used twice, and the latest
\* revision has one before it.
Comparable(versions) ==
    IF task.ask.latest THEN Len(versions) >= 2
    ELSE \A rev \in {task.ask.from, task.ask.to} : Cardinality(Labelled(versions, rev)) <= 1

\* The platform is as the task says.
Fits ==
    /\ "tool_absent" \in task.verifiers => AiReview \notin world.tools
    /\ Comparable(before.versions)

\* The router has read the notes that the plan reads too.
ReadTwice == "revisions" \in DOMAIN results /\ route.aim \in narrowing.all

\* A run on a platform nobody touches, whose reads succeed and whose answer
\* passed the audit and repeats the words of the change notes, is passed by
\* every check: the agent's reading of the data and the verifiers' own agree.
\* (A tie of files that notes decide is left out: the budget check blames the
\* run for the router's read of the same notes.)
HonestRunPasses ==
    Graded("none") /\ before = after /\ Fits /\ CleanReads /\ ~ReadTwice
        /\ Worded(record.finding.delta.notes) \subseteq record.answer.words
    => Grade(Bundle) = "pass"

\* A passing run replayed with a node's own result, on the platform as it was
\* seen last, passes again.
ControlReplayPasses ==
    Graded("control") /\ Seen(world, task.file) = after /\ Comparable(after.versions) /\ CleanReads
    => Grade(Bundle) = "pass"

\* No check fails what was done right, at first or again in a replay.
HonestRunsPass == HonestRunPasses /\ ControlReplayPasses

\* Checks with nothing in this run that a mutant could break.
NothingToBreak ==
    LET f == record.finding
    IN {check \in BuiltinNames \cup task.verifiers :
          CASE check = "tool_call_budget" -> \A call \in DOMAIN journal : "ok" \notin ToSet(journal[call])
            [] check = "revision_delta_matches_db" -> f.delta.from = None /\ f.delta.notes = <<>>
            [] check = "answer_reflects_change_notes" -> Worded(LastOf(f.delta.notes)) = {}
            [] check = "schedule_matches_db" -> DOMAIN f.schedule.rows = {}
            [] check = "golden" -> task.golden = <<>>
            [] check = "unexpected_state_change" -> Kept(task) = {}
            [] OTHER -> FALSE}

\* calibrate reports OK: every mutant that applies to a passing run is caught
\* by its target check, and no check of the run is left that nobody has shown
\* can fail.
CalibrationIsOk ==
    Graded("none") /\ before = after /\ Grade(Bundle) = "pass"
    => /\ \A m \in MutantsOf(Bundle) : Caught(m)
       /\ Unexercised(Bundle) \subseteq NothingToBreak

\* When another team edits the platform during the run, the checks on the
\* compared versions, on the answer about them and on the schedule say
\* "drift" and never "fail".
MovedDataIsDrift ==
    LET HasPair(versions) == SelectVersions(versions, task.ask) # NoPair /\ Comparable(versions)
        judged == (IF route.plan = "rev_diff_dfm" THEN <<RevisionChecks(Bundle), ChangeChecks(Bundle)>>
                   ELSE <<ScheduleChecks(Bundle), LateChecks(Bundle)>>)
    IN Graded("none") /\ moves = 1 /\ CleanReads
          /\ route.plan \in {"rev_diff_dfm", "release_handoff"} /\ route.aim = task.file /\ before.file = "there"
          /\ (route.plan = "rev_diff_dfm" => HasPair(before.versions) /\ HasPair(after.versions))
          /\ DOMAIN before.milestones # {}
       => "fail" \notin Statuses(judged)

\* The replay is faithful: if nothing went wrong and nobody touched the
\* platform, a run replayed with a node's own result has the same finding,
\* whatever the order in which the nodes settled (the standards' query once took
\* the blockers only if the gate had answered).
ControlFindsTheSame == Graded("control") /\ faults = 0 /\ moves = 0 => record.finding = base.finding

\* The comparison that the question asks for has the newest note in it.
NewestIsCompared ==
    LET pair == SelectVersions(after.versions, task.ask)
    IN route.aim = task.file /\ pair.to = Len(after.versions) /\ pair.from < pair.to

\* A replay fault changes the finding and the answer all the way to its check:
\* the check fails, whatever happens to the platform meanwhile.
ReplayFaultsAreCaught ==
    \A fault \in DOMAIN ReplayFaults :
        Graded(fault) /\ (fault = "latest_note_altered" => NewestIsCompared)
        => "fail" \in StatusesOf(Bundle, ReplayFaults[fault].target)

\* A replay shows what was replayed: a result that stays the same changes
\* nothing, a wrong one fails its check.
ReplaysAreJudgedRight == ControlFindsTheSame /\ ReplayFaultsAreCaught

\* Nothing the question says fits f better than g.
AsGood(g, f) ==
    LET v(h) == world.files[h].versions
    IN /\ world.files[g].score >= world.files[f].score
       /\ Revs # {} => (Len(v(f)) >= 2 => Len(v(g)) >= 2) /\ (Names(v(f), Revs) => Names(v(g), Revs))

\* The router guesses no more than it was left in the dark: the file of a routed
\* run fits the question better than every other one that the router could read
\* in full, and a read that failed or came back cut discards at most the file it
\* is about.  (router.py: "never a guess"; but a candidate whose notes cannot be
\* read, or come back cut, counts as not named by the question, and behind a cut
\* list of files any file may be missing.)
NeverAGuess ==
    task.plan = "route" /\ task.question.id = NoFile /\ route.aim # NoFile /\ moves = 0
    => \A g \in DOMAIN world.files \ ({route.aim} \cup narrowing.dark) : ~AsGood(g, route.aim)

\* A plan the LLM chose only reads, whatever its rules add while it runs: no
\* writing action, nothing waiting for a node that is not there, no parameter
\* the question does not give, no more nodes than allowed.
PlansOnlyRead ==
    route.planner = "llm" /\ phase \notin {"resolve", "narrow", "failed"}
    => /\ \A n \in DOMAIN Now : Now[n].action \notin Writing /\ Now[n].after \subseteq DOMAIN Now
       /\ route.plan = "llm_plan" => /\ Cardinality(DOMAIN route.nodes) <= MaxPlanned
                                     /\ route.aim # NoFile
                                     /\ \A n \in DOMAIN Now : Now[n].needs \subseteq {"file_id"}
=============================================================================
