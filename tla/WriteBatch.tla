---------------------------- MODULE WriteBatch ----------------------------
(***************************************************************************)
(* A harness batch of one hand-off task, run Repeat times against a live   *)
(* platform that other teams use (agentkit/harness/batch.py): ground truth *)
(* before, the agent's run, ground truth after, clean-up of what the run   *)
(* filed, the manifest; grading (grade.py) and the clean-up command        *)
(* (cleanup.py) afterwards.                                                *)
(*                                                                         *)
(* The agent's run is its reads and the write node raise_handoffs          *)
(* (packs/designreview/handoffs.py): for each hand-off it looks for an     *)
(* open escalation of the same subject on one page of them, else files one. *)
(* A subject names the file and the owner, so here the owner.              *)
(*                                                                         *)
(* Other teams open and close items (at most MaxMoves times) and answer    *)
(* escalations (MaxReplies).  A call may fail with or without its effect   *)
(* and a process may be killed (MaxFaults in all), and the platform may    *)
(* return the feedback list in part (Cuts).                                *)
(***************************************************************************)
EXTENDS Verifiers

CONSTANTS
    Repeat, Modes, Cuts, MaxMoves, MaxReplies, MaxFaults,
    Page,        \* the most rows that AgentEscalation.list returns, 50 in the code
    Filtered     \* whether it heeds the subject it is given, or lists every escalation

ASSUME BatchAssumption ==
    /\ Repeat \in Nat \ {0}
    /\ Modes \subseteq {"dry", "write", "keep"} /\ Modes # {}
    /\ Cuts \in BOOLEAN /\ Filtered \in BOOLEAN /\ Page \in Nat \ {0}
    /\ {MaxMoves, MaxReplies, MaxFaults} \subseteq Nat

VARIABLES
    openItems,   \* platform: the open serious items of the file
    esc,         \* platform: escalations [owner, status, by (run)], oldest first
    assignable,  \* platform: the tenant's configured person can be assigned to
    mode,        \* "dry", "write" (files and cleans up) or "keep" (--keep-writes)
    phase,       \* what the harness, or the agent it waits for, is doing
    before, after, \* ground truth files of the current run
    read,        \* the agent's reads: [gate, rows, cut], as far as they have come
    todo,        \* hand-offs the write node has still to deal with
    raising,     \* the one it found no open escalation for, if any
    filing,      \* the write node's result so far
    record,      \* taskrun.json of the current run
    targets,     \* escalations the clean-up has still to deal with
    seen,        \* the one it has just read and its status, if any
    report,      \* the clean-up's outcome so far: "done" or "error"
    entry,       \* the run's entry of the manifest, as far as it is known
    manifest,    \* manifest.json: an entry for each run that ended
    moved,       \* how often the items changed since the run's first probe
    moves, replies, faults

platform == <<openItems, esc, assignable>>
agent == <<read, todo, raising, filing, record>>
undo == <<targets, seen, report, entry>>
bounds == <<moves, replies, faults>>
vars == <<platform, mode, phase, before, after, agent, undo, manifest, moved, bounds>>

-----------------------------------------------------------------------------
ProbeOrder == <<"gate", "rows", "esc">>

Truth(key) == CASE key = "gate" -> openItems \cap Critical
                [] key = "rows" -> openItems
                [] key = "esc" -> esc
NoTruth == [k \in {} |-> Unread]
NoEntry == [status |-> "none", ended |-> "none", cleanup |-> "none", recorded |-> {}, score |-> "fail"]
NoRecord == [ended |-> "running", dry |-> mode = "dry"]

Run == Len(manifest) + 1
Ours(run) == {e \in DOMAIN esc : esc[e].by = run}
IsOpen(e) == esc[e].status \in OpenStatus

Init ==
    /\ openItems \in SUBSET Item
    /\ esc = <<>>
    /\ assignable \in BOOLEAN
    /\ mode \in Modes
    /\ phase = "begin"
    /\ before = NoTruth /\ after = NoTruth
    /\ read = NoTruth /\ todo = {} /\ raising = {} /\ filing = NotRun /\ record = NoRecord
    /\ targets = {} /\ seen = {} /\ report = "done" /\ entry = NoEntry
    /\ manifest = <<>> /\ moved = 0
    /\ moves = 0 /\ replies = 0 /\ faults = 0

\* A call that goes wrong uses up one of the faults.
Works == faults' = faults
Fails == faults < MaxFaults /\ faults' = faults + 1
Spared == UNCHANGED <<moves, replies>>

-----------------------------------------------------------------------------
(* The harness around the run: run_batch, GroundTruthReader, capture. *)

\* The node's memory goes with the agent's process.
AgentGone == read' = NoTruth /\ todo' = {} /\ raising' = {} /\ filing' = NotRun

\* Nothing of a run is kept but its files, which nothing changes any more.
RunOver ==
    /\ before' = NoTruth /\ after' = NoTruth /\ moved' = 0
    /\ AgentGone /\ record' = NoRecord
    /\ targets' = {} /\ seen' = {} /\ report' = "done" /\ entry' = NoEntry

NextRun(ended) ==
    /\ manifest' = Append(manifest, ended)
    /\ phase' = IF Run = Repeat THEN "finished" ELSE "begin"
    /\ RunOver

HarnessError == [NoEntry EXCEPT !.status = "harness_error"]

\* The harness logs in and writes task.json.
Begin ==
    /\ phase = "begin"
    /\ Works /\ phase' = "before"
    /\ UNCHANGED <<platform, mode, before, after, agent, undo, manifest, moved>> /\ Spared

\* It fails before the agent starts or after it ended: recorded, the batch goes on.
HarnessFails ==
    /\ phase \in {"begin", "after"}
    /\ Fails /\ NextRun(HarnessError)
    /\ UNCHANGED <<platform, mode>> /\ Spared

\* One probe; one that fails is recorded as such (observe).
Observed(truth, key, value) == [k \in DOMAIN truth \cup {key} |-> IF k = key THEN value ELSE truth[k]]

Probe ==
    LET truth == IF phase = "before" THEN before ELSE after
        key == ProbeOrder[Cardinality(DOMAIN truth) + 1]
    IN /\ phase \in {"before", "after"} /\ Cardinality(DOMAIN truth) < Len(ProbeOrder)
       /\ \E value \in {Truth(key), Unread} :
             /\ IF value = Unread THEN Fails ELSE Works
             /\ before' = IF phase = "before" THEN Observed(before, key, value) ELSE before
             /\ after' = IF phase = "after" THEN Observed(after, key, value) ELSE after
       /\ UNCHANGED <<platform, mode, phase, agent, undo, manifest, moved>> /\ Spared

Complete(truth) == Cardinality(DOMAIN truth) = Len(ProbeOrder)

StartAgent ==
    /\ phase = "before" /\ Complete(before)
    /\ phase' = "agent"
    /\ UNCHANGED <<platform, mode, before, after, agent, undo, manifest, moved, bounds>>

-----------------------------------------------------------------------------
(* The agent's run. *)

\* read_release_gate and list_feedback run side by side; each may fail, and a
\* list may come back in part.
ReadGate ==
    /\ phase = "agent" /\ "gate" \notin DOMAIN read
    /\ \E gate \in {openItems \cap Critical, Unread} :
          /\ IF gate = Unread THEN Fails ELSE Works
          /\ read' = Observed(read, "gate", gate)
    /\ UNCHANGED <<platform, mode, phase, before, after, todo, raising, filing, record, undo, manifest, moved>> /\ Spared

ReadFeedback ==
    /\ phase = "agent" /\ "rows" \notin DOMAIN read
    /\ \E rows \in {openItems, Unread} \cup (IF Cuts THEN SUBSET openItems ELSE {}) :
          /\ IF rows = Unread THEN Fails ELSE Works
          /\ read' = Observed(Observed(read, "rows", rows), "cut", rows \notin {openItems, Unread})
    /\ UNCHANGED <<platform, mode, phase, before, after, todo, raising, filing, record, undo, manifest, moved>> /\ Spared

Proposed == DOMAIN ProposeHandoffs(OpenSeriousItems(read.gate, read.rows))

\* run.finish: the finding and one of the answers it supports.
Conclude(result) ==
    LET finding == Finding(read, result, mode = "dry")
    IN /\ \E answer \in Answers(finding) :
             record' = [ended |-> "done", dry |-> mode = "dry", finding |-> finding, answer |-> answer]
       /\ phase' = "after" /\ AgentGone

\* cross_seat has settled.  The planner adds the write node when a hand-off is
\* proposed; a dry run only previews it.
CrossSeat ==
    /\ phase = "agent" /\ {"gate", "rows"} \subseteq DOMAIN read
    /\ IF Proposed = {} THEN Conclude(NotRun)
       ELSE IF mode = "dry" THEN Conclude([NotRun EXCEPT !.verdict = "handed_off"])
       ELSE phase' = "file" /\ UNCHANGED agent
    /\ UNCHANGED <<platform, mode, before, after, undo, manifest, moved, bounds>>

\* An exception in the node loses what it had noted: FAILED, no data.
Lost == [NotRun EXCEPT !.verdict = "failed"]

\* file_handoffs: no assignable person, nothing filed.
FindAssignee ==
    /\ phase = "file"
    /\ \/ Works /\ assignable /\ phase' = "look" /\ todo' = Proposed /\ UNCHANGED <<read, raising, filing, record>>
       \/ Works /\ ~assignable /\ Conclude([NotRun EXCEPT !.verdict = "declined"])
       \/ Fails /\ Conclude(Lost)
    /\ UNCHANGED <<platform, mode, before, after, undo, manifest, moved>> /\ Spared

\* What the platform has to list for a subject, closed ones included, when it has
\* n escalations.
Listed(owner, n) == {e \in 1..n : Filtered => esc[e].owner = owner}

\* It lists one page of them, and it is not said which.
Pages(owner) ==
    LET all == Listed(owner, Len(esc))
    IN IF Cardinality(all) <= Page THEN {all} ELSE {page \in SUBSET all : Cardinality(page) = Page}

SameSubject(owner, page) == {e \in page : esc[e].owner = owner /\ IsOpen(e)}

\* open_escalations_with_subject, which asks for one page and looks no further.
Look(owner) ==
    /\ phase = "look" /\ raising = {} /\ owner \in todo
    /\ \/ \E page \in Pages(owner) :
             /\ Works /\ SameSubject(owner, page) = {} /\ raising' = {owner}
             /\ UNCHANGED <<phase, read, todo, filing, record>>
       \/ \E page \in Pages(owner) : \E e \in SameSubject(owner, page) :
             /\ Works /\ filing' = [filing EXCEPT !.already = @ \cup {e}] /\ todo' = todo \ {owner}
             /\ UNCHANGED <<phase, read, raising, record>>
       \/ Fails /\ Conclude(Lost)
    /\ UNCHANGED <<platform, mode, before, after, undo, manifest, moved>> /\ Spared

\* AgentSession.create, then escalations.raise.  Either may fail or be refused;
\* a lost reply leaves an escalation the node does not know of.
Raise(owner) ==
    LET filed == Append(esc, [owner |-> owner, status |-> "open", by |-> Run])
    IN /\ owner \in raising
       /\ \/ Works /\ esc' = filed /\ filing' = [filing EXCEPT !.escalations = @ \cup {Len(filed)}]
          \/ Fails /\ esc' \in {esc, filed} /\ filing' = [filing EXCEPT !.errors = @ \cup {owner}]
       /\ todo' = todo \ {owner} /\ raising' = {}
       /\ UNCHANGED <<openItems, assignable, mode, phase, before, after, read, record, undo, manifest, moved>>
       /\ Spared

Filed ==
    /\ phase = "look" /\ todo = {}
    /\ Conclude([filing EXCEPT !.verdict = IF filing.errors = {} THEN "resolved" ELSE "failed"])
    /\ UNCHANGED <<platform, mode, before, after, undo, manifest, moved, bounds>>

\* The agent's process is killed, by its 900 s limit or otherwise: taskrun.json
\* says running and has no finding.
AgentKilled ==
    /\ phase \in {"agent", "file", "look"} /\ Fails
    /\ phase' = "after" /\ AgentGone
    /\ UNCHANGED <<platform, mode, before, after, record, undo, manifest, moved, moves, replies>>

-----------------------------------------------------------------------------
(* Clean-up, after the ground truth is on disk. *)

\* What taskrun.json says the run filed.
Recorded == IF record.ended = "done" THEN record.finding.handoffs.escalations ELSE {}

Checks == CheckRun(record, before, after, assignable)

\* All that grading reads is on disk by now, so what it finds is worked out here,
\* whenever the grader is run.
StartCleanup ==
    /\ phase = "after" /\ Complete(after)
    /\ phase' = "undo"
    /\ targets' = IF mode = "write" THEN Recorded ELSE {}
    /\ entry' = [status |-> "ran", ended |-> record.ended, cleanup |-> "none", recorded |-> Recorded,
                 score |-> OverallStatus(Statuses(Checks))]
    /\ before' = NoTruth /\ after' = NoTruth /\ moved' = 0
    /\ AgentGone /\ record' = NoRecord
    /\ UNCHANGED <<platform, mode, seen, report, manifest, bounds>>

\* The clean-up command: everything open under our prefix.
Sweep ==
    /\ phase \in {"finished", "dead"}
    /\ phase' = "sweep" /\ targets' = {e \in DOMAIN esc : IsOpen(e)} /\ report' = "done"
    /\ UNCHANGED <<platform, mode, before, after, agent, seen, entry, manifest, moved, bounds>>

Cleaning == phase \in {"undo", "sweep"}

\* AgentEscalation.get: one that is not open any more is skipped.
Inspect(e) ==
    /\ Cleaning /\ seen = {} /\ e \in targets
    /\ \/ Works /\ IsOpen(e) /\ seen' = {[id |-> e, status |-> esc[e].status]} /\ UNCHANGED <<targets, report>>
       \/ Works /\ ~IsOpen(e) /\ targets' = targets \ {e} /\ UNCHANGED <<seen, report>>
       \/ Fails /\ targets' = targets \ {e} /\ report' = "error" /\ UNCHANGED seen
    /\ UNCHANGED <<platform, mode, phase, before, after, agent, entry, manifest, moved>> /\ Spared

\* escalations.update withdraws it if its status is still the one just read.
Withdraw ==
    \E s \in seen :
        LET withdrawn == [esc EXCEPT ![s.id].status = "withdrawn"]
            expected == esc[s.id].status = s.status
        IN /\ \/ Works /\ expected /\ esc' = withdrawn /\ UNCHANGED report
              \/ Works /\ ~expected /\ report' = "error" /\ UNCHANGED esc
              \/ Fails /\ esc' \in {esc, IF expected THEN withdrawn ELSE esc} /\ report' = "error"
           /\ targets' = targets \ {s.id} /\ seen' = {}
           /\ UNCHANGED <<openItems, assignable, mode, phase, before, after, agent, entry, manifest, moved>> /\ Spared

\* Mutant: only an exception of the clean-up counts as an error.
OutcomeOfExceptionsOnly == IF mode = "write" THEN "done" ELSE "none"

\* What undo_writes returns.
CleanupOutcome == IF mode = "write" THEN report ELSE "none"

EndRun ==
    /\ phase = "undo" /\ targets = {} /\ seen = {}
    /\ NextRun([entry EXCEPT !.cleanup = CleanupOutcome])
    /\ UNCHANGED <<platform, mode, bounds>>

Swept ==
    /\ phase = "sweep" /\ targets = {} /\ seen = {}
    /\ phase' = "swept"
    /\ UNCHANGED <<platform, mode, before, after, agent, undo, manifest, moved, bounds>>

\* The harness itself is killed: the manifest stays as it was last written.
HarnessKilled ==
    /\ phase \notin {"finished", "dead", "sweep", "swept"} /\ Fails
    /\ phase' = "dead" /\ RunOver
    /\ UNCHANGED <<platform, mode, manifest, moves, replies>>

-----------------------------------------------------------------------------
(* Everyone else on the platform. *)

\* Another team opens or closes an item.  While the node files, or after the
\* last probe, that is the same as a little earlier or later.
Move(item) ==
    /\ phase \in {"begin", "before", "agent", "after"} /\ moves < MaxMoves
    /\ openItems' = IF item \in openItems THEN openItems \ {item} ELSE openItems \cup {item}
    /\ moves' = moves + 1 /\ moved' = IF phase = "begin" THEN 0 ELSE moved + 1
    /\ UNCHANGED <<esc, assignable, mode, phase, before, after, agent, undo, manifest, replies, faults>>

\* The assignee acknowledges an escalation, or closes it.
Reply(e) ==
    /\ phase # "swept" /\ replies < MaxReplies /\ IsOpen(e)
    /\ \E status \in {"acknowledged", "resolved"} \ {esc[e].status} :
          esc' = [esc EXCEPT ![e].status = status]
    /\ replies' = replies + 1
    /\ UNCHANGED <<openItems, assignable, mode, phase, before, after, agent, undo, manifest, moved,
                   moves, faults>>

Next ==
    \/ Begin \/ HarnessFails \/ Probe \/ StartAgent
    \/ ReadGate \/ ReadFeedback \/ CrossSeat
    \/ FindAssignee \/ Filed \/ AgentKilled
    \/ \E owner \in Owner : Look(owner) \/ Raise(owner)
    \/ StartCleanup \/ Withdraw \/ EndRun
    \/ \E e \in DOMAIN esc : Inspect(e) \/ Reply(e)
    \/ Sweep \/ Swept \/ HarnessKilled
    \/ \E item \in Item : Move(item)

Spec == Init /\ [][Next]_vars

-----------------------------------------------------------------------------
Scores == [i \in DOMAIN manifest |-> manifest[i].score]

\* A run that passes has accounted for everything it put on the platform: each
\* escalation is in its record, and none is open once its clean-up said done.
\* A lost reply, a failed look-up or a partial list must show up in the grade.
PassedRunsLeaveNothing ==
    \A i \in DOMAIN manifest : Scores[i] = "pass" =>
        /\ Ours(i) \subseteq manifest[i].recorded
        /\ manifest[i].cleanup = "done" => \A e \in Ours(i) : ~IsOpen(e)

\* Repeats, lost replies and earlier runs' leftovers never give one subject two
\* open escalations (handoffs.py: "never file the same hand-off twice") as long
\* as what the platform lists for the subject fits on one page: the later of two
\* was filed when more than a page of them, closed ones included, was there.
FiledOnce ==
    \A d, e \in DOMAIN esc :
        /\ {esc[d].status, esc[e].status} \subseteq {"open", "acknowledged"}
        /\ esc[d].owner = esc[e].owner /\ d < e
        => Cardinality(Listed(esc[e].owner, e - 1)) > Page

\* Items that changed once under a run whose reads all went well are drift, not
\* the agent's failure (checks.py), whenever in the run they changed.  Holds
\* where something was to be handed off before the run: see Before.
ReadsWentWell ==
    /\ record.ended = "done"
    /\ record.finding.handoffs.outcome = "answered"
    /\ record.finding.handoffs.unavailable = {}

MovedDataIsNotBlamed ==
    /\ phase = "after" /\ Complete(after) /\ ReadsWentWell /\ moved <= 1
    /\ \A t \in {before, after} : Unread \notin {t.gate, t.rows}
    /\ DOMAIN Expected(before) # {}
    => "fail" \notin {Checks[2].ready, Checks[2].critical, Checks[3].owners, Checks[3].citations, Checks[4].named}

\* A task that passes was run to the end every time it was due: no killed run,
\* no harness error and no run missing after the harness was killed.
PassingTasksRanInFull ==
    TaskPasses(Scores, Repeat) =>
        /\ Len(manifest) = Repeat
        /\ \A i \in DOMAIN manifest : manifest[i].status = "ran" /\ manifest[i].ended = "done"

\* Clean-up that reports "done" has withdrawn all the run filed (batch.py step 5).
CleanedUpMeansGone ==
    \A i \in DOMAIN manifest : manifest[i].cleanup = "done" => \A e \in Ours(i) : ~IsOpen(e)
=============================================================================
