--------------------------- MODULE MCCalibration ---------------------------
(***************************************************************************)
(* Instance of Calibration: the tasks of packs/designreview/tasks in small *)
(* (a comparison of two named revisions, of the latest revision, release   *)
(* and hand-offs, a missing file, an absent tool, a declined route) on a   *)
(* few platforms each.                                                     *)
(***************************************************************************)
EXTENDS Calibration

CONSTANTS B, C, q1, q2, w1, std, std2, m1, i1, i2, o1, f1, f2

\* i1 needs team o1, i2 is design review's own work.
MCOwnersOf == [i \in {i1, i2} |-> IF i = i1 THEN {o1} ELSE {}]

\* One standard is about a word of the notes, one about a blocker.
MCAbout == [s \in {std, std2} |-> IF s = std THEN {w1} ELSE {i1}]

V(rev, qty, words) == [rev |-> rev, qty |-> qty, words |-> words]

NoteB == V(B, {q1}, {})
NoteC == V(C, {q2}, {w1})
Plain == V(NoRev, {q1}, {w1})
MCNote == {NoteC, Plain}

Design(score, versions, gate, rows) == [score |-> score, versions |-> versions, gate |-> gate, rows |-> rows]

Platform(files, milestones) == [files |-> files, milestones |-> milestones, standards |-> {std, std2}, tools |-> {}]

Late == (m1 :> [due |-> Today - 1, done |-> FALSE])
OnTime == (m1 :> [due |-> Today + 1, done |-> FALSE])

Golden(path, comparison, want) == [path |-> path, comparison |-> comparison, want |-> want]

Named == [latest |-> FALSE, from |-> B, to |-> C]
Newest == [latest |-> TRUE, from |-> NoRev, to |-> NoRev]

ReviewChecks == {"revision_delta_matches_db", "answer_states_change", "answer_reflects_change_notes",
                 "no_geometry_claim", "cited_standards_exist", "release_gate_matches_db", "answer_audited"}
HandoffTaskChecks == {"release_gate_matches_db", "handoffs_match_platform", "schedule_matches_db",
                      "answer_states_handoffs", "answer_audited"}

NoQuestion == [match |-> "none", id |-> NoFile, llm |-> FALSE]

\* A task that gives its plan and its file.
Task(plan, ask, verifiers, golden) ==
    [plan |-> plan, file |-> f1, ask |-> ask, verifiers |-> verifiers, golden |-> golden,
     question |-> NoQuestion, route |-> Unread]

\* A task that gives a question, with the route it should take.
Routed(question, ask, verifiers, golden, expected) ==
    [Task("route", ask, verifiers, golden) EXCEPT !.question = question, !.route = expected]

ReviewCases ==
    {[task |-> Task("rev_diff_dfm", ask, ReviewChecks, <<Golden("to_version", "equals", {SelectVersions(h, ask).to})>>),
      world |-> Platform(f1 :> Design(1, h, gate, {}), Late)] :
        ask \in {Named, Newest}, gate \in {{}, {i1}},
        h \in {<<NoteB, NoteC>>, <<NoteB, NoteC, Plain>>, <<Plain, NoteB, NoteC>>, <<NoteB, NoteC, NoteC>>, <<Plain>>}}

HandoffCases ==
    {[task |-> Task("release_handoff", Newest, HandoffTaskChecks,
                    <<Golden("past_due", "values", PastDue(milestones))>>),
      world |-> Platform(f1 :> Design(1, <<Plain>>, gate, rows), milestones)] :
        gate \in {{}, {i1}}, rows \in {{}, {i1}, {i2}}, milestones \in {Late, OnTime, <<>>}}

RefusalCases ==
    {[task |-> Task("rev_diff_dfm", Named, {"record_absent", "lookup_before_refusal", "answer_audited"},
                    <<Golden("outcome", "equals", {"declined"}), Golden("tools", "only", {"DesignFile.get"})>>),
      world |-> Platform(<<>>, <<>>)]}
    \cup {[task |-> Task("tool_refusal", Named, {"tool_absent", "answer_audited"},
                         <<Golden("tools", "length", {}), Golden("outcome", "equals", {"declined"})>>),
           world |-> [Platform(<<>>, <<>>) EXCEPT !.tools = tools]] : tools \in {{}, {AiReview}}}

Question(match, id, llm) == [match |-> match, id |-> id, llm |-> llm]
To(plan) == [plan |-> plan, aim |-> f1, why |-> "matched"]
Because(reason) == [plan |-> "route_declined", aim |-> NoFile, why |-> reason]
Refused == <<Golden("outcome", "equals", {"declined"})>>

\* Whether f1 is the only file that fits, from another history of f2.
RoutedCases ==
    LET Two(h) == Platform((f1 :> Design(1, <<NoteB, NoteC>>, {}, {})) @@ (f2 :> Design(1, h, {i1}, {})), Late)
        Case1(question, ask, verifiers, golden, expected, world1) ==
            [task |-> Routed(question, ask, verifiers \cup {"routed_as"},
                             <<Golden("route", "equals", {expected.plan})>> \o golden, expected),
             world |-> world1]
        Handoffs == Question("release_handoff", NoFile, FALSE)
        Review1 == Question("rev_diff_dfm", NoFile, FALSE)
    IN {Case1(Review1, Named, ReviewChecks, <<>>, To("rev_diff_dfm"), Two(h)) : h \in {<<Plain>>, <<NoteB, Plain>>}}
       \cup {Case1(Review1, Named, {"answer_audited"}, Refused, Because("ambiguous"), Two(<<NoteB, NoteC>>)),
             Case1(Handoffs, Named, HandoffTaskChecks, <<>>, To("release_handoff"), Two(<<NoteB, Plain>>)),
             Case1(Handoffs, Newest, {"answer_audited"}, Refused, Because("ambiguous"), Two(<<Plain>>)),
             Case1(Handoffs, Named, {"answer_audited"}, Refused, Because("ambiguous"),
                   Platform([f \in {f1, f2} |-> Design(1, <<NoteB, Plain>>, {}, {})], <<>>)),
             Case1([Handoffs EXCEPT !.id = f1], Newest, HandoffTaskChecks, <<>>, To("release_handoff"), Two(<<Plain>>)),
             Case1(Handoffs, Newest, {"answer_audited"}, Refused, Because("unknown"),
                   Platform(f1 :> Design(0, <<Plain>>, {}, {}), <<>>)),
             Case1(NoQuestion, Named, {"answer_audited"}, Refused, Because("no route matched"), Platform(<<>>, <<>>))}

\* Questions that no route matches, with the LLM planner on.
PlannedCases ==
    {[task |-> Routed(Question("none", NoFile, TRUE), Newest, {"answer_audited"}, <<>>, Unread),
      world |-> Platform((f1 :> Design(score, <<NoteB, NoteC>>, {i1}, {i1})) @@ (f2 :> Design(1, <<Plain>>, {}, {})), Late)] :
        score \in {1, 2}}

MCCase == ReviewCases \cup HandoffCases \cup RefusalCases \cup RoutedCases \cup PlannedCases
=============================================================================
