----------------------------- MODULE Verifiers -----------------------------
(***************************************************************************)
(* The grader: built-in checks (agentkit/harness/checks.py), the pack's    *)
(* verifiers of a hand-off task (packs/designreview/checks.py), the status *)
(* of a run and of a task (agentkit/harness/grade.py).  Each check is a    *)
(* function of the files of one run folder:                                *)
(*                                                                         *)
(*   before, after   ground truth, read with the harness's own login: the  *)
(*                   release blockers (gate), the open serious feedback    *)
(*                   (rows) and our escalations (esc); Unread if not read  *)
(*   record          taskrun.json: ended, dry, finding, answer             *)
(*                                                                         *)
(* An escalation list is a sequence: the number of an escalation is its    *)
(* position.                                                               *)
(***************************************************************************)
EXTENDS DesignReview, Sequences

\* Mutant: an acknowledged escalation is not open.
OpenUntilAcknowledged == {"open"}

OpenStatus == {"open", "acknowledged"}

\* Mutant: judged against the platform after the run alone.
JudgeNow(got, want, then) == IF got = want THEN "pass" ELSE "fail"

\* A value that differs from the platform now, but is what the platform said
\* before the run, has moved under the run.
Judge(got, want, then) ==
    IF got = want THEN "pass"
    ELSE IF got = then /\ then # want THEN "drift" ELSE "fail"

\* The hand-offs the platform's own data calls for.
Expected(truth) ==
    IF Unread \in {truth.gate, truth.rows} THEN Unread
    ELSE ProposeHandoffs(OpenSeriousItems(truth.gate, truth.rows))

\* `_expected(before) or want`: no hand-offs before the run is as good as
\* nothing known about the platform before the run.
Before(before, want) ==
    LET then == Expected(before)
    IN IF then = Unread THEN want ELSE IF DOMAIN then = {} THEN want ELSE then

Ids(list) == IF list = Unread THEN {} ELSE DOMAIN list

New(before, after) == Ids(after.esc) \ Ids(before.esc)

\* Every proposed owner has an open escalation, and nothing was filed that the
\* record does not name.  Nothing may be filed when nobody is assignable.
FilingMatchesPlatform(h, got, before, after, assignable) ==
    LET recorded == h.escalations \cup h.already
        new == New(before, after)
    IN /\ after.esc # Unread
       /\ IF got = {} THEN new = {}
          ELSE IF ~assignable THEN new = {} /\ ~h.filed
          ELSE /\ \A o \in got : \E e \in recorded \cap Ids(after.esc) :
                     after.esc[e].owner = o /\ after.esc[e].status \in OpenStatus
               /\ new \subseteq h.escalations

\* Mutant: what the record says of filing is not looked at.
PreviewedAnyhow(h, got, before, after) == New(before, after) = {} /\ h.previewed = got

\* A dry run previews one filing for each proposal and files nothing.
PreviewedOnly(h, got, before, after) ==
    ~h.filed /\ New(before, after) = {} /\ h.previewed = got

PassOrFail(ok) == IF ok THEN "pass" ELSE "fail"

\* check_handoffs_match_platform
HandoffChecks(record, before, after, assignable) ==
    LET want == Expected(after)
        h == record.finding.handoffs
        got == h.proposed
    IN IF want = Unread THEN [owners |-> "error"]
       ELSE IF record.ended # "done" \/ h.outcome # "answered" THEN [owners |-> "fail"]
       ELSE LET then == Before(before, want)
            IN [owners |-> Judge(DOMAIN got, DOMAIN want, DOMAIN then),
                citations |-> Judge(got, want, then),
                filing |-> PassOrFail(
                    IF record.dry THEN PreviewedOnly(h, DOMAIN got, before, after)
                    ELSE FilingMatchesPlatform(h, DOMAIN got, before, after, assignable))]

\* check_release_gate: the finding's verdict and its count of blockers may drift,
\* the answer's verdict may not.
GateChecks(record, before, after) ==
    LET now == after.gate
        then == IF before.gate = Unread THEN now ELSE before.gate
        Counted == IF record.finding.gate = Unread THEN Unread ELSE Cardinality(record.finding.blockers)
    IN IF now = Unread THEN [ready |-> "error"]
       ELSE [ready |-> IF record.ended # "done" THEN "fail"
                       ELSE Judge(record.finding.gate, Ready(now), Ready(then)),
             critical |-> IF record.ended # "done" THEN "fail"
                          ELSE Judge(Counted, Cardinality(now), Cardinality(then)),
             verdict |-> PassOrFail(record.ended = "done" /\ record.answer.verdict = Ready(now))]

\* check_answer_states_handoffs
NamesOwners(answer, expected) ==
    IF DOMAIN expected = {} THEN answer.noOther ELSE DOMAIN expected \subseteq answer.owners

AnswerChecks(record, before, after) ==
    LET want == Expected(after)
        then == Expected(before)
        new == New(before, after)
        a == record.answer
    IN IF want = Unread THEN [named |-> "error"]
       ELSE IF record.ended # "done" THEN [named |-> "fail"]
       ELSE [named |-> IF NamesOwners(a, want) THEN "pass"
                       ELSE IF then = Unread THEN "fail"
                       ELSE IF NamesOwners(a, then) THEN "drift" ELSE "fail",
             stated |-> IF DOMAIN want = {} THEN "skip"
                        ELSE PassOrFail(IF new # {} THEN new \subseteq a.numbers ELSE a.proposedOnly),
             claimed |-> PassOrFail(~(a.saysFiled /\ new = {}))]

\* run_completed and unexpected_state_change: a write run may change only our
\* escalations; every other observed record reads the same before and after.
BuiltinChecks(record, before, after) ==
    [completed |-> PassOrFail(record.ended = "done"),
     unchanged |-> IF record.dry THEN "skip"
                   ELSE PassOrFail(before.gate = after.gate /\ before.rows = after.rows)]

CheckRun(record, before, after, assignable) ==
    <<BuiltinChecks(record, before, after), GateChecks(record, before, after),
      HandoffChecks(record, before, after, assignable), AnswerChecks(record, before, after)>>

Statuses(checks) == UNION {{checks[i][n] : n \in DOMAIN checks[i]} : i \in DOMAIN checks}

OverallStatus(statuses) ==
    IF statuses \cap {"fail", "error"} # {} THEN "fail"
    ELSE IF "drift" \in statuses THEN "drift" ELSE "pass"

\* Mutant: the runs that are there decide.
AllOfThemPassed(scores, expected) == Len(scores) > 0 /\ \A i \in DOMAIN scores : scores[i] = "pass"

\* pass^k: a task passes when every run of it passed and none is missing.
\* `scores` are the statuses of the runs its manifest names.
TaskPasses(scores, expected) ==
    Len(scores) > 0 /\ Len(scores) >= expected /\ \A i \in DOMAIN scores : scores[i] = "pass"
=============================================================================
