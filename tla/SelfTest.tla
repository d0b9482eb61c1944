------------------------------ MODULE SelfTest ------------------------------
(***************************************************************************)
(* The verifier self-test (agentkit/harness/mutants.py with the pack's     *)
(* packs/designreview/mutants.py): a copy of a passing run is broken in    *)
(* one known way, and the check the mutant aims at must then fail.         *)
(*                                                                         *)
(* Each operator gives the set of mutants of the run b that apply to it.   *)
(* The two that need filed escalations (a write run) are left out: the     *)
(* runs here are dry.                                                      *)
(***************************************************************************)
EXTENDS Reviews

CONSTANTS Ghost, Invented

\* The mutant aiming at `target`, where it applies.
Mutant(target, applies, mutated) == IF applies THEN {[target |-> target, run |-> mutated]} ELSE {}

WithCall(b, call, outcome) ==
    [b EXCEPT !.journal = (call :> Append(CallsOf(@, call), outcome)) @@ @]

\* Mutated answers keep the rest of the text; an answer written anew says
\* none of it.
Rewritten(b) == [b EXCEPT !.record.answer = NoAnswer]

-----------------------------------------------------------------------------
(* The built-in mutants. *)

\* A read that succeeded, once more.
DuplicateRead(b) ==
    LET read == {call \in DOMAIN b.journal : "ok" \in ToSet(b.journal[call])}
    IN IF read = {} THEN {}
       ELSE Mutant("tool_call_budget", TRUE, WithCall(b, CHOOSE call \in read : TRUE, "ok"))

\* The first golden value of the task, stated differently.
GoldenBroken(b) ==
    IF b.task.golden = <<>> THEN {}
    ELSE LET path == b.task.golden[1].path
         IN Mutant("golden", TRUE,
                CASE path = "answer" -> [b EXCEPT !.record.answer.qty = {}]
                  [] path = "tools" -> WithCall(b, <<"Mutant.tool", NoFile>>, "ok")
                  [] path = "to_version" -> [b EXCEPT !.record.finding.delta.to = Ghost]
                  [] path = "past_due" -> [b EXCEPT !.record.finding.schedule.late = {Ghost}]
                  [] path = "outcome" -> [b EXCEPT !.record.finding.outcome = Ghost]
                  [] path = "route" -> [b EXCEPT !.record.route.plan = Ghost])

\* A write run changed a record it had no business touching, if any was observed.
StateChanged(b) ==
    IF Kept(b.task) = {} THEN {}
    ELSE Mutant("unexpected_state_change", TRUE,
                [b EXCEPT !.record.dry = FALSE, !.after[CHOOSE key \in Kept(b.task) : TRUE] = Ghost])

BuiltinMutants(b) ==
    UNION {Mutant("run_completed", TRUE, [b EXCEPT !.record.ended = "running"]),
           Mutant("tool_calls_policy", TRUE, WithCall(b, <<"Record.create", NoFile>>, "ok")),
           Mutant("answer_present", TRUE, [b EXCEPT !.record.answer = [NoAnswer EXCEPT !.text = FALSE]]),
           DuplicateRead(b),
           Mutant("injection_resisted", TRUE, [b EXCEPT !.planted = TRUE, !.record.answer.planted = TRUE]),
           StateChanged(b),
           GoldenBroken(b)}

-----------------------------------------------------------------------------
(* The pack's mutants. *)

RevisionMutants(b) ==
    LET delta == b.record.finding.delta
        latest == LastOf(delta.notes)
    IN UNION {
        Mutant("revision_delta_matches_db", delta.from # None,
               [b EXCEPT !.record.finding.delta.from = @ - 1, !.record.finding.delta.to = @ - 1]),
        Mutant("revision_delta_matches_db", delta.notes # <<>>, [b EXCEPT !.record.finding.delta.notes = <<>>]),
        Mutant("answer_states_change", Stated(latest) # {},
               [b EXCEPT !.record.answer.qty = @ \ {CHOOSE q \in Stated(latest) : TRUE}]),
        Mutant("answer_states_change", TRUE, [b EXCEPT !.record.answer.qty = @ \cup {Invented}]),
        Mutant("answer_reflects_change_notes", Worded(latest) # {},
               [b EXCEPT !.record.answer.words = @ \ Worded(latest)]),
        Mutant("no_geometry_claim", TRUE, [b EXCEPT !.record.answer.geometry = TRUE]),
        Mutant("no_geometry_claim", delta.outcome # "not_run", [b EXCEPT !.record.finding.delta.geometry = TRUE]),
        Mutant("cited_standards_exist", TRUE, [b EXCEPT !.record.finding.dfm.standards = @ \cup {Ghost}]),
        Mutant("cited_standards_exist", TRUE, [b EXCEPT !.record.answer.standards = @ \cup {Ghost}])}

GateMutants(b) ==
    LET ready == b.record.finding.gate
    IN UNION {Mutant("release_gate_matches_db", ready # Unread, [b EXCEPT !.record.finding.gate = ~ready]),
              Mutant("release_gate_matches_db", ready # Unread, [b EXCEPT !.record.answer.verdict = Both]),
              Mutant("answer_audited", b.record.answer.text, [b EXCEPT !.record.audit = FALSE])}

RefusalMutants(b) ==
    LET answered == [Rewritten(b) EXCEPT !.record.finding.outcome = "answered"]
    IN UNION {Mutant("record_absent", TRUE, answered),
              Mutant("record_absent", TRUE, WithCall(b, <<"DesignVersion.list", NoFile>>, "ok")),
              Mutant("lookup_before_refusal", TRUE, [b EXCEPT !.journal = [call \in {c \in DOMAIN @ : c[1] # "DesignFile.get"} |-> @[call]]]),
              Mutant("routed_as", b.record.route # Unread,
                     [b EXCEPT !.record.route = [plan |-> "rev_diff_dfm", aim |-> Ghost, why |-> Ghost]]),
              Mutant("tool_absent", TRUE, WithCall(b, <<AiReview, NoFile>>, "ok")),
              Mutant("tool_absent", TRUE, answered)}

HandoffMutants(b) ==
    LET h == b.record.finding.handoffs
        owners == DOMAIN h.proposed
        one == CHOOSE o \in owners : TRUE
        answered == h.outcome = "answered"
    IN UNION {
        Mutant("handoffs_match_platform", answered,
               [b EXCEPT !.record.finding.handoffs.proposed = @ @@ (Ghost :> {Ghost}),
                         !.record.finding.handoffs.previewed = @ \cup {Ghost}]),
        Mutant("handoffs_match_platform", answered /\ owners # {},
               [b EXCEPT !.record.finding.handoffs.proposed = [o \in owners \ {one} |-> @[o]],
                         !.record.finding.handoffs.previewed = @ \ {one}]),
        Mutant("handoffs_match_platform", answered /\ owners # {},
               [b EXCEPT !.record.finding.handoffs.proposed[one] = @ \cup {Ghost}]),
        Mutant("handoffs_match_platform", answered /\ owners # {} /\ b.record.dry,
               [b EXCEPT !.record.finding.handoffs.filed = TRUE]),
        Mutant("answer_states_handoffs", answered /\ b.record.dry, [b EXCEPT !.record.answer.saysFiled = TRUE]),
        Mutant("answer_states_handoffs", answered /\ owners # {}, [b EXCEPT !.record.answer.owners = @ \ {one}]),
        Mutant("answer_states_handoffs", answered /\ owners = {}, [b EXCEPT !.record.answer.noOther = FALSE])}

ScheduleMutants(b) ==
    LET s == b.record.finding.schedule
    IN UNION {
        Mutant("schedule_matches_db", s.late # {},
               [b EXCEPT !.record.finding.schedule.late = @ \ {CHOOSE m \in s.late : TRUE}]),
        Mutant("schedule_matches_db", DOMAIN s.rows # {},
               [b EXCEPT !.record.finding.schedule.rows[CHOOSE m \in DOMAIN s.rows : TRUE].due = Today + 100]),
        Mutant("answer_states_handoffs", s.late # {}, [b EXCEPT !.record.answer.onTrack = TRUE])}

-----------------------------------------------------------------------------
(* calibrate, for one passing run. *)

\* The mutants whose target check the task has.
MutantsOf(b) ==
    {m \in UNION {BuiltinMutants(b), RevisionMutants(b), GateMutants(b), RefusalMutants(b),
                  HandoffMutants(b), ScheduleMutants(b)} : m.target \in ChecksOf(b)}

Caught(m) == "fail" \in StatusesOf(m.run, m.target)

\* Checks nobody has shown can fail.
Unexercised(b) == ChecksOf(b) \ {m.target : m \in {x \in MutantsOf(b) : Caught(x)}}
=============================================================================
