---------------------------- MODULE DesignReview ----------------------------
(***************************************************************************)
(* What the design-review pack computes from the reads of one run of the   *)
(* plan release_handoff (packs/designreview/plans/release_handoff.toml):   *)
(* the hand-offs it proposes (handoffs.py), the finding (finding.py) and   *)
(* what an answer about that finding may say (claims.py, templates.py).    *)
(*                                                                         *)
(* An open serious item is a member of Item; the critical ones block the   *)
(* release.  OwnersOf[i] is the set of teams whose topic words item i's    *)
(* title matches (handoffs.toml).  A read that failed is Unread.  Platform *)
(* text, topic words and the wording of an answer are not modelled.        *)
(***************************************************************************)
EXTENDS Naturals, FiniteSets

CONSTANTS Item, Critical, Owner, OwnersOf, Unread

ASSUME ItemsAssumption == Critical \subseteq Item /\ OwnersOf \in [Item -> SUBSET Owner]

Known(list) == IF list = Unread THEN {} ELSE list

\* Release blockers and open serious feedback, one entry per item.
OpenSeriousItems(gate, rows) == Known(gate) \cup Known(rows)

\* One hand-off for each owner, citing the items behind it.
ProposeHandoffs(items) ==
    [o \in UNION {OwnersOf[i] : i \in items} |-> {i \in items : o \in OwnersOf[i]}]

\* What stands for a failed read is no verdict and no hand-off list.
ASSUME UnreadAssumption == Unread \notin BOOLEAN /\ \A items \in SUBSET Item : ProposeHandoffs(items) # Unread

\* The result of node file_handoffs: what it filed, what it found already
\* open (escalation numbers) and the owners it could not file for.
Filing == [verdict : {"none", "handed_off", "declined", "resolved", "failed"},
           escalations : SUBSET Nat, already : SUBSET Nat, errors : SUBSET Owner]

NotRun == [verdict |-> "none", escalations |-> {}, already |-> {}, errors |-> {}]

\* The gate is ready when nothing blocks it.
Ready(gate) == IF gate = Unread THEN Unread ELSE gate = {}

\* The hand-off section of the finding.  A feedback list the platform returned
\* only in part declines the section, whatever the node filed.
HandoffSection(read, filing, dry) ==
    LET proposed == ProposeHandoffs(OpenSeriousItems(read.gate, read.rows))
    IN IF read.cut
       THEN [outcome |-> "declined", proposed |-> ProposeHandoffs({}), unavailable |-> {}, previewed |-> {},
             filed |-> FALSE, escalations |-> {}, already |-> {}]
       ELSE [outcome |-> "answered", proposed |-> proposed,
             unavailable |-> {source \in {"gate", "rows"} : read[source] = Unread},
             previewed |-> IF filing.verdict = "none" THEN {} ELSE DOMAIN proposed,
             filed |-> /\ ~dry
                       /\ filing.verdict = "resolved"
                       /\ filing.escalations \cup filing.already # {}
                       /\ filing.errors = {},
             escalations |-> filing.escalations, already |-> filing.already]

Finding(read, filing, dry) ==
    [gate |-> Ready(read.gate), blockers |-> Known(read.gate),
     handoffs |-> HandoffSection(read, filing, dry)]

(***************************************************************************)
(* An answer, by what a reader takes from it: the verdict on the release,  *)
(* the teams it names, the escalation numbers it gives, whether it says    *)
(* that hand-offs are only proposed, that no other team must act, that     *)
(* something was filed.                                                    *)
(***************************************************************************)
Answer == [verdict : BOOLEAN \cup {Unread}, owners : SUBSET Owner, numbers : SUBSET Nat,
           proposedOnly : BOOLEAN, noOther : BOOLEAN, saysFiled : BOOLEAN]

NothingFiled(h) == ~h.filed /\ h.escalations = {}

\* What the audit makes an answer say (handoff_facts, required_facts).
SaysWhatIsRequired(a, f) ==
    LET h == f.handoffs
    IN h.outcome = "answered" =>
         /\ a.owners = DOMAIN h.proposed
         /\ a.numbers = h.escalations \cup h.already
         /\ (DOMAIN h.proposed # {} /\ NothingFiled(h)) => a.proposedOnly
         /\ DOMAIN h.proposed = {} => a.noOther

\* What it does not let an answer say (handoff_contradictions).
Contradicts(a, f) == a.saysFiled /\ NothingFiled(f.handoffs)

\* The answers compose_answer can give: a draft the audit lets through, or
\* the template, which is written to pass it.
Answers(f) ==
    LET h == f.handoffs
    IN {a \in [verdict : {f.gate}, owners : {DOMAIN h.proposed},
               numbers : {h.escalations \cup h.already},
               proposedOnly : BOOLEAN, noOther : BOOLEAN, saysFiled : BOOLEAN] :
           SaysWhatIsRequired(a, f) /\ ~Contradicts(a, f)}
=============================================================================
