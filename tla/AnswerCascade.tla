---------------------------- MODULE AnswerCascade ----------------------------
(***************************************************************************)
(* How an answer is worded (compose_answer of agentkit/answer/narrator.py)  *)
(* over the gateway: a cascade of tiers, cheap first, an audit of every     *)
(* draft, one rewrite, a cost limit, and the template when all that fails.  *)
(***************************************************************************)
EXTENDS LLMGateway

CONSTANTS
    Questions,   \* questions asked through one gateway
    Cascade,     \* the tiers, cheap first
    MaxDrafts,   \* MAX_ATTEMPTS of the last tier
    MaxPaid,     \* max_cost_usd, a reply costs one
    MaxAnswers   \* bound: answers composed in a run

ASSUME CascadeAssumption ==
    /\ Cascade \in Seq(Tiers) /\ Cascade # <<>>
    /\ {MaxDrafts, MaxAnswers} \subseteq Nat \ {0}
    /\ MaxPaid \in Nat

VARIABLES
    question,  \* the question being answered, "none" between answers
    tier,      \* position in the cascade
    draft,     \* drafts of this tier so far
    rewrite,   \* does the prompt carry a draft that failed the audit?
    source,    \* where the last answer came from
    answers    \* answers so far

cascade == <<question, tier, draft, rewrite, source, answers>>
vars == <<gatewayVars, cascade>>

Init ==
    /\ GatewayInit
    /\ question = "none" /\ tier = 0 /\ draft = 0 /\ rewrite = FALSE
    /\ source = "none" /\ answers = 0

Compose(q) ==
    /\ question = "none" /\ answers < MaxAnswers
    /\ question' = q /\ tier' = 1 /\ draft' = 0 /\ rewrite' = FALSE
    /\ source' = "none" /\ answers' = answers + 1
    /\ UNCHANGED gatewayVars

LastTier == tier = Len(Cascade)
Prompt == [tier |-> Cascade[tier], question |-> question, rewrite |-> rewrite]

Answered(from) ==
    /\ source' = from /\ question' = "none"
    /\ tier' = 0 /\ draft' = 0 /\ rewrite' = FALSE
    /\ UNCHANGED answers

\* Mutant: the limit is looked at once for each tier.
AffordableTier == draft > 0 \/ paid < MaxPaid

Affordable == paid < MaxPaid

(* A draft is asked for unless the ledger has reached the limit.  A rewrite *)
(* repeats the draft it corrects, so it is only perhaps the cached prompt.  *)
Ask ==
    /\ question # "none" /\ pc = "idle" /\ tier <= Len(Cascade) /\ Affordable
    /\ \/ Hit(Prompt)
       \/ (Cached(Prompt) = {} \/ rewrite) /\ Miss(Prompt)
    /\ draft' = draft + 1
    /\ UNCHANGED <<question, tier, rewrite, source, answers>>

OverBudget ==
    /\ question # "none" /\ pc = "idle" /\ tier <= Len(Cascade) /\ ~Affordable
    /\ Answered("template") /\ UNCHANGED gatewayVars

NoTierLeft ==
    /\ question # "none" /\ pc = "idle" /\ tier > Len(Cascade)
    /\ Answered("template") /\ UNCHANGED gatewayVars

LeaveTier == tier' = tier + 1 /\ draft' = 0 /\ UNCHANGED <<question, source, answers>>

\* Mutant: a cheap draft that was cut off leads nowhere.
NextTierWhenDown ==
    /\ Back /\ result = "failed"
    /\ LeaveTier /\ UNCHANGED rewrite

(* Every provider of the tier is down, or a cheap draft was cut off.        *)
NextTier ==
    /\ Back /\ (result = "failed" \/ (result = "cut" /\ ~LastTier))
    /\ LeaveTier /\ UNCHANGED rewrite

CutOff ==
    /\ Back /\ result = "cut" /\ LastTier
    /\ Answered("template")

Passes ==
    /\ Back /\ result = "good"
    /\ Answered("llm")

(* The audit failed: the next prompt says what was wrong.                   *)
Fails ==
    /\ Back /\ result = "bad"
    /\ rewrite' = TRUE
    /\ \/ LastTier /\ draft < MaxDrafts /\ UNCHANGED <<question, tier, draft, source, answers>>
       \/ ~(LastTier /\ draft < MaxDrafts) /\ LeaveTier

Work == Ask \/ OverBudget \/ NoTierLeft \/ NextTier \/ CutOff \/ Passes \/ Fails
          \/ (Step /\ UNCHANGED cascade)

Next == (\E q \in Questions : Compose(q)) \/ Work \/ (Tick /\ UNCHANGED cascade)

Spec == Init /\ [][Next]_vars

(* The thread runs and every HTTP call has a timeout.                       *)
FairSpec == Spec /\ WF_vars(Work)

----------------------------------------------------------------------------
(* Properties *)

(* The rate window of a key is checked before the first attempt only; even  *)
(* so, no window ever holds more calls than one call's retries allow.       *)
WindowBounded == \A k \in Keys : Len(Recent(k)) <= Rpm - 1 + MaxAttempts

(* A key whose token budget is spent is never called again in the run,      *)
(* whatever shorter cool-down its row gets later.                           *)
SpentKeysRest ==
    [][\A k \in gone : calls'[k] = calls[k]]_vars

(* A call fails only when each key of each row of its tier was cooling, at  *)
(* its rate limit, at fault, or given up with its row.                      *)
FailedMeansAllTried ==
    (pc = "end" /\ result = "failed") =>
        \A i \in DOMAIN Order[prompt.tier] : Row(Order[prompt.tier][i]) \subseteq ruled

(* The cost limit is looked at between calls: it is passed by no more than  *)
(* the replies of one call, one for each row with a key of some tier.       *)
RowsWithKeys(t) == Cardinality({i \in DOMAIN Order[t] : NKeys[Order[t][i]] > 0})
SpendingBounded == paid <= MaxPaid \/ \E t \in Tiers : paid < MaxPaid + RowsWithKeys(t)

(* Every question gets an answer, whatever the providers do.                *)
AlwaysAnswered == \A q \in Questions : (question = q) ~> (question = "none" /\ source # "none")
=============================================================================
