----------------------------- MODULE LLMGateway -----------------------------
(***************************************************************************)
(* The LLM gateway of a run (agentkit/llm/gateway.py): one call at a time   *)
(* walks over the providers of its tier and over the keys of each provider, *)
(* retries, cools keys down and remembers complete replies.  What a         *)
(* provider answers is a choice; a reply is "good" or "bad" for whoever     *)
(* asked, or "cut" when it is not complete.                                 *)
(***************************************************************************)
EXTENDS Integers, Sequences, FiniteSets

CONSTANTS
    Tiers,        \* tiers of config/routing.toml
    Order,        \* candidate_order(tier): a sequence of providers
    Providers,    \* rows with an adapter
    NKeys,        \* number of keys of each row, 0 when none is set
    Rpm,          \* calls per window and key
    Window,       \* 60 s
    MaxAttempts,  \* max_attempts
    Cooldown,     \* FAILURE_COOLDOWN_S
    AuthCooldown, \* AUTH_COOLDOWN_S
    RunTime,      \* the longest a run takes, less than BUDGET_COOLDOWN_S
    CacheSize     \* maxsize of the response cache

(* What a row of config/routing.toml may say.  All rows have one limit and  *)
(* the same cool-downs here.                                                *)
ProviderSpec ==
    /\ NKeys \in [Providers -> Nat]
    /\ {Rpm, Cooldown, AuthCooldown} \subseteq Nat \ {0}

(* No row twice (Providers is a set), no tier that names another row.       *)
RoutingConfig == Order \in [Tiers -> Seq(Providers)]

ASSUME GatewayAssumption ==
    /\ ProviderSpec /\ RoutingConfig
    /\ {Window, MaxAttempts, CacheSize} \subseteq Nat \ {0}
    /\ RunTime \in Nat

BudgetCooldown == RunTime + 1

Row(p) == {p} \X (1 .. NKeys[p])
Keys == UNION {Row(p) : p \in Providers}

VARIABLES
    now,       \* the clock
    calls,     \* times of the recent calls with a key
    coolUntil, \* when the key's cool-down is over
    turn,      \* round-robin position of each row
    cache,     \* prompts and replies, the most recently used last
    pc,        \* "idle" | "row" | "key" | "try" | "sent" | "end"
    prompt,    \* what is asked: a record with at least its tier
    pos,       \* position in the order of the tier
    keys,      \* keys of the row not looked at yet
    attempt,   \* attempt with the first of them
    result,    \* outcome of the last call: a reply or "failed"
    paid,      \* replies in the ledger
    gone,      \* history: keys whose token budget is spent
    ruled      \* history: rows and keys this call ruled out

rates == <<calls, coolUntil, turn>>
place == <<prompt, pos, keys, attempt>>
gatewayVars == <<now, rates, cache, pc, place, result, paid, gone, ruled>>

GatewayInit ==
    /\ now = 0
    /\ calls = [k \in Keys |-> <<>>] /\ coolUntil = [k \in Keys |-> 0]
    /\ turn = [p \in Providers |-> 0]
    /\ cache = <<>> /\ pc = "idle" /\ prompt = <<>> /\ pos = 0 /\ keys = <<>> /\ attempt = 0
    /\ result = "none" /\ paid = 0 /\ gone = {} /\ ruled = {}

(* The calls older than the window.  Calls are recorded in the order of     *)
(* time, so that these are the first.                                       *)
Old(k) == {i \in DOMAIN calls[k] : now - calls[k][i] >= Window}
Recent(k) == SubSeq(calls[k], Cardinality(Old(k)) + 1, Len(calls[k]))

\* Mutant: one call more.
AvailableAtTheLimit(k) == now >= coolUntil[k] /\ Len(Recent(k)) <= Rpm

Available(k) == now >= coolUntil[k] /\ Len(Recent(k)) < Rpm

\* Mutant: the last cool-down replaces the one before.
CooledAfresh(ks, seconds) == [k \in Keys |-> IF k \in ks THEN now + seconds ELSE coolUntil[k]]

(* cool_down never shortens a cool-down. *)
Cooled(ks, seconds) ==
    [k \in Keys |-> IF k \in ks /\ coolUntil[k] < now + seconds THEN now + seconds ELSE coolUntil[k]]

(* The row's keys, starting with the next in turn. *)
KeyOrder(p) == [i \in 1 .. NKeys[p] |-> <<p, ((turn[p] + i - 1) % NKeys[p]) + 1>>]

Key == Head(keys)
Provider == Order[prompt.tier][pos]

(* An entry of the ledger: every reply costs one, whoever gave it and       *)
(* whatever it says.                                                        *)
Recorded == paid + 1

(* Why a provider stopped (_norm_stop); "other" is a reason of its own.     *)
Stop == {"end_turn", "max_tokens", "refusal", "other"}
Complete(stop) == stop = "end_turn"

(* What a failed attempt was about (ProviderFault, _post).                  *)
KeyFaults == {"limit", "auth", "spent"}
RowFaults == {"server", "request"}
Retryable == {"server", "limit"}

----------------------------------------------------------------------------
(* The cache *)

Cached(p) == {i \in DOMAIN cache : cache[i].prompt = p}

Remembered(p, r) ==
    LET at == CHOOSE i \in Cached(p) : TRUE
        others == IF Cached(p) = {} THEN cache
                  ELSE SubSeq(cache, 1, at - 1) \o SubSeq(cache, at + 1, Len(cache))
        all == Append(others, [prompt |-> p, reply |-> r])
    IN  IF Len(all) > CacheSize THEN Tail(all) ELSE all

----------------------------------------------------------------------------
(* _call_detailed *)

(* Time passes while a provider is waited for, and between calls.           *)
Tick == pc \in {"idle", "sent"} /\ now < RunTime /\ now' = now + 1
        /\ UNCHANGED <<rates, cache, pc, place, result, paid, gone, ruled>>

Ends(r) == pc' = "end" /\ result' = r /\ pos' = 0 /\ keys' = <<>> /\ attempt' = 0 /\ prompt' = prompt

(* The caller has its result; what the call remembered is gone.             *)
Back ==
    /\ pc = "end" /\ pc' = "idle"
    /\ prompt' = <<>> /\ result' = "none" /\ ruled' = {}
    /\ UNCHANGED <<now, rates, cache, pos, keys, attempt, paid, gone>>

Hit(p) ==
    \E i \in Cached(p) :
        /\ cache' = Remembered(p, cache[i].reply)
        /\ Ends(cache[i].reply)
        /\ UNCHANGED <<now, rates, paid, gone, ruled>>

Miss(p) ==
    /\ prompt' = p /\ pos' = 1 /\ pc' = "row" /\ ruled' = {}
    /\ UNCHANGED <<now, rates, cache, keys, attempt, result, paid, gone>>

(* The next row of the order: one without a key is passed over. *)
OpenRow ==
    /\ pc = "row" /\ pos <= Len(Order[prompt.tier])
    /\ \/ NKeys[Provider] = 0 /\ pos' = pos + 1 /\ UNCHANGED <<pc, keys, turn>>
       \/ /\ NKeys[Provider] > 0
          /\ keys' = KeyOrder(Provider)
          /\ turn' = [turn EXCEPT ![Provider] = (@ + 1) % NKeys[Provider]]
          /\ pc' = "key" /\ UNCHANGED pos
    /\ UNCHANGED <<now, calls, coolUntil, cache, prompt, attempt, result, paid, gone, ruled>>

NoRowLeft ==
    /\ pc = "row" /\ pos > Len(Order[prompt.tier])
    /\ Ends("failed")
    /\ UNCHANGED <<now, rates, cache, paid, gone, ruled>>

NextRow == pc' = "row" /\ pos' = pos + 1 /\ keys' = <<>> /\ attempt' = 0

\* Mutant: a key's fault is taken for its row's.
LeaveRow == NextRow

(* The key is done with: the next one of the row, or the next row. *)
NextKey ==
    IF Len(keys) > 1 THEN pc' = "key" /\ keys' = Tail(keys) /\ attempt' = 0 /\ pos' = pos ELSE NextRow

(* A key that cools down is passed over before its calls are looked at.     *)
SkipKey ==
    /\ pc = "key" /\ ~Available(Key)
    /\ calls' = IF now < coolUntil[Key] THEN calls ELSE [calls EXCEPT ![Key] = Recent(Key)]
    /\ ruled' = ruled \cup {Key}
    /\ NextKey
    /\ UNCHANGED <<now, coolUntil, turn, cache, prompt, result, paid, gone>>

TakeKey ==
    /\ pc = "key" /\ Available(Key)
    /\ calls' = [calls EXCEPT ![Key] = Recent(Key)]
    /\ pc' = "try" /\ attempt' = 1
    /\ UNCHANGED <<now, coolUntil, turn, cache, prompt, pos, keys, result, paid, gone, ruled>>

----------------------------------------------------------------------------
(* _try_key: every attempt is recorded, only the first is asked for *)

Send ==
    /\ pc = "try"
    /\ calls' = [calls EXCEPT ![Key] = Append(@, now)]
    /\ pc' = "sent"
    /\ UNCHANGED <<now, coolUntil, turn, cache, place, result, paid, gone, ruled>>

(* A reply is in the ledger whatever it is; only a complete one is cached.  *)
Reply(r, stop) ==
    /\ pc = "sent"
    /\ stop = "max_tokens" <=> r = "cut"
    /\ Ends(r) /\ paid' = Recorded
    /\ cache' = IF Complete(stop) THEN Remembered(prompt, r) ELSE cache
    /\ UNCHANGED <<now, rates, gone, ruled>>

(* A refusal, or nothing but reasoning: paid for, and the next row.         *)
Refusal ==
    /\ pc = "sent"
    /\ paid' = Recorded /\ ruled' = ruled \cup Row(Provider)
    /\ NextRow
    /\ UNCHANGED <<now, rates, cache, prompt, result, gone>>

Retried(fault) ==
    /\ attempt < MaxAttempts
    /\ fault \in Retryable /\ (fault = "limit" => NKeys[Provider] = 1)

Retry ==
    /\ pc = "sent" /\ \E fault \in Retryable : Retried(fault)
    /\ pc' = "try" /\ attempt' = attempt + 1
    /\ UNCHANGED <<now, rates, cache, prompt, pos, keys, result, paid, gone, ruled>>

(* A rate limit, a bad key or a spent budget belongs to the key.            *)
KeyFault(fault) ==
    /\ pc = "sent" /\ ~Retried(fault)
    /\ \/ fault = "limit" /\ coolUntil' = Cooled({Key}, Cooldown) /\ UNCHANGED gone
       \/ fault = "auth" /\ coolUntil' = Cooled({Key}, AuthCooldown) /\ UNCHANGED gone
       \/ fault = "spent" /\ coolUntil' = Cooled({Key}, BudgetCooldown) /\ gone' = gone \cup {Key}
    /\ ruled' = ruled \cup {Key}
    /\ NextKey
    /\ UNCHANGED <<now, calls, turn, cache, prompt, result, paid>>

(* A server that is down cools every key of the row; a request the provider *)
(* cannot take cools none.  Either way the next row is tried.               *)
RowFault(fault) ==
    /\ pc = "sent" /\ ~Retried(fault)
    /\ \/ fault = "server" /\ coolUntil' = Cooled(Row(Provider), Cooldown)
       \/ fault = "request" /\ UNCHANGED coolUntil
    /\ ruled' = ruled \cup Row(Provider)
    /\ NextRow
    /\ UNCHANGED <<now, calls, turn, cache, prompt, result, paid, gone>>

Step ==
    \/ OpenRow \/ NoRowLeft \/ SkipKey \/ TakeKey \/ Send \/ Refusal \/ Retry
    \/ \E r \in {"good", "bad", "cut"}, stop \in Stop \ {"refusal"} : Reply(r, stop)
    \/ \E fault \in KeyFaults : KeyFault(fault)
    \/ \E fault \in RowFaults : RowFault(fault)
=============================================================================
