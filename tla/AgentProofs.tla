----------------------------- MODULE AgentProofs -----------------------------
(***************************************************************************)
(* Theorems about what an agent asks an LLM for, and about what it does    *)
(* with a question.                                                        *)
(*                                                                         *)
(* AnswerCascade and the gateway under it, for any routing table, any      *)
(* number of keys, any limits and any order of tiers.  Three inductive     *)
(* invariants: the walk over the rows and keys of a call, the rate windows *)
(* and cool-downs of the keys, and the ledger.                             *)
(*                                                                         *)
(* Calibration, for any platform, task, question, reply of the planner,    *)
(* number of faults and other teams' edits: the candidates of a question,  *)
(* what an LLM-made route is, what is known while a file is searched, what *)
(* has been read of the file when it was edited; and for the replays, what *)
(* the results of an undisturbed run are, whatever the order in which its  *)
(* nodes settle, and how a wrong result gets to the check that is to see   *)
(* it.                                                                     *)
(***************************************************************************)
EXTENDS Calibration, AnswerCascade, FiniteSetTheorems, SequenceTheorems, WellFoundedInduction, TLAPS

Prompts == [tier : Tiers, question : Questions, rewrite : BOOLEAN]
Replies == {"good", "bad", "cut"}
Remembering == [prompt : Prompts, reply : Replies]
AtKey == {"key", "try", "sent"}
InCall == {"row"} \cup AtKey
Rows == Order[prompt.tier]

-------------------------------------------------------------------------------
(* The walk of a call over the rows and keys of its tier                   *)

\* Counting round from any place visits every place.
LEMMA Rotation ==
  ASSUME NEW N \in Nat \ {0}, NEW t \in 0 .. N - 1
  PROVE  /\ \A i \in 1 .. N : ((t + i - 1) % N) + 1 \in 1 .. N
         /\ \A j \in 1 .. N : \E i \in 1 .. N : ((t + i - 1) % N) + 1 = j
<1>1. \A a \in Nat : a % N \in 0 .. N - 1
  OBVIOUS
<1>2. \A a \in 0 .. N - 1 : a % N = a
  OBVIOUS
<1>3. \A a \in 0 .. N - 1 : (a + N) % N = a
  OBVIOUS
<1>4. ASSUME NEW i \in 1 .. N
      PROVE  ((t + i - 1) % N) + 1 \in 1 .. N
  <2>1. (t + i - 1) % N \in 0 .. N - 1
    BY <1>1
  <2> QED
    BY <2>1
<1>5. ASSUME NEW j \in 1 .. N
      PROVE  \E i \in 1 .. N : ((t + i - 1) % N) + 1 = j
  <2>1. CASE j - 1 >= t
    <3>1. j - t \in 1 .. N /\ t + (j - t) - 1 = j - 1 /\ j - 1 \in 0 .. N - 1
      BY <2>1
    <3>2. ((t + (j - t) - 1) % N) + 1 = j
      BY <1>2, <3>1
    <3> QED
      BY <3>1, <3>2
  <2>2. CASE j - 1 < t
    <3>1. j - t + N \in 1 .. N /\ t + (j - t + N) - 1 = (j - 1) + N /\ j - 1 \in 0 .. N - 1
      BY <2>2
    <3>2. ((t + (j - t + N) - 1) % N) + 1 = j
      BY <1>3, <3>1
    <3> QED
      BY <3>1, <3>2
  <2> QED
    BY <2>1, <2>2
<1> QED
  BY <1>4, <1>5

\* The keys of a row from the next in turn on are all the keys of the row.
LEMMA KeyOrderIsRow ==
  ASSUME NEW p \in Providers, NKeys[p] \in Nat \ {0}, turn[p] \in 0 .. NKeys[p] - 1
  PROVE  /\ KeyOrder(p) \in Seq(Row(p)) /\ KeyOrder(p) # <<>>
         /\ \A k \in Row(p) : \E i \in DOMAIN KeyOrder(p) : KeyOrder(p)[i] = k
<1> DEFINE N == NKeys[p]
           slot(i) == ((turn[p] + i - 1) % N) + 1
<1>1. /\ \A i \in 1 .. N : slot(i) \in 1 .. N
      /\ \A j \in 1 .. N : \E i \in 1 .. N : slot(i) = j
  BY Rotation
<1>2. KeyOrder(p) = [i \in 1 .. N |-> <<p, slot(i)>>]
  BY DEF KeyOrder
<1>3. N \in Nat \ {0} /\ Row(p) = {p} \X (1 .. N)
  BY DEF Row
<1> HIDE DEF N, slot
<1>4. \A i \in 1 .. N : <<p, slot(i)>> \in Row(p)
  BY <1>1, <1>3
<1>5. ASSUME NEW k \in Row(p)
      PROVE  \E i \in 1 .. N : KeyOrder(p)[i] = k
  <2>1. PICK j \in 1 .. N : k = <<p, j>>
    BY <1>3
  <2>2. PICK i \in 1 .. N : slot(i) = j
    BY <1>1
  <2> QED
    BY <1>2, <2>1, <2>2
<1>6. KeyOrder(p) \in Seq(Row(p)) /\ DOMAIN KeyOrder(p) = 1 .. N /\ Len(KeyOrder(p)) = N
  BY <1>2, <1>3, <1>4
<1> QED
  BY <1>3, <1>5, <1>6

\* Where a call is, and what it has ruled out so far: every row before the
\* one it is at, and of that row every key it does not have ahead of it.
Walk ==
  /\ pc \in {"idle", "end"} \cup InCall
  /\ turn \in [Providers -> Nat]
  /\ \A p \in Providers : NKeys[p] > 0 => turn[p] < NKeys[p]
  /\ pc \in InCall =>
       /\ prompt \in Prompts /\ pos \in 1 .. Len(Rows) + 1
       /\ \A i \in 1 .. pos - 1 : Row(Rows[i]) \subseteq ruled
  /\ pc \in AtKey =>
       /\ pos <= Len(Rows) /\ NKeys[Provider] > 0
       /\ keys \in Seq(Row(Provider)) /\ keys # <<>>
       /\ \A k \in Row(Provider) \ ruled : \E i \in DOMAIN keys : keys[i] = k

\* What is asked for, and what may be remembered.
Asking ==
  /\ question \in Questions \cup {"none"} /\ tier \in Nat /\ rewrite \in BOOLEAN
  /\ question # "none" => tier > 0
  /\ cache \in Seq(Remembering)

WalkInv == Walk /\ Asking /\ FailedMeansAllTried

\* A row of the order is a provider with a number of keys.
LEMMA RowOfOrder ==
  ASSUME prompt \in Prompts, NEW i \in 1 .. Len(Rows)
  PROVE  /\ Rows \in Seq(Providers) /\ DOMAIN Rows = 1 .. Len(Rows) /\ Len(Rows) \in Nat
         /\ Rows[i] \in Providers /\ NKeys[Rows[i]] \in Nat
<1>1. prompt.tier \in Tiers
  BY DEF Prompts
<1> QED
  BY <1>1, GatewayAssumption DEF Rows, RoutingConfig, ProviderSpec

\* The cache holds replies, and never that a call failed.
LEMMA CacheKeepsReplies ==
  ASSUME Asking, NEW p \in Prompts, NEW r \in Replies
  PROVE  Remembered(p, r) \in Seq(Remembering)
<1> DEFINE E == Remembering
           at == CHOOSE i \in Cached(p) : TRUE
           others == IF Cached(p) = {} THEN cache
                     ELSE SubSeq(cache, 1, at - 1) \o SubSeq(cache, at + 1, Len(cache))
           all == Append(others, [prompt |-> p, reply |-> r])
<1>1. cache \in Seq(E)
  BY DEF Asking
<1>2. Cached(p) # {} => at \in 1 .. Len(cache)
  BY <1>1 DEF Cached
<1>5. [prompt |-> p, reply |-> r] \in E
  BY DEF Remembering
<1> HIDE DEF E
<1>3. others \in Seq(E)
  <2>1. CASE Cached(p) = {}
    BY <1>1, <2>1
  <2>2. CASE Cached(p) # {}
    <3> HIDE DEF at
    <3>1. SubSeq(cache, 1, at - 1) \in Seq(E) /\ SubSeq(cache, at + 1, Len(cache)) \in Seq(E)
      BY <1>1, <1>2, <2>2, SubSeqProperties
    <3> QED
      BY <2>2, <3>1, ConcatProperties
  <2> QED
    BY <2>1, <2>2
<1>4. Remembered(p, r) = IF Len(all) > CacheSize THEN Tail(all) ELSE all
  BY DEF Remembered
<1> HIDE DEF others
<1>6. all \in Seq(E) /\ all # <<>>
  BY <1>3, <1>5, AppendProperties
<1>7. Tail(all) \in Seq(E)
  BY <1>6, HeadTailProperties
<1> QED
  BY <1>4, <1>6, <1>7 DEF E

\* The row is left behind with all its keys ruled out.
LEMMA RowDone ==
  ASSUME Walk, pc \in AtKey, NextRow, UNCHANGED <<prompt, turn>>,
         ruled \subseteq ruled', Row(Provider) \subseteq ruled'
  PROVE  Walk' /\ pc' = "row"
<1>1. /\ pos \in 1 .. Len(Rows) /\ prompt \in Prompts
      /\ \A i \in 1 .. pos - 1 : Row(Rows[i]) \subseteq ruled
  BY RowOfOrder DEF Walk, InCall
<1>2. Len(Rows) \in Nat /\ Rows' = Rows /\ Provider = Rows[pos]
  BY <1>1, RowOfOrder DEF Rows, Provider
<1>3. pc' = "row" /\ pos' = pos + 1 /\ pos' \in 1 .. Len(Rows) + 1 /\ pos' - 1 = pos
  BY <1>1, <1>2 DEF NextRow
<1>4. \A i \in 1 .. pos' - 1 : Row(Rows[i]) \subseteq ruled'
  <2> SUFFICES ASSUME NEW i \in 1 .. pos
               PROVE  Row(Rows[i]) \subseteq ruled'
    BY <1>3
  <2>1. CASE i = pos
    BY <1>2, <2>1
  <2>2. CASE i \in 1 .. pos - 1
    BY <1>1, <2>2
  <2> QED
    BY <1>1, <2>1, <2>2
<1> QED
  BY <1>1, <1>2, <1>3, <1>4 DEF Walk, InCall, AtKey

\* The key is ruled out, and with the last one the row.
LEMMA KeyDone ==
  ASSUME Walk, pc \in AtKey, NextKey, UNCHANGED <<prompt, turn>>,
         ruled' = ruled \cup {Key}
  PROVE  Walk' /\ pc' \in {"row", "key"}
<1>1. /\ pos \in 1 .. Len(Rows) /\ prompt \in Prompts /\ NKeys[Provider] > 0
      /\ \A i \in 1 .. pos - 1 : Row(Rows[i]) \subseteq ruled
      /\ keys \in Seq(Row(Provider)) /\ keys # <<>>
      /\ \A k \in Row(Provider) \ ruled : \E i \in DOMAIN keys : keys[i] = k
  BY RowOfOrder DEF Walk, InCall
<1>2. Key = keys[1] /\ Len(keys) \in Nat \ {0} /\ DOMAIN keys = 1 .. Len(keys)
  BY <1>1 DEF Key
<1>3. CASE Len(keys) > 1
  <2>1. pc' = "key" /\ keys' = Tail(keys) /\ pos' = pos /\ Rows' = Rows /\ Provider' = Provider
    BY <1>3 DEF NextKey, Rows, Provider
  <2>2. /\ keys' \in Seq(Row(Provider)) /\ Len(keys') = Len(keys) - 1 /\ DOMAIN keys' = 1 .. Len(keys')
        /\ \A i \in 1 .. Len(keys') : keys'[i] = keys[i + 1]
    BY <1>1, <2>1, HeadTailProperties
  <2>3. ASSUME NEW k \in Row(Provider) \ ruled'
        PROVE  \E i \in DOMAIN keys' : keys'[i] = k
    <3>1. PICK i \in DOMAIN keys : keys[i] = k
      BY <1>1, <2>3
    <3>2. i # 1
      BY <1>2, <2>3, <3>1
    <3>3. i - 1 \in DOMAIN keys' /\ keys'[i - 1] = k
      BY <1>2, <2>2, <3>1, <3>2
    <3> QED
      BY <3>3
  <2>4. keys' # <<>>
    BY <1>3, <2>2
  <2>5. \A i \in 1 .. pos - 1 : Row(Rows[i]) \subseteq ruled'
    BY <1>1
  <2> QED
    BY <1>1, <2>1, <2>2, <2>3, <2>4, <2>5 DEF Walk, InCall, AtKey
<1>4. CASE ~(Len(keys) > 1)
  <2>1. Row(Provider) \subseteq ruled'
    BY <1>1, <1>2, <1>4
  <2> QED
    BY <1>4, <2>1, RowDone DEF NextKey
<1> QED
  BY <1>3, <1>4

\* What a step of the gateway does to a call.
LEMMA WalkStep ==
  ASSUME WalkInv, Step
  PROVE  Walk' /\ FailedMeansAllTried' /\ cache' \in Seq(Remembering)
<1>0. Walk /\ Asking
  BY DEF WalkInv
<1>1. CASE OpenRow
  <2>1. /\ pos \in 1 .. Len(Rows) /\ prompt \in Prompts
        /\ \A i \in 1 .. pos - 1 : Row(Rows[i]) \subseteq ruled
    BY <1>0, <1>1 DEF OpenRow, Walk, InCall, Rows
  <2>2. /\ Provider = Rows[pos] /\ Rows' = Rows /\ Len(Rows) \in Nat
        /\ Provider \in Providers /\ NKeys[Provider] \in Nat
    BY <1>1, <2>1, RowOfOrder DEF OpenRow, Rows, Provider
  <2>3. UNCHANGED <<prompt, cache, result, ruled>>
    BY <1>1 DEF OpenRow
  <2>4. CASE NKeys[Provider] = 0
    <3>1. pc' = "row" /\ pos' = pos + 1 /\ UNCHANGED turn
      BY <1>1, <2>4 DEF OpenRow
    <3>2. Row(Provider) = {}
      BY <2>4 DEF Row
    <3>3. \A i \in 1 .. pos' - 1 : Row(Rows[i]) \subseteq ruled
      <4> SUFFICES ASSUME NEW i \in 1 .. pos
                   PROVE  Row(Rows[i]) \subseteq ruled
        BY <2>1, <3>1
      <4> QED
        BY <2>1, <2>2, <3>2
    <3>4. pos' \in 1 .. Len(Rows) + 1
      BY <2>1, <2>2, <3>1
    <3>5. Walk'
      BY <1>0, <2>1, <2>2, <2>3, <3>1, <3>3, <3>4 DEF Walk, InCall, AtKey
    <3> QED
      BY <1>0, <2>3, <3>1, <3>5 DEF Asking, FailedMeansAllTried
  <2>5. CASE NKeys[Provider] > 0
    <3> DEFINE N == NKeys[Provider]
    <3>1. /\ pc' = "key" /\ keys' = KeyOrder(Provider) /\ UNCHANGED pos
          /\ turn' = [turn EXCEPT ![Provider] = (@ + 1) % N]
      BY <1>1, <2>5 DEF OpenRow
    <3>2. turn \in [Providers -> Nat] /\ turn[Provider] \in 0 .. N - 1
      BY <1>0, <2>2, <2>5 DEF Walk
    <3>3. (turn[Provider] + 1) % N \in 0 .. N - 1
      <4> HIDE DEF N
      <4>1. \A a \in Nat : a % N \in 0 .. N - 1
        BY <2>2, <2>5 DEF N
      <4> QED
        BY <3>2, <4>1
    <3>4. turn' \in [Providers -> Nat] /\ \A p \in Providers : NKeys[p] > 0 => turn'[p] < NKeys[p]
      BY <1>0, <2>2, <3>1, <3>2, <3>3 DEF Walk
    <3>5. /\ keys' \in Seq(Row(Provider)) /\ keys' # <<>>
          /\ \A k \in Row(Provider) : \E i \in DOMAIN keys' : keys'[i] = k
      BY <2>2, <2>5, <3>1, <3>2, KeyOrderIsRow
    <3>6. Provider' = Provider
      BY <2>3, <3>1 DEF Provider
    <3>7. Walk'
      BY <2>1, <2>2, <2>3, <2>5, <3>1, <3>4, <3>5, <3>6 DEF Walk, InCall, AtKey
    <3> QED
      BY <1>0, <2>3, <3>1, <3>7 DEF Asking, FailedMeansAllTried
  <2> QED
    BY <2>2, <2>4, <2>5
<1>2. CASE NoRowLeft
  <2>1. /\ pc = "row" /\ pc' = "end" /\ pos > Len(Rows) /\ UNCHANGED <<turn, prompt, cache, ruled>>
    BY <1>2 DEF NoRowLeft, Ends, Rows, rates
  <2>2. /\ pos \in 1 .. Len(Rows) + 1 /\ prompt \in Prompts
        /\ \A i \in 1 .. pos - 1 : Row(Rows[i]) \subseteq ruled
    BY <1>0, <2>1 DEF Walk, InCall
  <2>3. DOMAIN Rows = 1 .. Len(Rows) /\ Len(Rows) \in Nat
    BY <2>2, GatewayAssumption DEF Rows, RoutingConfig, Prompts
  <2>4. \A i \in DOMAIN Rows : Row(Rows[i]) \subseteq ruled
    BY <2>1, <2>2, <2>3
  <2>5. FailedMeansAllTried'
    BY <2>1, <2>4 DEF FailedMeansAllTried, Rows
  <2>6. Walk'
    BY <1>0, <2>1 DEF Walk, InCall, AtKey
  <2> QED
    BY <1>0, <2>1, <2>5, <2>6 DEF Asking
<1>3. CASE SkipKey
  <2>1. /\ pc = "key" /\ NextKey /\ ruled' = ruled \cup {Key} /\ UNCHANGED <<prompt, turn, cache>>
    BY <1>3 DEF SkipKey
  <2>2. Walk' /\ pc' \in {"row", "key"}
    BY <1>0, <2>1, KeyDone DEF AtKey
  <2> QED
    BY <1>0, <2>1, <2>2 DEF Asking, FailedMeansAllTried
<1>4. CASE TakeKey \/ Send \/ Retry
  <2>1. /\ pc \in AtKey /\ pc' \in {"try", "sent"}
        /\ UNCHANGED <<prompt, pos, keys, turn, cache, ruled>>
    BY <1>4 DEF TakeKey, Send, Retry, AtKey, place, rates
  <2>2. Walk'
    BY <1>0, <2>1 DEF Walk, InCall, AtKey, Rows, Provider
  <2> QED
    BY <1>0, <2>1, <2>2 DEF Asking, FailedMeansAllTried
<1>5. CASE Refusal
  <2>1. /\ pc = "sent" /\ NextRow /\ ruled' = ruled \cup Row(Provider) /\ UNCHANGED <<prompt, turn, cache>>
    BY <1>5 DEF Refusal, rates
  <2>2. Walk' /\ pc' = "row"
    BY <1>0, <2>1, RowDone DEF AtKey
  <2> QED
    BY <1>0, <2>1, <2>2 DEF Asking, FailedMeansAllTried
<1>6. ASSUME NEW r \in Replies, NEW stop \in Stop, Reply(r, stop)
      PROVE  Walk' /\ FailedMeansAllTried' /\ cache' \in Seq(Remembering)
  <2>1. /\ pc = "sent" /\ pc' = "end" /\ result' = r /\ UNCHANGED turn
        /\ cache' = Remembered(prompt, r) \/ cache' = cache
    BY <1>6 DEF Reply, Ends, rates
  <2>2. prompt \in Prompts
    BY <1>0, <2>1 DEF Walk, InCall, AtKey
  <2>3. cache' \in Seq(Remembering)
    BY <1>0, <2>1, <2>2, CacheKeepsReplies DEF Asking
  <2>4. Walk'
    BY <1>0, <2>1 DEF Walk, InCall, AtKey
  <2> QED
    BY <2>1, <2>3, <2>4 DEF FailedMeansAllTried, Replies
<1>7. ASSUME NEW fault \in KeyFaults, KeyFault(fault)
      PROVE  Walk' /\ FailedMeansAllTried' /\ cache' \in Seq(Remembering)
  <2>1. /\ pc = "sent" /\ NextKey /\ ruled' = ruled \cup {Key} /\ UNCHANGED <<prompt, turn, cache>>
    BY <1>7 DEF KeyFault
  <2>2. Walk' /\ pc' \in {"row", "key"}
    BY <1>0, <2>1, KeyDone DEF AtKey
  <2> QED
    BY <1>0, <2>1, <2>2 DEF Asking, FailedMeansAllTried
<1>8. ASSUME NEW fault \in RowFaults, RowFault(fault)
      PROVE  Walk' /\ FailedMeansAllTried' /\ cache' \in Seq(Remembering)
  <2>1. /\ pc = "sent" /\ NextRow /\ ruled' = ruled \cup Row(Provider) /\ UNCHANGED <<prompt, turn, cache>>
    BY <1>8 DEF RowFault
  <2>2. Walk' /\ pc' = "row"
    BY <1>0, <2>1, RowDone DEF AtKey
  <2> QED
    BY <1>0, <2>1, <2>2 DEF Asking, FailedMeansAllTried
<1> QED
  BY <1>1, <1>2, <1>3, <1>4, <1>5, <1>6, <1>7, <1>8 DEF Step, Replies

\* A question is asked for in a tier of the cascade.
LEMMA PromptIsPrompt ==
  ASSUME Asking, question # "none", tier <= Len(Cascade)
  PROVE  Prompt \in Prompts
<1>1. tier \in 1 .. Len(Cascade) /\ question \in Questions /\ rewrite \in BOOLEAN
  BY DEF Asking
<1>2. Cascade[tier] \in Tiers
  BY <1>1, CascadeAssumption
<1> QED
  BY <1>1, <1>2 DEF Prompt, Prompts

\* Every step keeps the walk and what it has ruled out.
LEMMA WalkKept == WalkInv /\ [Next]_vars => WalkInv'
<1> SUFFICES ASSUME WalkInv, [Next]_vars
             PROVE  WalkInv'
  OBVIOUS
<1>0. Walk /\ Asking /\ FailedMeansAllTried
  BY DEF WalkInv
<1>1. ASSUME NEW q \in Questions, Compose(q)
      PROVE  WalkInv'
  <2>1. /\ question' = q /\ tier' = 1 /\ rewrite' = FALSE
        /\ UNCHANGED <<pc, prompt, pos, keys, turn, cache, ruled, result>>
    BY <1>1 DEF Compose, gatewayVars, place, rates
  <2> QED
    <3>1. Walk'
      BY <1>0, <2>1 DEF Walk, Rows, Provider
    <3>2. rewrite' \in BOOLEAN
      BY <2>1, Zenon
    <3>3. question' \in Questions \cup {"none"} /\ tier' = 1 /\ cache' = cache
      BY <1>1, <2>1
    <3>4. Asking'
      BY <1>0, <3>2, <3>3 DEF Asking
    <3> QED
      BY <1>0, <2>1, <3>1, <3>4 DEF WalkInv, FailedMeansAllTried
<1>2. CASE Ask
  <2>1. /\ pc = "idle" /\ Prompt \in Prompts /\ UNCHANGED <<question, tier, rewrite>>
        /\ Hit(Prompt) \/ Miss(Prompt)
    BY <1>0, <1>2, PromptIsPrompt DEF Ask
  <2>2. CASE Hit(Prompt)
    <3>1. PICK i \in Cached(Prompt) :
            /\ cache' = Remembered(Prompt, cache[i].reply) /\ Ends(cache[i].reply) /\ UNCHANGED <<rates, ruled>>
      BY <2>2 DEF Hit
    <3>2. cache[i].reply \in Replies
      <4>1. i \in 1 .. Len(cache) /\ cache \in Seq(Remembering)
        BY <1>0 DEF Asking, Cached
      <4>2. cache[i] \in Remembering
        BY <4>1
      <4> QED
        BY <4>2 DEF Remembering
    <3>3. cache' \in Seq(Remembering)
      BY <1>0, <2>1, <3>1, <3>2, CacheKeepsReplies
    <3>4. pc' = "end" /\ result' # "failed" /\ UNCHANGED turn
      BY <3>1, <3>2 DEF Ends, Replies, rates
    <3> QED
      BY <1>0, <2>1, <3>3, <3>4 DEF WalkInv, Walk, Asking, FailedMeansAllTried, InCall, AtKey
  <2>3. CASE Miss(Prompt)
    <3>1. prompt' = Prompt /\ pos' = 1 /\ pc' = "row" /\ UNCHANGED <<turn, cache>>
      BY <2>3 DEF Miss, rates
    <3>2. Len(Rows') \in Nat
      BY <2>1, <3>1, GatewayAssumption DEF Rows, Prompts, RoutingConfig
    <3>3. Walk'
      BY <1>0, <2>1, <3>1, <3>2 DEF Walk, InCall, AtKey
    <3> QED
      BY <1>0, <2>1, <3>1, <3>3 DEF WalkInv, Asking, FailedMeansAllTried
  <2> QED
    BY <2>1, <2>2, <2>3
<1>3. CASE OverBudget \/ NoTierLeft
  <2>1. /\ question' = "none" /\ tier' = 0 /\ rewrite' = FALSE
        /\ UNCHANGED <<pc, prompt, pos, keys, turn, cache, ruled, result>>
    BY <1>3 DEF OverBudget, NoTierLeft, Answered, gatewayVars, place, rates
  <2> QED
    BY <1>0, <2>1 DEF WalkInv, Walk, Asking, FailedMeansAllTried, Rows, Provider
<1>4. CASE NextTier \/ CutOff \/ Passes \/ Fails
  <2>1. pc' = "idle" /\ UNCHANGED <<turn, cache>>
    BY <1>4 DEF NextTier, CutOff, Passes, Fails, Back, rates
  <2>2. /\ question' \in {question, "none"} /\ rewrite' \in BOOLEAN
        /\ tier' \in {tier, tier + 1} \/ (tier' = 0 /\ question' = "none")
    BY <1>0, <1>4 DEF NextTier, CutOff, Passes, Fails, Answered, LeaveTier, Asking
  <2>3. Asking'
    BY <1>0, <2>1, <2>2 DEF Asking
  <2> QED
    BY <1>0, <2>1, <2>3 DEF WalkInv, Walk, FailedMeansAllTried, InCall, AtKey
<1>5. CASE Step /\ UNCHANGED cascade
  BY <1>0, <1>5, WalkStep DEF WalkInv, Asking, cascade
<1>6. CASE (Tick /\ UNCHANGED cascade) \/ UNCHANGED vars
  <2>1. UNCHANGED <<pc, prompt, pos, keys, turn, cache, ruled, result, question, tier, rewrite>>
    BY <1>6 DEF Tick, cascade, vars, gatewayVars, place, rates
  <2> QED
    BY <1>0, <2>1 DEF WalkInv, Walk, Asking, FailedMeansAllTried, Rows, Provider
<1> QED
  BY <1>1, <1>2, <1>3, <1>4, <1>5, <1>6 DEF Next, Work

LEMMA WalkInit == Init => WalkInv
<1> SUFFICES ASSUME Init PROVE WalkInv
  OBVIOUS
<1>1. /\ pc = "idle" /\ turn = [p \in Providers |-> 0] /\ cache = <<>> /\ result = "none"
      /\ question = "none" /\ tier = 0 /\ rewrite = FALSE
  BY DEF Init, GatewayInit
<1>2. Walk
  BY <1>1 DEF Walk, InCall, AtKey
<1>3. rewrite \in BOOLEAN
  BY <1>1, Zenon
<1>4. cache \in Seq(Remembering) /\ question = "none" /\ tier \in Nat
  BY <1>1
<1>5. Asking
  BY <1>3, <1>4 DEF Asking
<1> QED
  BY <1>1, <1>2, <1>5 DEF WalkInv, FailedMeansAllTried

\* The walk is sound throughout every behaviour.
THEOREM WalkInvariance == Spec => []WalkInv
BY WalkInit, WalkKept, PTL DEF Spec

\* A call fails only when every key of every row of its tier was cooling, at
\* its limit, at fault or given up with its row: none is forgotten, wherever
\* the round begins and whatever the providers answer.
THEOREM FailureIsComplete == Spec => []FailedMeansAllTried
<1>1. WalkInv => FailedMeansAllTried
  BY DEF WalkInv
<1> QED
  BY <1>1, WalkInvariance, PTL

-------------------------------------------------------------------------------
(* The rate windows and cool-downs of the keys                             *)

\* Old and Recent, for any record of calls and any time.
OldIn(s, t) == {i \in DOMAIN s : t - s[i] >= Window}
RecentIn(s, t) == SubSeq(s, Cardinality(OldIn(s, t)) + 1, Len(s))

InOrder(s) == \A i, j \in DOMAIN s : i <= j => s[i] <= s[j]

LEMMA Suffix ==
  ASSUME NEW s \in Seq(Nat), NEW c \in 0 .. Len(s)
  PROVE  LET z == SubSeq(s, c + 1, Len(s))
         IN /\ z \in Seq(Nat) /\ Len(z) = Len(s) - c
            /\ \A i \in 1 .. Len(z) : z[i] = s[c + i]
<1>1. Len(s) \in Nat /\ \A i \in c + 1 .. Len(s) : s[i] \in Nat
  OBVIOUS
<1>2. /\ SubSeq(s, c + 1, Len(s)) \in Seq(Nat)
      /\ Len(SubSeq(s, c + 1, Len(s))) = IF c + 1 <= Len(s) THEN Len(s) - (c + 1) + 1 ELSE 0
      /\ \A i \in 1 .. Len(s) - (c + 1) + 1 : SubSeq(s, c + 1, Len(s))[i] = s[(c + 1) + i - 1]
  BY <1>1, SubSeqProperties
<1>3. Len(SubSeq(s, c + 1, Len(s))) = Len(s) - c
  BY <1>1, <1>2
<1>4. \A i \in 1 .. Len(s) - c : SubSeq(s, c + 1, Len(s))[i] = s[c + i]
  <2> SUFFICES ASSUME NEW i \in 1 .. Len(s) - c
               PROVE  SubSeq(s, c + 1, Len(s))[i] = s[c + i]
    OBVIOUS
  <2>1. (c + 1) + i - 1 = c + i /\ i \in 1 .. Len(s) - (c + 1) + 1
    BY <1>1
  <2>2. SubSeq(s, c + 1, Len(s))[i] = s[(c + 1) + i - 1]
    BY <1>2, <2>1
  <2> QED
    BY <2>1, <2>2
<1> QED
  BY <1>2, <1>3, <1>4

LEMMA OldAreCalls ==
  ASSUME NEW s \in Seq(Nat), NEW t \in Nat
  PROVE  /\ IsFiniteSet(OldIn(s, t)) /\ Cardinality(OldIn(s, t)) \in 0 .. Len(s)
         /\ RecentIn(s, t) \in Seq(Nat)
         /\ Len(RecentIn(s, t)) = Len(s) - Cardinality(OldIn(s, t))
         /\ \A i \in 1 .. Len(RecentIn(s, t)) : RecentIn(s, t)[i] = s[Cardinality(OldIn(s, t)) + i]
<1>1. Len(s) \in Nat /\ DOMAIN s = 1 .. Len(s)
  OBVIOUS
<1>2. IsFiniteSet(1 .. Len(s)) /\ Cardinality(1 .. Len(s)) = Len(s)
  BY <1>1, FS_Interval
<1>3. OldIn(s, t) \in SUBSET (1 .. Len(s))
  BY <1>1 DEF OldIn
<1>4. IsFiniteSet(OldIn(s, t)) /\ Cardinality(OldIn(s, t)) <= Len(s) /\ Cardinality(OldIn(s, t)) \in Nat
  BY <1>2, <1>3, FS_Subset, FS_CardinalityType
<1>5. Cardinality(OldIn(s, t)) \in 0 .. Len(s)
  BY <1>1, <1>4
<1> QED
  BY <1>4, <1>5, Suffix DEF RecentIn

\* Time only takes calls out of the window.
LEMMA WindowShrinks ==
  ASSUME NEW s \in Seq(Nat), NEW t \in Nat, NEW u \in Nat, t <= u
  PROVE  Len(RecentIn(s, u)) <= Len(RecentIn(s, t))
<1>1. OldIn(s, t) \in SUBSET OldIn(s, u)
  BY GatewayAssumption DEF OldIn
<1>2. Cardinality(OldIn(s, t)) <= Cardinality(OldIn(s, u))
  BY <1>1, OldAreCalls, FS_Subset
<1> QED
  BY <1>2, OldAreCalls

\* A call adds one to the window.
LEMMA WindowGrows ==
  ASSUME NEW s \in Seq(Nat), NEW t \in Nat
  PROVE  Len(RecentIn(Append(s, t), t)) <= Len(RecentIn(s, t)) + 1
<1>1. Append(s, t) \in Seq(Nat) /\ Len(Append(s, t)) = Len(s) + 1 /\ Len(s) \in Nat
  OBVIOUS
<1>2. OldIn(s, t) \in SUBSET OldIn(Append(s, t), t)
  BY DEF OldIn
<1>3. Cardinality(OldIn(s, t)) <= Cardinality(OldIn(Append(s, t), t))
  BY <1>1, <1>2, OldAreCalls, FS_Subset
<1>4. /\ Len(RecentIn(Append(s, t), t)) = (Len(s) + 1) - Cardinality(OldIn(Append(s, t), t))
      /\ Cardinality(OldIn(Append(s, t), t)) \in 0 .. Len(s) + 1
  BY <1>1, OldAreCalls
<1>5. /\ Len(RecentIn(s, t)) = Len(s) - Cardinality(OldIn(s, t))
      /\ Cardinality(OldIn(s, t)) \in 0 .. Len(s)
  BY OldAreCalls
<1> QED
  BY <1>1, <1>3, <1>4, <1>5

\* A nonempty set of naturals has a least element.
LEMMA LeastNat ==
  ASSUME NEW S \in SUBSET Nat, S # {}
  PROVE  \E x \in S : \A y \in S : x <= y
<1>1. PICK x \in S : \A y \in S : ~(<<y, x>> \in OpToRel(<, Nat))
  BY Zenon, NatLessThanWellFounded, WFMin
<1>2. \A y \in S : ~(y < x)
  BY <1>1 DEF OpToRel
<1> QED
  BY <1>2

\* Calls that were recorded in the order of time: the first are the old ones,
\* and RateState.available keeps exactly the others.
LEMMA OldComeFirst ==
  ASSUME NEW s \in Seq(Nat), NEW t \in Nat, InOrder(s)
  PROVE  \A i \in DOMAIN s : t - s[i] < Window <=> i > Cardinality(OldIn(s, t))
<1> DEFINE n == Len(s)
           O == OldIn(s, t)
           Rest == (1 .. n) \ O
<1>0. DOMAIN s = 1 .. n /\ n \in Nat /\ Window \in Nat /\ \A i \in 1 .. n : s[i] \in Nat
  BY GatewayAssumption
<1>1. O = {i \in 1 .. n : ~(t - s[i] < Window)}
  BY <1>0 DEF OldIn
<1>2. \A i, j \in 1 .. n : i <= j => s[i] <= s[j]
  BY <1>0 DEF InOrder
<1> SUFFICES \A i \in 1 .. n : t - s[i] < Window <=> i > Cardinality(O)
  BY <1>0
<1> HIDE DEF n, O
<1>3. CASE Rest = {}
  <2>1. O = 1 .. n
    BY <1>1, <1>3
  <2>2. Cardinality(O) = n
    BY <1>0, <2>1, FS_Interval
  <2>3. \A i \in 1 .. n : ~(t - s[i] < Window)
    BY <1>1, <2>1
  <2>4. \A i \in 1 .. n : ~(i > n)
    BY <1>0
  <2> QED
    BY <2>2, <2>3, <2>4
<1>4. CASE Rest # {}
  <2>1. PICK m \in Rest : \A i \in Rest : m <= i
    <3>1. Rest \in SUBSET Nat
      BY <1>0
    <3> QED
      BY <1>4, <3>1, LeastNat
  <2>2. m \in 1 .. n /\ t - s[m] < Window
    BY <1>1, <2>1
  <2>3. \A i \in 1 .. n : i < m => i \in O
    BY <1>0, <2>1, <2>2
  <2>4. \A i \in 1 .. n : i \in O => i < m
    <3> SUFFICES ASSUME NEW i \in 1 .. n, ~(i < m)
                 PROVE  i \notin O
      OBVIOUS
    <3>1. s[m] <= s[i] /\ s[m] \in Nat /\ s[i] \in Nat
      BY <1>0, <1>2, <2>2
    <3> QED
      BY <1>0, <1>1, <2>2, <3>1
  <2>5. O = 1 .. m - 1
    <3>1. O \subseteq 1 .. n
      BY <1>1
    <3>2. \A i \in O : i \in 1 .. m - 1
      BY <1>0, <2>2, <2>4, <3>1
    <3>3. \A i \in 1 .. m - 1 : i \in O
      BY <1>0, <2>2, <2>3
    <3> QED
      BY <3>2, <3>3
  <2>6. Cardinality(O) = m - 1
    BY <2>2, <2>5, FS_Interval
  <2> QED
    BY <1>0, <1>1, <2>2, <2>3, <2>4, <2>6
<1> QED
  BY <1>3, <1>4

\* The calls with a key: in order, none in the future.
Ordered == \A k \in Keys : InOrder(calls[k]) /\ \A i \in DOMAIN calls[k] : calls[k][i] <= now

\* A key in use was below its limit when it was taken, and has since had at
\* most one call for each attempt; a key whose budget is spent cools down for
\* longer than the run takes, so that it is not the one in use.
RateInv ==
  /\ now \in 0 .. RunTime
  /\ calls \in [Keys -> Seq(Nat)] /\ coolUntil \in [Keys -> Nat] /\ Ordered
  /\ \A k \in Keys : Len(RecentIn(calls[k], now)) <= Rpm - 1 + MaxAttempts
  /\ gone \subseteq Keys /\ \A k \in gone : coolUntil[k] > RunTime
  /\ pc \in {"try", "sent"} =>
       /\ attempt \in 1 .. MaxAttempts /\ Key \notin gone
       /\ Len(RecentIn(calls[Key], now)) <= Rpm - 1 + (IF pc = "try" THEN attempt - 1 ELSE attempt)

\* The numbers of the routing table.
LEMMA Limits ==
  /\ Rpm \in Nat \ {0} /\ Window \in Nat \ {0} /\ MaxAttempts \in Nat \ {0} /\ RunTime \in Nat
  /\ Cooldown \in Nat /\ AuthCooldown \in Nat /\ BudgetCooldown = RunTime + 1
BY GatewayAssumption DEF ProviderSpec, BudgetCooldown

\* The key in use is one of the keys.
LEMMA KeyIsKey ==
  ASSUME Walk, pc \in AtKey
  PROVE  Key \in Keys /\ Provider \in Providers /\ Row(Provider) \subseteq Keys
<1>1. /\ prompt \in Prompts /\ pos \in 1 .. Len(Rows) + 1 /\ pos <= Len(Rows)
      /\ keys \in Seq(Row(Provider)) /\ keys # <<>>
  BY DEF Walk, InCall
<1>2. pos \in 1 .. Len(Rows)
  BY <1>1
<1>3. Provider \in Providers
  BY <1>1, <1>2, RowOfOrder DEF Rows, Provider
<1> QED
  BY <1>1, <1>3 DEF Key, Keys

\* A cool-down only ever gets longer.
LEMMA CoolingGrows ==
  ASSUME RateInv, NEW ks, NEW seconds \in Nat
  PROVE  /\ Cooled(ks, seconds) \in [Keys -> Nat]
         /\ \A k \in Keys : Cooled(ks, seconds)[k] >= coolUntil[k]
         /\ \A k \in Keys : k \in ks => Cooled(ks, seconds)[k] >= now + seconds
BY DEF RateInv, Cooled

\* Dropping the old calls of a key keeps the order and no window grows.
LEMMA Pruned ==
  ASSUME RateInv, NEW k \in Keys
  PROVE  /\ Recent(k) \in Seq(Nat) /\ InOrder(Recent(k)) /\ \A i \in DOMAIN Recent(k) : Recent(k)[i] <= now
         /\ Len(RecentIn(Recent(k), now)) <= Len(RecentIn(calls[k], now))
<1> DEFINE s == calls[k]
           c == Cardinality(OldIn(s, now))
           z == RecentIn(s, now)
<1>1. s \in Seq(Nat) /\ now \in Nat /\ InOrder(s) /\ \A i \in DOMAIN s : s[i] <= now
  BY DEF RateInv, Ordered
<1>2. Recent(k) = z
  BY DEF Recent, Old, RecentIn, OldIn
<1>3. z \in Seq(Nat) /\ c \in 0 .. Len(s) /\ Len(z) = Len(s) - c /\ \A i \in 1 .. Len(z) : z[i] = s[c + i]
  BY <1>1, OldAreCalls
<1>4. Len(RecentIn(z, now)) <= Len(z)
  BY <1>1, <1>3, OldAreCalls
<1> HIDE DEF z, c, s
<1>5. DOMAIN z = 1 .. Len(z) /\ \A i \in 1 .. Len(z) : c + i \in DOMAIN s
  BY <1>1, <1>3
<1>6. ASSUME NEW i \in DOMAIN z, NEW j \in DOMAIN z, i <= j
      PROVE  z[i] <= z[j]
  <2>1. i \in 1 .. Len(z) /\ j \in 1 .. Len(z) /\ c \in Nat /\ i \in Nat /\ j \in Nat
    BY <1>1, <1>3, <1>5
  <2>2. c + i \in DOMAIN s /\ c + j \in DOMAIN s /\ c + i <= c + j
    BY <1>5, <1>6, <2>1
  <2>3. s[c + i] <= s[c + j]
    BY <1>1, <2>2 DEF InOrder
  <2>4. z[i] = s[c + i] /\ z[j] = s[c + j]
    BY <1>3, <2>1
  <2> QED
    BY <2>3, <2>4
<1>7. InOrder(z) /\ \A i \in DOMAIN z : z[i] <= now
  BY <1>1, <1>3, <1>5, <1>6 DEF InOrder
<1> QED
  BY <1>2, <1>3, <1>4, <1>7 DEF s, z

\* So a key whose budget is spent goes on cooling down.
LEMMA CoolingLasts ==
  ASSUME RateInv, coolUntil' \in [Keys -> Nat], \A k \in Keys : coolUntil'[k] >= coolUntil[k]
  PROVE  \A k \in gone : coolUntil'[k] > RunTime
<1> SUFFICES ASSUME NEW k \in gone
             PROVE  coolUntil'[k] > RunTime
  OBVIOUS
<1>1. k \in Keys /\ coolUntil[k] > RunTime /\ coolUntil[k] \in Nat /\ RunTime \in Nat
  BY Limits DEF RateInv
<1>2. coolUntil'[k] >= coolUntil[k] /\ coolUntil'[k] \in Nat
  BY <1>1
<1> QED
  BY <1>1, <1>2

\* A step that makes no call and leaves the key in use.
LEMMA RateRests ==
  ASSUME RateInv, UNCHANGED <<now, calls>>, pc' \notin {"try", "sent"},
         coolUntil' \in [Keys -> Nat], gone' \subseteq Keys, \A k \in gone' : coolUntil'[k] > RunTime
  PROVE  RateInv'
BY DEF RateInv, Ordered

\* A step that drops the old calls of the key at hand.
LEMMA RatePrunes ==
  ASSUME RateInv, Key \in Keys, calls' = [calls EXCEPT ![Key] = Recent(Key)],
         UNCHANGED <<now, coolUntil, gone>>
  PROVE  /\ calls' \in [Keys -> Seq(Nat)] /\ Ordered'
         /\ \A k \in Keys : Len(RecentIn(calls'[k], now)) <= Rpm - 1 + MaxAttempts
         /\ Len(RecentIn(calls'[Key], now)) <= Len(RecentIn(calls[Key], now))
<1>1. /\ calls'[Key] = Recent(Key) /\ \A k \in Keys \ {Key} : calls'[k] = calls[k]
      /\ calls' \in [Keys -> Seq(Nat)]
  BY Pruned DEF RateInv
<1>2. Len(RecentIn(calls'[Key], now)) <= Len(RecentIn(calls[Key], now))
  BY <1>1, Pruned
<1>3. ASSUME NEW k \in Keys
      PROVE  /\ InOrder(calls'[k]) /\ \A i \in DOMAIN calls'[k] : calls'[k][i] <= now
             /\ Len(RecentIn(calls'[k], now)) <= Rpm - 1 + MaxAttempts
  <2>1. CASE k = Key
    <3>1. /\ Len(RecentIn(calls[Key], now)) \in Nat /\ Len(RecentIn(calls'[Key], now)) \in Nat
          /\ Len(RecentIn(calls[Key], now)) <= Rpm - 1 + MaxAttempts
      BY <1>1, OldAreCalls DEF RateInv
    <3> QED
      BY <1>1, <1>2, <2>1, <3>1, Pruned, Limits
  <2>2. CASE k # Key
    BY <1>1, <2>2 DEF RateInv, Ordered
  <2> QED
    BY <2>1, <2>2
<1> QED
  BY <1>1, <1>2, <1>3 DEF Ordered

\* A call: the window of its key grows by one.
LEMMA RateCalls ==
  ASSUME RateInv, Walk, Send
  PROVE  RateInv'
<1>0. now \in Nat /\ calls \in [Keys -> Seq(Nat)] /\ Key \in Keys
  BY KeyIsKey DEF RateInv, Send, AtKey
<1>1. /\ pc = "try" /\ pc' = "sent" /\ calls' = [calls EXCEPT ![Key] = Append(calls[Key], now)]
      /\ UNCHANGED <<now, coolUntil, keys, attempt, gone>>
  BY DEF Send, place
<1>2. Key' = Key
  BY <1>1 DEF Key
<1>3. /\ calls'[Key] = Append(calls[Key], now) /\ \A k \in Keys \ {Key} : calls'[k] = calls[k]
      /\ calls' \in [Keys -> Seq(Nat)]
  BY <1>0, <1>1
<1>4. /\ attempt \in 1 .. MaxAttempts /\ Key \notin gone
      /\ Len(RecentIn(calls[Key], now)) <= Rpm - 1 + (attempt - 1)
  BY <1>1 DEF RateInv
<1>5. Len(RecentIn(calls'[Key], now)) <= Rpm - 1 + attempt
  <2>1. Len(RecentIn(calls'[Key], now)) <= Len(RecentIn(calls[Key], now)) + 1
    BY <1>0, <1>3, WindowGrows
  <2>2. Len(RecentIn(calls[Key], now)) \in Nat /\ Len(RecentIn(calls'[Key], now)) \in Nat
    BY <1>0, <1>3, OldAreCalls
  <2> QED
    BY <1>4, <2>1, <2>2, Limits
<1>6. ASSUME NEW k \in Keys
      PROVE  /\ InOrder(calls'[k]) /\ \A i \in DOMAIN calls'[k] : calls'[k][i] <= now
             /\ Len(RecentIn(calls'[k], now)) <= Rpm - 1 + MaxAttempts
  <2>1. CASE k = Key
    <3> DEFINE s == calls[Key]
    <3>1. s \in Seq(Nat) /\ InOrder(s) /\ \A i \in DOMAIN s : s[i] <= now
      BY <1>0 DEF RateInv, Ordered
    <3>2. /\ DOMAIN Append(s, now) = 1 .. Len(s) + 1 /\ Append(s, now)[Len(s) + 1] = now
          /\ \A i \in 1 .. Len(s) : Append(s, now)[i] = s[i]
      BY <1>0, <3>1, AppendProperties
    <3>3. InOrder(Append(s, now)) /\ \A i \in DOMAIN Append(s, now) : Append(s, now)[i] <= now
      <4> HIDE DEF s
      <4>1. \A i \in 1 .. Len(s) + 1 : i \in 1 .. Len(s) \/ i = Len(s) + 1
        BY <3>1
      <4>2. DOMAIN s = 1 .. Len(s) /\ Len(s) \in Nat
        BY <3>1
      <4>3. \A i \in DOMAIN Append(s, now) : Append(s, now)[i] <= now
        BY <1>0, <3>1, <3>2, <4>1, <4>2
      <4>4. ASSUME NEW i \in DOMAIN Append(s, now), NEW j \in DOMAIN Append(s, now), i <= j
            PROVE  Append(s, now)[i] <= Append(s, now)[j]
        BY <1>0, <3>1, <3>2, <4>1, <4>2, <4>3, <4>4 DEF InOrder
      <4> QED
        BY <4>3, <4>4 DEF InOrder
    <3>4. Len(RecentIn(calls'[Key], now)) \in Nat
      BY <1>0, <1>3, OldAreCalls
    <3>5. Len(RecentIn(calls'[Key], now)) <= Rpm - 1 + MaxAttempts
      BY <1>4, <1>5, <3>4, Limits
    <3> QED
      BY <1>3, <2>1, <3>3, <3>5
  <2>2. CASE k # Key
    BY <1>3, <2>2 DEF RateInv, Ordered
  <2> QED
    BY <2>1, <2>2
<1>7. Ordered'
  BY <1>1, <1>6 DEF Ordered
<1> QED
  BY <1>1, <1>2, <1>3, <1>4, <1>5, <1>6, <1>7 DEF RateInv

\* Time passes: calls leave their windows, and no cool-down is over that is
\* longer than the run.
LEMMA RateTicks ==
  ASSUME RateInv, Walk, Tick
  PROVE  RateInv'
<1>0. /\ now \in 0 .. RunTime /\ calls \in [Keys -> Seq(Nat)] /\ RunTime \in Nat
      /\ now' = now + 1 /\ now < RunTime /\ pc # "try" /\ UNCHANGED <<calls, coolUntil, pc, keys, attempt, gone>>
  BY Limits DEF RateInv, Tick, rates, place
<1>1. \A k \in Keys : /\ Len(RecentIn(calls[k], now')) <= Len(RecentIn(calls[k], now))
                      /\ Len(RecentIn(calls[k], now')) \in Nat /\ Len(RecentIn(calls[k], now)) \in Nat
  BY <1>0, WindowShrinks, OldAreCalls
<1>2. Ordered'
  BY <1>0 DEF RateInv, Ordered
<1>3. Key' = Key
  BY <1>0 DEF Key
<1>4. pc \in {"try", "sent"} => Key \in Keys
  BY KeyIsKey DEF AtKey
<1>5. pc' \in {"try", "sent"} => /\ attempt' \in 1 .. MaxAttempts /\ Key' \notin gone'
                                 /\ Len(RecentIn(calls'[Key'], now')) <= Rpm - 1 + attempt'
  BY <1>0, <1>1, <1>3, <1>4, Limits DEF RateInv
<1>6. \A k \in Keys : Len(RecentIn(calls'[k], now')) <= Rpm - 1 + MaxAttempts
  BY <1>0, <1>1, Limits DEF RateInv
<1> QED
  BY <1>0, <1>2, <1>5, <1>6 DEF RateInv

\* What a step of the gateway does to the windows.
LEMMA RateStep ==
  ASSUME RateInv, Walk, Step
  PROVE  RateInv'
<1>0. /\ now \in 0 .. RunTime /\ calls \in [Keys -> Seq(Nat)] /\ coolUntil \in [Keys -> Nat]
      /\ gone \subseteq Keys /\ \A k \in gone : coolUntil[k] > RunTime
  BY DEF RateInv
<1>1. CASE OpenRow \/ NoRowLeft \/ Refusal
  <2>1. pc' \notin {"try", "sent"} /\ UNCHANGED <<now, calls, coolUntil, gone>>
    BY <1>1 DEF OpenRow, NoRowLeft, Refusal, Ends, NextRow, rates
  <2> QED
    BY <1>0, <2>1, RateRests
<1>2. CASE SkipKey
  <2>1. /\ pc = "key" /\ pc' \notin {"try", "sent"} /\ UNCHANGED <<now, coolUntil, gone>>
        /\ calls' = calls \/ calls' = [calls EXCEPT ![Key] = Recent(Key)]
    BY <1>2 DEF SkipKey, NextKey, NextRow
  <2>2. Key \in Keys
    BY <2>1, KeyIsKey DEF AtKey
  <2>3. CASE calls' = calls
    BY <1>0, <2>1, <2>3, RateRests
  <2>4. CASE calls' = [calls EXCEPT ![Key] = Recent(Key)]
    BY <1>0, <2>1, <2>2, <2>4, RatePrunes DEF RateInv
  <2> QED
    BY <2>1, <2>3, <2>4
<1>3. CASE TakeKey
  <2>1. /\ pc = "key" /\ pc' = "try" /\ attempt' = 1 /\ UNCHANGED <<now, coolUntil, gone, keys>>
        /\ calls' = [calls EXCEPT ![Key] = Recent(Key)] /\ Available(Key)
    BY <1>3 DEF TakeKey
  <2>2. Key \in Keys /\ Key' = Key
    BY <2>1, KeyIsKey DEF AtKey, Key
  <2>3. Key \notin gone
    BY <1>0, <2>1, <2>2, Limits DEF Available
  <2>4. /\ Len(RecentIn(calls[Key], now)) < Rpm /\ Len(RecentIn(calls[Key], now)) \in Nat
        /\ Len(RecentIn(calls'[Key], now)) <= Len(RecentIn(calls[Key], now))
        /\ Len(RecentIn(calls'[Key], now)) \in Nat
        /\ calls' \in [Keys -> Seq(Nat)] /\ Ordered'
        /\ \A k \in Keys : Len(RecentIn(calls'[k], now)) <= Rpm - 1 + MaxAttempts
    <3>1. Recent(Key) = RecentIn(calls[Key], now)
      BY DEF Recent, Old, RecentIn, OldIn
    <3>2. /\ calls' \in [Keys -> Seq(Nat)] /\ Ordered'
          /\ \A k \in Keys : Len(RecentIn(calls'[k], now)) <= Rpm - 1 + MaxAttempts
          /\ Len(RecentIn(calls'[Key], now)) <= Len(RecentIn(calls[Key], now))
      BY <2>1, <2>2, RatePrunes
    <3> QED
      BY <1>0, <2>1, <2>2, <3>1, <3>2, OldAreCalls DEF Available
  <2>5. attempt' \in 1 .. MaxAttempts /\ Len(RecentIn(calls'[Key'], now')) <= Rpm - 1 + (attempt' - 1)
    BY <2>1, <2>2, <2>4, Limits
  <2> QED
    BY <1>0, <2>1, <2>2, <2>3, <2>4, <2>5 DEF RateInv
<1>4. CASE Send
  BY <1>4, RateCalls
<1>5. CASE Retry
  <2>1. /\ pc = "sent" /\ pc' = "try" /\ attempt' = attempt + 1 /\ attempt < MaxAttempts
        /\ UNCHANGED <<now, calls, coolUntil, keys, gone>>
    BY <1>5 DEF Retry, Retried, rates
  <2>2. Key' = Key
    BY <2>1 DEF Key
  <2>3. /\ attempt \in 1 .. MaxAttempts /\ Key \notin gone
        /\ Len(RecentIn(calls[Key], now)) <= Rpm - 1 + attempt
    BY <2>1 DEF RateInv
  <2>4. attempt' \in 1 .. MaxAttempts /\ attempt' - 1 = attempt
    BY <2>1, <2>3, Limits
  <2> QED
    BY <1>0, <2>1, <2>2, <2>3, <2>4 DEF RateInv, Ordered
<1>6. ASSUME NEW r \in Replies, NEW stop \in Stop, Reply(r, stop)
      PROVE  RateInv'
  <2>1. pc' \notin {"try", "sent"} /\ UNCHANGED <<now, calls, coolUntil, gone>>
    BY <1>6 DEF Reply, Ends, rates
  <2> QED
    BY <1>0, <2>1, RateRests
<1>7. ASSUME NEW fault \in KeyFaults, KeyFault(fault)
      PROVE  RateInv'
  <2>1. /\ pc = "sent" /\ pc' \notin {"try", "sent"} /\ UNCHANGED <<now, calls>>
        /\ \/ \E seconds \in {Cooldown, AuthCooldown} : coolUntil' = Cooled({Key}, seconds) /\ gone' = gone
           \/ coolUntil' = Cooled({Key}, BudgetCooldown) /\ gone' = gone \cup {Key}
    BY <1>7 DEF KeyFault, NextKey, NextRow
  <2>2. Key \in Keys
    BY <2>1, KeyIsKey DEF AtKey
  <2>3. CASE \E seconds \in {Cooldown, AuthCooldown} : coolUntil' = Cooled({Key}, seconds) /\ gone' = gone
    <3>1. coolUntil' \in [Keys -> Nat] /\ \A k \in Keys : coolUntil'[k] >= coolUntil[k]
      BY <2>3, CoolingGrows, Limits
    <3>2. \A k \in gone' : coolUntil'[k] > RunTime
      BY <2>3, <3>1, CoolingLasts
    <3> QED
      BY <1>0, <2>1, <2>3, <3>1, <3>2, RateRests
  <2>4. CASE coolUntil' = Cooled({Key}, BudgetCooldown) /\ gone' = gone \cup {Key}
    <3>1. /\ coolUntil' \in [Keys -> Nat] /\ \A k \in Keys : coolUntil'[k] >= coolUntil[k]
          /\ coolUntil'[Key] >= now + BudgetCooldown
      BY <2>2, <2>4, CoolingGrows, Limits
    <3>2. \A k \in gone : coolUntil'[k] > RunTime
      BY <3>1, CoolingLasts
    <3>3. coolUntil'[Key] > RunTime
      <4>1. coolUntil'[Key] >= now + (RunTime + 1) /\ coolUntil'[Key] \in Nat /\ RunTime \in Nat
        BY <2>2, <3>1, Limits
      <4> QED
        BY <1>0, <4>1
    <3>4. \A k \in gone' : coolUntil'[k] > RunTime
      BY <2>4, <3>2, <3>3
    <3> QED
      BY <1>0, <2>1, <2>2, <2>4, <3>1, <3>4, RateRests
  <2> QED
    BY <2>1, <2>3, <2>4
<1>8. ASSUME NEW fault \in RowFaults, RowFault(fault)
      PROVE  RateInv'
  <2>1. /\ pc' \notin {"try", "sent"} /\ UNCHANGED <<now, calls, gone>>
        /\ coolUntil' = Cooled(Row(Provider), Cooldown) \/ coolUntil' = coolUntil
    BY <1>8 DEF RowFault, NextRow
  <2>2. coolUntil' \in [Keys -> Nat] /\ \A k \in Keys : coolUntil'[k] >= coolUntil[k]
    BY <1>0, <2>1, CoolingGrows, Limits
  <2>3. \A k \in gone' : coolUntil'[k] > RunTime
    BY <2>1, <2>2, CoolingLasts
  <2> QED
    BY <1>0, <2>1, <2>2, <2>3, RateRests
<1> QED
  BY <1>1, <1>2, <1>3, <1>4, <1>5, <1>6, <1>7, <1>8 DEF Step, Replies

LEMMA RateKept == Walk /\ RateInv /\ [Next]_vars => RateInv'
<1> SUFFICES ASSUME Walk, RateInv, [Next]_vars
             PROVE  RateInv'
  OBVIOUS
<1>1. CASE (\E q \in Questions : Compose(q)) \/ OverBudget \/ NoTierLeft \/ UNCHANGED vars
  <2>1. UNCHANGED <<now, calls, coolUntil, gone, pc, keys, attempt>>
    BY <1>1 DEF Compose, OverBudget, NoTierLeft, vars, gatewayVars, rates, place
  <2> QED
    BY <2>1 DEF RateInv, Ordered, Key
<1>2. CASE Ask \/ NextTier \/ CutOff \/ Passes \/ Fails
  <2>1. UNCHANGED <<now, calls, coolUntil, gone>> /\ pc' \in {"row", "end", "idle"}
    BY <1>2 DEF Ask, NextTier, CutOff, Passes, Fails, Hit, Miss, Ends, Back, rates
  <2> QED
    BY <2>1, RateRests DEF RateInv
<1>3. CASE Step /\ UNCHANGED cascade
  BY <1>3, RateStep
<1>4. CASE Tick
  BY <1>4, RateTicks
<1> QED
  BY <1>1, <1>2, <1>3, <1>4 DEF Next, Work

LEMMA RateInit == Init => RateInv
<1> SUFFICES ASSUME Init PROVE RateInv
  OBVIOUS
<1>1. /\ now = 0 /\ calls = [k \in Keys |-> <<>>] /\ coolUntil = [k \in Keys |-> 0]
      /\ pc = "idle" /\ gone = {}
  BY DEF Init, GatewayInit
<1>2. ASSUME NEW c \in Seq(Nat), Len(c) = 0
      PROVE  Len(RecentIn(c, 0)) = 0
  <2>1. Len(RecentIn(c, 0)) = Len(c) - Cardinality(OldIn(c, 0)) /\ Cardinality(OldIn(c, 0)) \in 0 .. Len(c)
    BY OldAreCalls
  <2> QED
    BY <1>2, <2>1
<1>3. <<>> \in Seq(Nat) /\ Len(RecentIn(<<>>, 0)) = 0
  <2>1. <<>> \in Seq(Nat) /\ Len(<<>>) = 0
    BY EmptySeq
  <2> QED
    BY <1>2, <2>1, Zenon
<1>4. \A k \in Keys : calls[k] = <<>>
  BY <1>1
<1>5. DOMAIN <<>> = {}
  OBVIOUS
<1>6. Ordered
  BY <1>4, <1>5 DEF Ordered, InOrder
<1>7. \A k \in Keys : Len(RecentIn(calls[k], now)) = 0
  BY <1>1, <1>3, <1>4
<1>8. 0 <= Rpm - 1 + MaxAttempts
  BY Limits
<1>9. calls \in [Keys -> Seq(Nat)] /\ coolUntil \in [Keys -> Nat] /\ now \in 0 .. RunTime
  BY <1>1, <1>3, Limits
<1> QED
  BY <1>1, <1>6, <1>7, <1>8, <1>9 DEF RateInv

\* The windows and cool-downs hold throughout every behaviour.
THEOREM RateInvariance == Spec => []RateInv
<1>1. WalkInv => Walk
  BY DEF WalkInv
<1> QED
  BY <1>1, RateInit, RateKept, WalkInvariance, PTL DEF Spec

\* No window of any key ever holds more calls than the limit and the retries
\* of one call allow, although only the first attempt is asked for.
THEOREM WindowHolds == Spec => []WindowBounded
<1>1. RateInv => WindowBounded
  BY DEF RateInv, WindowBounded, Recent, Old, RecentIn, OldIn
<1> QED
  BY <1>1, RateInvariance, PTL

\* A key whose token budget is spent is not called again in the run, and not
\* even its calls are looked at, whatever cool-downs its row gets later.
THEOREM SpentKeysAreNotCalled == Spec => SpentKeysRest
<1>1. ASSUME Walk, RateInv, [Next]_vars, NEW k \in gone
      PROVE  calls'[k] = calls[k]
  <2>0. /\ now \in 0 .. RunTime /\ calls \in [Keys -> Seq(Nat)] /\ coolUntil \in [Keys -> Nat]
        /\ k \in Keys /\ coolUntil[k] > RunTime /\ now < coolUntil[k]
    BY <1>1, Limits DEF RateInv
  <2>1. CASE calls' = calls
    BY <2>1
  <2>2. CASE SkipKey
    <3>1. Key = k => calls' = calls
      BY <2>0, <2>2 DEF SkipKey
    <3>2. calls' = calls \/ calls' = [calls EXCEPT ![Key] = Recent(Key)]
      BY <2>2 DEF SkipKey
    <3> QED
      BY <2>0, <3>1, <3>2
  <2>3. CASE TakeKey
    <3>1. Key # k
      BY <2>0, <2>3 DEF TakeKey, Available
    <3> QED
      BY <2>0, <2>3, <3>1 DEF TakeKey
  <2>4. CASE Send
    <3>1. Key # k
      BY <1>1, <2>4 DEF Send, RateInv
    <3> QED
      BY <2>0, <2>4, <3>1 DEF Send
  <2>5. CASE OpenRow \/ NoRowLeft \/ Refusal \/ Retry \/ Tick \/ UNCHANGED vars
    BY <2>1, <2>5 DEF OpenRow, NoRowLeft, Refusal, Retry, Tick, rates, vars, gatewayVars
  <2>6. CASE Ask \/ OverBudget \/ NoTierLeft \/ NextTier \/ CutOff \/ Passes \/ Fails
             \/ \E q \in Questions : Compose(q)
    BY <2>1, <2>6 DEF Ask, OverBudget, NoTierLeft, NextTier, CutOff, Passes, Fails, Compose, Hit, Miss,
       Back, rates, gatewayVars
  <2>7. CASE \/ \E r \in Replies, stop \in Stop : Reply(r, stop)
             \/ \E fault \in KeyFaults : KeyFault(fault)
             \/ \E fault \in RowFaults : RowFault(fault)
    BY <2>1, <2>7 DEF Reply, KeyFault, RowFault, rates
  <2> QED
    BY <1>1, <2>2, <2>3, <2>4, <2>5, <2>6, <2>7 DEF Next, Work, Step, Replies
<1>2. Walk /\ RateInv /\ [Next]_vars => [\A k \in gone : calls'[k] = calls[k]]_vars
  BY <1>1
<1>3. WalkInv => Walk
  BY DEF WalkInv
<1> QED
  BY <1>2, <1>3, WalkInvariance, RateInvariance, PTL DEF Spec, SpentKeysRest

\* What is recorded as recent is what was called within the window: the form
\* in which Recent says so, and that of RateState.available, are the same.
RecentAreRecent ==
  \A k \in Keys : \A i \in DOMAIN calls[k] : now - calls[k][i] < Window <=> i > Cardinality(Old(k))

\* In every behaviour the calls of a key are in the order of time, so that to
\* keep those from the first recent one on is to keep the recent ones.
THEOREM WindowIsExact == Spec => []RecentAreRecent
<1>1. ASSUME RateInv PROVE RecentAreRecent
  <2> SUFFICES ASSUME NEW k \in Keys
               PROVE  \A i \in DOMAIN calls[k] : now - calls[k][i] < Window <=> i > Cardinality(Old(k))
    BY DEF RecentAreRecent
  <2>1. calls[k] \in Seq(Nat) /\ now \in Nat /\ InOrder(calls[k])
    BY <1>1 DEF RateInv, Ordered
  <2>2. Old(k) = OldIn(calls[k], now)
    BY DEF Old, OldIn
  <2> QED
    BY <2>1, <2>2, OldComeFirst
<1> QED
  BY <1>1, RateInvariance, PTL

-------------------------------------------------------------------------------
(* The ledger                                                              *)

\* The first n rows of a tier, those that have a key.
UsedRows(t, n) == {i \in 1 .. n : NKeys[Order[t][i]] > 0}

\* A call is only begun below the limit, and leaves at most one reply in the
\* ledger for each row with a key that it has done with.
SpendInv ==
  /\ paid \in Nat /\ SpendingBounded
  /\ pc \in InCall => paid < MaxPaid + Cardinality(UsedRows(prompt.tier, pos - 1))

LEMMA UsedRowsCount ==
  ASSUME NEW t \in Tiers, NEW n \in 1 .. Len(Order[t])
  PROVE  /\ Cardinality(UsedRows(t, n - 1)) \in Nat /\ Cardinality(UsedRows(t, n)) \in Nat
         /\ RowsWithKeys(t) \in Nat /\ Cardinality(UsedRows(t, n)) <= RowsWithKeys(t)
         /\ Cardinality(UsedRows(t, n))
              = Cardinality(UsedRows(t, n - 1)) + (IF NKeys[Order[t][n]] > 0 THEN 1 ELSE 0)
<1> DEFINE R == {i \in DOMAIN Order[t] : NKeys[Order[t][i]] > 0}
<1>1. Len(Order[t]) \in Nat /\ DOMAIN Order[t] = 1 .. Len(Order[t])
  BY GatewayAssumption DEF RoutingConfig
<1>2. IsFiniteSet(1 .. Len(Order[t]))
  BY <1>1, FS_Interval
<1>3. IsFiniteSet(R) /\ Cardinality(R) \in Nat /\ RowsWithKeys(t) = Cardinality(R)
  <2>1. R \in SUBSET (1 .. Len(Order[t]))
    BY <1>1
  <2> QED
    BY <1>2, <2>1, FS_Subset, FS_CardinalityType DEF RowsWithKeys
<1>4. UsedRows(t, n) \in SUBSET R /\ UsedRows(t, n - 1) \in SUBSET R
  BY <1>1 DEF UsedRows
<1> HIDE DEF R
<1>5. /\ IsFiniteSet(UsedRows(t, n)) /\ IsFiniteSet(UsedRows(t, n - 1))
      /\ Cardinality(UsedRows(t, n)) <= Cardinality(R)
      /\ Cardinality(UsedRows(t, n)) \in Nat /\ Cardinality(UsedRows(t, n - 1)) \in Nat
  BY <1>3, <1>4, FS_Subset, FS_CardinalityType
<1>6. CASE NKeys[Order[t][n]] > 0
  <2>1. UsedRows(t, n) = UsedRows(t, n - 1) \cup {n} /\ n \notin UsedRows(t, n - 1)
    BY <1>1, <1>6 DEF UsedRows
  <2> QED
    BY <1>3, <1>5, <1>6, <2>1, FS_AddElement
<1>7. CASE ~(NKeys[Order[t][n]] > 0)
  <2>1. UsedRows(t, n) = UsedRows(t, n - 1)
    BY <1>1, <1>7 DEF UsedRows
  <2> QED
    BY <1>3, <1>5, <1>7, <2>1
<1> QED
  BY <1>6, <1>7

\* With the row it is at, a call may leave one more.
LEMMA OneReplyForARow ==
  ASSUME Walk, SpendInv, pc \in AtKey
  PROVE  /\ prompt.tier \in Tiers /\ pos \in Nat
         /\ paid + 1 < MaxPaid + Cardinality(UsedRows(prompt.tier, pos))
         /\ Cardinality(UsedRows(prompt.tier, pos)) \in Nat
         /\ paid + 1 < MaxPaid + RowsWithKeys(prompt.tier)
<1> DEFINE t == prompt.tier
<1>1. /\ t \in Tiers /\ pos \in 1 .. Len(Order[t]) /\ NKeys[Order[t][pos]] > 0
  BY RowOfOrder DEF Walk, InCall, Rows, Provider, Prompts
<1>2. /\ Cardinality(UsedRows(t, pos - 1)) \in Nat /\ Cardinality(UsedRows(t, pos)) \in Nat
      /\ RowsWithKeys(t) \in Nat /\ Cardinality(UsedRows(t, pos)) <= RowsWithKeys(t)
      /\ Cardinality(UsedRows(t, pos)) = Cardinality(UsedRows(t, pos - 1)) + 1
  BY <1>1, UsedRowsCount
<1>3. paid < MaxPaid + Cardinality(UsedRows(t, pos - 1)) /\ paid \in Nat /\ MaxPaid \in Nat
  BY CascadeAssumption DEF SpendInv, InCall
<1> QED
  BY <1>1, <1>2, <1>3

\* A step that leaves the row, with at most one reply paid for.
LEMMA SpendNextRow ==
  ASSUME Walk, SpendInv, pc \in AtKey, NextRow, prompt' = prompt, paid' \in {paid, paid + 1}
  PROVE  SpendInv'
<1> DEFINE t == prompt.tier
<1>1. /\ t \in Tiers /\ pos \in Nat /\ pos' = pos + 1 /\ pos' - 1 = pos
      /\ paid + 1 < MaxPaid + Cardinality(UsedRows(t, pos)) /\ Cardinality(UsedRows(t, pos)) \in Nat
      /\ paid + 1 < MaxPaid + RowsWithKeys(t)
  BY OneReplyForARow DEF NextRow
<1>2. paid \in Nat /\ paid' \in Nat /\ MaxPaid \in Nat /\ paid' <= paid + 1
  BY CascadeAssumption DEF SpendInv
<1>3. paid' < MaxPaid + Cardinality(UsedRows(t, pos))
  BY <1>1, <1>2
<1>4. SpendingBounded'
  <2>1. CASE paid' = paid
    BY <2>1 DEF SpendInv, SpendingBounded
  <2>2. CASE paid' = paid + 1
    BY <1>1, <2>2 DEF SpendingBounded
  <2> QED
    BY <2>1, <2>2
<1> QED
  BY <1>1, <1>2, <1>3, <1>4 DEF SpendInv

\* A step that stays at the row, or is in no call, and pays nothing.
LEMMA SpendRests ==
  ASSUME SpendInv, paid' = paid,
         pc' \in InCall => pc \in InCall /\ prompt' = prompt /\ pos' = pos
  PROVE  SpendInv'
BY DEF SpendInv, SpendingBounded

LEMMA SpendNextKey ==
  ASSUME Walk, SpendInv, pc \in AtKey, NextKey, prompt' = prompt, paid' = paid
  PROVE  SpendInv'
<1>1. CASE Len(keys) > 1
  BY <1>1, SpendRests DEF NextKey, InCall
<1>2. CASE ~(Len(keys) > 1)
  BY <1>2, SpendNextRow DEF NextKey
<1> QED
  BY <1>1, <1>2

\* What a step of the gateway costs.
LEMMA SpendStep ==
  ASSUME Walk, SpendInv, Step
  PROVE  SpendInv'
<1>1. CASE OpenRow
  <2>1. /\ pc = "row" /\ prompt \in Prompts /\ pos \in 1 .. Len(Rows) /\ UNCHANGED <<prompt, paid>>
    BY <1>1 DEF OpenRow, Walk, InCall, Rows
  <2>2. CASE pos' = pos
    BY <2>1, <2>2, SpendRests DEF InCall
  <2>3. CASE pos' # pos
    <3> DEFINE t == prompt.tier
    <3>1. pos' = pos + 1 /\ NKeys[Order[t][pos]] = 0 /\ t \in Tiers /\ pos \in 1 .. Len(Order[t])
      BY <1>1, <2>1, <2>3 DEF OpenRow, Provider, Rows, Prompts
    <3>2. Cardinality(UsedRows(t, pos)) = Cardinality(UsedRows(t, pos - 1)) + 0
          /\ Cardinality(UsedRows(t, pos - 1)) \in Nat
      BY <3>1, UsedRowsCount
    <3>3. paid < MaxPaid + Cardinality(UsedRows(t, pos)) /\ pos' - 1 = pos
      BY <2>1, <3>1, <3>2 DEF SpendInv, InCall
    <3> QED
      BY <2>1, <3>3 DEF SpendInv, SpendingBounded
  <2> QED
    BY <2>2, <2>3
<1>2. CASE NoRowLeft
  BY <1>2, SpendRests DEF NoRowLeft, Ends, InCall, AtKey
<1>3. CASE SkipKey
  BY <1>3, SpendNextKey DEF SkipKey, AtKey
<1>4. CASE TakeKey \/ Send \/ Retry
  BY <1>4, SpendRests DEF TakeKey, Send, Retry, place, InCall, AtKey
<1>5. CASE Refusal
  BY <1>5, SpendNextRow DEF Refusal, Recorded, AtKey
<1>6. ASSUME NEW r \in Replies, NEW stop \in Stop, Reply(r, stop)
      PROVE  SpendInv'
  <2>1. pc = "sent" /\ pc' = "end" /\ paid' = paid + 1
    BY <1>6 DEF Reply, Ends, Recorded
  <2>2. prompt.tier \in Tiers /\ paid' < MaxPaid + RowsWithKeys(prompt.tier)
    BY <2>1, OneReplyForARow DEF AtKey
  <2>3. paid' \in Nat
    BY <2>1 DEF SpendInv
  <2> QED
    BY <2>1, <2>2, <2>3 DEF SpendInv, SpendingBounded, InCall, AtKey
<1>7. ASSUME NEW fault \in KeyFaults, KeyFault(fault)
      PROVE  SpendInv'
  BY <1>7, SpendNextKey DEF KeyFault, AtKey
<1>8. ASSUME NEW fault \in RowFaults, RowFault(fault)
      PROVE  SpendInv'
  BY <1>8, SpendNextRow DEF RowFault, AtKey
<1> QED
  BY <1>1, <1>2, <1>3, <1>4, <1>5, <1>6, <1>7, <1>8 DEF Step, Replies

LEMMA SpendKept == Walk /\ Asking /\ SpendInv /\ [Next]_vars => SpendInv'
<1> SUFFICES ASSUME Walk, Asking, SpendInv, [Next]_vars
             PROVE  SpendInv'
  OBVIOUS
<1>1. CASE (\E q \in Questions : Compose(q)) \/ OverBudget \/ NoTierLeft \/ UNCHANGED vars
  BY <1>1, SpendRests DEF Compose, OverBudget, NoTierLeft, vars, gatewayVars, place
<1>2. CASE NextTier \/ CutOff \/ Passes \/ Fails
  BY <1>2, SpendRests DEF NextTier, CutOff, Passes, Fails, Back, InCall, AtKey
<1>3. CASE Ask
  <2>2. CASE Hit(Prompt)
    BY <2>2, SpendRests DEF Hit, Ends, InCall, AtKey
  <2>3. CASE Miss(Prompt)
    <3>1. prompt' = Prompt /\ pos' = 1 /\ pc' = "row" /\ paid' = paid
      BY <2>3 DEF Miss
    <3>2. UsedRows(prompt'.tier, pos' - 1) = {}
      BY <3>1 DEF UsedRows
    <3>3. Cardinality(UsedRows(prompt'.tier, pos' - 1)) = 0
      BY <3>2, FS_EmptySet
    <3>4. paid' < MaxPaid + Cardinality(UsedRows(prompt'.tier, pos' - 1))
      BY <1>3, <3>1, <3>3, CascadeAssumption DEF Ask, Affordable
    <3> QED
      BY <3>1, <3>4 DEF SpendInv, SpendingBounded
  <2> QED
    BY <1>3, <2>2, <2>3 DEF Ask
<1>4. CASE Step
  BY <1>4, SpendStep
<1>5. CASE Tick
  BY <1>5, SpendRests DEF Tick, place
<1> QED
  BY <1>1, <1>2, <1>3, <1>4, <1>5 DEF Next, Work

LEMMA SpendInit == Init => SpendInv
BY CascadeAssumption DEF Init, GatewayInit, SpendInv, SpendingBounded, InCall, AtKey

\* The limit of an answer's cost is passed by no more than the replies of one
\* call, one for each row with a key of some tier: refusals included, however
\* often a call goes on to its next row.
THEOREM SpendingHolds == Spec => []SpendingBounded
<1>1. WalkInv => Walk /\ Asking
  BY DEF WalkInv
<1>2. SpendInv => SpendingBounded
  BY DEF SpendInv
<1> QED
  BY <1>1, <1>2, SpendInit, SpendKept, WalkInvariance, PTL DEF Spec

-----------------------------------------------------------------------------
(* The catalogue. *)

ReadOnlyNodes(offered) == \A n \in DOMAIN offered : ReadOnly(offered[n])

LEMMA OfferKeeps ==
    ASSUME NEW offered, ReadOnlyNodes(offered), NEW plan
    PROVE  ReadOnlyNodes(Offer(offered, plan))
BY DEF ReadOnlyNodes, Offer

LEMMA CatalogueReads ==
    /\ ReadOnlyNodes(Catalogue)
    /\ \A n \in DOMAIN Catalogue : Catalogue[n].after \subseteq DOMAIN Catalogue
<1> DEFINE offered == Offer(Offer(Offer(<<>>, ReleaseHandoff), RevDiffDfm), ToolRefusal)
           Closed == {S \in SUBSET DOMAIN offered : \A n \in S : offered[n].after \subseteq S}
<1>1. ReadOnlyNodes(<<>>)
    BY DEF ReadOnlyNodes
<1>2. ReadOnlyNodes(offered)
    BY <1>1, OfferKeeps
<1>3. Catalogue = [n \in UNION Closed |-> offered[n]]
    BY DEF Catalogue, WithDependencies, Restrict
<1> HIDE DEF offered
<1>4. \A n \in UNION Closed : n \in DOMAIN offered /\ offered[n].after \subseteq UNION Closed
    OBVIOUS
<1> HIDE DEF Closed
<1> QED
    BY <1>2, <1>3, <1>4 DEF ReadOnlyNodes

LEMMA ChosenIsClosed ==
    ASSUME NEW picked, picked \subseteq DOMAIN Catalogue
    PROVE  /\ picked \subseteq Chosen(picked) /\ Chosen(picked) \subseteq DOMAIN Catalogue
           /\ \A n \in Chosen(picked) : Catalogue[n].after \subseteq Chosen(picked)
BY CatalogueReads DEF Chosen

\* What the nodes of a graph are: the plan's, and those its fired rules add.
LEMMA GraphNodes ==
    ASSUME NEW plan, NEW res
    PROVE  LET graph == Graph(plan, res)
           IN /\ DOMAIN plan.nodes \subseteq DOMAIN graph
              /\ \A n \in DOMAIN plan.nodes : graph[n] = plan.nodes[n]
              /\ \A n \in DOMAIN graph \ DOMAIN plan.nodes :
                    \E r \in plan.rules : r.id = n /\ Fires(r, res) /\ graph[n] = r.node
<1> DEFINE fired == {r \in plan.rules : Fires(r, res)}
           Adding(n) == CHOOSE r \in fired : r.id = n
<1>1. Graph(plan, res) = [n \in DOMAIN plan.nodes \cup {r.id : r \in fired} |->
                            IF n \in DOMAIN plan.nodes THEN plan.nodes[n] ELSE Adding(n).node]
    BY DEF Graph
<1>2. \A n \in {r.id : r \in fired} : Adding(n) \in fired /\ Adding(n).id = n
  <2> TAKE n \in {r.id : r \in fired}
  <2>1. \E r \in fired : r.id = n
    OBVIOUS
  <2> QED
    BY <2>1
<1>3. \A r \in fired : r \in plan.rules /\ Fires(r, res)
    OBVIOUS
<1> HIDE DEF fired, Adding
<1>4. \A n \in {r.id : r \in fired} : \E r \in plan.rules : r.id = n /\ Fires(r, res) /\ Adding(n).node = r.node
    BY <1>2, <1>3
<1> QED
    BY <1>1, <1>4

-----------------------------------------------------------------------------
(* Steps. *)

\* The files are listed, a candidate's notes looked at: in full or not.
Lists == ListFiles \/ ListCut

Notes(f) == ReadNotes(f) \/ NotesCut(f) \/ NotesUnreadable(f)

RouteSteps ==
    \/ RouteByRules \/ RouteByLlm \/ Lists \/ ListFails
    \/ \E f \in DOMAIN world.files : Notes(f)

Settles == \E due \in Turns : ReadNode(due) \/ CutShort(due) \/ Flaky(due) \/ Compute(due) \/ Bypass(due)

Replays == Control \/ \E fault \in DOMAIN ReplayFaults : Fault(fault)

\* Every step, by what it is.
LEMMA StepCases ==
    [TrialNext]_trialVars <=>
        \/ ObserveBefore \/ RouteSteps \/ Settles \/ Conclude \/ ObserveAfter \/ Move \/ Replays
        \/ UNCHANGED trialVars \/ Done
BY DEF TrialNext, RouteSteps, Lists, Notes, Settles, Replays

\* What happens while the plan runs.
LEMMA SettleFrame ==
    ASSUME Settles
    PROVE  /\ phase = "run" /\ phase' = "run"
           /\ UNCHANGED <<task, world, route, narrowing, before, after, start, record, replay, base, moves>>
<1>1. phase = "run"
    BY DEF Settles, Turns
<1> QED
    BY <1>1 DEF Settles, ReadNode, CutShort, Flaky, Compute, Bypass, Idle

LEMMA ReplayFrame ==
    ASSUME Replays
    PROVE  /\ phase = "graded" /\ phase' = "run" /\ replay = "none" /\ Grade(Bundle) = "pass"
           /\ base' = record /\ record' = NoRecord
           /\ UNCHANGED <<task, world, route, narrowing, before, after, journal, moves, faults>>
BY DEF Replays, Control, Fault, Continue, Replayable

LEMMA RouteFrame ==
    ASSUME RouteSteps
    PROVE  /\ phase \in {"route", "resolve", "narrow"}
           /\ UNCHANGED <<task, world, before, after, results, tries, start, record, replay, base, moves>>
<1>1. CASE RouteByRules
    BY <1>1 DEF RouteByRules, Unrouted
<1>2. CASE RouteByLlm
    BY <1>2 DEF RouteByLlm, Unrouted
<1>3. CASE Lists
    BY <1>3 DEF Lists, ListFiles, ListCut, Unrouted
<1>4. CASE ListFails
    BY <1>4 DEF ListFails, Unrouted
<1>5. CASE \E f \in DOMAIN world.files : Notes(f)
    BY <1>5 DEF Notes, ReadNotes, NotesCut, NotesUnreadable, Unrouted
<1> QED
    BY <1>1, <1>2, <1>3, <1>4, <1>5 DEF RouteSteps

\* An edit leaves the platform a platform of the same files, with histories no
\* shorter than before.
LEMMA MoveFrame ==
    ASSUME IsPlatform(world), Move
    PROVE  /\ IsPlatform(world') /\ DOMAIN world'.files = DOMAIN world.files
           /\ \A f \in DOMAIN world.files : /\ world'.files[f].score = world.files[f].score
                                             /\ Len(world'.files[f].versions) >= Len(world.files[f].versions)
           /\ phase \in {"run", "after"} /\ moves' = moves + 1
           /\ UNCHANGED <<task, phase, route, narrowing, before, after, results, tries, journal, start, record,
                          replay, base, faults>>
<1>1. /\ phase \in {"run", "after"} /\ moves' = moves + 1
      /\ UNCHANGED <<task, phase, route, narrowing, before, after, results, tries, journal, start, record,
                     replay, base, faults>>
      /\ \/ world' \in Rescheduled
         \/ \E f \in DOMAIN world.files : world' \in EditsOf(f)
    BY DEF Move
<1>2. PICK F \in SUBSET File : world.files \in [F -> FileRecord]
    BY DEF IsPlatform
<1>3. PICK M \in SUBSET Milestone : world.milestones \in [M -> [due : Int, done : BOOLEAN]]
    BY DEF IsPlatform, IsDates
<1>4. world = [files |-> world.files, milestones |-> world.milestones,
               standards |-> world.standards, tools |-> world.tools]
    BY DEF IsPlatform
<1>5. CASE world' \in Rescheduled
  <2>1. PICK m \in Milestone, date \in [due : {Today - 1, Today + 1}, done : BOOLEAN] :
          world' = [world EXCEPT !.milestones = With(@, m, date)]
    BY <1>5 DEF Rescheduled
  <2> DEFINE dates == With(world.milestones, m, date)
  <2>2. date \in [due : Int, done : BOOLEAN]
    BY PlatformAssumption
  <2>3. dates \in [M \cup {m} -> [due : Int, done : BOOLEAN]] /\ M \cup {m} \in SUBSET Milestone
    BY <1>3, <2>2 DEF With
  <2>4. world' = [files |-> world.files, milestones |-> dates,
                  standards |-> world.standards, tools |-> world.tools]
    BY <1>4, <2>1
  <2> HIDE DEF dates
  <2>5. /\ world'.files = world.files /\ world'.milestones = dates
        /\ world'.standards = world.standards /\ world'.tools = world.tools
    BY <2>4
  <2>6. \A g \in DOMAIN world.files : Len(world.files[g].versions) \in Nat
    BY <1>2 DEF FileRecord
  <2>7. IsPlatform(world')
    BY <1>2, <2>3, <2>4, <2>5 DEF IsPlatform, IsDates
  <2>8. \A g \in DOMAIN world.files : /\ world'.files[g].score = world.files[g].score
                                      /\ Len(world'.files[g].versions) >= Len(world.files[g].versions)
    BY <2>5, <2>6
  <2> QED
    BY <1>1, <2>5, <2>7, <2>8
<1>6. ASSUME NEW f \in DOMAIN world.files, world' \in EditsOf(f)
      PROVE  \E new \in FileRecord : /\ new.score = world.files[f].score
                                       /\ Len(new.versions) >= Len(world.files[f].versions)
                                       /\ world' = [world EXCEPT !.files[f] = new]
  <2> DEFINE old == world.files[f]
  <2>1. /\ old \in FileRecord
        /\ old.score \in Nat /\ old.versions \in Seq(VersionNote) /\ old.gate \subseteq Item /\ old.rows \subseteq Item
        /\ old = [score |-> old.score, versions |-> old.versions, gate |-> old.gate, rows |-> old.rows]
    BY <1>2 DEF FileRecord
  <2>2. CASE \E v \in DOMAIN old.versions, note \in Note : world' = [world EXCEPT !.files[f].versions[v] = note]
    <3>1. PICK v \in DOMAIN old.versions, note \in Note : world' = [world EXCEPT !.files[f].versions[v] = note]
      BY <2>2
    <3> DEFINE versions == [old.versions EXCEPT ![v] = note]
               new == [old EXCEPT !.versions = versions]
    <3>2. versions \in Seq(VersionNote) /\ Len(versions) >= Len(old.versions)
      BY <2>1, PlatformAssumption
    <3>3. new \in FileRecord /\ new.score = old.score /\ Len(new.versions) >= Len(old.versions)
      BY <2>1, <3>2 DEF FileRecord
    <3>4. world' = [world EXCEPT !.files[f] = new]
      BY <3>1
    <3> QED
      BY <3>3, <3>4
  <2>3. CASE \E note \in Note : world' = [world EXCEPT !.files[f].versions = Append(@, note)]
    <3>1. PICK note \in Note : world' = [world EXCEPT !.files[f].versions = Append(@, note)]
      BY <2>3
    <3> DEFINE versions == Append(old.versions, note)
               new == [old EXCEPT !.versions = versions]
    <3>2. versions \in Seq(VersionNote) /\ Len(versions) >= Len(old.versions)
      BY <2>1, PlatformAssumption
    <3>3. new \in FileRecord /\ new.score = old.score /\ Len(new.versions) >= Len(old.versions)
      BY <2>1, <3>2 DEF FileRecord
    <3>4. world' = [world EXCEPT !.files[f] = new]
      BY <3>1
    <3> QED
      BY <3>3, <3>4
  <2>4. CASE \E gate \in SUBSET Item : world' = [world EXCEPT !.files[f].gate = gate]
    <3>1. PICK gate \in SUBSET Item : world' = [world EXCEPT !.files[f].gate = gate]
      BY <2>4
    <3> DEFINE new == [old EXCEPT !.gate = gate]
    <3>2. new \in FileRecord /\ new.score = old.score /\ Len(new.versions) >= Len(old.versions)
      BY <2>1 DEF FileRecord
    <3>3. world' = [world EXCEPT !.files[f] = new]
      BY <3>1
    <3> QED
      BY <3>2, <3>3
  <2> QED
    BY <1>6, <2>2, <2>3, <2>4 DEF EditsOf
<1>7. CASE \E f \in DOMAIN world.files : world' \in EditsOf(f)
  <2>1. PICK f \in DOMAIN world.files, new \in FileRecord :
          /\ new.score = world.files[f].score /\ Len(new.versions) >= Len(world.files[f].versions)
          /\ world' = [world EXCEPT !.files[f] = new]
    BY <1>6, <1>7
  <2> DEFINE files == [world.files EXCEPT ![f] = new]
  <2>2. files \in [F -> FileRecord] /\ DOMAIN files = DOMAIN world.files
    BY <1>2
  <2>3. \A g \in DOMAIN world.files : /\ files[g].score = world.files[g].score
                                      /\ Len(files[g].versions) >= Len(world.files[g].versions)
    <3>1. \A g \in DOMAIN world.files : Len(world.files[g].versions) \in Nat
      BY <1>2 DEF FileRecord
    <3> QED
      BY <1>2, <2>1, <3>1
  <2>4. world' = [files |-> files, milestones |-> world.milestones,
                  standards |-> world.standards, tools |-> world.tools]
    BY <1>4, <2>1
  <2> HIDE DEF files
  <2>5. /\ world'.files = files /\ world'.milestones = world.milestones
        /\ world'.standards = world.standards /\ world'.tools = world.tools
    BY <2>4
  <2> QED
    BY <1>1, <1>3, <2>2, <2>3, <2>4, <2>5 DEF IsPlatform, IsDates
<1> QED
    BY <1>1, <1>5, <1>7

-----------------------------------------------------------------------------
(* Where a route is, and the candidates of its question. *)

Candidates ==
    /\ IsPlatform(world)
    /\ narrowing.all \subseteq DOMAIN world.files
    /\ narrowing.left \subseteq narrowing.all /\ narrowing.kept \subseteq narrowing.all

\* The files of a platform are finitely many, and none of them is NoFile.
LEMMA FilesAreFiles ==
    ASSUME IsPlatform(world)
    PROVE  IsFiniteSet(DOMAIN world.files) /\ NoFile \notin DOMAIN world.files /\ DOMAIN world.files \subseteq File
<1>1. PICK F \in SUBSET File : world.files \in [F -> FileRecord]
    BY DEF IsPlatform
<1> QED
    BY <1>1, PlatformAssumption, FS_Subset

\* The files that match the question best.
Best == BestMatches(world.files, TopScored(world.files), Revs)

LEMMA BestAreFiles ==
    ASSUME NEW files, NEW top, NEW revs
    PROVE  BestMatches(files, top, revs) \subseteq top /\ TopScored(files) \subseteq DOMAIN files
BY DEF BestMatches, OrAll, TopScored

\* The choice among some files takes one of them.
LEMMA OnlyOne ==
    ASSUME IsPlatform(world), NEW top, top \subseteq DOMAIN world.files, Cardinality(top) = 1
    PROVE  \E f \in DOMAIN world.files : top = {f} /\ f # NoFile
<1>1. IsFiniteSet(top) /\ NoFile \notin top
    BY FilesAreFiles, FS_Subset
<1> QED
    BY <1>1, FS_Singleton

\* What a choice among the files that match best comes to.
LEMMA ChooseDecides ==
    ASSUME NEW top, NEW dark, Choose(top, dark)
    PROVE  /\ narrowing' = [left |-> narrowing'.all, kept |-> {}, all |-> narrowing'.all, dark |-> dark]
           /\ narrowing'.all \in {{}, top}
           /\ \/ Decide(Decline(route.planner, "unknown"))
              \/ Cardinality(top) = 1 /\ \A f \in top : Aim(f)
              \/ Ambiguous
              \/ /\ Cardinality(top) > 1 /\ Revs # {} /\ narrowing'.all = top
                 /\ phase' = "narrow" /\ UNCHANGED route
BY DEF Choose

\* The choice is among the best of all files, or in the dark about every file.
LEMMA ListsChoose ==
    ASSUME Lists
    PROVE  /\ phase = "resolve"
           /\ \E top \in SUBSET DOMAIN world.files, dark \in SUBSET DOMAIN world.files :
                 /\ Choose(top, dark)
                 /\ (top = Best /\ dark = {}) \/ dark = DOMAIN world.files
<1>1. CASE ListFiles
    BY <1>1, BestAreFiles DEF ListFiles, Best
<1>2. CASE ListCut
  <2>1. PICK listed \in SUBSET DOMAIN world.files :
          Choose(BestMatches(world.files, listed, Revs), DOMAIN world.files) /\ phase = "resolve"
    BY <1>2 DEF ListCut
  <2>2. BestMatches(world.files, listed, Revs) \in SUBSET DOMAIN world.files
    BY BestAreFiles
  <2> QED
    BY <2>1, <2>2
<1> QED
    BY <1>1, <1>2 DEF Lists

\* The notes of a file name what the question does.
Confirmed(f) == Names(world.files[f].versions, Revs)

LEMMA NamesInPart ==
    ASSUME NEW S, NEW versions \in Seq(S), versions # <<>>, NEW revs, Names(Front(versions), revs)
    PROVE  Names(versions, revs)
<1> DEFINE n == Len(versions)
           part == SubSeq(versions, 1, n - 1)
<1>1. n \in Nat /\ n # 0 /\ \A i \in 1 .. n : versions[i] \in S
    OBVIOUS
<1>2. /\ part \in Seq(S)
      /\ Len(part) = IF 1 <= n - 1 THEN n - 1 - 1 + 1 ELSE 0
      /\ \A i \in 1 .. n - 1 - 1 + 1 : part[i] = versions[1 + i - 1]
  <2>1. \A i \in 1 .. n - 1 : versions[i] \in S
    BY <1>1
  <2> QED
    BY <1>1, <2>1, SubSeqProperties
<1> HIDE DEF part
<1>3. DOMAIN part = 1 .. n - 1 /\ DOMAIN versions = 1 .. n /\ \A i \in 1 .. n - 1 : part[i] = versions[i]
    BY <1>1, <1>2
<1>4. {part[v].rev : v \in DOMAIN part} \subseteq {versions[v].rev : v \in DOMAIN versions}
    BY <1>1, <1>3
<1> QED
    BY <1>4 DEF Names, Front, part

\* A file is confirmed only by what its notes say, and one whose notes were
\* read in full is confirmed if they say so.
LEMMA NotesConfirm ==
    ASSUME IsPlatform(world), NEW f \in DOMAIN world.files, Notes(f)
    PROVE  /\ phase = "narrow" /\ f \in narrowing.left
           /\ \E named \in BOOLEAN, dark \in {{}, {f}} :
                 /\ Confirm(f, named, dark)
                 /\ named => Confirmed(f)
                 /\ dark = {} => named = Confirmed(f)
<1>1. CASE ReadNotes(f)
    BY <1>1 DEF ReadNotes, Confirmed, Names
<1>2. CASE NotesCut(f)
  <2>1. /\ phase = "narrow" /\ f \in narrowing.left /\ world.files[f].versions # <<>>
        /\ Confirm(f, Names(Front(world.files[f].versions), Revs), {f})
    BY <1>2 DEF NotesCut
  <2>2. world.files[f].versions \in Seq(VersionNote)
    BY DEF IsPlatform, FileRecord
  <2>3. Names(Front(world.files[f].versions), Revs) \in BOOLEAN
    BY DEF Names
  <2>4. Names(Front(world.files[f].versions), Revs) => Confirmed(f)
    BY <2>1, <2>2, NamesInPart DEF Confirmed
  <2> QED
    BY <2>1, <2>3, <2>4
<1>3. CASE NotesUnreadable(f)
    BY <1>3 DEF NotesUnreadable
<1> QED
    BY <1>1, <1>2, <1>3 DEF Notes

LEMMA SomeConfirm ==
    ASSUME Candidates, \E f \in DOMAIN world.files : Notes(f)
    PROVE  /\ phase = "narrow"
           /\ \E f \in narrowing.left, named \in BOOLEAN, dark \in SUBSET DOMAIN world.files : Confirm(f, named, dark)
<1>1. PICK f \in DOMAIN world.files : Notes(f)
    OBVIOUS
<1>2. PICK named \in BOOLEAN, dark \in {{}, {f}} : Confirm(f, named, dark)
    BY <1>1, NotesConfirm DEF Candidates
<1>3. dark \in SUBSET DOMAIN world.files
    OBVIOUS
<1>4. f \in narrowing.left /\ phase = "narrow"
    BY <1>1, NotesConfirm DEF Candidates
<1> QED
    BY <1>2, <1>3, <1>4

LEMMA CandidatesInit == TrialInit => Candidates
<1> SUFFICES ASSUME TrialInit PROVE Candidates
    OBVIOUS
<1>1. IsPlatform(world)
    BY PlatformAssumption DEF TrialInit
<1>2. narrowing = [left |-> {}, kept |-> {}, all |-> {}, dark |-> {}]
    BY DEF TrialInit
<1> QED
    BY <1>1, <1>2 DEF Candidates

LEMMA CandidatesRoute ==
    ASSUME Candidates, RouteSteps
    PROVE  Candidates'
<1>0. UNCHANGED <<task, world>>
    BY RouteFrame
<1>1. CASE RouteByRules \/ RouteByLlm \/ ListFails
    BY <1>0, <1>1 DEF RouteByRules, RouteByLlm, ListFails, Candidates
<1>2. CASE Lists
  <2>1. PICK top \in SUBSET DOMAIN world.files, dark \in SUBSET DOMAIN world.files : Choose(top, dark)
    BY <1>2, ListsChoose
  <2>2. narrowing'.left = narrowing'.all /\ narrowing'.kept = {} /\ narrowing'.all \in {{}, top}
    BY <2>1, ChooseDecides
  <2> QED
    BY <1>0, <2>1, <2>2 DEF Candidates
<1>3. CASE \E f \in DOMAIN world.files : Notes(f)
  <2>1. PICK f \in narrowing.left, named \in BOOLEAN, dark \in SUBSET DOMAIN world.files : Confirm(f, named, dark)
    BY <1>3, SomeConfirm
  <2> DEFINE kept == narrowing.kept \cup (IF named THEN {f} ELSE {})
  <2>2. narrowing' = [narrowing EXCEPT !.left = narrowing.left \ {f}, !.kept = kept,
                                       !.dark = narrowing.dark \cup dark]
    BY <2>1 DEF Confirm
  <2>3. kept \subseteq narrowing.all
    BY <2>1 DEF Candidates
  <2> HIDE DEF kept
  <2> QED
    BY <1>0, <2>2, <2>3 DEF Candidates
<1> QED
    BY <1>1, <1>2, <1>3 DEF RouteSteps

LEMMA CandidatesStep == Candidates /\ [TrialNext]_trialVars => Candidates'
<1> SUFFICES ASSUME Candidates, [TrialNext]_trialVars PROVE Candidates'
    OBVIOUS
<1>1. CASE RouteSteps
    BY <1>1, CandidatesRoute
<1>2. CASE Move
    BY <1>2, MoveFrame DEF Candidates
<1>3. CASE UNCHANGED <<world, narrowing>>
    BY <1>3 DEF Candidates
<1> QED
    BY <1>1, <1>2, <1>3, StepCases, SettleFrame, ReplayFrame
       DEF ObserveBefore, Conclude, ObserveAfter, Done, trialVars

\* A route the LLM planner made: the nodes of a reply that can be used, and, as
\* soon as the run has a plan, a file.
Planned == \E picked \in SUBSET DOMAIN Catalogue :
             Usable(picked) /\ route = [LlmRoute(picked) EXCEPT !.aim = route.aim]

PlannedInv ==
    route.planner = "llm" =>
        \/ route.plan = "route_declined"
        \/ Planned /\ (phase \in {"resolve", "narrow", "failed"} \/ route.aim # NoFile)

\* Aiming a planned route keeps it one.
LEMMA AimedIsPlanned ==
    ASSUME NEW picked \in SUBSET DOMAIN Catalogue, Usable(picked), NEW old, NEW new, NEW aim,
           old = [LlmRoute(picked) EXCEPT !.aim = old.aim] \/ old = LlmRoute(picked),
           new = [old EXCEPT !.aim = aim]
    PROVE  /\ new = [LlmRoute(picked) EXCEPT !.aim = new.aim] /\ new.aim = aim
           /\ new.planner = "llm" /\ new.plan = "llm_plan"
<1> DEFINE ids == Chosen(picked)
           nodes == Restrict(Catalogue, ids)
           rules == {r \in CatalogueRules : r.watch \in ids /\ r.node.after \subseteq ids}
<1>1. LlmRoute(picked) = [plan |-> "llm_plan", aim |-> NoFile, planner |-> "llm", why |-> "chosen",
                          nodes |-> nodes, rules |-> rules]
    BY DEF LlmRoute
<1> HIDE DEF nodes, rules
<1> QED
    BY <1>1

LEMMA RefusalsAreDeclined ==
    ASSUME NEW planner, NEW why
    PROVE  Decline(planner, why).plan = "route_declined"
BY DEF Decline

LEMMA PlannedInit == TrialInit => PlannedInv
<1> SUFFICES ASSUME TrialInit PROVE PlannedInv
    OBVIOUS
<1>1. route.planner = "rules"
    BY DEF TrialInit, RuleRoute
<1> QED
    BY <1>1 DEF PlannedInv

\* Aim, Ambiguous and Resolving, for whatever route there was.
LEMMA AimedKeeps ==
    ASSUME PlannedInv, phase \in {"resolve", "narrow"}, NEW f, f # NoFile, Aim(f)
    PROVE  PlannedInv'
<1>1. route' = [route EXCEPT !.aim = f] /\ phase' = "run"
    BY DEF Aim, Decide
<1>2. CASE Planned
  <2>1. PICK picked \in SUBSET DOMAIN Catalogue : Usable(picked) /\ route = [LlmRoute(picked) EXCEPT !.aim = route.aim]
    BY <1>2 DEF Planned
  <2>2. route' = [LlmRoute(picked) EXCEPT !.aim = route'.aim] /\ route'.aim = f
    BY <1>1, <2>1, AimedIsPlanned
  <2> QED
    BY <2>1, <2>2 DEF PlannedInv, Planned
<1>3. CASE ~Planned
  <2>1. route'.planner = route.planner /\ route'.plan = route.plan
    BY <1>1
  <2> QED
    BY <1>3, <2>1 DEF PlannedInv
<1> QED
    BY <1>2, <1>3

LEMMA AmbiguousKeeps ==
    ASSUME Ambiguous
    PROVE  PlannedInv'
BY RefusalsAreDeclined DEF Ambiguous, Decide, PlannedInv

LEMMA PlannedRoute ==
    ASSUME Candidates, PlannedInv, RouteSteps
    PROVE  PlannedInv'
<1>0. UNCHANGED <<task, world>>
    BY RouteFrame
<1>1. CASE RouteByRules
  <2>1. \/ route' = [RuleRoute(task.question.match) EXCEPT !.aim = task.question.id]
        \/ route' = RuleRoute(task.question.match)
        \/ route' = Decline("rules", "no route matched")
    BY <1>1 DEF RouteByRules, Resolving, Decide
  <2>2. \A name : RuleRoute(name).planner = "rules" /\ [RuleRoute(name) EXCEPT !.aim = task.question.id].planner = "rules"
    BY DEF RuleRoute
  <2>3. Decline("rules", "no route matched").planner = "rules"
    BY DEF Decline
  <2>4. route'.planner = "rules"
    BY <2>1, <2>2, <2>3
  <2> QED
    BY <2>4 DEF PlannedInv
<1>2. CASE RouteByLlm
  <2>1. PICK picked \in SUBSET (DOMAIN Catalogue \cup {"file_handoffs"}) :
          IF Usable(picked) THEN Resolving(LlmRoute(picked)) ELSE Decide(Decline("rules", "no route matched"))
    BY <1>2 DEF RouteByLlm
  <2>2. CASE ~Usable(picked)
    BY <2>1, <2>2, RefusalsAreDeclined DEF Decide, PlannedInv
  <2>3. CASE Usable(picked)
    <3>1. picked \in SUBSET DOMAIN Catalogue
      BY <2>3 DEF Usable
    <3> DEFINE llm == LlmRoute(picked)
    <3>2. \/ route' = [llm EXCEPT !.aim = task.question.id] /\ task.question.id # NoFile
          \/ route' = llm /\ phase' = "resolve"
      BY <2>1, <2>3 DEF Resolving, Decide
    <3>3. llm = [LlmRoute(picked) EXCEPT !.aim = llm.aim] /\ llm.aim = NoFile
      BY DEF LlmRoute
    <3> HIDE DEF llm
    <3>4. CASE route' = [llm EXCEPT !.aim = task.question.id] /\ task.question.id # NoFile
      <4>1. route' = [LlmRoute(picked) EXCEPT !.aim = route'.aim] /\ route'.aim # NoFile
        BY <2>3, <3>1, <3>3, <3>4, AimedIsPlanned
      <4> QED
        BY <2>3, <3>1, <4>1 DEF PlannedInv, Planned
    <3>5. CASE route' = llm /\ phase' = "resolve"
      <4>1. Planned'
        BY <2>3, <3>1, <3>3, <3>5 DEF Planned
      <4> QED
        BY <3>5, <4>1 DEF PlannedInv
    <3> QED
      BY <3>2, <3>4, <3>5
  <2> QED
    BY <2>2, <2>3
<1>3. CASE Lists
  <2>0. PICK top \in SUBSET DOMAIN world.files, dark \in SUBSET DOMAIN world.files :
          Choose(top, dark) /\ phase = "resolve" /\ IsPlatform(world)
    BY <1>3, ListsChoose DEF Candidates
  <2>1. \/ Decide(Decline(route.planner, "unknown"))
        \/ Cardinality(top) = 1 /\ (\A f \in top : Aim(f))
        \/ Ambiguous
        \/ phase' = "narrow" /\ UNCHANGED route
    BY <2>0, ChooseDecides
  <2>2. CASE Decide(Decline(route.planner, "unknown"))
    BY <2>2, RefusalsAreDeclined DEF Decide, PlannedInv
  <2>3. CASE Cardinality(top) = 1 /\ (\A f \in top : Aim(f))
    BY <2>0, <2>3, OnlyOne, AimedKeeps
  <2>4. CASE Ambiguous
    BY <2>4, AmbiguousKeeps
  <2>5. CASE phase' = "narrow" /\ UNCHANGED route
    BY <2>5 DEF PlannedInv, Planned
  <2> QED
    BY <2>1, <2>2, <2>3, <2>4, <2>5
<1>4. CASE ListFails
    BY <1>4, RouteFrame DEF ListFails, PlannedInv, Planned
<1>5. CASE \E f \in DOMAIN world.files : Notes(f)
  <2>1. PICK f \in narrowing.left, named \in BOOLEAN, dark \in SUBSET DOMAIN world.files :
          Confirm(f, named, dark) /\ phase = "narrow"
    BY <1>5, SomeConfirm
  <2> DEFINE kept == narrowing.kept \cup (IF named THEN {f} ELSE {})
             top == OrAll(kept, narrowing.all)
  <2>2. top \subseteq DOMAIN world.files /\ IsPlatform(world)
    BY DEF OrAll, Candidates
  <2>3. \/ UNCHANGED <<route, phase>>
        \/ Cardinality(top) = 1 /\ (\A g \in top : Aim(g))
        \/ Ambiguous
    BY <2>1 DEF Confirm
  <2> HIDE DEF top
  <2>4. CASE UNCHANGED <<route, phase>>
    BY <2>4 DEF PlannedInv, Planned
  <2>5. CASE Cardinality(top) = 1 /\ (\A g \in top : Aim(g))
    BY <2>1, <2>2, <2>5, OnlyOne, AimedKeeps
  <2>6. CASE Ambiguous
    BY <2>6, AmbiguousKeeps
  <2> QED
    BY <2>3, <2>4, <2>5, <2>6
<1> QED
    BY <1>1, <1>2, <1>3, <1>4, <1>5 DEF RouteSteps

LEMMA PlannedStep == Candidates /\ PlannedInv /\ [TrialNext]_trialVars => PlannedInv'
<1> SUFFICES ASSUME Candidates, PlannedInv, [TrialNext]_trialVars PROVE PlannedInv'
    OBVIOUS
<1>1. CASE RouteSteps
    BY <1>1, PlannedRoute
<1>2. CASE route' = route /\ (phase' = phase \/ phase \notin {"resolve", "narrow", "failed"})
    BY <1>2 DEF PlannedInv, Planned
<1> QED
    BY <1>1, <1>2, StepCases, SettleFrame, ReplayFrame
       DEF ObserveBefore, Conclude, ObserveAfter, Move, Done, trialVars

-----------------------------------------------------------------------------
(* What a planned run does. *)

LEMMA NamedPlans ==
    /\ PlanFile("release_handoff") = ReleaseHandoff
    /\ PlanFile("rev_diff_dfm") = RevDiffDfm
    /\ PlanFile("route_declined") = RouteDeclined
<1>1. /\ ReleaseHandoff.name = "release_handoff" /\ RevDiffDfm.name = "rev_diff_dfm"
      /\ RouteDeclined.name = "route_declined" /\ ToolRefusal.name = "tool_refusal"
    BY DEF ReleaseHandoff, RevDiffDfm, RouteDeclined, ToolRefusal
<1>2. /\ DOMAIN PlanFiles = 1 .. 4
      /\ PlanFiles[1] = ReleaseHandoff /\ PlanFiles[2] = RevDiffDfm
      /\ PlanFiles[3] = RouteDeclined /\ PlanFiles[4] = ToolRefusal
    BY DEF PlanFiles
<1> DEFINE At(name) == CHOOSE i \in DOMAIN PlanFiles : PlanFiles[i].name = name
<1>3. \A name : (\E i \in DOMAIN PlanFiles : PlanFiles[i].name = name) =>
                    At(name) \in DOMAIN PlanFiles /\ PlanFiles[At(name)].name = name
    OBVIOUS
<1>4. \A name : PlanFile(name) = PlanFiles[At(name)]
    BY DEF PlanFile
<1> HIDE DEF At
<1>5. At("release_handoff") = 1 /\ At("rev_diff_dfm") = 2 /\ At("route_declined") = 3
    BY <1>1, <1>2, <1>3
<1> QED
    BY <1>2, <1>4, <1>5

LEMMA RefusalReads ==
    ASSUME route.plan = "route_declined"
    PROVE  \A n \in DOMAIN Now : Now[n].action \notin Writing /\ Now[n].after \subseteq DOMAIN Now
<1>1. PlanOf(route) = RouteDeclined
    BY NamedPlans DEF PlanOf
<1>2. RouteDeclined.rules = {} /\ DOMAIN RouteDeclined.nodes = {"route"}
      /\ RouteDeclined.nodes["route"].action = "decline" /\ RouteDeclined.nodes["route"].after = {}
    BY DEF RouteDeclined, Node
<1>3. /\ DOMAIN RouteDeclined.nodes \subseteq DOMAIN Now
      /\ \A n \in DOMAIN RouteDeclined.nodes : Now[n] = RouteDeclined.nodes[n]
      /\ \A n \in DOMAIN Now \ DOMAIN RouteDeclined.nodes : \E r \in RouteDeclined.rules : TRUE
    BY <1>1, GraphNodes DEF Now
<1> QED
    BY <1>2, <1>3 DEF Writing

LEMMA PlannedReads ==
    ASSUME Planned
    PROVE  /\ Cardinality(DOMAIN route.nodes) <= MaxPlanned
           /\ \A n \in DOMAIN Now : /\ Now[n].action \notin Writing /\ Now[n].after \subseteq DOMAIN Now
                                    /\ Now[n].needs \subseteq {"file_id"}
<1>1. PICK picked \in SUBSET DOMAIN Catalogue : Usable(picked) /\ route = [LlmRoute(picked) EXCEPT !.aim = route.aim]
    BY DEF Planned
<1> DEFINE ids == Chosen(picked)
           nodes == Restrict(Catalogue, ids)
           rules == {r \in CatalogueRules : r.watch \in ids /\ r.node.after \subseteq ids}
           plan == [name |-> "llm_plan", nodes |-> nodes, rules |-> rules]
<1>2. route.plan = "llm_plan" /\ route.nodes = nodes /\ route.rules = rules
  <2>1. LlmRoute(picked) = [plan |-> "llm_plan", aim |-> NoFile, planner |-> "llm", why |-> "chosen",
                            nodes |-> nodes, rules |-> rules]
      BY DEF LlmRoute
  <2> HIDE DEF nodes, rules
  <2> QED
      BY <1>1, <2>1
<1>3. PlanOf(route) = plan
  <2> HIDE DEF nodes, rules
  <2> QED
      BY <1>2 DEF PlanOf
<1>4. /\ DOMAIN nodes = ids /\ ids \subseteq DOMAIN Catalogue
      /\ \A n \in ids : nodes[n] = Catalogue[n] /\ Catalogue[n].after \subseteq ids
    BY ChosenIsClosed DEF Restrict
<1>5. \A n \in ids : ReadOnly(nodes[n])
    BY <1>4, CatalogueReads DEF ReadOnlyNodes
<1>6. \A r \in rules : ReadOnly(r.node) /\ r.node.after \subseteq ids
    BY DEF CatalogueRules
<1>7. Cardinality(ids) <= MaxPlanned
    BY <1>1 DEF Usable
<1> HIDE DEF ids, nodes, rules
<1>8. plan.nodes = nodes /\ plan.rules = rules
    OBVIOUS
<1>9. /\ ids \subseteq DOMAIN Now
      /\ \A n \in ids : Now[n] = nodes[n]
      /\ \A n \in DOMAIN Now \ ids : \E r \in rules : Now[n] = r.node
  <2> HIDE DEF plan
  <2>1. Now = Graph(plan, results)
    BY <1>3 DEF Now
  <2> QED
    BY <1>4, <1>8, <2>1, GraphNodes
<1>10. \A n \in DOMAIN Now : ReadOnly(Now[n]) /\ Now[n].after \subseteq ids
    BY <1>4, <1>5, <1>6, <1>9
<1> QED
    BY <1>2, <1>4, <1>7, <1>9, <1>10 DEF ReadOnly, Resolvable

\* The nodes an LLM may choose from are read-only and closed under what they
\* wait for, so is every choice, and no rule among those kept adds another
\* kind: whatever plan files, question, platform and reply, a planned run reads
\* and does nothing else (agentkit/agents/llm_planner.py).
THEOREM PlannedRunsOnlyRead == TrialSpec => []PlansOnlyRead
<1>1. TrialInit => Candidates /\ PlannedInv
    BY CandidatesInit, PlannedInit
<1>2. Candidates /\ PlannedInv /\ [TrialNext]_trialVars => (Candidates /\ PlannedInv)'
    BY CandidatesStep, PlannedStep
<1>3. PlannedInv => PlansOnlyRead
    BY RefusalReads, PlannedReads DEF PlannedInv, PlansOnlyRead
<1> QED
    BY <1>1, <1>2, <1>3, PTL DEF TrialSpec

-----------------------------------------------------------------------------
(* Resolving a question's file. *)

Searching == {"before", "route", "resolve", "narrow"}

\* The notes looked at so far have decided which candidates are confirmed: among
\* those read in full, the ones whose notes name what the question does.
Sorted ==
    /\ Revs # {} /\ narrowing.left # {}
    /\ \/ narrowing.dark = DOMAIN world.files
       \/ /\ narrowing.all = Best
          /\ narrowing.kept \subseteq {f \in narrowing.all \ narrowing.left : Confirmed(f)}
          /\ \A f \in narrowing.all \ (narrowing.left \cup narrowing.dark) : Confirmed(f) => f \in narrowing.kept

SearchInv ==
    /\ moves \in Nat
    /\ phase \in {"route", "resolve", "narrow"} => task.plan = "route"
    /\ phase \in Searching /\ task.plan = "route" => route.aim = NoFile
    /\ phase = "narrow" => Sorted
    /\ NeverAGuess

\* Files that fit as well as a best match are best matches.
LEMMA BestIsClosed ==
    ASSUME IsPlatform(world), NEW f \in Best, NEW g \in DOMAIN world.files, AsGood(g, f)
    PROVE  g \in Best
<1> DEFINE files == world.files
           scores == {files[h].score : h \in DOMAIN files}
           top == TopScored(files)
           long == {h \in top : Len(files[h].versions) >= 2}
<1>1. Best = IF Revs = {} THEN top ELSE IF long = {} THEN top ELSE long
    BY DEF Best, BestMatches, OrAll
<1>2. \A h : h \in top <=> h \in DOMAIN files /\ files[h].score > 0 /\ \A s \in scores : files[h].score >= s
    BY DEF TopScored
<1> HIDE DEF top
<1>3. f \in top /\ f \in DOMAIN files
    BY <1>1, <1>2
<1>4. \A h \in DOMAIN files : files[h].score \in Nat
    BY DEF IsPlatform, FileRecord
<1>5. files[g].score >= files[f].score
    BY DEF AsGood
<1>6. files[g].score > 0 /\ \A h \in DOMAIN files : files[g].score >= files[h].score
    BY <1>2, <1>3, <1>4, <1>5
<1>7. g \in top
    BY <1>2, <1>6
<1>8. Revs # {} /\ f \in long => g \in long
    BY <1>7 DEF AsGood
<1> HIDE DEF long
<1> QED
    BY <1>1, <1>7, <1>8

LEMMA OneBest ==
    ASSUME IsPlatform(world), NEW f, Best = {f}
    PROVE  \A g \in DOMAIN world.files \ {f} : ~AsGood(g, f)
BY BestIsClosed

\* Of the candidates, the one left is better than all whose notes were read in full.
LEMMA OneConfirmed ==
    ASSUME IsPlatform(world), Revs # {}, NEW kept, NEW f, NEW dark,
           kept \subseteq {h \in Best : Confirmed(h)},
           \A h \in Best \ dark : Confirmed(h) => h \in kept,
           OrAll(kept, Best) = {f}
    PROVE  \A g \in DOMAIN world.files \ ({f} \cup dark) : ~AsGood(g, f)
<1> SUFFICES ASSUME NEW g \in DOMAIN world.files, AsGood(g, f), g \notin dark PROVE g = f
    OBVIOUS
<1>1. (IF kept = {} THEN Best ELSE kept) = {f}
    BY DEF OrAll
<1>2. f \in Best
    BY <1>1
<1>3. g \in Best
    BY <1>2, BestIsClosed
<1>4. Confirmed(f) => Confirmed(g)
    BY DEF AsGood, Confirmed
<1>5. kept # {} => f \in kept
    BY <1>1
<1> QED
    BY <1>1, <1>3, <1>4, <1>5

\* A fresh decision aims at no file yet; the router then gives it one.
LEMMA FreshDecisions ==
    /\ \A name, f : RuleRoute(name).aim = NoFile /\ [RuleRoute(name) EXCEPT !.aim = f].aim = f
    /\ \A picked, f : LlmRoute(picked).aim = NoFile /\ [LlmRoute(picked) EXCEPT !.aim = f].aim = f
    /\ \A planner, why : Decline(planner, why).aim = NoFile
BY DEF RuleRoute, LlmRoute, Decline

LEMMA SameGood ==
    ASSUME UNCHANGED <<task, world>>
    PROVE  \A g, f : AsGood(g, f)' <=> AsGood(g, f)
<1>1. Revs' = Revs
    BY DEF Revs
<1> QED
    BY <1>1 DEF AsGood, Names

\* A route stays the better one while the platform is left alone.
LEMMA GuessKeeps ==
    ASSUME NeverAGuess, UNCHANGED <<task, world, route, moves>>, narrowing'.dark = narrowing.dark
    PROVE  NeverAGuess'
<1>1. \A g : AsGood(g, route.aim)' <=> AsGood(g, route.aim)
    BY SameGood
<1> QED
    BY <1>1 DEF NeverAGuess

LEMMA SearchInit == TrialInit => SearchInv
<1> SUFFICES ASSUME TrialInit PROVE SearchInv
    OBVIOUS
<1>1. moves = 0 /\ phase = "before"
    BY DEF TrialInit
<1>2. task.plan = "route" => route.aim = NoFile
    BY FreshDecisions DEF TrialInit
<1> QED
    BY <1>1, <1>2 DEF SearchInv, NeverAGuess

LEMMA SearchSettle ==
    ASSUME SearchInv, Settles
    PROVE  SearchInv'
<1>1. /\ phase = "run" /\ phase' = "run"
      /\ UNCHANGED <<task, world, route, narrowing, moves>>
    BY SettleFrame
<1> QED
    BY <1>1, GuessKeeps DEF SearchInv, Searching

\* A decision is made: nothing is left to search for.
LEMMA Decided ==
    ASSUME SearchInv, moves' = moves, phase' = "run", NeverAGuess'
    PROVE  SearchInv'
BY DEF SearchInv, Searching

LEMMA SearchDecision ==
    ASSUME SearchInv, RouteByRules \/ RouteByLlm
    PROVE  SearchInv'
<1>1. UNCHANGED <<task, world, moves>> /\ phase = "route"
    BY DEF RouteByRules, RouteByLlm, Unrouted
<1>2. \/ route'.aim = NoFile /\ phase' \in {"run", "resolve"}
      \/ task.question.id # NoFile /\ phase' = "run"
  <2>1. PICK decision : /\ decision.aim = NoFile
                        /\ \A f : [decision EXCEPT !.aim = f].aim = f
                        /\ Resolving(decision) \/ Decide(Decline("rules", "no route matched"))
    <3>1. CASE RouteByRules
      BY <3>1, FreshDecisions DEF RouteByRules
    <3>2. CASE RouteByLlm
      BY <3>2, FreshDecisions DEF RouteByLlm
    <3> QED
      BY <3>1, <3>2
  <2>2. CASE Resolving(decision)
    BY <2>1, <2>2 DEF Resolving, Decide
  <2>3. CASE Decide(Decline("rules", "no route matched"))
    BY <2>3, FreshDecisions DEF Decide
  <2> QED
    BY <2>1, <2>2, <2>3
<1>3. NeverAGuess'
    BY <1>1, <1>2 DEF NeverAGuess
<1> QED
    BY <1>1, <1>2, <1>3 DEF SearchInv, Searching

\* What the question asks for and what fits it, while the platform is left alone.
LEMMA SameQuestion ==
    ASSUME UNCHANGED <<task, world>>
    PROVE  Revs' = Revs /\ Best' = Best /\ \A h : Confirmed(h)' <=> Confirmed(h)
<1>1. Revs' = Revs
    BY DEF Revs
<1> QED
    BY <1>1 DEF Best, BestMatches, TopScored, OrAll, Confirmed, Names

\* A decision that aims at no file is no guess.
LEMMA NotAimed ==
    ASSUME SearchInv, moves' = moves, Decide(Decline(route.planner, "unknown")) \/ Ambiguous
    PROVE  SearchInv'
<1>1. route'.aim = NoFile /\ phase' = "run"
    BY FreshDecisions DEF Decide, Ambiguous
<1> QED
    BY <1>1, Decided DEF NeverAGuess

\* Nor is one for a file better than all the router was not in the dark about.
LEMMA WellAimed ==
    ASSUME SearchInv, UNCHANGED <<task, world, moves>>, route.aim = NoFile, NEW f, Aim(f),
           \A g \in DOMAIN world.files \ ({f} \cup narrowing'.dark) : ~AsGood(g, f)
    PROVE  SearchInv'
<1>1. route' = [route EXCEPT !.aim = f] /\ phase' = "run"
    BY DEF Aim, Decide
<1>2. route'.aim = f \/ route'.aim = NoFile
    BY <1>1
<1>3. \A g : AsGood(g, route.aim)' <=> AsGood(g, route'.aim)
    BY DEF AsGood, Revs, Names
<1>4. route'.aim # NoFile => \A g \in DOMAIN world'.files \ ({route'.aim} \cup narrowing'.dark) : ~AsGood(g, route'.aim)
    BY <1>2
<1>5. NeverAGuess'
    BY <1>3, <1>4 DEF NeverAGuess
<1> QED
    BY <1>1, <1>5, Decided

LEMMA SearchList ==
    ASSUME Candidates, SearchInv, Lists
    PROVE  SearchInv'
<1>0. /\ UNCHANGED <<task, world, moves>> /\ phase = "resolve" /\ IsPlatform(world)
      /\ task.plan = "route" /\ route.aim = NoFile
    BY ListsChoose, RouteFrame DEF RouteSteps, SearchInv, Searching, Candidates
<1>1. PICK top \in SUBSET DOMAIN world.files, dark \in SUBSET DOMAIN world.files :
        Choose(top, dark) /\ ((top = Best /\ dark = {}) \/ dark = DOMAIN world.files)
    BY ListsChoose
<1>2. narrowing'.dark = dark /\ narrowing'.left = narrowing'.all /\ narrowing'.kept = {}
    BY <1>1, ChooseDecides
<1>3. CASE Decide(Decline(route.planner, "unknown")) \/ Ambiguous
    BY <1>0, <1>3, NotAimed
<1>4. CASE Cardinality(top) = 1 /\ (\A f \in top : Aim(f))
  <2>1. PICK f : top = {f} /\ f # NoFile
    BY <1>0, <1>4, OnlyOne
  <2>2. \A g \in DOMAIN world.files \ ({f} \cup dark) : ~AsGood(g, f)
    BY <1>0, <1>1, <2>1, OneBest
  <2> QED
    BY <1>0, <1>2, <1>4, <2>1, <2>2, WellAimed
<1>5. CASE /\ Cardinality(top) > 1 /\ Revs # {} /\ narrowing'.all = top
           /\ phase' = "narrow" /\ UNCHANGED route
  <2>1. top # {}
    BY <1>5, FS_EmptySet
  <2>2. Sorted'
    BY <1>0, <1>1, <1>2, <1>5, <2>1, SameQuestion DEF Sorted
  <2>3. NeverAGuess'
    BY <1>0, <1>5 DEF NeverAGuess
  <2> QED
    BY <1>0, <1>5, <2>2, <2>3 DEF SearchInv, Searching
<1> QED
    BY <1>1, <1>3, <1>4, <1>5, ChooseDecides

LEMMA SearchFails ==
    ASSUME SearchInv, ListFails
    PROVE  SearchInv'
<1>1. /\ UNCHANGED <<task, moves, route>> /\ phase = "resolve" /\ phase' = "failed"
      /\ task.plan = "route" /\ route.aim = NoFile
    BY DEF ListFails, Unrouted, SearchInv, Searching
<1> QED
    BY <1>1 DEF SearchInv, Searching, NeverAGuess

\* The notes of one more candidate are looked at.
LEMMA SearchConfirm ==
    ASSUME Candidates, SearchInv, NEW f \in DOMAIN world.files, Notes(f)
    PROVE  SearchInv'
<1> DEFINE all == narrowing.all
           rest == narrowing.left \ {f}
<1>0. /\ UNCHANGED <<task, world, moves>> /\ phase = "narrow" /\ IsPlatform(world) /\ f \in narrowing.left
      /\ task.plan = "route" /\ route.aim = NoFile /\ Sorted
      /\ all \subseteq DOMAIN world.files /\ narrowing.left \subseteq all
    BY NotesConfirm, RouteFrame DEF RouteSteps, SearchInv, Searching, Candidates
<1>1. PICK k \in BOOLEAN, dark \in {{}, {f}} :
        Confirm(f, k, dark) /\ (k => Confirmed(f)) /\ (dark = {} => k = Confirmed(f))
    BY <1>0, NotesConfirm
<1> DEFINE kept == narrowing.kept \cup (IF k THEN {f} ELSE {})
           unread == narrowing.dark \cup dark
           top == OrAll(kept, all)
<1>2. /\ narrowing' = [narrowing EXCEPT !.left = rest, !.kept = kept, !.dark = unread]
      /\ \/ narrowing.left # {f} /\ UNCHANGED <<route, phase>>
         \/ narrowing.left = {f} /\ Cardinality(top) = 1 /\ \A g \in top : Aim(g)
         \/ Ambiguous
    BY <1>1 DEF Confirm
<1> HIDE DEF rest, kept, unread, top
<1>3. CASE Ambiguous
    BY <1>0, <1>3, NotAimed
<1>4. \/ unread = DOMAIN world.files
      \/ /\ all = Best /\ kept \subseteq {h \in all \ rest : Confirmed(h)}
         /\ \A h \in all \ (rest \cup unread) : Confirmed(h) => h \in kept
  <2>1. CASE narrowing.dark = DOMAIN world.files
    BY <1>1, <2>1 DEF unread
  <2>2. CASE /\ all = Best
             /\ narrowing.kept \subseteq {h \in all \ narrowing.left : Confirmed(h)}
             /\ \A h \in all \ (narrowing.left \cup narrowing.dark) : Confirmed(h) => h \in narrowing.kept
    <3>1. kept \subseteq {h \in all \ rest : Confirmed(h)}
      BY <1>0, <1>1, <2>2 DEF kept, rest
    <3>2. ASSUME NEW h \in all \ (rest \cup unread), Confirmed(h) PROVE h \in kept
      <4>1. CASE h = f
        BY <1>1, <3>2, <4>1 DEF kept, unread
      <4>2. CASE h # f
        BY <2>2, <3>2, <4>2 DEF kept, rest, unread
      <4> QED
        BY <4>1, <4>2
    <3> QED
      BY <2>2, <3>1, <3>2
  <2> QED
    BY <1>0, <2>1, <2>2 DEF Sorted
<1>5. CASE narrowing.left # {f} /\ UNCHANGED <<route, phase>>
  <2>1. rest # {}
    BY <1>0, <1>5 DEF rest
  <2>2. /\ narrowing'.left = rest /\ narrowing'.kept = kept /\ narrowing'.all = all /\ narrowing'.dark = unread
    BY <1>2
  <2>3. Sorted'
    <3>1. Revs' = Revs /\ Best' = Best /\ (\A h : Confirmed(h)' <=> Confirmed(h)) /\ Revs # {}
      BY <1>0, SameQuestion DEF Sorted
    <3> HIDE DEF all
    <3> QED
      BY <1>0, <1>4, <2>1, <2>2, <3>1 DEF Sorted
  <2>4. NeverAGuess'
    BY <1>0, <1>5 DEF NeverAGuess
  <2> QED
    BY <1>0, <1>5, <2>3, <2>4 DEF SearchInv, Searching
<1>6. CASE narrowing.left = {f} /\ Cardinality(top) = 1 /\ \A g \in top : Aim(g)
  <2>1. kept \subseteq all
    BY <1>0, <1>1 DEF kept, Candidates
  <2>2. PICK h : top = {h} /\ h # NoFile
    BY <1>0, <1>6, <2>1, OnlyOne DEF OrAll, top
  <2>3. \A g \in DOMAIN world.files \ ({h} \cup unread) : ~AsGood(g, h)
    <3>1. CASE unread = DOMAIN world.files
      BY <3>1
    <3>2. CASE /\ all = Best /\ kept \subseteq {x \in all \ rest : Confirmed(x)}
               /\ \A x \in all \ (rest \cup unread) : Confirmed(x) => x \in kept
      <4>1. rest = {} /\ Revs # {}
        BY <1>0, <1>6 DEF rest, Sorted
      <4>2. OrAll(kept, Best) = {h}
        BY <2>2, <3>2 DEF top
      <4>3. kept \subseteq {x \in Best : Confirmed(x)} /\ \A x \in Best \ unread : Confirmed(x) => x \in kept
        BY <3>2, <4>1
      <4> QED
        BY <1>0, <4>1, <4>2, <4>3, OneConfirmed
    <3> QED
      BY <1>4, <3>1, <3>2
  <2>4. narrowing'.dark = unread
    BY <1>2
  <2> QED
    BY <1>0, <1>6, <2>2, <2>3, <2>4, WellAimed
<1> QED
    BY <1>2, <1>3, <1>5, <1>6

LEMMA SearchStep == Candidates /\ SearchInv /\ [TrialNext]_trialVars => SearchInv'
<1> SUFFICES ASSUME Candidates, SearchInv, [TrialNext]_trialVars PROVE SearchInv'
    OBVIOUS
<1>1. CASE RouteSteps
    BY <1>1, SearchDecision, SearchList, SearchFails, SearchConfirm DEF RouteSteps
<1>2. CASE Settles
    BY <1>2, SearchSettle
<1>3. CASE Move
  <2>1. moves' \in Nat /\ moves' # 0
    BY <1>3 DEF SearchInv, Move
  <2> QED
    BY <1>3, <2>1 DEF SearchInv, Searching, Move, NeverAGuess
<1>4. CASE \/ ObserveBefore \/ Conclude \/ ObserveAfter \/ Replays \/ UNCHANGED trialVars \/ Done
  <2>1. /\ UNCHANGED <<task, world, route, narrowing, moves>>
        /\ \/ phase' = phase
           \/ phase' \in {"run", "after", "graded"}
           \/ phase = "before" /\ phase' = "route" /\ task.plan = "route"
    BY <1>4, ReplayFrame DEF ObserveBefore, Conclude, ObserveAfter, Done, trialVars
  <2>3. NeverAGuess'
    BY <2>1, GuessKeeps DEF SearchInv
  <2>4. Sorted => Sorted'
    <3>1. Revs' = Revs /\ Best' = Best /\ \A h : Confirmed(h)' <=> Confirmed(h)
      BY <2>1, SameQuestion
    <3> QED
      BY <2>1, <3>1 DEF Sorted
  <2> QED
    BY <2>1, <2>3, <2>4 DEF SearchInv, Searching
<1> QED
    BY <1>1, <1>2, <1>3, <1>4, StepCases

\* Only the best of the files that match the question are candidates, and only
\* those whose notes were read as naming the question's revisions stay; a file
\* is taken when it is the only one left.  So a routed run is about the file
\* that fits the question better than every other whose notes were read in full,
\* on every platform and whatever reads fail or come back cut: a candidate in
\* the dark may be discarded, and nothing besides (packs/designreview/router.py).
THEOREM RoutedFilesAreNoGuess == TrialSpec => []NeverAGuess
<1>1. TrialInit => Candidates /\ SearchInv
    BY CandidatesInit, SearchInit
<1>2. Candidates /\ SearchInv /\ [TrialNext]_trialVars => (Candidates /\ SearchInv)'
    BY CandidatesStep, SearchStep
<1>3. SearchInv => NeverAGuess
    BY DEF SearchInv
<1> QED
    BY <1>1, <1>2, <1>3, PTL DEF TrialSpec


-----------------------------------------------------------------------------
(* What the plan reads while other teams edit.                             *)

ThePlans == {"rev_diff_dfm", "release_handoff"}

\* The harness's looks at the platform.
Looks ==
    /\ moves \in Nat
    /\ phase # "before" =>
         /\ before.versions \in Seq(VersionNote) /\ IsDates(before.milestones)
         /\ before.file = "there" <=> task.file \in DOMAIN world.files
         /\ moves = 0 => /\ before.versions = Seen(world, task.file).versions
                         /\ before.milestones = world.milestones
    /\ phase = "graded" /\ replay = "none" => after = Seen(world, task.file)

\* The run is about the task's file, the file is there, and nothing is a replay.
AboutTheFile ==
    /\ route.plan \in ThePlans /\ replay = "none"
    /\ route.aim = task.file /\ task.file \in DOMAIN world.files /\ moves <= 1

\* A node that waits for the file's record has failed, was left out because the
\* record could not be read, or holds what is good.
ReadAs(n, good) ==
    n \in DOMAIN results =>
        \/ results[n].verdict = "failed"
        \/ results[n].verdict = "bypassed" /\ "design_file" \in DOMAIN results
                                           /\ results["design_file"].verdict = "failed"
        \/ results[n].verdict = "resolved" /\ good

\* What the platform said before the run or says now, or a part of a list.
GoodRevisions ==
    \/ ~results["revisions"].data.whole
    \/ results["revisions"].data.rows \in {before.versions, Seen(world, task.file).versions}

GoodMilestones == results["milestones"].data \in {before.milestones, world.milestones}

ReadSoFar ==
    /\ "design_file" \in DOMAIN results => results["design_file"].verdict \in {"resolved", "failed"}
    /\ route.plan = "rev_diff_dfm" => ReadAs("revisions", GoodRevisions)
    /\ route.plan = "release_handoff" => ReadAs("milestones", GoodMilestones)

\* All that is judged has been read when the finding is made.
ReadToTheEnd ==
    /\ record.ended = "done" /\ record.finding = Review(results, task.ask)
    /\ record.answer \in AnswersOf(record.finding)
    /\ route.plan = "rev_diff_dfm" => {"design_file", "revisions"} \subseteq DOMAIN results
    /\ route.plan = "release_handoff" => {"design_file", "milestones"} \subseteq DOMAIN results

Reading ==
    /\ phase \in Searching \cup {"failed"} => results = <<>>
    /\ AboutTheFile => ReadSoFar
    /\ replay = "none" /\ phase \in {"after", "graded"} => ReadToTheEnd

\* What is seen of a file that is there, and of one that is not.
LEMMA SeenFields ==
    ASSUME NEW file
    PROVE  LET seen == Seen(world, file)
           IN /\ seen.milestones = world.milestones
              /\ file \in DOMAIN world.files => seen.versions = world.files[file].versions /\ seen.file = "there"
              /\ file \notin DOMAIN world.files => seen.versions = <<>> /\ seen.file = "missing"
BY DEF Seen

LEMMA SeenTypes ==
    ASSUME IsPlatform(world), NEW file
    PROVE  Seen(world, file).versions \in Seq(VersionNote) /\ IsDates(Seen(world, file).milestones)
<1>1. IsDates(world.milestones)
    BY DEF IsPlatform
<1>2. file \in DOMAIN world.files => world.files[file].versions \in Seq(VersionNote)
    BY DEF IsPlatform, FileRecord
<1>3. <<>> \in Seq(VersionNote)
    OBVIOUS
<1> QED
    BY <1>1, <1>2, <1>3, SeenFields

LEMMA RouteLeadsTo ==
    ASSUME Candidates, RouteSteps
    PROVE  phase' \in {"resolve", "narrow", "failed", "run"}
<1>1. CASE RouteByRules \/ RouteByLlm
    BY <1>1 DEF RouteByRules, RouteByLlm, Resolving, Decide
<1>2. CASE Lists
  <2>0. PICK top \in SUBSET DOMAIN world.files, dark \in SUBSET DOMAIN world.files : Choose(top, dark)
    BY <1>2, ListsChoose
  <2>1. \/ Decide(Decline(route.planner, "unknown")) \/ Ambiguous \/ phase' = "narrow"
        \/ Cardinality(top) = 1 /\ \A f \in top : Aim(f)
    BY <2>0, ChooseDecides
  <2>2. Cardinality(top) = 1 => \E f : f \in top
    BY <2>0, OnlyOne DEF Candidates
  <2> QED
    BY <2>1, <2>2 DEF Ambiguous, Aim, Decide
<1>3. CASE ListFails
    BY <1>3 DEF ListFails
<1>4. CASE \E f \in DOMAIN world.files : Notes(f)
  <2>1. PICK f \in narrowing.left, named \in BOOLEAN, dark \in SUBSET DOMAIN world.files :
          Confirm(f, named, dark) /\ phase = "narrow"
    BY <1>4, SomeConfirm
  <2> DEFINE top == OrAll(narrowing.kept \cup (IF named THEN {f} ELSE {}), narrowing.all)
  <2>2. phase' = phase \/ Ambiguous \/ (Cardinality(top) = 1 /\ \A g \in top : Aim(g))
    BY <2>1 DEF Confirm
  <2>3. top \subseteq DOMAIN world.files /\ IsPlatform(world)
    BY DEF OrAll, Candidates
  <2> HIDE DEF top
  <2>4. Cardinality(top) = 1 => \E g : g \in top
    BY <2>3, OnlyOne
  <2> QED
    BY <2>1, <2>2, <2>4 DEF Ambiguous, Aim, Decide
<1> QED
    BY <1>1, <1>2, <1>3, <1>4 DEF RouteSteps

LEMMA ReplayLabels ==
    ASSUME Replays
    PROVE  replay' # "none"
BY DEF Replays, Control, Fault, Continue, ReplayFaults

LEMMA LooksStep == Candidates /\ Looks /\ [TrialNext]_trialVars => Looks'
<1> SUFFICES ASSUME Candidates, Looks, [TrialNext]_trialVars PROVE Looks'
    OBVIOUS
<1>0. IsPlatform(world)
    BY DEF Candidates
<1>1. CASE ObserveBefore
  <2> DEFINE seen == Seen(world, task.file)
  <2>1. /\ before' = seen /\ phase' # "graded" /\ UNCHANGED <<task, world, moves>>
    BY <1>1 DEF ObserveBefore
  <2>2. seen.versions \in Seq(VersionNote) /\ IsDates(seen.milestones) /\ seen.milestones = world.milestones
    BY <1>0, SeenTypes, SeenFields
  <2>3. seen.file = "there" <=> task.file \in DOMAIN world.files
    BY SeenFields
  <2>4. Seen(world, task.file)' = seen
    BY <2>1
  <2> HIDE DEF seen
  <2> QED
    BY <2>1, <2>2, <2>3, <2>4 DEF Looks
<1>2. CASE Move
  <2>1. /\ moves' = moves + 1 /\ phase \in {"run", "after"} /\ UNCHANGED <<phase, task, before>>
        /\ DOMAIN world'.files = DOMAIN world.files
    BY <1>0, <1>2, MoveFrame
  <2>2. moves' \in Nat /\ moves' # 0
    BY <2>1 DEF Looks
  <2> QED
    BY <2>1, <2>2 DEF Looks
<1>3. CASE ObserveAfter
  <2>1. after' = Seen(world, task.file) /\ phase = "after" /\ UNCHANGED <<task, world, before, moves>>
    BY <1>3 DEF ObserveAfter
  <2> QED
    BY <2>1 DEF Looks
<1>4. CASE \/ RouteSteps \/ Settles \/ Conclude \/ Replays \/ UNCHANGED trialVars \/ Done
  <2>1. /\ UNCHANGED <<task, world, before, moves>>
        /\ phase # "before" \/ phase' = phase
        /\ phase' = "graded" /\ replay' = "none" => phase = "graded" /\ replay = "none" /\ after' = after
    <3>1. CASE RouteSteps
      BY <3>1, RouteFrame, RouteLeadsTo
    <3>2. CASE Settles
      BY <3>2, SettleFrame
    <3>3. CASE Replays
      BY <3>3, ReplayFrame
    <3>4. CASE Conclude \/ UNCHANGED trialVars \/ Done
      BY <3>4 DEF Conclude, Done, trialVars
    <3> QED
      BY <1>4, <3>1, <3>2, <3>3, <3>4
  <2>2. Seen(world, task.file)' = Seen(world, task.file)
    BY <2>1
  <2> QED
    BY <2>1, <2>2 DEF Looks
<1> QED
    BY <1>1, <1>2, <1>3, <1>4, StepCases


\* The nodes of the two plans that what is judged comes from.
LEMMA JudgedNodes ==
    /\ route.plan = "rev_diff_dfm" =>
         /\ {"design_file", "revisions"} \subseteq DOMAIN Now
         /\ Now["design_file"] = DesignFile /\ Now["revisions"] = ReadAfterFile("list_revisions")
    /\ route.plan = "release_handoff" =>
         /\ {"design_file", "milestones"} \subseteq DOMAIN Now
         /\ Now["design_file"] = DesignFile /\ Now["milestones"] = Node("list_milestones", {"design_file"}, {})
<1>1. ASSUME NEW plan, PlanOf(route) = plan
      PROVE  DOMAIN plan.nodes \subseteq DOMAIN Now /\ \A n \in DOMAIN plan.nodes : Now[n] = plan.nodes[n]
    BY <1>1, GraphNodes DEF Now
<1>2. CASE route.plan = "rev_diff_dfm"
  <2>1. PlanOf(route) = RevDiffDfm
    BY <1>2, NamedPlans DEF PlanOf
  <2>2. /\ {"design_file", "revisions"} \subseteq DOMAIN RevDiffDfm.nodes
        /\ RevDiffDfm.nodes["design_file"] = DesignFile
        /\ RevDiffDfm.nodes["revisions"] = ReadAfterFile("list_revisions")
    BY DEF RevDiffDfm
  <2> QED
    BY <1>1, <1>2, <2>1, <2>2
<1>3. CASE route.plan = "release_handoff"
  <2>1. PlanOf(route) = ReleaseHandoff
    BY <1>3, NamedPlans DEF PlanOf
  <2>2. /\ {"design_file", "milestones"} \subseteq DOMAIN ReleaseHandoff.nodes
        /\ ReleaseHandoff.nodes["design_file"] = DesignFile
        /\ ReleaseHandoff.nodes["milestones"] = Node("list_milestones", {"design_file"}, {})
    BY DEF ReleaseHandoff
  <2> QED
    BY <1>1, <1>3, <2>1, <2>2
<1> QED
    BY <1>2, <1>3

LEMMA TurnFields ==
    ASSUME NEW due \in Turns
    PROVE  /\ due.node \in DOMAIN Now \ DOMAIN results /\ due.action = Now[due.node].action
           /\ Now[due.node].after \subseteq DOMAIN results
           /\ due.runs = (Now[due.node].settled \/ \A d \in Now[due.node].after : Resolved(results, d))
<1> DEFINE graph == Now
           Turn(n) == [node |-> n, action |-> graph[n].action,
                       runs |-> graph[n].settled \/ \A d \in graph[n].after : Resolved(results, d)]
<1>1. phase = "run"
    BY DEF Turns
<1>2. due \in {Turn(n) : n \in {m \in DOMAIN graph \ DOMAIN results : graph[m].after \subseteq DOMAIN results}}
    BY <1>1 DEF Turns
<1>3. PICK n \in DOMAIN graph \ DOMAIN results : graph[n].after \subseteq DOMAIN results /\ due = Turn(n)
    BY <1>2
<1>4. /\ due.node = n /\ due.action = graph[n].action
      /\ due.runs = (graph[n].settled \/ \A d \in graph[n].after : Resolved(results, d))
    BY <1>3
<1> QED
    BY <1>3, <1>4

\* What a read of the platform settles as.
ReadResult(due, r) ==
    \/ ~due.runs /\ r.verdict = "bypassed"
    \/ due.runs /\ r.verdict = "failed"
    \/ due.runs /\ due.action = "load_design_file" /\ route.aim \notin DOMAIN world.files
    \/ due.runs /\ r.verdict = "resolved" /\ r.data = DataFor(due.action)
    \/ due.runs /\ r.verdict = "resolved" /\ ~r.data.whole /\ due.action \in {"list_revisions", "list_feedback"}

LEMMA ReadSettles ==
    ASSUME NEW due \in Turns, due.action \in DOMAIN ToolOf,
           ReadNode(due) \/ CutShort(due) \/ Flaky(due) \/ Compute(due) \/ Bypass(due)
    PROVE  results' = results \/ \E r : results' = With(results, due.node, r) /\ ReadResult(due, r)
<1>1. CASE ReadNode(due)
    BY <1>1 DEF ReadNode, Reads, Settle, Result, ReadResult
<1>2. CASE CutShort(due)
  <2>1. PICK rows \in Cuts(due.action) : Settle(due, Result("resolved", [rows |-> rows, whole |-> FALSE]))
    BY <1>2 DEF CutShort
  <2>2. due.action \in {"list_revisions", "list_feedback"}
    BY <2>1 DEF Cuts
  <2> QED
    BY <1>2, <2>1, <2>2 DEF CutShort, Reads, Settle, Result, ReadResult
<1>3. CASE Flaky(due)
    BY <1>3 DEF Flaky, Reads, Settle, Result, ReadResult
<1>4. CASE Compute(due)
    BY <1>4 DEF Compute, Reads
<1>5. CASE Bypass(due)
    BY <1>5 DEF Bypass, Settle, Result, ReadResult
<1> QED
    BY <1>1, <1>2, <1>3, <1>4, <1>5

\* Every node settles once, and only the node whose turn it is.
LEMMA OneSettles ==
    ASSUME NEW due \in Turns,
           ReadNode(due) \/ CutShort(due) \/ Flaky(due) \/ Compute(due) \/ Bypass(due)
    PROVE  results' = results \/ \E r : results' = With(results, due.node, r)
BY DEF ReadNode, CutShort, Flaky, Compute, Bypass, Settle

\* A node that waits for the file's record alone settles as a read of the file.
LEMMA FileNodeSettles ==
    ASSUME Looks, AboutTheFile, ReadSoFar, NEW due \in Turns,
           ReadNode(due) \/ CutShort(due) \/ Flaky(due) \/ Compute(due) \/ Bypass(due),
           results' # results, NEW action \in {"list_revisions", "list_milestones"}, due.action = action,
           Now[due.node].after = {"design_file"}
    PROVE  /\ "design_file" \in DOMAIN results /\ due.node \notin DOMAIN results
           /\ \E r : /\ results' = With(results, due.node, r)
                     /\ \/ r.verdict = "failed"
                        \/ r.verdict = "bypassed" /\ results["design_file"].verdict = "failed"
                        \/ r.verdict = "resolved" /\ r.data = DataFor(action)
                        \/ r.verdict = "resolved" /\ ~r.data.whole /\ action = "list_revisions"
<1>1. due.action \in DOMAIN ToolOf
    BY DEF ToolOf
<1>2. PICK r : results' = With(results, due.node, r) /\ ReadResult(due, r)
    BY <1>1, ReadSettles
<1>3. "design_file" \in DOMAIN results /\ due.node \notin DOMAIN results
    BY TurnFields
<1>4. ~due.runs => results["design_file"].verdict = "failed"
    BY <1>3, TurnFields DEF Resolved, ReadSoFar
<1> QED
    BY <1>2, <1>3, <1>4 DEF ReadResult

LEMMA ReadSoFarSettles ==
    ASSUME Looks, AboutTheFile, ReadSoFar, Settles
    PROVE  ReadSoFar'
<1>0. PICK due \in Turns : ReadNode(due) \/ CutShort(due) \/ Flaky(due) \/ Compute(due) \/ Bypass(due)
    BY DEF Settles
<1> DEFINE n == due.node
<1>1. UNCHANGED <<task, world, route, before, replay, moves>>
    BY SettleFrame
<1>2. n \notin DOMAIN results /\ (results' = results \/ \E r : results' = With(results, n, r))
    BY <1>0, OneSettles, TurnFields
<1>3. \A m \in DOMAIN results : m \in DOMAIN results' /\ results'[m] = results[m]
    BY <1>2 DEF With
<1>4. \A m \in DOMAIN results' \ DOMAIN results : m = n
    BY <1>2 DEF With
<1>5. "design_file" \in DOMAIN results' => results'["design_file"].verdict \in {"resolved", "failed"}
  <2>1. CASE n = "design_file" /\ results' # results
    <3>0. Now[n].action = "load_design_file" /\ Now[n].after = {} /\ Now[n].settled = FALSE
      BY <2>1, JudgedNodes DEF AboutTheFile, ThePlans, DesignFile, Node
    <3>1. due.action = "load_design_file" /\ due.runs
      <4>1. due.action = Now[n].action
        BY TurnFields
      <4>2. due.runs = (Now[n].settled \/ \A d \in Now[n].after : Resolved(results, d))
        BY TurnFields
      <4> QED
        BY <3>0, <4>1, <4>2
    <3>2. due.action \in DOMAIN ToolOf
      BY <3>1 DEF ToolOf
    <3>3. PICK r : results' = With(results, n, r) /\ ReadResult(due, r)
      BY <1>0, <2>1, <3>2, ReadSettles
    <3>4. r.verdict \in {"resolved", "failed"}
      BY <3>1, <3>3 DEF ReadResult, AboutTheFile
    <3> QED
      BY <2>1, <3>3, <3>4 DEF With
  <2>2. CASE n # "design_file" \/ results' = results
    BY <1>2, <1>3, <1>4, <2>2 DEF ReadSoFar
  <2> QED
    BY <2>1, <2>2
<1>6. route.plan = "rev_diff_dfm" => ReadAs("revisions", GoodRevisions)'
  <2> SUFFICES ASSUME route.plan = "rev_diff_dfm" PROVE ReadAs("revisions", GoodRevisions)'
    OBVIOUS
  <2>0. GoodRevisions' <=> \/ ~results'["revisions"].data.whole
                           \/ results'["revisions"].data.rows \in {before.versions, Seen(world, task.file).versions}
    BY <1>1 DEF GoodRevisions
  <2>1. CASE n = "revisions" /\ results' # results
    <3>1. due.action = "list_revisions" /\ Now[n].after = {"design_file"}
      BY <2>1, TurnFields, JudgedNodes DEF ReadAfterFile, Node
    <3>2. PICK r : /\ results' = With(results, n, r)
                   /\ \/ r.verdict = "failed"
                      \/ r.verdict = "bypassed" /\ results["design_file"].verdict = "failed"
                      \/ r.verdict = "resolved" /\ r.data = DataFor("list_revisions")
                      \/ r.verdict = "resolved" /\ ~r.data.whole
      BY <1>0, <2>1, <3>1, FileNodeSettles
    <3>3. "design_file" \in DOMAIN results
      BY <3>1, TurnFields
    <3>4. results'["revisions"] = r /\ "design_file" \in DOMAIN results' /\ results'["design_file"] = results["design_file"]
      BY <1>3, <2>1, <3>2, <3>3 DEF With
    <3>5. DataFor("list_revisions") = [rows |-> Seen(world, task.file).versions, whole |-> TRUE]
      BY DEF DataFor, AboutTheFile
    <3> QED
      BY <2>0, <3>2, <3>4, <3>5 DEF ReadAs
  <2>2. CASE n # "revisions" \/ results' = results
    BY <1>2, <1>3, <1>4, <2>0, <2>2 DEF ReadSoFar, ReadAs, GoodRevisions
  <2> QED
    BY <2>1, <2>2
<1>7. route.plan = "release_handoff" => ReadAs("milestones", GoodMilestones)'
  <2> SUFFICES ASSUME route.plan = "release_handoff" PROVE ReadAs("milestones", GoodMilestones)'
    OBVIOUS
  <2>0. GoodMilestones' <=> results'["milestones"].data \in {before.milestones, world.milestones}
    BY <1>1 DEF GoodMilestones
  <2>1. CASE n = "milestones" /\ results' # results
    <3>1. due.action = "list_milestones" /\ Now[n].after = {"design_file"}
      BY <2>1, TurnFields, JudgedNodes DEF Node
    <3>2. PICK r : /\ results' = With(results, n, r)
                   /\ \/ r.verdict = "failed"
                      \/ r.verdict = "bypassed" /\ results["design_file"].verdict = "failed"
                      \/ r.verdict = "resolved" /\ r.data = DataFor("list_milestones")
      BY <1>0, <2>1, <3>1, FileNodeSettles
    <3>3. "design_file" \in DOMAIN results
      BY <3>1, TurnFields
    <3>4. results'["milestones"] = r /\ "design_file" \in DOMAIN results' /\ results'["design_file"] = results["design_file"]
      BY <1>3, <2>1, <3>2, <3>3 DEF With
    <3>5. DataFor("list_milestones") = world.milestones
      BY SeenFields DEF DataFor
    <3> QED
      BY <2>0, <3>2, <3>4, <3>5 DEF ReadAs
  <2>2. CASE n # "milestones" \/ results' = results
    BY <1>2, <1>3, <1>4, <2>0, <2>2 DEF ReadSoFar, ReadAs, GoodMilestones
  <2> QED
    BY <2>1, <2>2
<1> QED
    BY <1>1, <1>5, <1>6, <1>7 DEF ReadSoFar

\* No node is left whose turn it is: what waits for nothing has settled, and
\* what waits for that.
LEMMA NothingLeft ==
    ASSUME phase = "run", Turns = {}, route.plan \in ThePlans
    PROVE  /\ route.plan = "rev_diff_dfm" => {"design_file", "revisions"} \subseteq DOMAIN results
           /\ route.plan = "release_handoff" => {"design_file", "milestones"} \subseteq DOMAIN results
<1>1. \A m \in DOMAIN Now \ DOMAIN results : ~(Now[m].after \subseteq DOMAIN results)
  <2> DEFINE graph == Now
  <2> HIDE DEF graph
  <2>1. {m \in DOMAIN graph \ DOMAIN results : graph[m].after \subseteq DOMAIN results} = {}
    BY DEF Turns, graph
  <2> QED
    BY <2>1 DEF graph
<1>2. "design_file" \in DOMAIN Now /\ Now["design_file"].after = {}
    BY JudgedNodes DEF ThePlans, DesignFile, Node
<1>3. "design_file" \in DOMAIN results
    BY <1>1, <1>2
<1>4. /\ route.plan = "rev_diff_dfm" => "revisions" \in DOMAIN Now /\ Now["revisions"].after = {"design_file"}
      /\ route.plan = "release_handoff" => "milestones" \in DOMAIN Now /\ Now["milestones"].after = {"design_file"}
    BY JudgedNodes DEF ReadAfterFile, Node
<1> QED
    BY <1>1, <1>3, <1>4

LEMMA ReadingInit == TrialInit => Looks /\ Reading
<1> SUFFICES ASSUME TrialInit PROVE Looks /\ Reading
    OBVIOUS
<1>1. phase = "before" /\ results = <<>> /\ moves = 0
    BY DEF TrialInit
<1>2. ReadSoFar
    BY <1>1 DEF ReadSoFar, ReadAs
<1> QED
    BY <1>1, <1>2 DEF Looks, Reading

LEMMA ReadingStep == Candidates /\ Looks /\ Reading /\ [TrialNext]_trialVars => Reading'
<1> SUFFICES ASSUME Candidates, Looks, Reading, [TrialNext]_trialVars PROVE Reading'
    OBVIOUS
<1>1. CASE RouteSteps
  <2>1. phase \in {"route", "resolve", "narrow"} /\ UNCHANGED results
    BY <1>1, RouteFrame
  <2>2. results' = <<>>
    BY <2>1 DEF Reading, Searching
  <2>3. phase' \in {"resolve", "narrow", "failed", "run"}
    BY <1>1, RouteLeadsTo
  <2>4. ReadSoFar'
    BY <2>2 DEF ReadSoFar, ReadAs
  <2> QED
    BY <2>2, <2>3, <2>4 DEF Reading
<1>2. CASE Settles
  <2>1. phase' = "run" /\ UNCHANGED <<task, world, route, replay, moves>>
    BY <1>2, SettleFrame
  <2>2. AboutTheFile' => AboutTheFile
    BY <2>1 DEF AboutTheFile
  <2>3. AboutTheFile => ReadSoFar'
    BY <1>2, ReadSoFarSettles DEF Reading
  <2> QED
    BY <2>1, <2>2, <2>3 DEF Reading, Searching
<1>3. CASE Replays
  <2>1. phase' = "run" /\ replay' # "none"
    BY <1>3, ReplayFrame, ReplayLabels
  <2> QED
    BY <2>1 DEF Reading, Searching, AboutTheFile
<1>4. CASE Move
  <2>1. /\ UNCHANGED <<phase, task, route, before, results, record, replay>> /\ moves' = moves + 1
        /\ phase \in {"run", "after"} /\ DOMAIN world'.files = DOMAIN world.files
    BY <1>4, MoveFrame DEF Candidates
  <2>2. ASSUME AboutTheFile' PROVE ReadSoFar'
    <3>1. moves = 0
      BY <2>1, <2>2 DEF AboutTheFile, Looks
    <3>2. before.versions = Seen(world, task.file).versions /\ before.milestones = world.milestones
      BY <2>1, <3>1 DEF Looks
    <3>3. AboutTheFile
      BY <2>1, <2>2, <3>1 DEF AboutTheFile
    <3>4. ReadSoFar
      BY <3>3 DEF Reading
    <3>5. ReadAs("revisions", GoodRevisions) => ReadAs("revisions", GoodRevisions)'
      <4>1. GoodRevisions => GoodRevisions'
        BY <2>1, <3>2 DEF GoodRevisions
      <4> QED
        BY <2>1, <4>1 DEF ReadAs
    <3>6. ReadAs("milestones", GoodMilestones) => ReadAs("milestones", GoodMilestones)'
      <4>1. GoodMilestones => GoodMilestones'
        BY <2>1, <3>2 DEF GoodMilestones
      <4> QED
        BY <2>1, <4>1 DEF ReadAs
    <3> QED
      BY <2>1, <3>4, <3>5, <3>6 DEF ReadSoFar
  <2>3. ReadToTheEnd => ReadToTheEnd'
    BY <2>1 DEF ReadToTheEnd
  <2> QED
    BY <2>1, <2>2, <2>3 DEF Reading, Searching
<1>5. CASE Conclude
  <2> DEFINE finding == Review(results, task.ask)
  <2>1. /\ phase = "run" /\ Turns = {} /\ phase' \in {"after", "graded"}
        /\ UNCHANGED <<task, world, route, before, results, replay, moves>>
        /\ replay = "none" => \E answer \in AnswersOf(finding) :
              record' = [ended |-> "done", dry |-> TRUE, finding |-> finding, answer |-> answer,
                         route |-> IF task.plan = "route" THEN route ELSE Unread, audit |-> AuditOk(answer, finding)]
    BY <1>5 DEF Conclude
  <2>2. AboutTheFile' => ReadSoFar'
    BY <2>1 DEF Reading, AboutTheFile, ReadSoFar, ReadAs, GoodRevisions, GoodMilestones
  <2>3. (Review(results, task.ask))' = finding
    BY <2>1 DEF Review
  <2>4. replay = "none" => /\ record'.ended = "done" /\ record'.finding = finding
                           /\ record'.answer \in AnswersOf(finding)
    <3> HIDE DEF finding
    <3> QED
      BY <2>1
  <2>5. route.plan \in ThePlans =>
          /\ route.plan = "rev_diff_dfm" => {"design_file", "revisions"} \subseteq DOMAIN results
          /\ route.plan = "release_handoff" => {"design_file", "milestones"} \subseteq DOMAIN results
    BY <2>1, NothingLeft
  <2> HIDE DEF finding
  <2>6. replay = "none" => ReadToTheEnd'
    BY <2>1, <2>3, <2>4, <2>5 DEF ReadToTheEnd, ThePlans
  <2> QED
    BY <2>1, <2>2, <2>6 DEF Reading, Searching
<1>6. CASE ObserveBefore \/ ObserveAfter \/ UNCHANGED trialVars \/ Done
  <2>1. /\ UNCHANGED <<task, world, route, results, record, replay, moves>>
        /\ UNCHANGED before \/ phase = "before"
    BY <1>6 DEF ObserveBefore, ObserveAfter, Done, trialVars
  <2>2. \/ phase' = phase
        \/ phase \in Searching /\ phase' \in {"route", "run"}
        \/ phase = "after" /\ phase' = "graded"
    BY <1>6 DEF ObserveBefore, ObserveAfter, Done, trialVars, Searching
  <2>3. AboutTheFile' => ReadSoFar'
    <3>1. CASE phase = "before"
      <4>1. results' = <<>>
        BY <2>1, <3>1 DEF Reading, Searching
      <4> QED
        BY <4>1 DEF ReadSoFar, ReadAs
    <3>2. CASE UNCHANGED before
      BY <2>1, <3>2 DEF Reading, AboutTheFile, ReadSoFar, ReadAs, GoodRevisions, GoodMilestones
    <3> QED
      BY <2>1, <3>1, <3>2
  <2>4. ReadToTheEnd => ReadToTheEnd'
    BY <2>1 DEF ReadToTheEnd
  <2> QED
    BY <2>1, <2>2, <2>3, <2>4 DEF Reading, Searching
<1> QED
    BY <1>1, <1>2, <1>3, <1>4, <1>5, <1>6, StepCases

-----------------------------------------------------------------------------
(* What is judged. *)

\* The comparison a history has for the task's question.
HasPair(versions) == SelectVersions(versions, task.ask) # NoPair /\ Comparable(versions)

Pair(versions) == SelectVersions(versions, task.ask)

LEMMA TheOnlyOne ==
    ASSUME NEW versions \in Seq(VersionNote), NEW rev,
           Cardinality(Labelled(versions, rev)) <= 1, Labelled(versions, rev) # {}
    PROVE  \E v \in 1 .. Len(versions) : /\ Labelled(versions, rev) = {v}
                                         /\ Max(Labelled(versions, rev)) = v /\ Min(Labelled(versions, rev)) = v
<1> DEFINE S == Labelled(versions, rev)
<1>1. S \subseteq 1 .. Len(versions) /\ Len(versions) \in Nat
    BY DEF Labelled
<1>2. IsFiniteSet(S)
  <2>1. IsFiniteSet(1 .. Len(versions))
    BY <1>1, FS_Interval
  <2> QED
    BY <1>1, <2>1, FS_Subset
<1>3. Cardinality(S) \in Nat /\ Cardinality(S) # 0
    BY <1>2, FS_CardinalityType, FS_EmptySet
<1>4. Cardinality(S) = 1
    BY <1>3
<1>5. PICK v : S = {v}
    BY <1>2, <1>4, FS_Singleton
<1>6. v \in 1 .. Len(versions)
    BY <1>1, <1>5
<1> HIDE DEF S
<1>7. Max(S) = v
    BY <1>1, <1>5, <1>6 DEF Max
<1>8. Min(S) = v
    BY <1>1, <1>5, <1>6 DEF Min
<1> QED
    BY <1>5, <1>6, <1>7, <1>8 DEF S

LEMMA PairIsThere ==
    ASSUME NEW versions \in Seq(VersionNote), HasPair(versions)
    PROVE  /\ versions # <<>>
           /\ task.ask.latest => Len(versions) >= 2
           /\ ~task.ask.latest => Labelled(versions, task.ask.from) # {} /\ Labelled(versions, task.ask.to) # {}
<1>1. CASE task.ask.latest
    BY <1>1 DEF HasPair, Comparable
<1>2. CASE ~task.ask.latest
  <2>1. Labelled(versions, task.ask.from) # {} /\ Labelled(versions, task.ask.to) # {}
    BY <1>2 DEF HasPair, SelectVersions
  <2>2. versions # <<>>
    BY <2>1 DEF Labelled
  <2> QED
    BY <1>2, <2>1, <2>2
<1> QED
    BY <1>1, <1>2

\* They are the versions the agent takes the labels for.
PairAt(versions, from, to) ==
    /\ Pair(versions) = [from |-> from, to |-> to, notes |-> SubSeq(versions, from + 1, to)]
    /\ task.ask.latest => from = Len(versions) - 1 /\ to = Len(versions)
    /\ ~task.ask.latest => from = VersionOf(versions, task.ask.from) /\ to = VersionOf(versions, task.ask.to)

LEMMA PairFields ==
    ASSUME NEW versions \in Seq(VersionNote), HasPair(versions)
    PROVE  \E from \in Nat : \E to \in 1 .. Len(versions) : PairAt(versions, from, to)
<1>0. Len(versions) \in Nat
    OBVIOUS
<1>1. CASE task.ask.latest
  <2>1. Len(versions) >= 2
    BY <1>1, PairIsThere
  <2>2. Pair(versions) = Between(versions, Len(versions) - 1, Len(versions))
    BY <1>0, <1>1, <2>1 DEF Pair, SelectVersions
  <2>3. PairAt(versions, Len(versions) - 1, Len(versions))
    BY <1>1, <2>2 DEF Between, PairAt
  <2>4. Len(versions) - 1 \in Nat /\ Len(versions) \in 1 .. Len(versions)
    BY <1>0, <2>1
  <2> QED
    BY <2>3, <2>4
<1>2. CASE ~task.ask.latest
  <2>1. Labelled(versions, task.ask.from) # {} /\ Labelled(versions, task.ask.to) # {}
    BY <1>2, PairIsThere
  <2>2. /\ Cardinality(Labelled(versions, task.ask.from)) <= 1
        /\ Cardinality(Labelled(versions, task.ask.to)) <= 1
    BY <1>2 DEF HasPair, Comparable
  <2>3. PICK from \in 1 .. Len(versions) : /\ Max(Labelled(versions, task.ask.from)) = from
                                           /\ Min(Labelled(versions, task.ask.from)) = from
    BY <2>1, <2>2, TheOnlyOne
  <2>4. PICK to \in 1 .. Len(versions) : /\ Max(Labelled(versions, task.ask.to)) = to
                                         /\ Min(Labelled(versions, task.ask.to)) = to
    BY <2>1, <2>2, TheOnlyOne
  <2>5. Pair(versions) = Between(versions, from, to)
    BY <1>2, <2>1, <2>3, <2>4 DEF Pair, SelectVersions
  <2>6. PairAt(versions, from, to)
    BY <1>2, <2>3, <2>4, <2>5 DEF Between, VersionOf, PairAt
  <2> QED
    BY <1>0, <2>6
<1> QED
    BY <1>1, <1>2

\* The notes compared are of the history.
LEMMA NotesOfThePair ==
    ASSUME NEW versions \in Seq(VersionNote), HasPair(versions)
    PROVE  /\ Stated(LastOf(Pair(versions).notes)) \subseteq Stated(Pair(versions).notes)
           /\ Stated(Pair(versions).notes) \subseteq Stated(versions)
           /\ task.ask.latest => Pair(versions).notes = LastOf(versions)
<1>1. PICK from \in Nat, to \in 1 .. Len(versions) :
        /\ Pair(versions) = [from |-> from, to |-> to, notes |-> SubSeq(versions, from + 1, to)]
        /\ task.ask.latest => from = Len(versions) - 1 /\ to = Len(versions)
    BY PairFields DEF PairAt
<1> DEFINE notes == SubSeq(versions, from + 1, to)
<1>2. Pair(versions).notes = notes
    BY <1>1
<1>3. /\ notes \in Seq(VersionNote)
      /\ Len(notes) = IF from + 1 <= to THEN to - from ELSE 0
      /\ \A i \in 1 .. Len(notes) : notes[i] = versions[from + i]
  <2>1. \A i \in from + 1 .. to : versions[i] \in VersionNote
    OBVIOUS
  <2>2. /\ notes \in Seq(VersionNote)
        /\ Len(notes) = IF from + 1 <= to THEN to - (from + 1) + 1 ELSE 0
        /\ \A i \in 1 .. to - (from + 1) + 1 : notes[i] = versions[from + 1 + i - 1]
    BY <2>1, SubSeqProperties
  <2> HIDE DEF notes
  <2> QED
    BY <2>2
<1> HIDE DEF notes
<1>4. \A i \in DOMAIN notes : from + i \in DOMAIN versions /\ notes[i] = versions[from + i]
    BY <1>3
<1>5. Stated(notes) \subseteq Stated(versions)
    BY <1>4 DEF Stated
<1>6. notes # <<>> => Len(notes) \in DOMAIN notes
    BY <1>3
<1>7. Stated(LastOf(notes)) \subseteq Stated(notes)
    BY <1>6 DEF Stated, LastOf
<1>8. ASSUME task.ask.latest PROVE notes = LastOf(versions)
  <2>1. from + 1 = Len(versions) /\ to = Len(versions) /\ Len(versions) \in Nat /\ versions # <<>>
    BY <1>1, <1>8, PairIsThere
  <2>2. Len(notes) = 1 /\ notes[1] = versions[Len(versions)]
    BY <1>3, <2>1
  <2>3. notes = <<versions[Len(versions)]>>
    BY <1>3, <2>2
  <2> QED
    BY <2>1, <2>3 DEF LastOf
<1> QED
    BY <1>2, <1>5, <1>7, <1>8

LEMMA ReviewFields ==
    ASSUME NEW res, NEW ask
    PROVE  LET f == Review(res, ask)
           IN /\ f.delta = RevisionDelta(res, ask) /\ f.schedule = Schedule(res)
              /\ Resolved(res, "design_file") => f.outcome # "declined"
<1> DEFINE delta == RevisionDelta(res, ask)
           schedule == Schedule(res)
           section == Finding(Read(res), IF "file_handoffs" \in DOMAIN res
                                      THEN [NotRun EXCEPT !.verdict = "handed_off"] ELSE NotRun, TRUE)
           handoffs == IF Resolved(res, "cross_seat") THEN section.handoffs
                       ELSE [section.handoffs EXCEPT !.outcome = SectionState(res, "cross_seat"),
                                                  !.proposed = ProposeHandoffs({})]
           dfm == DfmSignals(res)
           sections == {SectionState(res, "release_gate"), dfm.outcome}
                       \cup ({delta.outcome, schedule.outcome, handoffs.outcome} \ {"not_run"})
<1>1. Review(res, ask) = [outcome |-> IF ~Resolved(res, "design_file") THEN "declined"
                                      ELSE IF sections = {"answered"} THEN "answered" ELSE "partial",
                          delta |-> delta, dfm |-> dfm, schedule |-> schedule,
                          gate |-> section.gate, blockers |-> section.blockers, handoffs |-> handoffs]
    BY DEF Review
<1> HIDE DEF delta, schedule, section, handoffs, dfm, sections
<1> QED
    BY <1>1 DEF delta, schedule

LEMMA TemplateFields ==
    ASSUME NEW f, f.outcome # "declined"
    PROVE  LET t == Template(f)
           IN /\ t = [NoAnswer EXCEPT
                        !.verdict = t.verdict, !.qty = Stated(f.delta.notes), !.words = t.words,
                        !.standards = t.standards, !.owners = t.owners, !.proposedOnly = t.proposedOnly,
                        !.noOther = t.noOther, !.late = f.schedule.late, !.saysLate = (f.schedule.late # {})]
              /\ t.qty = Stated(f.delta.notes) /\ t.late = f.schedule.late
              /\ t.saysLate = (f.schedule.late # {}) /\ t.onTrack = FALSE
BY DEF Template, NoAnswer

\* Whatever the draft, the answer tells what is late and states the newest
\* quantities, and none that no note states.
LEMMA AnswerFields ==
    ASSUME NEW f, f.outcome # "declined", NEW a \in AnswersOf(f)
    PROVE  /\ a.late = f.schedule.late /\ a.saysLate = (f.schedule.late # {}) /\ a.onTrack = FALSE
           /\ \/ a.qty = Stated(f.delta.notes)
              \/ /\ a.qty \subseteq f.delta.known
                 /\ f.delta.outcome = "answered" => Stated(LastOf(f.delta.notes)) \subseteq a.qty
<1>1. CASE a = Template(f)
    BY <1>1, TemplateFields
<1>2. CASE \E said \in [qty : SUBSET f.delta.known, words : SUBSET Worded(f.delta.notes)] :
             a = [Template(f) EXCEPT !.qty = said.qty, !.words = said.words] /\ AuditOk(a, f)
  <2>1. PICK said \in [qty : SUBSET f.delta.known, words : SUBSET Worded(f.delta.notes)] :
          a = [Template(f) EXCEPT !.qty = said.qty, !.words = said.words] /\ AuditOk(a, f)
    BY <1>2
  <2>2. /\ a.qty \subseteq f.delta.known
        /\ f.delta.outcome = "answered" => Stated(LastOf(f.delta.notes)) \subseteq a.qty
    BY <2>1 DEF AuditOk
  <2>3. a.late = Template(f).late /\ a.saysLate = Template(f).saysLate /\ a.onTrack = Template(f).onTrack
    BY <2>1
  <2> QED
    BY <2>2, <2>3, TemplateFields
<1> QED
    BY <1>1, <1>2 DEF AnswersOf

LEMMA DeltaOfRows ==
    ASSUME NEW rows \in Seq(VersionNote), HasPair(rows), Resolved(results, "revisions"),
           ~Incomplete(results, "revisions"), results["revisions"].data.rows = rows
    PROVE  LET delta == RevisionDelta(results, task.ask)
           IN /\ delta.outcome = "answered" /\ delta.known = Stated(rows)
              /\ delta.from = Pair(rows).from /\ delta.to = Pair(rows).to /\ delta.notes = Pair(rows).notes
<1> DEFINE pair == IF task.ask.latest THEN [from |-> Len(rows) - 1, to |-> Len(rows), notes |-> LastOf(rows)]
                   ELSE Between(rows, VersionOf(rows, task.ask.from), VersionOf(rows, task.ask.to))
<1>1. SectionState(results, "revisions") = "answered"
    BY DEF SectionState, Resolved
<1>2. /\ rows # <<>>
      /\ ~task.ask.latest => Labelled(rows, task.ask.from) # {} /\ Labelled(rows, task.ask.to) # {}
    BY PairIsThere
<1>3. RevisionDelta(results, task.ask) =
        [outcome |-> "answered", geometry |-> FALSE, known |-> Stated(rows),
         from |-> pair.from, to |-> pair.to, notes |-> pair.notes]
    BY <1>1, <1>2 DEF RevisionDelta
<1>4. pair.from = Pair(rows).from /\ pair.to = Pair(rows).to /\ pair.notes = Pair(rows).notes
  <2>1. PICK from \in Nat, to \in 1 .. Len(rows) : PairAt(rows, from, to)
    BY PairFields
  <2>2. task.ask.latest => Pair(rows).notes = LastOf(rows)
    BY NotesOfThePair
  <2> DEFINE notes == SubSeq(rows, from + 1, to)
  <2>3. Pair(rows) = [from |-> from, to |-> to, notes |-> notes]
    BY <2>1 DEF PairAt
  <2>4. CASE task.ask.latest
    <3>1. pair.from = from /\ pair.to = to /\ pair.notes = LastOf(rows)
      BY <2>1, <2>4 DEF PairAt
    <3> HIDE DEF pair, notes
    <3> QED
      BY <2>2, <2>3, <2>4, <3>1
  <2>5. CASE ~task.ask.latest
    <3>1. from = VersionOf(rows, task.ask.from) /\ to = VersionOf(rows, task.ask.to)
      BY <2>1, <2>5 DEF PairAt
    <3>2. pair = [from |-> from, to |-> to, notes |-> notes]
      BY <2>5, <3>1 DEF Between
    <3> HIDE DEF pair, notes
    <3> QED
      BY <2>3, <3>2
  <2> QED
    BY <2>4, <2>5
<1> HIDE DEF pair
<1> QED
    BY <1>3, <1>4

LEMMA NoFail ==
    ASSUME NEW c1, \A n \in DOMAIN c1 : c1[n] # "fail", NEW c2, \A n \in DOMAIN c2 : c2[n] # "fail"
    PROVE  "fail" \notin Statuses(<<c1, c2>>)
BY DEF Statuses

LEMMA JudgedAsDrift ==
    ASSUME NEW got, NEW want, NEW then, got \in {want, then}
    PROVE  Judge(got, want, then) # "fail"
BY DEF Judge

\* A graded run of a file that is there, whose reads came back whole while the
\* platform was edited at most once.
EditedOnce ==
    /\ Candidates /\ Looks /\ Reading
    /\ Graded("none") /\ moves = 1 /\ CleanReads
    /\ route.plan \in ThePlans /\ route.aim = task.file /\ before.file = "there"

LEMMA WhatWasRead ==
    ASSUME EditedOnce
    PROVE  /\ record.finding = Review(results, task.ask) /\ record.answer \in AnswersOf(record.finding)
           /\ record.finding.outcome # "declined"
           /\ before.versions \in Seq(VersionNote) /\ after.versions \in Seq(VersionNote)
           /\ IsDates(before.milestones) /\ IsDates(after.milestones)
           /\ route.plan = "rev_diff_dfm" =>
                /\ Resolved(results, "revisions") /\ ~Incomplete(results, "revisions")
                /\ results["revisions"].data.rows \in {before.versions, after.versions}
           /\ route.plan = "release_handoff" =>
                /\ Resolved(results, "milestones")
                /\ results["milestones"].data \in {before.milestones, after.milestones}
<1>1. AboutTheFile /\ ReadSoFar /\ ReadToTheEnd
  <2>1. replay = "none" /\ phase = "graded"
    BY DEF EditedOnce, Graded
  <2>2. AboutTheFile
    BY <2>1 DEF EditedOnce, AboutTheFile, Looks
  <2> QED
    BY <2>1, <2>2 DEF EditedOnce, Reading
<1>2. after = Seen(world, task.file) /\ before.versions \in Seq(VersionNote) /\ IsDates(before.milestones)
    BY DEF EditedOnce, Graded, Looks
<1>3. after.versions \in Seq(VersionNote) /\ IsDates(after.milestones) /\ after.milestones = world.milestones
    BY <1>2, SeenTypes, SeenFields DEF EditedOnce, Candidates
<1>4. "design_file" \in DOMAIN results
    BY <1>1 DEF ReadToTheEnd, AboutTheFile, ThePlans
<1>5. \A n \in DOMAIN results : results[n].verdict # "failed"
    BY DEF EditedOnce, CleanReads
<1>6. Resolved(results, "design_file")
    BY <1>1, <1>4, <1>5 DEF ReadSoFar, Resolved
<1>7. record.finding.outcome # "declined"
    BY <1>1, <1>6, ReviewFields DEF ReadToTheEnd
<1>8. ASSUME route.plan = "rev_diff_dfm"
      PROVE  /\ Resolved(results, "revisions") /\ ~Incomplete(results, "revisions")
             /\ results["revisions"].data.rows \in {before.versions, after.versions}
  <2>1. "revisions" \in DOMAIN results /\ ReadAs("revisions", GoodRevisions)
    BY <1>1, <1>8 DEF ReadToTheEnd, ReadSoFar
  <2>2. results["revisions"].verdict = "resolved" /\ GoodRevisions
    BY <1>4, <1>5, <2>1 DEF ReadAs
  <2>3. ~Incomplete(results, "revisions")
    BY DEF EditedOnce, CleanReads
  <2> QED
    BY <1>2, <2>1, <2>2, <2>3 DEF Resolved, Incomplete, GoodRevisions
<1>9. ASSUME route.plan = "release_handoff"
      PROVE  Resolved(results, "milestones") /\ results["milestones"].data \in {before.milestones, after.milestones}
  <2>1. "milestones" \in DOMAIN results /\ ReadAs("milestones", GoodMilestones)
    BY <1>1, <1>9 DEF ReadToTheEnd, ReadSoFar
  <2>2. results["milestones"].verdict = "resolved" /\ GoodMilestones
    BY <1>4, <1>5, <2>1 DEF ReadAs
  <2> QED
    BY <1>3, <2>1, <2>2 DEF Resolved, GoodMilestones
<1> QED
    BY <1>1, <1>2, <1>3, <1>7, <1>8, <1>9 DEF ReadToTheEnd

LEMMA BundleFields ==
    /\ Bundle.task = task /\ Bundle.record = record /\ Bundle.before = before /\ Bundle.after = after
BY DEF Bundle

\* The comparison is the one the platform had or has.
LEMMA RevisionsMayDrift ==
    ASSUME EditedOnce, route.plan = "rev_diff_dfm", HasPair(before.versions), HasPair(after.versions)
    PROVE  /\ \A n \in DOMAIN RevisionChecks(Bundle) : RevisionChecks(Bundle)[n] # "fail"
           /\ \A n \in DOMAIN ChangeChecks(Bundle) : ChangeChecks(Bundle)[n] # "fail"
<1> DEFINE delta == record.finding.delta
           earlier == before.versions
           later == after.versions
           answer == record.answer
<1>1. /\ earlier \in Seq(VersionNote) /\ later \in Seq(VersionNote)
      /\ earlier # Unread /\ later # Unread /\ earlier # <<>> /\ later # <<>>
    BY WhatWasRead, PairIsThere, UnreadLooksAssumption
<1>2. PICK rows \in {earlier, later} : rows = results["revisions"].data.rows
    BY WhatWasRead
<1>3. /\ rows \in Seq(VersionNote) /\ HasPair(rows)
    BY <1>1
<1>4. /\ delta.outcome = "answered" /\ delta.known = Stated(rows)
      /\ delta.from = Pair(rows).from /\ delta.to = Pair(rows).to /\ delta.notes = Pair(rows).notes
    BY <1>2, <1>3, WhatWasRead, ReviewFields, DeltaOfRows
<1>5. \A n \in DOMAIN RevisionChecks(Bundle) : RevisionChecks(Bundle)[n] # "fail"
  <2> DEFINE mapping == Judge(<<delta.from, delta.to>>, <<Pair(later).from, Pair(later).to>>, <<Pair(earlier).from, Pair(earlier).to>>)
             notes == Judge(delta.notes, Pair(later).notes, Pair(earlier).notes)
  <2>1. RevisionChecks(Bundle) = [mapping |-> mapping, notes |-> notes]
    BY <1>1, BundleFields DEF RevisionChecks, Nothing, Pair, HasPair
  <2>2. mapping # "fail" /\ notes # "fail"
    BY <1>4, JudgedAsDrift
  <2> HIDE DEF mapping, notes
  <2> QED
    BY <2>1, <2>2
<1>6. Stated(LastOf(Pair(rows).notes)) \subseteq answer.qty /\ answer.qty \subseteq Stated(rows)
  <2>1. \/ answer.qty = Stated(delta.notes)
        \/ /\ answer.qty \subseteq delta.known
           /\ delta.outcome = "answered" => Stated(LastOf(delta.notes)) \subseteq answer.qty
    BY WhatWasRead, AnswerFields
  <2> QED
    BY <1>3, <1>4, <2>1, NotesOfThePair
<1>7. \A n \in DOMAIN ChangeChecks(Bundle) : ChangeChecks(Bundle)[n] # "fail"
  <2> DEFINE stated == Excused(Missing(Bundle, later), Missing(Bundle, earlier))
             invented == Excused(NotKnown(Bundle, later), NotKnown(Bundle, earlier))
  <2>1. ChangeChecks(Bundle) = [stated |-> stated, invented |-> invented]
    BY <1>1, BundleFields DEF ChangeChecks
  <2>2. Missing(Bundle, rows) = {} /\ NotKnown(Bundle, rows) = {}
    BY <1>6, BundleFields DEF Missing, NotKnown, Pair
  <2>3. stated # "fail" /\ invented # "fail"
    BY <2>2 DEF Excused
  <2> HIDE DEF stated, invented
  <2> QED
    BY <2>1, <2>3
<1> QED
    BY <1>5, <1>7

\* So is the schedule.
LEMMA ScheduleMayDrift ==
    ASSUME EditedOnce, route.plan = "release_handoff", DOMAIN before.milestones # {}
    PROVE  /\ \A n \in DOMAIN ScheduleChecks(Bundle) : ScheduleChecks(Bundle)[n] # "fail"
           /\ \A n \in DOMAIN LateChecks(Bundle) : LateChecks(Bundle)[n] # "fail"
<1> DEFINE schedule == record.finding.schedule
           earlier == before.milestones
           later == after.milestones
           answer == record.answer
<1>1. earlier # Unread /\ later # Unread /\ earlier # <<>>
    BY WhatWasRead, UnreadLooksAssumption
<1>2. PICK rows \in {earlier, later} : rows = results["milestones"].data
    BY WhatWasRead
<1>3. schedule.outcome = "answered" /\ schedule.rows = rows /\ schedule.late = PastDue(rows)
  <2>1. Schedule(results) = [outcome |-> "answered", rows |-> rows, late |-> PastDue(rows)]
    BY <1>2, WhatWasRead DEF Schedule
  <2> QED
    BY <2>1, WhatWasRead, ReviewFields
<1>4. \A n \in DOMAIN ScheduleChecks(Bundle) : ScheduleChecks(Bundle)[n] # "fail"
  <2> DEFINE milestones == Judge(schedule.rows, later, earlier)
             late == Judge(schedule.late, PastDue(later), PastDue(earlier))
  <2>1. ScheduleChecks(Bundle) = [milestones |-> milestones, late |-> late]
    BY <1>1, <1>3, BundleFields DEF ScheduleChecks, Nothing
  <2>2. milestones # "fail" /\ late # "fail"
    BY <1>3, JudgedAsDrift
  <2> HIDE DEF milestones, late
  <2> QED
    BY <2>1, <2>2
<1>5. answer.late = schedule.late /\ answer.saysLate = (schedule.late # {}) /\ answer.onTrack = FALSE
    BY WhatWasRead, AnswerFields
<1>6. \A n \in DOMAIN LateChecks(Bundle) : LateChecks(Bundle)[n] # "fail"
  <2> DEFINE Right(dates) == /\ PastDue(dates) \subseteq answer.late /\ ~answer.onTrack
                             /\ PastDue(dates) = {} \/ answer.saysLate
             told == IF Right(later) THEN "pass" ELSE IF Right(earlier) THEN "drift" ELSE "fail"
  <2>1. LateChecks(Bundle) = [told |-> told]
    BY <1>1, BundleFields DEF LateChecks
  <2>2. Right(rows)
    BY <1>3, <1>5
  <2> HIDE DEF Right
  <2>3. told # "fail"
    BY <2>2
  <2> HIDE DEF told
  <2> QED
    BY <2>1, <2>3
<1> QED
    BY <1>4, <1>6

\* A run reads each thing once, before or after another team's edit, and the
\* verifier has looked on both sides of it: what the finding, and each answer
\* the audit lets through, say of the revisions and of the schedule is what the
\* platform said in one of the two looks, so a check may report drift but never
\* a failure, on every platform and for every edit.
THEOREM EditsAreDrift == TrialSpec => []MovedDataIsDrift
<1>1. TrialInit => Candidates /\ Looks /\ Reading
    BY CandidatesInit, ReadingInit
<1>2. Candidates /\ Looks /\ Reading /\ [TrialNext]_trialVars => (Candidates /\ Looks /\ Reading)'
    BY CandidatesStep, LooksStep, ReadingStep
<1>3. Candidates /\ Looks /\ Reading => MovedDataIsDrift
  <2> SUFFICES ASSUME EditedOnce, DOMAIN before.milestones # {},
                      route.plan = "rev_diff_dfm" => HasPair(before.versions) /\ HasPair(after.versions)
               PROVE  "fail" \notin Statuses(IF route.plan = "rev_diff_dfm"
                                             THEN <<RevisionChecks(Bundle), ChangeChecks(Bundle)>>
                                             ELSE <<ScheduleChecks(Bundle), LateChecks(Bundle)>>)
    BY DEF MovedDataIsDrift, EditedOnce, HasPair, ThePlans
  <2>1. CASE route.plan = "rev_diff_dfm"
    BY <2>1, RevisionsMayDrift, NoFail
  <2>2. CASE route.plan = "release_handoff"
    BY <2>2, ScheduleMayDrift, NoFail
  <2> QED
    BY <2>1, <2>2 DEF EditedOnce, ThePlans
<1> QED
    BY <1>1, <1>2, <1>3, PTL DEF TrialSpec

-----------------------------------------------------------------------------
(* What every plan of the pack, and every choice from the catalogue, is     *)
(* like.                                                                    *)

\* Where a node comes in its plan.
Rank == [route |-> 0, tool_check |-> 0, design_file |-> 1,
         revisions |-> 2, release_gate |-> 2, feedback |-> 2, milestones |-> 2,
         dfm_standards |-> 3, cross_seat |-> 3, failed_checklists |-> 3, file_handoffs |-> 4]

\* What an action takes from the results of other nodes.
Feeds(action) == IF action = "gather_dfm_standards" THEN {"revisions", "release_gate"}
                 ELSE IF action = "find_cross_seat_dependencies" THEN {"release_gate", "feedback"} ELSE {}

Computed == {"find_cross_seat_dependencies", "raise_handoffs", "probe_tool_offered", "decline"}

\* A node waits only for nodes before it, and for all that its action takes.
Placed(n, node) ==
    /\ n \in DOMAIN Rank /\ node.action \in DOMAIN ToolOf \cup Computed
    /\ \A d \in node.after : d \in DOMAIN Rank /\ Rank[d] < Rank[n]
    /\ Feeds(node.action) \subseteq node.after

\* A rule's node waits for what the rule watches, and two rules for one node
\* never fire together.
RulesInOrder(rules) ==
    /\ \A r \in rules : Placed(r.id, r.node) /\ r.watch \in r.node.after
    /\ \A r, s \in rules : r.id = s.id => r = s \/ (r.watch = s.watch /\ r.verdict # s.verdict)

Reader(n, node) == n = "revisions" => node.action = "list_revisions"

PlacedNodes(nodes) == \A n \in DOMAIN nodes : Placed(n, nodes[n]) /\ Reader(n, nodes[n])

OrderedPlan(plan) ==
    /\ PlacedNodes(plan.nodes) /\ RulesInOrder(plan.rules)
    /\ \A r \in plan.rules : r.id # "revisions"

AllRules == {GateBlocked,
             Rule("failed_checklists_when_gate_unreadable", "release_gate", "failed",
                  "failed_checklists", [Checklists EXCEPT !.settled = TRUE]),
             Rule("file_handoffs_when_proposed", "cross_seat", "resolved",
                  "file_handoffs", Node("raise_handoffs", {"cross_seat"}, {}))}

LEMMA AllRulesInOrder ==
    RulesInOrder(AllRules) /\ \A r \in AllRules : r.id # "revisions"
<1> DEFINE unreadable == Rule("failed_checklists_when_gate_unreadable", "release_gate", "failed",
                              "failed_checklists", [Checklists EXCEPT !.settled = TRUE])
           filing == Rule("file_handoffs_when_proposed", "cross_seat", "resolved",
                          "file_handoffs", Node("raise_handoffs", {"cross_seat"}, {}))
<1>1. /\ GateBlocked.id = "failed_checklists" /\ GateBlocked.watch = "release_gate" /\ GateBlocked.verdict = "resolved"
      /\ GateBlocked.node.action = "list_failed_checklists" /\ GateBlocked.node.after = {"release_gate"}
    BY DEF GateBlocked, Rule, Checklists, Node
<1>2. /\ unreadable.id = "failed_checklists" /\ unreadable.watch = "release_gate" /\ unreadable.verdict = "failed"
      /\ unreadable.node.action = "list_failed_checklists" /\ unreadable.node.after = {"release_gate"}
    BY DEF Rule, Checklists, Node
<1>3. /\ filing.id = "file_handoffs" /\ filing.watch = "cross_seat" /\ filing.verdict = "resolved"
      /\ filing.node.action = "raise_handoffs" /\ filing.node.after = {"cross_seat"}
    BY DEF Rule, Node
<1>4. AllRules = {GateBlocked, unreadable, filing}
    BY DEF AllRules
<1> HIDE DEF unreadable, filing
<1>5. \A r \in AllRules : Placed(r.id, r.node) /\ r.watch \in r.node.after /\ r.id # "revisions"
    BY <1>1, <1>2, <1>3, <1>4 DEF Placed, Rank, Feeds, Computed, ToolOf
<1>6. \A r, s \in AllRules : r.id = s.id => r = s \/ (r.watch = s.watch /\ r.verdict # s.verdict)
    BY <1>1, <1>2, <1>3, <1>4
<1> QED
    BY <1>5, <1>6 DEF RulesInOrder

LEMMA FewerRulesInOrder ==
    ASSUME NEW rules, rules \subseteq AllRules
    PROVE  RulesInOrder(rules) /\ \A r \in rules : r.id # "revisions"
BY AllRulesInOrder DEF RulesInOrder

LEMMA PlansInOrder ==
    /\ PlacedNodes(RevDiffDfm.nodes) /\ RevDiffDfm.rules \subseteq AllRules
    /\ PlacedNodes(ReleaseHandoff.nodes) /\ ReleaseHandoff.rules \subseteq AllRules
    /\ PlacedNodes(RouteDeclined.nodes) /\ RouteDeclined.rules \subseteq AllRules
    /\ PlacedNodes(ToolRefusal.nodes) /\ ToolRefusal.rules \subseteq AllRules
<1>1. RevDiffDfm.rules \subseteq AllRules /\ ReleaseHandoff.rules \subseteq AllRules
      /\ RouteDeclined.rules = {} /\ ToolRefusal.rules = {}
    BY DEF RevDiffDfm, ReleaseHandoff, RouteDeclined, ToolRefusal, AllRules
<1>2. PlacedNodes(RevDiffDfm.nodes)
    BY DEF RevDiffDfm, PlacedNodes, Placed, Reader, Rank, Feeds, Computed, ToolOf, DesignFile, ReadAfterFile, DfmStandards, Node
<1>3. PlacedNodes(ReleaseHandoff.nodes)
    BY DEF ReleaseHandoff, PlacedNodes, Placed, Reader, Rank, Feeds, Computed, ToolOf, DesignFile, ReadAfterFile, Node
<1>4. PlacedNodes(RouteDeclined.nodes)
    BY DEF RouteDeclined, PlacedNodes, Placed, Reader, Rank, Feeds, Computed, ToolOf, Node
<1>5. PlacedNodes(ToolRefusal.nodes)
    BY DEF ToolRefusal, PlacedNodes, Placed, Reader, Rank, Feeds, Computed, ToolOf, DesignFile, Node
<1> QED
    BY <1>1, <1>2, <1>3, <1>4, <1>5

LEMMA OfferInOrder ==
    ASSUME NEW offered, PlacedNodes(offered), NEW plan, PlacedNodes(plan.nodes)
    PROVE  PlacedNodes(Offer(offered, plan))
BY DEF PlacedNodes, Offer

LEMMA CatalogueInOrder == PlacedNodes(Catalogue)
<1> DEFINE offered == Offer(Offer(Offer(<<>>, ReleaseHandoff), RevDiffDfm), ToolRefusal)
           Closed == {S \in SUBSET DOMAIN offered : \A n \in S : offered[n].after \subseteq S}
<1>1. PlacedNodes(<<>>)
    BY DEF PlacedNodes
<1>2. PlacedNodes(offered)
    BY <1>1, OfferInOrder, PlansInOrder
<1>3. Catalogue = [n \in UNION Closed |-> offered[n]]
    BY DEF Catalogue, WithDependencies, Restrict
<1> HIDE DEF offered
<1>4. \A n \in UNION Closed : n \in DOMAIN offered
    OBVIOUS
<1> HIDE DEF Closed
<1> QED
    BY <1>2, <1>3, <1>4 DEF PlacedNodes

LEMMA PlannedInOrder ==
    ASSUME Planned
    PROVE  OrderedPlan(PlanOf(route))
<1>1. PICK picked \in SUBSET DOMAIN Catalogue : Usable(picked) /\ route = [LlmRoute(picked) EXCEPT !.aim = route.aim]
    BY DEF Planned
<1> DEFINE ids == Chosen(picked)
           nodes == Restrict(Catalogue, ids)
           rules == {r \in CatalogueRules : r.watch \in ids /\ r.node.after \subseteq ids}
<1>2. route.plan = "llm_plan" /\ route.nodes = nodes /\ route.rules = rules
  <2>1. LlmRoute(picked) = [plan |-> "llm_plan", aim |-> NoFile, planner |-> "llm", why |-> "chosen",
                            nodes |-> nodes, rules |-> rules]
      BY DEF LlmRoute
  <2> HIDE DEF nodes, rules
  <2> QED
      BY <1>1, <2>1
<1>3. PlanOf(route).nodes = nodes /\ PlanOf(route).rules = rules
  <2> HIDE DEF nodes, rules
  <2> QED
      BY <1>2 DEF PlanOf
<1>4. PlacedNodes(nodes)
    BY CatalogueInOrder, ChosenIsClosed DEF Restrict, PlacedNodes
<1>5. rules \subseteq AllRules
  <2>1. \A i \in DOMAIN PlanFiles : PlanFiles[i].rules \subseteq AllRules
    BY PlansInOrder DEF PlanFiles
  <2>2. UNION {PlanFiles[i].rules : i \in DOMAIN PlanFiles} \subseteq AllRules
    BY <2>1
  <2> QED
    BY <2>2 DEF CatalogueRules
<1> HIDE DEF nodes, rules
<1> QED
    BY <1>3, <1>4, <1>5, FewerRulesInOrder DEF OrderedPlan

PlanNames == {PlanFiles[i].name : i \in DOMAIN PlanFiles}

LEMMA NamedInOrder ==
    ASSUME NEW name \in PlanNames
    PROVE  OrderedPlan(PlanFile(name)) /\ name # "llm_plan"
<1>1. PICK i \in DOMAIN PlanFiles : name = PlanFiles[i].name /\ PlanFile(name) = PlanFiles[i]
  <2>1. \E i \in DOMAIN PlanFiles : name = PlanFiles[i].name
    BY DEF PlanNames
  <2> DEFINE at == CHOOSE i \in DOMAIN PlanFiles : PlanFiles[i].name = name
  <2>2. at \in DOMAIN PlanFiles /\ PlanFiles[at].name = name
    BY <2>1
  <2> QED
    BY <2>2 DEF PlanFile
<1>2. /\ ReleaseHandoff.name = "release_handoff" /\ RevDiffDfm.name = "rev_diff_dfm"
      /\ RouteDeclined.name = "route_declined" /\ ToolRefusal.name = "tool_refusal"
    BY DEF ReleaseHandoff, RevDiffDfm, RouteDeclined, ToolRefusal
<1>3. PlanFiles[i] \in {ReleaseHandoff, RevDiffDfm, RouteDeclined, ToolRefusal}
    BY DEF PlanFiles
<1> QED
    BY <1>1, <1>2, <1>3, PlansInOrder, FewerRulesInOrder DEF OrderedPlan

-----------------------------------------------------------------------------
(* The plan of a run. *)

KnownPlan == route.plan \in PlanNames \/ Planned

PlanInv ==
    /\ \E c \in Case : task = c.task
    /\ phase = "before" => route.plan = task.plan
    /\ phase \notin {"before", "route"} => KnownPlan

LEMMA RefusalIsNamed == "route_declined" \in PlanNames
<1>1. 3 \in DOMAIN PlanFiles /\ PlanFiles[3] = RouteDeclined
    BY DEF PlanFiles
<1>2. RouteDeclined.name = "route_declined"
    BY DEF RouteDeclined
<1> QED
    BY <1>1, <1>2 DEF PlanNames

LEMMA RunsAPlan ==
    ASSUME PlanInv, phase \notin {"before", "route"}
    PROVE  OrderedPlan(PlanOf(route))
<1>1. CASE Planned
    BY <1>1, PlannedInOrder
<1>2. CASE route.plan \in PlanNames
    BY <1>2, NamedInOrder DEF PlanOf
<1> QED
    BY <1>1, <1>2 DEF PlanInv, KnownPlan

LEMMA PlanInit == TrialInit => PlanInv
<1> SUFFICES ASSUME TrialInit PROVE PlanInv
    OBVIOUS
<1>1. phase = "before" /\ \E c \in Case : task = c.task
    BY DEF TrialInit
<1>2. route = [RuleRoute(task.plan) EXCEPT !.aim = IF task.plan = "route" THEN NoFile ELSE task.file]
    BY DEF TrialInit
<1>3. route.plan = task.plan
    BY <1>2 DEF RuleRoute
<1> QED
    BY <1>1, <1>3 DEF PlanInv

LEMMA AimedIsKnown ==
    ASSUME KnownPlan, NEW f, Aim(f)
    PROVE  KnownPlan'
<1>1. route' = [route EXCEPT !.aim = f]
    BY DEF Aim, Decide
<1>2. CASE Planned
  <2>1. PICK picked \in SUBSET DOMAIN Catalogue : Usable(picked) /\ route = [LlmRoute(picked) EXCEPT !.aim = route.aim]
    BY <1>2 DEF Planned
  <2>2. route' = [LlmRoute(picked) EXCEPT !.aim = route'.aim]
    BY <1>1, <2>1, AimedIsPlanned
  <2> QED
    BY <2>1, <2>2 DEF KnownPlan, Planned
<1>3. CASE route.plan \in PlanNames
  <2>1. route'.plan = route.plan
    BY <1>1
  <2> QED
    BY <1>3, <2>1 DEF KnownPlan
<1> QED
    BY <1>2, <1>3 DEF KnownPlan

LEMMA RefusedIsKnown ==
    ASSUME NEW planner, NEW why, Decide(Decline(planner, why))
    PROVE  KnownPlan'
BY RefusalIsNamed, RefusalsAreDeclined DEF Decide, KnownPlan

LEMMA PlanRoute ==
    ASSUME Candidates, PlanInv, RouteSteps
    PROVE  KnownPlan'
<1>0. UNCHANGED <<task, world>> /\ phase \in {"route", "resolve", "narrow"}
    BY RouteFrame
<1>1. CASE RouteByRules
  <2>1. CASE task.question.match # "none"
    <3> DEFINE name == task.question.match
               named == RuleRoute(name)
    <3>1. name \in PlanNames
      BY <2>1, RoutesAssumption DEF PlanInv, PlanNames
    <3>2. route' = [named EXCEPT !.aim = task.question.id] \/ route' = named
      BY <1>1, <2>1 DEF RouteByRules, Resolving, Decide
    <3>3. named.plan = name /\ [named EXCEPT !.aim = task.question.id].plan = name
      BY DEF RuleRoute
    <3> HIDE DEF named, name
    <3>4. route'.plan = name
      BY <3>2, <3>3
    <3> QED
      BY <3>1, <3>4 DEF KnownPlan
  <2>2. CASE task.question.match = "none"
    BY <1>1, <2>2, RefusedIsKnown DEF RouteByRules
  <2> QED
    BY <2>1, <2>2
<1>2. CASE RouteByLlm
  <2>1. PICK picked \in SUBSET (DOMAIN Catalogue \cup {"file_handoffs"}) :
          IF Usable(picked) THEN Resolving(LlmRoute(picked)) ELSE Decide(Decline("rules", "no route matched"))
    BY <1>2 DEF RouteByLlm
  <2>2. CASE ~Usable(picked)
    BY <2>1, <2>2, RefusedIsKnown
  <2>3. CASE Usable(picked)
    <3>1. picked \in SUBSET DOMAIN Catalogue
      BY <2>3 DEF Usable
    <3> DEFINE llm == LlmRoute(picked)
    <3>2. route' = [llm EXCEPT !.aim = task.question.id] \/ route' = llm
      BY <2>1, <2>3 DEF Resolving, Decide
    <3>3. llm = [LlmRoute(picked) EXCEPT !.aim = llm.aim]
      BY DEF LlmRoute
    <3> HIDE DEF llm
    <3>4. route' = [LlmRoute(picked) EXCEPT !.aim = route'.aim]
      BY <2>3, <3>1, <3>2, <3>3, AimedIsPlanned
    <3> QED
      BY <2>3, <3>1, <3>4 DEF KnownPlan, Planned
  <2> QED
    BY <2>2, <2>3
<1>3. CASE Lists
  <2>0. PICK top \in SUBSET DOMAIN world.files, dark \in SUBSET DOMAIN world.files :
          Choose(top, dark) /\ phase = "resolve" /\ IsPlatform(world)
    BY <1>3, ListsChoose DEF Candidates
  <2>1. \/ Decide(Decline(route.planner, "unknown"))
        \/ Cardinality(top) = 1 /\ (\A f \in top : Aim(f))
        \/ Ambiguous
        \/ UNCHANGED route
    BY <2>0, ChooseDecides
  <2>2. KnownPlan
    BY <2>0 DEF PlanInv
  <2>3. CASE Cardinality(top) = 1 /\ (\A f \in top : Aim(f))
    BY <2>0, <2>2, <2>3, OnlyOne, AimedIsKnown
  <2>4. CASE Ambiguous
    BY <2>4, RefusedIsKnown DEF Ambiguous
  <2>5. CASE UNCHANGED route
    BY <2>2, <2>5 DEF KnownPlan, Planned
  <2> QED
    BY <2>1, <2>3, <2>4, <2>5, RefusedIsKnown
<1>4. CASE ListFails
    BY <1>4 DEF ListFails, PlanInv, KnownPlan, Planned
<1>5. CASE \E f \in DOMAIN world.files : Notes(f)
  <2>1. PICK f \in narrowing.left, named \in BOOLEAN, dark \in SUBSET DOMAIN world.files :
          Confirm(f, named, dark) /\ phase = "narrow"
    BY <1>5, SomeConfirm
  <2> DEFINE kept == narrowing.kept \cup (IF named THEN {f} ELSE {})
             top == OrAll(kept, narrowing.all)
  <2>2. top \subseteq DOMAIN world.files /\ IsPlatform(world)
    BY DEF OrAll, Candidates
  <2>3. \/ UNCHANGED route
        \/ Cardinality(top) = 1 /\ (\A g \in top : Aim(g))
        \/ Ambiguous
    BY <2>1 DEF Confirm
  <2> HIDE DEF top
  <2>4. KnownPlan
    BY <2>1 DEF PlanInv
  <2>5. CASE UNCHANGED route
    BY <2>4, <2>5 DEF KnownPlan, Planned
  <2>6. CASE Cardinality(top) = 1 /\ (\A g \in top : Aim(g))
    BY <2>2, <2>4, <2>6, OnlyOne, AimedIsKnown
  <2>7. CASE Ambiguous
    BY <2>7, RefusedIsKnown DEF Ambiguous
  <2> QED
    BY <2>3, <2>5, <2>6, <2>7
<1> QED
    BY <1>1, <1>2, <1>3, <1>4, <1>5 DEF RouteSteps

LEMMA PlanStep == Candidates /\ PlanInv /\ [TrialNext]_trialVars => PlanInv'
<1> SUFFICES ASSUME Candidates, PlanInv, [TrialNext]_trialVars PROVE PlanInv'
    OBVIOUS
<1>1. CASE RouteSteps
  <2>1. UNCHANGED task /\ phase' # "before"
    BY <1>1, RouteFrame, RouteLeadsTo
  <2> QED
    BY <1>1, <2>1, PlanRoute DEF PlanInv
<1>2. CASE ObserveBefore
  <2>1. /\ UNCHANGED <<task, route>> /\ phase = "before"
        /\ phase' = IF task.plan = "route" THEN "route" ELSE "run"
    BY <1>2 DEF ObserveBefore
  <2>2. task.plan # "route" => task.plan \in PlanNames
    BY TasksAssumption DEF PlanInv, ValidTask, PlanNames
  <2> QED
    BY <2>1, <2>2 DEF PlanInv, KnownPlan
<1>3. CASE /\ UNCHANGED <<task, route>>
           /\ phase' = phase \/ (phase \notin {"before", "route"} /\ phase' \notin {"before", "route"})
    BY <1>3 DEF PlanInv, KnownPlan, Planned
<1> QED
    BY <1>1, <1>2, <1>3, StepCases, SettleFrame, ReplayFrame DEF Conclude, ObserveAfter, Move, Done, trialVars

-----------------------------------------------------------------------------
(* What the nodes settle as when nothing goes wrong and nothing moves.      *)

\* What a read of platform w about a file returns, given the results so far.
Taken(w, file, action, res) ==
    LET seen == Seen(w, file)
    IN CASE action = "list_revisions" -> [rows |-> seen.versions, whole |-> TRUE]
         [] action = "read_release_gate" -> seen.gate
         [] action = "list_feedback" -> [rows |-> seen.rows, whole |-> TRUE]
         [] action = "list_milestones" -> seen.milestones
         [] action = "gather_dfm_standards" -> GatherStandards(seen, res)
         [] OTHER -> {}

\* What an action that makes no call settles as.
Made(w, action, res) ==
    CASE action = "find_cross_seat_dependencies" ->
            LET read == Read(res)
            IN Result("resolved", ProposeHandoffs(OpenSeriousItems(read.gate, read.rows)))
      [] action = "raise_handoffs" -> Result("handed_off", {})
      [] action = "probe_tool_offered" -> Result(IF AiReview \in w.tools THEN "resolved" ELSE "declined", {})
      [] action = "decline" -> Result("declined", {})

Runs(node, res) == node.settled \/ \A d \in node.after : Resolved(res, d)

Outcome(w, file, node, res) ==
    IF ~Runs(node, res) THEN Result("bypassed", {})
    ELSE IF node.action \notin DOMAIN ToolOf THEN Made(w, node.action, res)
    ELSE IF node.action = "load_design_file" /\ file \notin DOMAIN w.files THEN Result("declined", {})
    ELSE Result("resolved", Taken(w, file, node.action, res))

\* Every result is what its node makes of the others.
Lawful(w, rt, res) ==
    LET graph == Graph(PlanOf(rt), res)
    IN \A n \in DOMAIN res : /\ n \in DOMAIN graph /\ graph[n].after \subseteq DOMAIN res
                             /\ res[n] = Outcome(w, rt.aim, graph[n], res)

\* No node is left whose turn it could be.
AllSettled(rt, res) ==
    LET graph == Graph(PlanOf(rt), res)
    IN \A n \in DOMAIN graph : graph[n].after \subseteq DOMAIN res => n \in DOMAIN res

Agree(nodes, a, b) == \A d \in nodes : d \in DOMAIN a /\ d \in DOMAIN b /\ a[d] = b[d]

LEMMA SameQuery ==
    ASSUME NEW a, NEW b, Agree({"revisions", "release_gate"}, a, b), NEW seen
    PROVE  GatherStandards(seen, a) = GatherStandards(seen, b)
<1>1. StandardsQuery(a) = StandardsQuery(b)
  <2>1. /\ Resolved(a, "revisions") = Resolved(b, "revisions") /\ a["revisions"].data.rows = b["revisions"].data.rows
        /\ Resolved(a, "release_gate") = Resolved(b, "release_gate") /\ a["release_gate"].data = b["release_gate"].data
    BY DEF Agree, Resolved
  <2> QED
    BY <2>1 DEF StandardsQuery
<1> QED
    BY <1>1 DEF GatherStandards

LEMMA SameRead ==
    ASSUME NEW a, NEW b, Agree({"release_gate", "feedback"}, a, b)
    PROVE  Read(a) = Read(b)
<1>1. /\ Resolved(a, "release_gate") = Resolved(b, "release_gate") /\ a["release_gate"].data = b["release_gate"].data
      /\ Resolved(a, "feedback") = Resolved(b, "feedback") /\ a["feedback"].data = b["feedback"].data
    BY DEF Agree, Resolved
<1> QED
    BY <1>1 DEF Read, Incomplete

LEMMA SameRuns ==
    ASSUME NEW node, NEW a, NEW b, Agree(node.after, a, b)
    PROVE  Runs(node, a) <=> Runs(node, b)
BY DEF Agree, Runs, Resolved

\* What a node settles as depends only on what it waits for.
LEMMA SameOutcome ==
    ASSUME NEW w, NEW file, NEW n, NEW node, Placed(n, node), NEW a, NEW b, Agree(node.after, a, b)
    PROVE  Outcome(w, file, node, a) = Outcome(w, file, node, b)
<1>1. Runs(node, a) <=> Runs(node, b)
    BY SameRuns
<1>2. Taken(w, file, node.action, a) = Taken(w, file, node.action, b)
  <2>1. CASE node.action = "gather_dfm_standards"
    <3>1. Agree({"revisions", "release_gate"}, a, b)
      BY <2>1 DEF Placed, Feeds, Agree
    <3> QED
      BY <2>1, <3>1, SameQuery DEF Taken
  <2>2. CASE node.action # "gather_dfm_standards"
    BY <2>2 DEF Taken
  <2> QED
    BY <2>1, <2>2
<1>3. ASSUME node.action \notin DOMAIN ToolOf PROVE Made(w, node.action, a) = Made(w, node.action, b)
  <2>1. CASE node.action = "find_cross_seat_dependencies"
    <3>1. Agree({"release_gate", "feedback"}, a, b)
      BY <2>1 DEF Placed, Feeds, Agree
    <3>2. Read(a) = Read(b)
      BY <3>1, SameRead
    <3> QED
      BY <2>1, <3>2 DEF Made
  <2>2. CASE node.action \in Computed \ {"find_cross_seat_dependencies"}
    BY <2>2 DEF Made, Computed
  <2> QED
    BY <1>3, <2>1, <2>2 DEF Placed
<1> QED
    BY <1>1, <1>2, <1>3 DEF Outcome

LEMMA RulesAdd ==
    ASSUME NEW plan, NEW res, NEW r \in plan.rules, Fires(r, res)
    PROVE  r.id \in DOMAIN Graph(plan, res)
BY DEF Graph

\* A node is the same in two graphs if what it waits for settled alike.
LEMMA SameNode ==
    ASSUME NEW plan, OrderedPlan(plan), NEW a, NEW b, NEW n \in DOMAIN Graph(plan, a),
           Agree(Graph(plan, a)[n].after, a, b)
    PROVE  /\ n \in DOMAIN Graph(plan, b) /\ Graph(plan, b)[n] = Graph(plan, a)[n]
           /\ Placed(n, Graph(plan, a)[n])
           /\ n = "revisions" => Graph(plan, a)[n].action = "list_revisions"
<1> DEFINE ga == Graph(plan, a)
           gb == Graph(plan, b)
<1>1. CASE n \in DOMAIN plan.nodes
  <2>1. n \in DOMAIN gb /\ ga[n] = plan.nodes[n] /\ gb[n] = plan.nodes[n]
    BY <1>1, GraphNodes
  <2> QED
    BY <1>1, <2>1 DEF OrderedPlan, PlacedNodes, Reader
<1>2. CASE n \notin DOMAIN plan.nodes
  <2>1. PICK r \in plan.rules : r.id = n /\ Fires(r, a) /\ ga[n] = r.node
    BY <1>2, GraphNodes
  <2>2. r.watch \in r.node.after /\ Placed(n, r.node) /\ n # "revisions"
    BY <2>1 DEF OrderedPlan, RulesInOrder
  <2>3. r.watch \in DOMAIN a /\ r.watch \in DOMAIN b /\ a[r.watch] = b[r.watch]
    BY <2>1, <2>2 DEF Agree
  <2>4. Fires(r, b)
    BY <2>1, <2>3 DEF Fires
  <2>5. n \in DOMAIN gb
    BY <2>1, <2>4, RulesAdd
  <2>6. PICK s \in plan.rules : s.id = n /\ Fires(s, b) /\ gb[n] = s.node
    BY <1>2, <2>5, GraphNodes
  <2>7. r = s
    <3>1. r = s \/ (r.watch = s.watch /\ r.verdict # s.verdict)
      BY <2>1, <2>6 DEF OrderedPlan, RulesInOrder
    <3>2. r.watch = s.watch => r.verdict = s.verdict
      BY <2>4, <2>6 DEF Fires
    <3> QED
      BY <3>1, <3>2
  <2> QED
    BY <2>1, <2>2, <2>5, <2>6, <2>7
<1> QED
    BY <1>1, <1>2

\* A part of lawful results that holds what its nodes wait for is lawful.
LEMMA PartIsLawful ==
    ASSUME NEW w, NEW rt, OrderedPlan(PlanOf(rt)), NEW res, Lawful(w, rt, res), NEW part,
           \A n \in DOMAIN part : /\ n \in DOMAIN res /\ part[n] = res[n]
                                  /\ Graph(PlanOf(rt), res)[n].after \subseteq DOMAIN part
    PROVE  Lawful(w, rt, part)
<1> DEFINE graph == Graph(PlanOf(rt), res)
<1> SUFFICES ASSUME NEW n \in DOMAIN part
             PROVE  /\ n \in DOMAIN Graph(PlanOf(rt), part)
                    /\ Graph(PlanOf(rt), part)[n].after \subseteq DOMAIN part
                    /\ part[n] = Outcome(w, rt.aim, Graph(PlanOf(rt), part)[n], part)
    BY DEF Lawful
<1>1. n \in DOMAIN graph /\ res[n] = Outcome(w, rt.aim, graph[n], res)
    BY DEF Lawful
<1>2. Agree(graph[n].after, res, part)
    BY DEF Agree
<1>3. n \in DOMAIN Graph(PlanOf(rt), part) /\ Graph(PlanOf(rt), part)[n] = graph[n] /\ Placed(n, graph[n])
    BY <1>1, <1>2, SameNode
<1>4. Outcome(w, rt.aim, graph[n], part) = Outcome(w, rt.aim, graph[n], res)
    BY <1>2, <1>3, SameOutcome
<1> QED
    BY <1>1, <1>3, <1>4

\* So are they with the next node's result.
LEMMA NextIsLawful ==
    ASSUME NEW w, NEW rt, OrderedPlan(PlanOf(rt)), NEW res, Lawful(w, rt, res),
           NEW n \in DOMAIN Graph(PlanOf(rt), res) \ DOMAIN res,
           Graph(PlanOf(rt), res)[n].after \subseteq DOMAIN res,
           NEW next, next = With(res, n, Outcome(w, rt.aim, Graph(PlanOf(rt), res)[n], res))
    PROVE  Lawful(w, rt, next)
<1> DEFINE graph == Graph(PlanOf(rt), res)
<1>0. /\ DOMAIN next = DOMAIN res \cup {n} /\ next[n] = Outcome(w, rt.aim, graph[n], res)
      /\ \A m \in DOMAIN res : next[m] = res[m]
    BY DEF With
<1> SUFFICES ASSUME NEW m \in DOMAIN next
             PROVE  /\ m \in DOMAIN Graph(PlanOf(rt), next)
                    /\ Graph(PlanOf(rt), next)[m].after \subseteq DOMAIN next
                    /\ next[m] = Outcome(w, rt.aim, Graph(PlanOf(rt), next)[m], next)
    BY DEF Lawful
<1>1. m \in DOMAIN graph /\ graph[m].after \subseteq DOMAIN res /\ next[m] = Outcome(w, rt.aim, graph[m], res)
    BY <1>0 DEF Lawful
<1>2. Agree(graph[m].after, res, next)
    BY <1>0, <1>1 DEF Agree
<1>3. m \in DOMAIN Graph(PlanOf(rt), next) /\ Graph(PlanOf(rt), next)[m] = graph[m] /\ Placed(m, graph[m])
    BY <1>1, <1>2, SameNode
<1>4. Outcome(w, rt.aim, graph[m], next) = Outcome(w, rt.aim, graph[m], res)
    BY <1>2, <1>3, SameOutcome
<1> QED
    BY <1>0, <1>1, <1>3, <1>4

\* What a fork undoes is closed under what waits for it.
LEMMA UndoneIsClosed ==
    ASSUME NEW graph, NEW n, NEW m \in DOMAIN graph, NEW d \in graph[m].after, d \in Undone(graph, n) \cup {n}
    PROVE  m \in Undone(graph, n)
BY DEF Undone

LEMMA ForkIsLawful ==
    ASSUME NEW w, NEW rt, OrderedPlan(PlanOf(rt)), NEW res, Lawful(w, rt, res),
           NEW n \in DOMAIN res, Graph(PlanOf(rt), res)[n].after = {},
           NEW fork, fork = With([m \in DOMAIN res \ Undone(Graph(PlanOf(rt), res), n) |-> res[m]], n, res[n])
    PROVE  Lawful(w, rt, fork)
<1> DEFINE graph == Graph(PlanOf(rt), res)
<1>1. /\ DOMAIN fork = (DOMAIN res \ Undone(graph, n)) \cup {n}
      /\ \A m \in DOMAIN fork : fork[m] = res[m]
    BY DEF With
<1>2. ASSUME NEW m \in DOMAIN fork, NEW d \in graph[m].after
      PROVE  d \in DOMAIN fork
  <2>1. m # n /\ m \in DOMAIN res /\ m \notin Undone(graph, n)
    BY <1>1, <1>2
  <2>2. m \in DOMAIN graph /\ d \in DOMAIN res
    BY <1>2, <2>1 DEF Lawful
  <2>3. d \notin Undone(graph, n)
    BY <1>2, <2>1, <2>2, UndoneIsClosed
  <2> QED
    BY <1>1, <2>2, <2>3
<1>3. \A m \in DOMAIN fork : m \in DOMAIN res /\ fork[m] = res[m] /\ graph[m].after \subseteq DOMAIN fork
    BY <1>1, <1>2
<1> HIDE DEF graph
<1> QED
    BY <1>3, PartIsLawful DEF graph

LEMMA RanksAreNat == \A n \in DOMAIN Rank : Rank[n] \in Nat
BY DEF Rank

LEMMA OneSide ==
    ASSUME NEW w, NEW rt, OrderedPlan(PlanOf(rt)), NEW a, NEW b,
           Lawful(w, rt, a), Lawful(w, rt, b), AllSettled(rt, b), NEW n \in DOMAIN a,
           \A d \in DOMAIN a : Rank[d] < Rank[n] => d \in DOMAIN b /\ a[d] = b[d]
    PROVE  n \in DOMAIN b /\ a[n] = b[n]
<1> DEFINE ga == Graph(PlanOf(rt), a)
           gb == Graph(PlanOf(rt), b)
<1>1. n \in DOMAIN ga /\ ga[n].after \subseteq DOMAIN a /\ a[n] = Outcome(w, rt.aim, ga[n], a)
    BY DEF Lawful
<1>2. Placed(n, ga[n])
  <2>1. Agree(ga[n].after, a, a)
    BY <1>1 DEF Agree
  <2> QED
    BY <1>1, <2>1, SameNode
<1>3. Agree(ga[n].after, a, b)
    BY <1>1, <1>2 DEF Agree, Placed
<1>4. n \in DOMAIN gb /\ gb[n] = ga[n]
    BY <1>1, <1>3, SameNode
<1>5. n \in DOMAIN b
  <2>1. gb[n].after \subseteq DOMAIN b
    BY <1>3, <1>4 DEF Agree
  <2> QED
    BY <1>4, <2>1 DEF AllSettled
<1>6. b[n] = Outcome(w, rt.aim, gb[n], b)
    BY <1>5 DEF Lawful
<1>7. Outcome(w, rt.aim, ga[n], a) = Outcome(w, rt.aim, ga[n], b)
    BY <1>2, <1>3, SameOutcome
<1> QED
    BY <1>1, <1>4, <1>5, <1>6, <1>7

LEMMA SettledIsRanked ==
    ASSUME NEW w, NEW rt, OrderedPlan(PlanOf(rt)), NEW a, Lawful(w, rt, a), NEW n \in DOMAIN a
    PROVE  n \in DOMAIN Rank
<1> DEFINE graph == Graph(PlanOf(rt), a)
<1>1. n \in DOMAIN graph /\ Agree(graph[n].after, a, a)
    BY DEF Lawful, Agree
<1>2. Placed(n, graph[n])
    BY <1>1, SameNode
<1> QED
    BY <1>2 DEF Placed

IsFcn(res) == res = [n \in DOMAIN res |-> res[n]]

\* The order in which the nodes settle does not matter.
LEMMA OneEnd ==
    ASSUME NEW w, NEW rt, OrderedPlan(PlanOf(rt)), NEW a, NEW b, IsFcn(a), IsFcn(b),
           Lawful(w, rt, a), AllSettled(rt, a), Lawful(w, rt, b), AllSettled(rt, b)
    PROVE  a = b
<1> DEFINE Same(n) == n \in DOMAIN a /\ n \in DOMAIN b /\ a[n] = b[n]
           others == {n \in DOMAIN a \cup DOMAIN b : ~Same(n)}
           ranks == {Rank[n] : n \in others}
<1>1. others = {}
  <2> SUFFICES ASSUME others # {} PROVE FALSE
    OBVIOUS
  <2>1. \A n \in others : n \in DOMAIN Rank
    BY SettledIsRanked
  <2>2. ranks \subseteq Nat /\ ranks # {}
    BY <2>1, RanksAreNat
  <2> HIDE DEF others
  <2>3. PICK least \in ranks : \A k \in ranks : least <= k
    BY <2>2, LeastNat
  <2>4. PICK n \in others : Rank[n] = least
    BY <2>3
  <2>5. \A d \in others : ~(Rank[d] < Rank[n])
    <3> TAKE d \in others
    <3>1. Rank[d] \in ranks /\ Rank[n] \in Nat /\ Rank[d] \in Nat
      BY <2>1, <2>4, RanksAreNat
    <3> QED
      BY <2>3, <2>4, <3>1
  <2>6. \A d \in DOMAIN a \cup DOMAIN b : Rank[d] < Rank[n] => Same(d)
    BY <2>5 DEF others
  <2>7. n \in DOMAIN a \cup DOMAIN b /\ ~Same(n)
    BY <2>4 DEF others
  <2>8. CASE n \in DOMAIN a
    BY <2>6, <2>7, <2>8, OneSide
  <2>9. CASE n \in DOMAIN b
    <3>1. \A d \in DOMAIN b : Rank[d] < Rank[n] => d \in DOMAIN a /\ b[d] = a[d]
      BY <2>6
    <3>2. n \in DOMAIN a /\ b[n] = a[n]
      BY <2>9, <3>1, OneSide
    <3> QED
      BY <2>7, <2>9, <3>2
  <2> QED
    BY <2>7, <2>8, <2>9
<1>2. DOMAIN a = DOMAIN b /\ \A n \in DOMAIN a : a[n] = b[n]
    BY <1>1
<1> QED
    BY <1>2 DEF IsFcn

-----------------------------------------------------------------------------
(* A run and its control replay.                                            *)

\* The results of the graded run that a control replays: they made its finding.
BaseResults ==
    \E old : IsFcn(old) /\ Lawful(world, route, old) /\ AllSettled(route, old)
             /\ base.finding = Review(old, task.ask)

SameInv ==
    /\ faults \in Nat
    /\ phase \in Searching \cup {"after"} => replay = "none"
    /\ faults = 0 /\ moves = 0 =>
         /\ replay \in {"none", "control"} => IsFcn(results) /\ Lawful(world, route, results)
         /\ replay = "none" /\ phase \in {"after", "graded"} => AllSettled(route, results)
         /\ replay = "control" => BaseResults
         /\ replay = "control" /\ phase = "graded" => record.finding = base.finding

LEMMA EmptyIsLawful ==
    ASSUME NEW w, NEW rt, NEW res, res = <<>>
    PROVE  IsFcn(res) /\ Lawful(w, rt, res)
BY DEF IsFcn, Lawful

LEMMA SameInit == TrialInit => SameInv
<1> SUFFICES ASSUME TrialInit PROVE SameInv
    OBVIOUS
<1>1. results = <<>> /\ faults = 0 /\ replay = "none" /\ phase = "before"
    BY DEF TrialInit
<1> QED
    BY <1>1, EmptyIsLawful DEF SameInv

\* While nothing goes wrong, a node whose turn it is settles as its node makes it.
LEMMA FaultlessSettles ==
    ASSUME faults \in Nat, Settles, faults' = 0
    PROVE  /\ faults = 0
           /\ \E n \in DOMAIN Now \ DOMAIN results :
                /\ Now[n].after \subseteq DOMAIN results
                /\ results' = With(results, n, Outcome(world, route.aim, Now[n], results))
<1>1. PICK due \in Turns : ReadNode(due) \/ CutShort(due) \/ Flaky(due) \/ Compute(due) \/ Bypass(due)
    BY DEF Settles
<1> DEFINE n == due.node
<1>2. ~CutShort(due) /\ ~Flaky(due)
    BY DEF CutShort, Flaky
<1>3. faults = 0
    BY <1>1, <1>2 DEF ReadNode, Compute, Bypass
<1>4. /\ n \in DOMAIN Now \ DOMAIN results /\ due.action = Now[n].action
      /\ Now[n].after \subseteq DOMAIN results /\ (due.runs <=> Runs(Now[n], results))
    BY TurnFields DEF Runs
<1>5. CASE ReadNode(due)
  <2>1. due.runs /\ due.action \in DOMAIN ToolOf
    BY <1>5 DEF ReadNode, Reads
  <2>2. DataFor(due.action) = Taken(world, route.aim, due.action, results)
    BY DEF DataFor, Taken
  <2>3. results' = With(results, n, Outcome(world, route.aim, Now[n], results))
    BY <1>4, <1>5, <2>1, <2>2 DEF ReadNode, Settle, Outcome
  <2> QED
    BY <1>3, <1>4, <2>3
<1>6. CASE Compute(due)
  <2>1. due.runs /\ due.action \notin DOMAIN ToolOf
    BY <1>6 DEF Compute, Reads
  <2>2. results' = With(results, n, Made(world, due.action, results))
    BY <1>6 DEF Compute, Settle, Made
  <2>3. results' = With(results, n, Outcome(world, route.aim, Now[n], results))
    BY <1>4, <2>1, <2>2 DEF Outcome
  <2> QED
    BY <1>3, <1>4, <2>3
<1>7. CASE Bypass(due)
  <2>1. results' = With(results, n, Outcome(world, route.aim, Now[n], results))
    BY <1>4, <1>7 DEF Bypass, Settle, Outcome
  <2> QED
    BY <1>3, <1>4, <2>1
<1> QED
    BY <1>1, <1>2, <1>5, <1>6, <1>7

LEMMA WithIsFcn ==
    ASSUME NEW f, NEW x, NEW v
    PROVE  IsFcn(With(f, x, v))
BY DEF IsFcn, With

LEMMA SameSettles ==
    ASSUME PlanInv, SameInv, Settles
    PROVE  SameInv'
<1>1. /\ phase = "run" /\ phase' = "run"
      /\ UNCHANGED <<task, world, route, replay, base, moves>>
    BY SettleFrame
<1>2. faults' \in Nat
  <2>1. faults' \in {faults, faults + 1}
    BY DEF Settles, ReadNode, CutShort, Flaky, Compute, Bypass
  <2> QED
    BY <2>1 DEF SameInv
<1>3. BaseResults' <=> BaseResults
    BY <1>1 DEF BaseResults
<1>4. ASSUME faults' = 0, moves' = 0, replay' \in {"none", "control"}
      PROVE  faults = 0 /\ IsFcn(results') /\ Lawful(world, route, results')
  <2>1. faults = 0
    BY <1>4, FaultlessSettles DEF SameInv
  <2>2. PICK n \in DOMAIN Now \ DOMAIN results :
          /\ Now[n].after \subseteq DOMAIN results
          /\ results' = With(results, n, Outcome(world, route.aim, Now[n], results))
    BY <1>4, FaultlessSettles DEF SameInv
  <2>3. Lawful(world, route, results) /\ OrderedPlan(PlanOf(route))
    BY <1>1, <1>4, <2>1, RunsAPlan DEF SameInv
  <2>4. Lawful(world, route, results')
    BY <2>2, <2>3, NextIsLawful DEF Now
  <2> QED
    BY <2>1, <2>2, <2>4, WithIsFcn
<1> QED
    BY <1>1, <1>2, <1>3, <1>4, FaultlessSettles DEF SameInv, Searching

LEMMA SameEnds ==
    ASSUME PlanInv, SameInv, Conclude
    PROVE  SameInv'
<1>1. /\ phase = "run" /\ Turns = {} /\ record'.finding = Review(results, task.ask)
      /\ UNCHANGED <<task, world, route, results, replay, base, moves, faults>>
      /\ phase' = IF replay = "none" THEN "after" ELSE "graded"
    BY DEF Conclude
<1>2. AllSettled(route, results)
  <2> SUFFICES ASSUME NEW n \in DOMAIN Now, Now[n].after \subseteq DOMAIN results, n \notin DOMAIN results
               PROVE  FALSE
    BY DEF AllSettled, Now
  <2> DEFINE graph == Now
             Turn(m) == [node |-> m, action |-> graph[m].action,
                         runs |-> graph[m].settled \/ \A d \in graph[m].after : Resolved(results, d)]
  <2>1. Turns = {Turn(m) : m \in {k \in DOMAIN graph \ DOMAIN results : graph[k].after \subseteq DOMAIN results}}
    BY <1>1 DEF Turns
  <2> HIDE DEF Turn, graph
  <2>2. Turn(n) \in Turns
    BY <2>1 DEF graph
  <2> QED
    BY <1>1, <2>2
<1>3. BaseResults' <=> BaseResults
    BY <1>1 DEF BaseResults
<1>4. ASSUME faults = 0, moves = 0, replay = "control"
      PROVE  record'.finding = base.finding
  <2>1. PICK old : /\ IsFcn(old) /\ Lawful(world, route, old) /\ AllSettled(route, old)
                   /\ base.finding = Review(old, task.ask)
    BY <1>4 DEF SameInv, BaseResults
  <2>2. IsFcn(results) /\ Lawful(world, route, results) /\ OrderedPlan(PlanOf(route))
    BY <1>1, <1>4, RunsAPlan DEF SameInv
  <2>3. old = results
    BY <1>2, <2>1, <2>2, OneEnd
  <2> QED
    BY <1>1, <2>1, <2>3
<1> QED
    BY <1>1, <1>2, <1>3, <1>4 DEF SameInv, Searching

LEMMA SameForks ==
    ASSUME PlanInv, Reading, SameInv, Replays
    PROVE  SameInv'
<1>1. /\ phase = "graded" /\ phase' = "run" /\ replay = "none" /\ base' = record
      /\ UNCHANGED <<task, world, route, moves, faults>>
    BY ReplayFrame
<1>2. CASE \E fault \in DOMAIN ReplayFaults : Fault(fault)
  <2>1. replay' \notin {"none", "control"}
    BY <1>2 DEF Fault, Continue, ReplayFaults
  <2> QED
    BY <1>1, <2>1 DEF SameInv, Searching
<1>3. CASE Control
  <2>1. PICK n \in DOMAIN Now : Now[n].after = {} /\ Continue("control", n, results[n])
    BY <1>3 DEF Control
  <2> SUFFICES ASSUME faults = 0, moves = 0
               PROVE  IsFcn(results') /\ Lawful(world, route, results') /\ BaseResults'
    BY <1>1, <2>1 DEF SameInv, Continue, Searching
  <2>2. IsFcn(results) /\ Lawful(world, route, results) /\ AllSettled(route, results)
    BY <1>1 DEF SameInv
  <2>3. record.finding = Review(results, task.ask)
    BY <1>1 DEF Reading, ReadToTheEnd
  <2>4. BaseResults'
    BY <1>1, <2>2, <2>3 DEF BaseResults
  <2>5. n \in DOMAIN results
    BY <2>1, <2>2 DEF AllSettled, Now
  <2>6. results' = With([m \in DOMAIN results \ Undone(Now, n) |-> results[m]], n, results[n])
    BY <2>1 DEF Continue
  <2>7. Lawful(world, route, results')
    BY <1>1, <2>1, <2>2, <2>5, <2>6, RunsAPlan, ForkIsLawful DEF Now
  <2> QED
    BY <2>4, <2>6, <2>7, WithIsFcn
<1> QED
    BY <1>2, <1>3 DEF Replays

LEMMA SameStep == Candidates /\ PlanInv /\ Looks /\ Reading /\ SameInv /\ [TrialNext]_trialVars => SameInv'
<1> SUFFICES ASSUME Candidates, PlanInv, Looks, Reading, SameInv, [TrialNext]_trialVars PROVE SameInv'
    OBVIOUS
<1>1. CASE RouteSteps \/ ObserveBefore
  <2>1. phase \in Searching /\ UNCHANGED <<results, replay, moves>> /\ replay = "none" /\ results = <<>>
    BY <1>1, RouteFrame DEF ObserveBefore, Searching, SameInv, Reading
  <2>2. faults' \in {faults, faults + 1}
    BY <1>1 DEF RouteSteps, ObserveBefore, RouteByRules, RouteByLlm, Lists, ListFiles, ListCut, ListFails,
               Notes, ReadNotes, NotesCut, NotesUnreadable
  <2>3. phase' \notin {"after", "graded"}
    BY <1>1, RouteLeadsTo DEF ObserveBefore
  <2>4. IsFcn(results') /\ Lawful(world', route', results')
    BY <2>1, EmptyIsLawful
  <2>5. faults' \in Nat
    BY <2>2 DEF SameInv
  <2> QED
    BY <2>1, <2>3, <2>4, <2>5 DEF SameInv
<1>2. CASE Move
  <2>1. moves' = moves + 1 /\ UNCHANGED <<phase, replay, faults>>
    BY <1>2 DEF Move
  <2>2. moves' # 0
    BY <2>1 DEF Looks
  <2> QED
    BY <2>1, <2>2 DEF SameInv
<1>3. CASE ObserveAfter
  <2>1. /\ phase = "after" /\ phase' = "graded"
        /\ UNCHANGED <<task, world, route, results, record, replay, base, moves, faults>>
    BY <1>3 DEF ObserveAfter
  <2>2. replay = "none"
    BY <2>1 DEF SameInv
  <2> QED
    BY <2>1, <2>2 DEF SameInv, Searching
<1>4. CASE UNCHANGED trialVars \/ Done
  <2>1. UNCHANGED <<task, world, phase, route, results, record, replay, base, moves, faults>>
    BY <1>4 DEF Done, trialVars
  <2>2. BaseResults' <=> BaseResults
    BY <2>1 DEF BaseResults
  <2> QED
    BY <2>1, <2>2 DEF SameInv
<1> QED
    BY <1>1, <1>2, <1>3, <1>4, SameSettles, SameEnds, SameForks, StepCases

LEMMA GateFound ==
    ASSUME NEW b PROVE FoundBy("release_gate_matches_db", b) = GateChecks(b.record, b.before, b.after)
BY DEF FoundBy

LEMMA RevisionFound ==
    ASSUME NEW b PROVE FoundBy("revision_delta_matches_db", b) = RevisionChecks(b)
BY DEF FoundBy

LEMMA ScheduleFound ==
    ASSUME NEW b PROVE FoundBy("schedule_matches_db", b) = ScheduleChecks(b)
BY DEF FoundBy

LEMMA StatusesOfOne ==
    ASSUME NEW b, NEW check, NEW found, FoundBy(check, b) = found
    PROVE  StatusesOf(b, check) = {found[n] : n \in DOMAIN found}
BY DEF StatusesOf, Statuses

LEMMA PassedCheck ==
    ASSUME NEW b, Grade(b) = "pass", NEW check \in ChecksOf(b), NEW found, FoundBy(check, b) = found
    PROVE  \A n \in DOMAIN found : found[n] \notin {"fail", "error", "drift"}
<1> DEFINE all == UNION {StatusesOf(b, c) : c \in ChecksOf(b)}
<1>1. all \cap {"fail", "error"} = {} /\ "drift" \notin all
    BY DEF Grade, OverallStatus
<1>2. StatusesOf(b, check) \subseteq all
    OBVIOUS
<1> HIDE DEF all
<1>3. {found[n] : n \in DOMAIN found} \subseteq all
    BY <1>2, StatusesOfOne
<1>4. ASSUME NEW n \in DOMAIN found PROVE found[n] \in all
    BY <1>3
<1> QED
    BY <1>1, <1>4

\* A check that finds one failure fails.
LEMMA FailedCheck ==
    ASSUME NEW b, NEW check, NEW found, FoundBy(check, b) = found, NEW n \in DOMAIN found, found[n] = "fail"
    PROVE  "fail" \in StatusesOf(b, check)
BY StatusesOfOne

-----------------------------------------------------------------------------
(* The release gate. *)

LEMMA GateOfReview ==
    ASSUME NEW res, NEW ask
    PROVE  /\ Review(res, ask).gate = Ready(Read(res).gate)
           /\ Template(Review(res, ask)).verdict \in {Ready(Read(res).gate), Unread}
<1>1. Review(res, ask).gate = Ready(Read(res).gate)
  <2> DEFINE filing == IF "file_handoffs" \in DOMAIN res THEN [NotRun EXCEPT !.verdict = "handed_off"] ELSE NotRun
  <2>1. Review(res, ask).gate = Finding(Read(res), filing, TRUE).gate
    BY DEF Review
  <2> HIDE DEF filing
  <2> QED
    BY <2>1 DEF Finding
<1>2. ASSUME NEW f PROVE Template(f).verdict \in {f.gate, Unread}
    BY DEF Template, NoAnswer
<1> QED
    BY <1>1, <1>2

\* The gate was read exactly if there is a verdict on it.
LEMMA GateWasRead ==
    ASSUME NEW gate
    PROVE  Ready(gate) = Unread <=> gate = Unread
<1>1. (gate = {}) \in BOOLEAN
    OBVIOUS
<1> QED
    BY <1>1, UnreadAssumption DEF Ready

LEMMA PassedGate ==
    ASSUME NEW b, Grade(b) = "pass", "release_gate_matches_db" \in ChecksOf(b)
    PROVE  /\ Ready(b.after.gate) # Unread
           /\ b.record.finding.gate = Ready(b.after.gate)
<1> DEFINE is == Ready(b.after.gate)
           was == Ready(IF b.before.gate = Unread THEN b.after.gate ELSE b.before.gate)
           found == GateChecks(b.record, b.before, b.after)
<1>1. /\ "ready" \in DOMAIN found
      /\ b.after.gate = Unread => found["ready"] = "error"
      /\ b.after.gate # Unread =>
            found["ready"] = IF b.record.ended # "done" THEN "fail" ELSE Judge(b.record.finding.gate, is, was)
    BY DEF GateChecks
<1>2. \A n \in DOMAIN found : found[n] \notin {"fail", "error", "drift"}
    BY GateFound, PassedCheck
<1> HIDE DEF found, is, was
<1>3. b.after.gate # Unread /\ Judge(b.record.finding.gate, is, was) \notin {"fail", "error", "drift"}
    BY <1>1, <1>2
<1>4. b.record.finding.gate = is
    BY <1>3 DEF Judge
<1> QED
    BY <1>3, <1>4, GateWasRead DEF is

LEMMA GateIsCaught ==
    ASSUME NEW b, Ready(b.after.gate) # Unread, b.record.answer.verdict # Ready(b.after.gate)
    PROVE  "fail" \in StatusesOf(b, "release_gate_matches_db")
<1> DEFINE found == GateChecks(b.record, b.before, b.after)
<1>1. b.after.gate # Unread
    BY GateWasRead
<1>2. "verdict" \in DOMAIN found /\ found["verdict"] = PassOrFail(FALSE)
    BY <1>1 DEF GateChecks
<1> HIDE DEF found
<1>3. found["verdict"] = "fail"
    BY <1>2 DEF PassOrFail
<1> QED
    BY <1>2, <1>3, GateFound, FailedCheck DEF found

-----------------------------------------------------------------------------
(* The schedule. *)

LEMMA PassedSchedule ==
    ASSUME NEW b, Grade(b) = "pass", "schedule_matches_db" \in ChecksOf(b)
    PROVE  b.after.milestones # Unread
<1> SUFFICES ASSUME b.after.milestones = Unread PROVE FALSE
    OBVIOUS
<1>1. ScheduleChecks(b) = [milestones |-> "error"]
    BY DEF ScheduleChecks
<1>2. \A n \in DOMAIN ScheduleChecks(b) : ScheduleChecks(b)[n] \notin {"fail", "error", "drift"}
    BY ScheduleFound, PassedCheck
<1> QED
    BY <1>1, <1>2

LEMMA ScheduleIsCaught ==
    ASSUME NEW b, b.after.milestones # Unread, b.record.finding.schedule.outcome # "answered"
    PROVE  "fail" \in StatusesOf(b, "schedule_matches_db")
<1>1. ScheduleChecks(b) = [milestones |-> "fail"]
    BY DEF ScheduleChecks
<1> DEFINE found == ScheduleChecks(b)
<1>2. "milestones" \in DOMAIN found /\ found["milestones"] = "fail"
    BY <1>1
<1> HIDE DEF found
<1> QED
    BY <1>2, ScheduleFound, FailedCheck DEF found

\* A schedule that was not read is no answer.
LEMMA UnreadSchedule ==
    ASSUME NEW res, "milestones" \in DOMAIN res, res["milestones"].verdict = "failed"
    PROVE  Schedule(res).outcome = "error"
<1>1. ~Resolved(res, "milestones") /\ SectionState(res, "milestones") = "error"
    BY DEF Resolved, SectionState
<1> QED
    BY <1>1 DEF Schedule

-----------------------------------------------------------------------------
(* The comparison of two revisions. *)

LEMMA PassedRevisions ==
    ASSUME NEW b, Grade(b) = "pass", "revision_delta_matches_db" \in ChecksOf(b),
           b.after.versions # Unread, SelectVersions(b.after.versions, b.task.ask) # NoPair
    PROVE  /\ b.record.finding.delta.from = SelectVersions(b.after.versions, b.task.ask).from
           /\ b.record.finding.delta.to = SelectVersions(b.after.versions, b.task.ask).to
<1> DEFINE delta == b.record.finding.delta
           want == SelectVersions(b.after.versions, b.task.ask)
           then == IF Nothing(b.before.versions) THEN want ELSE SelectVersions(b.before.versions, b.task.ask)
           mapping == Judge(<<delta.from, delta.to>>, <<want.from, want.to>>, <<then.from, then.to>>)
           notes == Judge(delta.notes, want.notes, then.notes)
           found == RevisionChecks(b)
<1>1. found = [mapping |-> mapping, notes |-> notes]
    BY DEF RevisionChecks
<1>2. \A n \in DOMAIN found : found[n] \notin {"fail", "error", "drift"}
    BY RevisionFound, PassedCheck
<1> HIDE DEF notes, found, then, want, delta
<1>3. mapping \notin {"fail", "error", "drift"}
  <2> HIDE DEF mapping
  <2>1. "mapping" \in DOMAIN found /\ found["mapping"] = mapping
    BY <1>1
  <2> QED
    BY <1>2, <2>1
<1>4. <<delta.from, delta.to>> = <<want.from, want.to>>
    BY <1>3 DEF Judge
<1>5. delta.from = want.from /\ delta.to = want.to
    BY <1>4
<1> QED
    BY <1>5 DEF delta, want

LEMMA RevisionsAreCaught ==
    ASSUME NEW b, b.after.versions # Unread, SelectVersions(b.after.versions, b.task.ask) # NoPair,
           b.record.finding.delta.notes # SelectVersions(b.after.versions, b.task.ask).notes,
           ~Nothing(b.before.versions) =>
                b.record.finding.delta.notes # SelectVersions(b.before.versions, b.task.ask).notes
    PROVE  "fail" \in StatusesOf(b, "revision_delta_matches_db")
<1> DEFINE delta == b.record.finding.delta
           want == SelectVersions(b.after.versions, b.task.ask)
           then == IF Nothing(b.before.versions) THEN want ELSE SelectVersions(b.before.versions, b.task.ask)
           mapping == Judge(<<delta.from, delta.to>>, <<want.from, want.to>>, <<then.from, then.to>>)
           notes == Judge(delta.notes, want.notes, then.notes)
           found == RevisionChecks(b)
<1>1. found = [mapping |-> mapping, notes |-> notes]
    BY DEF RevisionChecks
<1>2. delta.notes # want.notes /\ delta.notes # then.notes
    OBVIOUS
<1> HIDE DEF mapping, found, then, want, delta
<1>3. notes = "fail"
    BY <1>2 DEF Judge
<1> HIDE DEF notes
<1>4. "notes" \in DOMAIN found /\ found["notes"] = "fail"
    BY <1>1, <1>3
<1> QED
    BY <1>4, RevisionFound, FailedCheck DEF found

-----------------------------------------------------------------------------
(* What a comparison of a history holds. *)

\* Its labels are at versions it has, the newest and the oldest among them.
LEMMA LabelsAreThere ==
    ASSUME NEW versions \in Seq(VersionNote), NEW rev, Labelled(versions, rev) # {}
    PROVE  /\ Min(Labelled(versions, rev)) \in 1 .. Len(versions)
           /\ Max(Labelled(versions, rev)) \in 1 .. Len(versions)
<1> DEFINE S == Labelled(versions, rev)
           N == Len(versions)
           T == {N - v : v \in S}
<1>1. S \subseteq 1 .. N /\ N \in Nat /\ S # {}
    BY DEF Labelled
<1> HIDE DEF S, N
<1>2. PICK least \in S : \A v \in S : least <= v
  <2>1. S \in SUBSET Nat
    BY <1>1
  <2> QED
    BY <1>1, <2>1, LeastNat
<1>3. PICK most \in S : \A v \in S : v <= most
  <2>1. T \in SUBSET Nat /\ T # {}
    BY <1>1
  <2>2. PICK t \in T : \A u \in T : t <= u
    BY <2>1, LeastNat
  <2>3. PICK most \in S : t = N - most
    BY <2>2
  <2>4. ASSUME NEW v \in S PROVE v <= most
    <3>1. N - v \in T
      OBVIOUS
    <3>2. N - most <= N - v
      BY <2>2, <2>3, <3>1
    <3>3. N \in Nat /\ v \in 1 .. N /\ most \in 1 .. N
      BY <1>1
    <3> QED
      BY <3>2, <3>3
  <2> QED
    BY <2>4
<1>4. Min(S) \in S
  <2>1. \E x \in S : \A y \in S : x <= y
    BY <1>2
  <2> QED
    BY <2>1 DEF Min
<1>5. Max(S) \in S
  <2>1. \E x \in S : \A y \in S : x >= y
    <3>1. \A y \in S : most >= y
      BY <1>1, <1>3
    <3> QED
      BY <3>1
  <2> QED
    BY <2>1 DEF Max
<1> QED
    BY <1>1, <1>4, <1>5 DEF S, N

LEMMA StatedBetween ==
    ASSUME NEW versions \in Seq(VersionNote), NEW from \in Nat, NEW to \in 0 .. Len(versions)
    PROVE  LET notes == SubSeq(versions, from + 1, to)
           IN /\ Len(notes) = (IF from + 1 <= to THEN to - from ELSE 0)
              /\ DOMAIN notes = 1 .. Len(notes)
              /\ \A i \in 1 .. Len(notes) : notes[i] = versions[from + i]
              /\ Stated(notes) \subseteq Quantity
<1> DEFINE notes == SubSeq(versions, from + 1, to)
<1>1. \A i \in from + 1 .. to : versions[i] \in VersionNote
    OBVIOUS
<1>2. /\ notes \in Seq(VersionNote)
      /\ Len(notes) = IF from + 1 <= to THEN to - (from + 1) + 1 ELSE 0
      /\ \A i \in 1 .. to - (from + 1) + 1 : notes[i] = versions[from + 1 + i - 1]
    BY <1>1, SubSeqProperties
<1> HIDE DEF notes
<1>3. \A i \in DOMAIN notes : notes[i] \in VersionNote
    BY <1>2
<1>4. Stated(notes) \subseteq Quantity
    BY <1>3 DEF Stated, VersionNote
<1> QED
    BY <1>2, <1>4 DEF notes

\* A comparison states only what notes state.
LEMMA ComparedIsStated ==
    ASSUME NEW versions \in Seq(VersionNote), NEW ask
    PROVE  Stated(SelectVersions(versions, ask).notes) \subseteq Quantity
<1> DEFINE pair == SelectVersions(versions, ask)
<1>1. pair.notes = <<>> \/ \E from \in Nat, to \in 0 .. Len(versions) : pair.notes = SubSeq(versions, from + 1, to)
  <2>1. CASE pair = NoPair
    BY <2>1 DEF NoPair
  <2>2. CASE ask.latest /\ pair # NoPair
    <3>1. Len(versions) >= 2 /\ pair = Between(versions, Len(versions) - 1, Len(versions))
      BY <2>2 DEF SelectVersions
    <3> HIDE DEF pair
    <3>2. pair.notes = SubSeq(versions, (Len(versions) - 1) + 1, Len(versions))
      BY <3>1 DEF Between
    <3>3. Len(versions) - 1 \in Nat /\ Len(versions) \in 0 .. Len(versions)
      BY <3>1
    <3> QED
      BY <3>2, <3>3
  <2>3. CASE ~ask.latest /\ pair # NoPair
    <3> DEFINE from == Min(Labelled(versions, ask.from))
               to == Min(Labelled(versions, ask.to))
    <3>1. /\ Labelled(versions, ask.from) # {} /\ Labelled(versions, ask.to) # {}
          /\ pair = Between(versions, from, to)
      BY <2>3 DEF SelectVersions
    <3>2. from \in 1 .. Len(versions) /\ to \in 1 .. Len(versions)
      BY <3>1, LabelsAreThere
    <3> HIDE DEF pair, from, to
    <3>3. pair.notes = SubSeq(versions, from + 1, to)
      BY <3>1 DEF Between
    <3> QED
      BY <3>2, <3>3
  <2> QED
    BY <2>1, <2>2, <2>3
<1>2. Stated(<<>>) = {}
    BY DEF Stated
<1> QED
    BY <1>1, <1>2, StatedBetween

\* Who compares a history with its newest note altered, compares the altered note.
LEMMA AlteredIsCompared ==
    ASSUME NEW rows \in Seq(VersionNote), rows # <<>>,
           NEW altered, altered = AlteredNote(rows),
           NEW from \in Nat, from < Len(rows)
    PROVE  /\ altered # <<>> /\ Len(altered) = Len(rows)
           /\ \A rev : Labelled(altered, rev) = Labelled(rows, rev)
           /\ Invented \in Stated(LastOf(altered))
           /\ Invented \in Stated(SubSeq(altered, from + 1, Len(rows)))
<1> DEFINE N == Len(rows)
           q == CHOOSE q \in NewestNote(rows).qty : TRUE
           qty == (rows[N].qty \ {q}) \cup {Invented}
           note == [rows[N] EXCEPT !.qty = qty]
           any == [rev : Rev \cup {NoRev}, qty : SUBSET (Quantity \cup {Invented}), words : SUBSET Word]
<1>1. N \in Nat \ {0} /\ rows[N] \in VersionNote
    OBVIOUS
<1>2. altered = [rows EXCEPT ![N] = note]
    BY DEF AlteredNote
<1>3. qty \subseteq Quantity \cup {Invented}
    BY <1>1 DEF VersionNote
<1> HIDE DEF qty
<1>4. note \in any /\ note.rev = rows[N].rev /\ note.qty = qty
    BY <1>1, <1>3 DEF VersionNote
<1>5. Invented \in note.qty
    BY <1>4 DEF qty
<1> HIDE DEF note
<1>6. \A i \in 1 .. N : rows[i] \in any
  <2> TAKE i \in 1 .. N
  <2>1. rows[i] \in VersionNote
    OBVIOUS
  <2> QED
    BY <2>1 DEF VersionNote
<1> HIDE DEF any
<1>7. /\ altered \in Seq(any) /\ Len(altered) = N /\ DOMAIN altered = 1 .. N
      /\ altered[N] = note /\ \A i \in 1 .. N : i # N => altered[i] = rows[i]
    BY <1>1, <1>2, <1>4, <1>6
<1>8. \A rev : Labelled(altered, rev) = Labelled(rows, rev)
  <2>1. \A i \in 1 .. N : altered[i].rev = rows[i].rev
    BY <1>1, <1>4, <1>7
  <2>2. DOMAIN rows = 1 .. N
    OBVIOUS
  <2> TAKE rev
  <2>3. Labelled(altered, rev) = {v \in 1 .. N : altered[v].rev = rev}
    BY <1>7 DEF Labelled
  <2>4. Labelled(rows, rev) = {v \in 1 .. N : rows[v].rev = rev}
    BY <2>2 DEF Labelled
  <2> QED
    BY <2>1, <2>3, <2>4
<1>9. Invented \in Stated(LastOf(altered))
  <2>1. LastOf(altered) = <<note>>
    BY <1>1, <1>7 DEF LastOf
  <2> QED
    BY <1>5, <2>1 DEF Stated
<1>10. Invented \in Stated(SubSeq(altered, from + 1, N))
  <2> DEFINE notes == SubSeq(altered, from + 1, N)
  <2>0. \A i \in 1 .. N : altered[i] \in any
    BY <1>1, <1>4, <1>6, <1>7
  <2>1. \A i \in from + 1 .. N : altered[i] \in any
    <3>1. \A i \in from + 1 .. N : i \in 1 .. N
      BY <1>1
    <3> QED
      BY <2>0, <3>1
  <2>2. /\ notes \in Seq(any)
        /\ Len(notes) = IF from + 1 <= N THEN N - (from + 1) + 1 ELSE 0
        /\ \A i \in 1 .. N - (from + 1) + 1 : notes[i] = altered[from + 1 + i - 1]
    BY <1>1, <2>1, SubSeqProperties
  <2> HIDE DEF notes
  <2>3. N - from \in DOMAIN notes /\ notes[N - from] = altered[N]
    <3> DEFINE k == N - from
    <3>1. k \in Nat \ {0} /\ N - (from + 1) + 1 = k /\ from + 1 + k - 1 = N /\ from + 1 <= N
      BY <1>1
    <3> HIDE DEF k
    <3>2. Len(notes) = k /\ notes[k] = altered[N]
      <4>1. k \in 1 .. N - (from + 1) + 1
        BY <3>1
      <4>2. notes[k] = altered[from + 1 + k - 1]
        BY <2>2, <4>1
      <4>3. Len(notes) = N - (from + 1) + 1
        BY <2>2, <3>1
      <4> QED
        BY <3>1, <4>2, <4>3
    <3>3. DOMAIN notes = 1 .. Len(notes)
      BY <2>2
    <3>4. k \in DOMAIN notes /\ notes[k] = altered[N]
      BY <3>1, <3>2, <3>3
    <3> QED
      BY <3>4 DEF k
  <2>4. notes[N - from] = note
    BY <1>1, <1>7, <2>3
  <2>5. Invented \in Stated(notes)
    <3>1. notes[N - from].qty \in {notes[i].qty : i \in DOMAIN notes}
      BY <2>3
    <3> QED
      BY <1>5, <2>4, <3>1 DEF Stated
  <2> QED
    BY <2>5 DEF notes
<1> QED
    BY <1>1, <1>7, <1>8, <1>9, <1>10

-----------------------------------------------------------------------------
(* A replay fault, from the node whose result it replaces to its check.     *)

\* The history a run has read is no longer than the file's.
HistoryOf(platform, file, data) ==
    \E rows \in Seq(VersionNote), whole \in BOOLEAN :
        data = [rows |-> rows, whole |-> whole] /\ Len(rows) <= Len(Seen(platform, file).versions)

HistoryRead ==
    replay = "none" /\ Resolved(results, "revisions") => HistoryOf(world, route.aim, results["revisions"].data)

GateIsWrong ==
    /\ Resolved(results, "release_gate") /\ results["release_gate"].data = {}
    /\ Ready(after.gate) = FALSE /\ Unread # FALSE

ScheduleIsLost ==
    /\ "milestones" \in DOMAIN results /\ results["milestones"].verdict = "failed"
    /\ after.milestones # Unread

NoteIsWrong ==
    /\ "revisions" \in DOMAIN results /\ after.versions \in Seq(VersionNote)
    /\ Invented \in Stated(RevisionDelta(results, task.ask).notes)

\* The finding of a replay, and its answer.
Replayed ==
    /\ record.finding = Review(results, task.ask) /\ record.answer = Template(record.finding)

FaultInv ==
    /\ HistoryRead
    /\ replay = "gate_reports_ready" => GateIsWrong
    /\ replay = "milestones_unreadable" => ScheduleIsLost
    /\ replay = "latest_note_altered" /\ NewestIsCompared => NoteIsWrong
    /\ replay # "none" /\ phase = "graded" => Replayed

LEMMA IsHistory ==
    ASSUME NEW platform, NEW file, NEW rows \in Seq(VersionNote), NEW whole \in BOOLEAN,
           Len(rows) <= Len(Seen(platform, file).versions)
    PROVE  HistoryOf(platform, file, [rows |-> rows, whole |-> whole])
BY DEF HistoryOf

LEMMA DeltaCases ==
    ASSUME NEW res, NEW ask, Resolved(res, "revisions"), NEW rows, res["revisions"].data.rows = rows
    PROVE  LET delta == RevisionDelta(res, ask)
           IN /\ ask.latest /\ rows # <<>> => delta.notes = LastOf(rows)
              /\ ~ask.latest /\ {} \in {Labelled(rows, ask.from), Labelled(rows, ask.to)} =>
                    delta.from = None /\ delta.to = None
<1> DEFINE pair == IF ask.latest THEN [from |-> Len(rows) - 1, to |-> Len(rows), notes |-> LastOf(rows)]
                   ELSE Between(rows, VersionOf(rows, ask.from), VersionOf(rows, ask.to))
           outcome == IF Incomplete(res, "revisions") THEN "partial" ELSE "answered"
<1>1. SectionState(res, "revisions") = "answered"
    BY DEF SectionState, Resolved
<1>2. RevisionDelta(res, ask) =
        IF rows = <<>> \/ (~ask.latest /\ {} \in {Labelled(rows, ask.from), Labelled(rows, ask.to)})
        THEN [NoDelta("declined") EXCEPT !.geometry = FALSE]
        ELSE [outcome |-> outcome, geometry |-> FALSE, known |-> Stated(rows),
              from |-> pair.from, to |-> pair.to, notes |-> pair.notes]
    BY <1>1 DEF RevisionDelta
<1>3. ask.latest => pair.notes = LastOf(rows)
    OBVIOUS
<1> HIDE DEF pair, outcome
<1> QED
    BY <1>2, <1>3 DEF NoDelta

LEMMA LabelledDelta ==
    ASSUME NEW res, NEW ask, Resolved(res, "revisions"), NEW rows, res["revisions"].data.rows = rows,
           ~ask.latest, Labelled(rows, ask.from) # {}, Labelled(rows, ask.to) # {},
           NEW from, from = VersionOf(rows, ask.from), NEW to, to = VersionOf(rows, ask.to)
    PROVE  /\ RevisionDelta(res, ask).from = from /\ RevisionDelta(res, ask).to = to
           /\ RevisionDelta(res, ask).notes = Between(rows, from, to).notes
<1> DEFINE outcome == IF Incomplete(res, "revisions") THEN "partial" ELSE "answered"
           notes == Between(rows, from, to).notes
<1>1. SectionState(res, "revisions") = "answered"
    BY DEF SectionState, Resolved
<1>2. rows # <<>>
    BY DEF Labelled
<1>3. RevisionDelta(res, ask) =
        [outcome |-> outcome, geometry |-> FALSE, known |-> Stated(rows),
         from |-> from, to |-> to, notes |-> notes]
    BY <1>1, <1>2 DEF RevisionDelta, Between
<1> HIDE DEF outcome, notes
<1>4. /\ RevisionDelta(res, ask).from = from /\ RevisionDelta(res, ask).to = to
      /\ RevisionDelta(res, ask).notes = notes
    BY <1>3
<1> QED
    BY <1>4 DEF notes

LEMMA SameDelta ==
    ASSUME NEW a, NEW b, Agree({"revisions"}, a, b), NEW ask
    PROVE  RevisionDelta(a, ask) = RevisionDelta(b, ask)
<1>1. /\ SectionState(a, "revisions") = SectionState(b, "revisions") /\ a["revisions"] = b["revisions"]
      /\ Incomplete(a, "revisions") = Incomplete(b, "revisions")
    BY DEF Agree, SectionState, Incomplete, Resolved
<1> QED
    BY <1>1 DEF RevisionDelta

LEMMA FaultInit == TrialInit => FaultInv
<1> SUFFICES ASSUME TrialInit PROVE FaultInv
    OBVIOUS
<1>1. results = <<>> /\ replay = "none"
    BY DEF TrialInit
<1> QED
    BY <1>1 DEF FaultInv, HistoryRead, Resolved

\* What a node's settling leaves of the results of others.
LEMMA ResultsStay ==
    ASSUME Settles
    PROVE  \A m \in DOMAIN results : m \in DOMAIN results' /\ results'[m] = results[m]
<1>1. PICK due \in Turns : ReadNode(due) \/ CutShort(due) \/ Flaky(due) \/ Compute(due) \/ Bypass(due)
    BY DEF Settles
<1>2. due.node \notin DOMAIN results /\ (results' = results \/ \E r : results' = With(results, due.node, r))
    BY <1>1, OneSettles, TurnFields
<1> QED
    BY <1>2 DEF With

\* The node "revisions" of every plan reads the file's versions.
LEMMA RevisionsAreRead ==
    ASSUME Candidates, PlanInv, NEW due \in Turns, due.node = "revisions",
           ReadNode(due) \/ CutShort(due) \/ Flaky(due) \/ Compute(due) \/ Bypass(due),
           results' # results
    PROVE  \E r : /\ results' = With(results, "revisions", r)
                  /\ r.verdict = "resolved" => HistoryOf(world, route.aim, r.data)
<1> DEFINE versions == Seen(world, route.aim).versions
<1>0. versions \in Seq(VersionNote) /\ Len(versions) \in Nat
    BY SeenTypes DEF Candidates
<1> HIDE DEF versions
<1>1. phase = "run" /\ OrderedPlan(PlanOf(route))
    BY RunsAPlan DEF Turns
<1>2. due.action = "list_revisions"
  <2>1. "revisions" \in DOMAIN Now /\ Now["revisions"].after \subseteq DOMAIN results /\ due.action = Now["revisions"].action
    BY TurnFields
  <2>2. Agree(Now["revisions"].after, results, results)
    BY <2>1 DEF Agree
  <2> QED
    BY <1>1, <2>1, <2>2, SameNode DEF Now
<1>3. due.action \in DOMAIN ToolOf /\ due.action # "load_design_file"
    BY <1>2 DEF ToolOf
<1>4. CASE ReadNode(due)
  <2>1. DataFor(due.action) = [rows |-> versions, whole |-> TRUE]
    BY <1>2 DEF DataFor, versions
  <2> DEFINE r == Result("resolved", [rows |-> versions, whole |-> TRUE])
  <2>2. results' = With(results, "revisions", r)
    BY <1>3, <1>4, <2>1 DEF ReadNode, Settle
  <2>3. HistoryOf(world, route.aim, r.data)
    <3>1. Len(versions) <= Len(Seen(world, route.aim).versions)
      BY <1>0 DEF versions
    <3> QED
      BY <1>0, <3>1, IsHistory DEF Result
  <2> HIDE DEF r
  <2> QED
    BY <2>2, <2>3
<1>5. CASE CutShort(due)
  <2>1. PICK rows \in Cuts(due.action) : Settle(due, Result("resolved", [rows |-> rows, whole |-> FALSE]))
    BY <1>5 DEF CutShort
  <2>2. rows = Front(versions) /\ versions # <<>>
    BY <1>2, <2>1 DEF Cuts, versions
  <2>3. rows \in Seq(VersionNote) /\ Len(rows) <= Len(versions)
    <3>1. \A i \in 1 .. Len(versions) - 1 : versions[i] \in VersionNote
      BY <1>0
    <3>2. /\ SubSeq(versions, 1, Len(versions) - 1) \in Seq(VersionNote)
          /\ Len(SubSeq(versions, 1, Len(versions) - 1)) =
                IF 1 <= Len(versions) - 1 THEN Len(versions) - 1 - 1 + 1 ELSE 0
      BY <1>0, <3>1, SubSeqProperties
    <3> QED
      BY <1>0, <2>2, <3>2 DEF Front
  <2> DEFINE r == Result("resolved", [rows |-> rows, whole |-> FALSE])
  <2>4. results' = With(results, "revisions", r)
    BY <2>1 DEF Settle
  <2>5. HistoryOf(world, route.aim, r.data)
    BY <2>3, IsHistory DEF Result, versions
  <2> HIDE DEF r
  <2> QED
    BY <2>4, <2>5
<1>6. CASE Flaky(due)
    BY <1>6 DEF Flaky, Settle, Result
<1>7. CASE Compute(due)
    BY <1>3, <1>7 DEF Compute, Reads
<1>8. CASE Bypass(due)
    BY <1>8 DEF Bypass, Settle, Result
<1> QED
    BY <1>4, <1>5, <1>6, <1>7, <1>8

LEMMA HistorySettles ==
    ASSUME Candidates, PlanInv, HistoryRead, Settles
    PROVE  HistoryRead'
<1> SUFFICES ASSUME replay = "none", Resolved(results', "revisions")
             PROVE  HistoryOf(world, route.aim, results'["revisions"].data)
    BY SettleFrame DEF HistoryRead
<1>1. PICK due \in Turns : ReadNode(due) \/ CutShort(due) \/ Flaky(due) \/ Compute(due) \/ Bypass(due)
    BY DEF Settles
<1>2. CASE due.node = "revisions" /\ results' # results
  <2>1. PICK r : /\ results' = With(results, "revisions", r)
                 /\ r.verdict = "resolved" => HistoryOf(world, route.aim, r.data)
    BY <1>1, <1>2, RevisionsAreRead
  <2>2. results'["revisions"] = r
    BY <2>1 DEF With
  <2> QED
    BY <2>1, <2>2 DEF Resolved
<1>3. CASE due.node # "revisions" \/ results' = results
  <2>1. results' = results \/ \E r : results' = With(results, due.node, r)
    BY <1>1, OneSettles
  <2>2. "revisions" \in DOMAIN results /\ results'["revisions"] = results["revisions"]
    BY <1>3, <2>1 DEF With, Resolved
  <2> QED
    BY <2>2 DEF HistoryRead, Resolved
<1> QED
    BY <1>2, <1>3

LEMMA FaultSettles ==
    ASSUME Candidates, PlanInv, FaultInv, Settles
    PROVE  FaultInv'
<1>1. phase' = "run" /\ UNCHANGED <<task, world, route, after, replay>>
    BY SettleFrame
<1>2. \A m \in DOMAIN results : m \in DOMAIN results' /\ results'[m] = results[m]
    BY ResultsStay
<1>3. HistoryRead'
    BY HistorySettles DEF FaultInv
<1>4. GateIsWrong => GateIsWrong'
    BY <1>1, <1>2 DEF GateIsWrong, Resolved
<1>5. ScheduleIsLost => ScheduleIsLost'
    BY <1>1, <1>2 DEF ScheduleIsLost
<1>6. ASSUME NoteIsWrong PROVE NoteIsWrong'
  <2>1. Agree({"revisions"}, results, results')
    BY <1>2, <1>6 DEF Agree, NoteIsWrong
  <2>2. RevisionDelta(results', task.ask) = RevisionDelta(results, task.ask)
    BY <2>1, SameDelta
  <2> QED
    BY <1>1, <1>2, <1>6, <2>2 DEF NoteIsWrong
<1>7. NewestIsCompared' <=> NewestIsCompared
    BY <1>1 DEF NewestIsCompared
<1> QED
    BY <1>1, <1>3, <1>4, <1>5, <1>6, <1>7 DEF FaultInv

\* A fault replaces the result of a node that its target check is about.
LEMMA FaultFrame ==
    ASSUME NEW fault \in DOMAIN ReplayFaults, Fault(fault)
    PROVE  LET n == ReplayFaults[fault].node
           IN /\ ReplayFaults[fault].target \in ChecksOf(Bundle) /\ n \in DOMAIN results /\ replay' = fault
              /\ \E r \in Altered(fault, results[n]) : n \in DOMAIN results' /\ results'[n] = r
<1> DEFINE n == ReplayFaults[fault].node
<1>1. /\ ReplayFaults[fault].target \in ChecksOf(Bundle) /\ n \in DOMAIN results
      /\ \E r \in Altered(fault, results[n]) : Continue(fault, n, r)
    BY DEF Fault
<1>2. PICK r \in Altered(fault, results[n]) : Continue(fault, n, r)
    BY <1>1
<1> HIDE DEF n
<1>3. /\ replay' = fault
      /\ results' = With([m \in DOMAIN results \ Undone(Now, n) |-> results[m]], n, r)
    BY <1>2 DEF Continue
<1>4. n \in DOMAIN results' /\ results'[n] = r
    BY <1>3 DEF With
<1> QED
    BY <1>1, <1>2, <1>3, <1>4 DEF n

\* The gate that a passing run found blocked.
LEMMA GateFault ==
    ASSUME Reading, Replays, Fault("gate_reports_ready")
    PROVE  GateIsWrong'
<1>0. "gate_reports_ready" \in DOMAIN ReplayFaults /\ ReplayFaults["gate_reports_ready"].node = "release_gate"
      /\ ReplayFaults["gate_reports_ready"].target = "release_gate_matches_db"
    BY DEF ReplayFaults
<1>1. /\ "release_gate_matches_db" \in ChecksOf(Bundle) /\ "release_gate" \in DOMAIN results
      /\ \E r \in Altered("gate_reports_ready", results["release_gate"]) :
            "release_gate" \in DOMAIN results' /\ results'["release_gate"] = r
    BY <1>0, FaultFrame
<1>2. /\ results["release_gate"].verdict = "resolved" /\ results["release_gate"].data # {}
      /\ "release_gate" \in DOMAIN results' /\ results'["release_gate"] = Result("resolved", {})
    BY <1>1 DEF Altered
<1>3. record.finding.gate = Ready(results["release_gate"].data)
  <2>1. phase = "graded" /\ replay = "none"
    BY ReplayFrame
  <2>2. record.finding = Review(results, task.ask)
    BY <2>1 DEF Reading, ReadToTheEnd
  <2>3. Read(results).gate = results["release_gate"].data
    BY <1>1, <1>2 DEF Read, Resolved
  <2> QED
    BY <2>2, <2>3, GateOfReview
<1>4. Ready(after.gate) # Unread /\ record.finding.gate = Ready(after.gate)
    BY <1>1, ReplayFrame, PassedGate, BundleFields
<1>5. Ready(after.gate) = FALSE
    BY <1>2, <1>3, <1>4 DEF Ready
<1>6. UNCHANGED after
    BY ReplayFrame
<1>7. Resolved(results', "release_gate") /\ results'["release_gate"].data = {}
    BY <1>2 DEF Resolved, Result
<1> QED
    BY <1>4, <1>5, <1>6, <1>7 DEF GateIsWrong

LEMMA ScheduleFault ==
    ASSUME Replays, Fault("milestones_unreadable")
    PROVE  ScheduleIsLost'
<1>0. "milestones_unreadable" \in DOMAIN ReplayFaults /\ ReplayFaults["milestones_unreadable"].node = "milestones"
      /\ ReplayFaults["milestones_unreadable"].target = "schedule_matches_db"
    BY DEF ReplayFaults
<1>1. /\ "schedule_matches_db" \in ChecksOf(Bundle)
      /\ \E r \in Altered("milestones_unreadable", results["milestones"]) :
            "milestones" \in DOMAIN results' /\ results'["milestones"] = r
    BY <1>0, FaultFrame
<1>2. "milestones" \in DOMAIN results' /\ results'["milestones"].verdict = "failed"
    BY <1>1 DEF Altered, Result
<1>3. after.milestones # Unread
    BY <1>1, ReplayFrame, PassedSchedule, BundleFields
<1> QED
    BY <1>2, <1>3, ReplayFrame DEF ScheduleIsLost

\* The versions a passing run compared are the verifier's own, so the newest
\* note that it read is the file's newest.
LEMMA NoteFault ==
    ASSUME Candidates, Looks, Reading, HistoryRead, Replays, Fault("latest_note_altered"), NewestIsCompared
    PROVE  NoteIsWrong'
<1> DEFINE ask == task.ask
           pair == SelectVersions(after.versions, ask)
           delta == RevisionDelta(results, ask)
<1>0. "latest_note_altered" \in DOMAIN ReplayFaults /\ ReplayFaults["latest_note_altered"].node = "revisions"
      /\ ReplayFaults["latest_note_altered"].target = "revision_delta_matches_db"
    BY DEF ReplayFaults
<1>1. /\ "revision_delta_matches_db" \in ChecksOf(Bundle) /\ "revisions" \in DOMAIN results
      /\ \E r \in Altered("latest_note_altered", results["revisions"]) :
            "revisions" \in DOMAIN results' /\ results'["revisions"] = r
    BY <1>0, FaultFrame
<1>2. /\ phase = "graded" /\ replay = "none" /\ Grade(Bundle) = "pass" /\ UNCHANGED <<task, world, route, after>>
    BY ReplayFrame
<1>3. after = Seen(world, task.file) /\ after.versions \in Seq(VersionNote) /\ after.versions # Unread
      /\ route.aim = task.file /\ IsPlatform(world)
    BY <1>2, SeenTypes, UnreadLooksAssumption DEF Looks, Candidates, NewestIsCompared
<1>4. Resolved(results, "revisions")
    BY <1>1 DEF Altered, Resolved
<1>5. PICK rows, whole :
         /\ rows \in Seq(VersionNote) /\ whole \in BOOLEAN
         /\ results["revisions"].data = [rows |-> rows, whole |-> whole]
         /\ Len(rows) <= Len(after.versions)
    BY <1>2, <1>3, <1>4 DEF HistoryRead, HistoryOf
<1> DEFINE altered == AlteredNote(rows)
<1>6. /\ rows # <<>> /\ "revisions" \in DOMAIN results'
      /\ results'["revisions"] = Result("resolved", [rows |-> altered, whole |-> whole])
    BY <1>1, <1>5 DEF Altered
<1> HIDE DEF altered
<1>7. Resolved(results', "revisions") /\ results'["revisions"].data.rows = altered
    BY <1>6 DEF Resolved, Result
<1>8. pair.to = Len(after.versions) /\ pair.from < pair.to /\ pair # NoPair
    BY DEF NewestIsCompared, NoPair, None
<1>9. delta.from = pair.from /\ delta.to = pair.to
  <2>1. record.finding = Review(results, ask)
    BY <1>2 DEF Reading, ReadToTheEnd
  <2>2. record.finding.delta = delta
    BY <2>1, ReviewFields
  <2>3. /\ Bundle.record.finding.delta.from = SelectVersions(Bundle.after.versions, Bundle.task.ask).from
        /\ Bundle.record.finding.delta.to = SelectVersions(Bundle.after.versions, Bundle.task.ask).to
    BY <1>1, <1>2, <1>3, <1>8, PassedRevisions, BundleFields
  <2> QED
    BY <2>2, <2>3, BundleFields
<1> HIDE DEF pair
<1>10. Invented \in Stated(RevisionDelta(results', ask).notes)
  <2>0. results["revisions"].data.rows = rows
    BY <1>5
  <2>5. Len(rows) \in Nat /\ 0 < Len(rows)
    BY <1>5, <1>6
  <2>1. CASE ask.latest
    <3>1. Invented \in Stated(LastOf(altered)) /\ altered # <<>>
      BY <1>5, <1>6, <2>5, AlteredIsCompared DEF altered
    <3>2. RevisionDelta(results', ask).notes = LastOf(altered)
      BY <1>7, <2>1, <3>1, DeltaCases
    <3> QED
      BY <3>1, <3>2
  <2>2. CASE ~ask.latest
    <3> DEFINE from == VersionOf(rows, ask.from)
               to == VersionOf(rows, ask.to)
    <3>1. Labelled(rows, ask.from) # {} /\ Labelled(rows, ask.to) # {}
      <4> SUFFICES ASSUME ~(Labelled(rows, ask.from) # {} /\ Labelled(rows, ask.to) # {}) PROVE FALSE
        OBVIOUS
      <4>1. delta.from = None /\ delta.to = None
        BY <1>4, <2>0, <2>2, DeltaCases
      <4> HIDE DEF delta
      <4> QED
        BY <1>8, <1>9, <4>1 DEF None
    <3>2. from \in 1 .. Len(rows) /\ to \in 1 .. Len(rows) /\ Len(rows) \in Nat
      BY <1>5, <3>1, LabelsAreThere DEF VersionOf
    <3>3. delta.from = from /\ delta.to = to
      <4>1. from = VersionOf(rows, ask.from) /\ to = VersionOf(rows, ask.to)
        OBVIOUS
      <4> HIDE DEF from, to
      <4> QED
        BY <1>4, <2>0, <2>2, <3>1, <4>1, LabelledDelta
    <3> HIDE DEF from, to, delta
    <3>4. to = Len(rows) /\ from \in Nat /\ from < Len(rows)
      BY <1>3, <1>5, <1>8, <1>9, <3>2, <3>3
    <3>5. /\ altered # <<>> /\ \A rev : Labelled(altered, rev) = Labelled(rows, rev)
          /\ Invented \in Stated(SubSeq(altered, from + 1, Len(rows)))
      BY <1>5, <1>6, <3>4, AlteredIsCompared DEF altered
    <3>6. VersionOf(altered, ask.from) = from /\ VersionOf(altered, ask.to) = to
      BY <3>5 DEF VersionOf, from, to
    <3>7. RevisionDelta(results', ask).notes = Between(altered, from, to).notes
      <4>1. Labelled(altered, ask.from) # {} /\ Labelled(altered, ask.to) # {}
        BY <3>1, <3>5
      <4> QED
        BY <1>7, <2>2, <3>6, <4>1, LabelledDelta
    <3>8. Between(altered, from, to).notes = SubSeq(altered, from + 1, to)
      BY DEF Between
    <3> QED
      BY <3>4, <3>5, <3>7, <3>8
  <2> QED
    BY <2>1, <2>2
<1> QED
    BY <1>2, <1>3, <1>6, <1>10 DEF NoteIsWrong

LEMMA FaultStarts ==
    ASSUME Candidates, Looks, Reading, FaultInv, Replays
    PROVE  FaultInv'
<1>1. phase' = "run" /\ replay' # "none" /\ UNCHANGED <<task, route, after>>
    BY ReplayFrame, ReplayLabels
<1>2. HistoryRead'
    BY <1>1 DEF HistoryRead
<1>3. NewestIsCompared' <=> NewestIsCompared
    BY <1>1 DEF NewestIsCompared
<1>4. CASE Control
  <2>1. replay' = "control"
    BY <1>4 DEF Control, Continue
  <2> QED
    BY <1>1, <1>2, <2>1 DEF FaultInv
<1>5. ASSUME NEW fault \in DOMAIN ReplayFaults, Fault(fault) PROVE FaultInv'
  <2>1. replay' = fault
    BY <1>5, FaultFrame
  <2>2. fault \in {"gate_reports_ready", "milestones_unreadable", "latest_note_altered"}
    BY DEF ReplayFaults
  <2>3. fault = "gate_reports_ready" => GateIsWrong'
    BY <1>5, GateFault
  <2>4. fault = "milestones_unreadable" => ScheduleIsLost'
    BY <1>5, ScheduleFault
  <2>5. fault = "latest_note_altered" /\ NewestIsCompared => NoteIsWrong'
    BY <1>5, NoteFault DEF FaultInv
  <2> QED
    BY <1>1, <1>2, <1>3, <2>1, <2>2, <2>3, <2>4, <2>5 DEF FaultInv
<1> QED
    BY <1>4, <1>5 DEF Replays

LEMMA FaultEnds ==
    ASSUME FaultInv, Conclude
    PROVE  FaultInv'
<1>1. /\ UNCHANGED <<task, world, route, after, results, replay>>
      /\ phase' = IF replay = "none" THEN "after" ELSE "graded"
    BY DEF Conclude
<1>2. HistoryRead' /\ (GateIsWrong => GateIsWrong') /\ (ScheduleIsLost => ScheduleIsLost')
      /\ (NoteIsWrong => NoteIsWrong') /\ (NewestIsCompared' <=> NewestIsCompared)
    BY <1>1 DEF FaultInv, HistoryRead, GateIsWrong, ScheduleIsLost, NoteIsWrong, NewestIsCompared
<1>3. replay # "none" => Replayed'
  <2> DEFINE finding == Review(results, task.ask)
  <2>1. (Review(results, task.ask))' = finding
    BY <1>1 DEF Review
  <2> HIDE DEF finding
  <2>2. replay # "none" => record'.finding = finding /\ record'.answer = Template(finding)
    BY DEF Conclude, finding
  <2> QED
    BY <2>1, <2>2 DEF Replayed
<1> QED
    BY <1>1, <1>2, <1>3 DEF FaultInv

LEMMA FaultStep == Candidates /\ PlanInv /\ Looks /\ Reading /\ SameInv /\ FaultInv /\ [TrialNext]_trialVars => FaultInv'
<1> SUFFICES ASSUME Candidates, PlanInv, Looks, Reading, SameInv, FaultInv, [TrialNext]_trialVars PROVE FaultInv'
    OBVIOUS
<1>1. CASE RouteSteps \/ ObserveBefore
  <2>1. phase \in Searching /\ UNCHANGED <<results, replay>> /\ replay = "none" /\ results = <<>>
    BY <1>1, RouteFrame DEF ObserveBefore, Searching, SameInv, Reading
  <2>2. HistoryRead'
    BY <2>1 DEF HistoryRead, Resolved
  <2> QED
    BY <2>1, <2>2 DEF FaultInv
<1>2. CASE ObserveAfter
  <2>1. phase = "after" /\ UNCHANGED <<world, route, results, replay>>
    BY <1>2 DEF ObserveAfter
  <2>2. replay = "none"
    BY <2>1 DEF SameInv
  <2>3. HistoryRead'
    BY <2>1 DEF FaultInv, HistoryRead
  <2> QED
    BY <2>1, <2>2, <2>3 DEF FaultInv
<1>3. CASE Move
  <2>1. /\ UNCHANGED <<task, phase, route, after, results, record, replay>>
        /\ IsPlatform(world') /\ DOMAIN world'.files = DOMAIN world.files
        /\ \A f \in DOMAIN world.files : Len(world'.files[f].versions) >= Len(world.files[f].versions)
    BY <1>3, MoveFrame DEF Candidates
  <2>2. Len(Seen(world', route.aim).versions) >= Len(Seen(world, route.aim).versions)
    BY <2>1 DEF Seen
  <2>3. HistoryRead'
    <3> SUFFICES ASSUME replay = "none", Resolved(results, "revisions")
                 PROVE  HistoryOf(world', route.aim, results["revisions"].data)
      BY <2>1 DEF HistoryRead
    <3>1. PICK rows \in Seq(VersionNote), whole \in BOOLEAN :
             /\ results["revisions"].data = [rows |-> rows, whole |-> whole]
             /\ Len(rows) <= Len(Seen(world, route.aim).versions)
      BY DEF FaultInv, HistoryRead, HistoryOf
    <3>2. Seen(world, route.aim).versions \in Seq(VersionNote)
      BY SeenTypes DEF Candidates
    <3>3. Seen(world', route.aim).versions \in Seq(VersionNote)
      BY <2>1 DEF Seen, IsPlatform, FileRecord
    <3>4. Len(rows) <= Len(Seen(world', route.aim).versions)
      BY <2>2, <3>1, <3>2, <3>3
    <3> QED
      BY <3>1, <3>4, IsHistory
  <2> QED
    BY <2>1, <2>3 DEF FaultInv, GateIsWrong, ScheduleIsLost, NoteIsWrong, NewestIsCompared, Replayed
<1>4. CASE UNCHANGED trialVars \/ Done
  <2>1. UNCHANGED <<task, world, phase, route, after, results, record, replay>>
    BY <1>4 DEF Done, trialVars
  <2> QED
    BY <2>1 DEF FaultInv, HistoryRead, GateIsWrong, ScheduleIsLost, NoteIsWrong, NewestIsCompared, Replayed
<1> QED
    BY <1>1, <1>2, <1>3, <1>4, FaultSettles, FaultStarts, FaultEnds, StepCases

\* What the checks find of it.
LEMMA FaultsFail ==
    ASSUME Looks, FaultInv, NEW fault \in DOMAIN ReplayFaults, Graded(fault),
           fault = "latest_note_altered" => NewestIsCompared, phase # "before"
    PROVE  "fail" \in StatusesOf(Bundle, ReplayFaults[fault].target)
<1>0. /\ ReplayFaults["gate_reports_ready"].target = "release_gate_matches_db"
      /\ ReplayFaults["latest_note_altered"].target = "revision_delta_matches_db"
      /\ ReplayFaults["milestones_unreadable"].target = "schedule_matches_db"
      /\ fault \in {"gate_reports_ready", "milestones_unreadable", "latest_note_altered"}
    BY DEF ReplayFaults
<1>1. replay = fault /\ record.finding = Review(results, task.ask) /\ record.answer = Template(record.finding)
  <2>1. replay = fault /\ phase = "graded" /\ replay # "none"
    BY <1>0 DEF Graded
  <2> QED
    BY <2>1 DEF FaultInv, Replayed
<1>2. CASE fault = "gate_reports_ready"
  <2>1. GateIsWrong
    BY <1>1, <1>2 DEF FaultInv
  <2>2. Read(results).gate = {}
    BY <2>1 DEF GateIsWrong, Read
  <2>3. record.answer.verdict \in {Ready({}), Unread}
    BY <1>1, <2>2, GateOfReview
  <2>4. record.answer.verdict # FALSE
    BY <2>1, <2>3 DEF Ready, GateIsWrong
  <2>5. /\ Ready(Bundle.after.gate) # Unread
        /\ Bundle.record.answer.verdict # Ready(Bundle.after.gate)
    BY <2>1, <2>4, BundleFields DEF GateIsWrong
  <2> QED
    BY <1>0, <1>2, <2>5, GateIsCaught
<1>3. CASE fault = "milestones_unreadable"
  <2>1. ScheduleIsLost
    BY <1>1, <1>3 DEF FaultInv
  <2>2. record.finding.schedule.outcome = "error"
    BY <1>1, <2>1, ReviewFields, UnreadSchedule DEF ScheduleIsLost
  <2>3. Bundle.after.milestones # Unread /\ Bundle.record.finding.schedule.outcome # "answered"
    BY <2>1, <2>2, BundleFields DEF ScheduleIsLost
  <2> QED
    BY <1>0, <1>3, <2>3, ScheduleIsCaught
<1>4. CASE fault = "latest_note_altered"
  <2> DEFINE notes == record.finding.delta.notes
             Compared(versions) == SelectVersions(versions, task.ask).notes
  <2>1. NoteIsWrong
    BY <1>1, <1>4 DEF FaultInv
  <2>2. Invented \in Stated(notes)
    BY <1>1, <2>1, ReviewFields DEF NoteIsWrong
  <2>3. /\ after.versions \in Seq(VersionNote) /\ before.versions \in Seq(VersionNote)
        /\ after.versions # Unread
    BY <2>1, UnreadLooksAssumption DEF NoteIsWrong, Looks
  <2>4. Invented \notin Stated(Compared(after.versions)) /\ Invented \notin Stated(Compared(before.versions))
    BY <2>3, ComparedIsStated, InventedAssumption
  <2> HIDE DEF notes, Compared
  <2>5. notes # Compared(after.versions) /\ notes # Compared(before.versions)
    BY <2>2, <2>4
  <2>6. SelectVersions(after.versions, task.ask) # NoPair
    BY <1>4 DEF NewestIsCompared, NoPair, None
  <2> QED
    BY <1>0, <1>4, <2>3, <2>5, <2>6, BundleFields, RevisionsAreCaught DEF notes, Compared
<1> QED
    BY <1>0, <1>2, <1>3, <1>4

\* calibrate_replays can be relied on: the control replay of a run that nothing
\* disturbed ends with the finding of that run, whatever the order in which
\* either settles its nodes; and every replay fault fails the check that
\* replay_faults.py gives as its target, whatever is edited or fails meanwhile
\* (latest_note_altered: if the newest note is among those compared).
THEOREM ReplaysAreJudged == TrialSpec => []ReplaysAreJudgedRight
<1> DEFINE Inv == Candidates /\ PlanInv /\ Looks /\ Reading /\ SameInv /\ FaultInv
<1>1. TrialInit => Inv
    BY CandidatesInit, PlanInit, ReadingInit, SameInit, FaultInit
<1>2. Inv /\ [TrialNext]_trialVars => Inv'
    BY CandidatesStep, PlanStep, LooksStep, ReadingStep, SameStep, FaultStep
<1>3. Inv => ReplaysAreJudgedRight
  <2> SUFFICES ASSUME Inv PROVE ReplaysAreJudgedRight
    OBVIOUS
  <2>1. ControlFindsTheSame
    BY DEF SameInv, ControlFindsTheSame, Graded
  <2>2. ReplayFaultsAreCaught
    BY FaultsFail DEF ReplayFaultsAreCaught, Graded
  <2> QED
    BY <2>1, <2>2 DEF ReplaysAreJudgedRight
<1> HIDE DEF Inv
<1> QED
    BY <1>1, <1>2, <1>3, PTL DEF TrialSpec

===============================================================================
