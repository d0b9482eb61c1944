----------------------------- MODULE RunService -----------------------------
(***************************************************************************)
(* The agent as a service (agentkit/service: core.py, http.py, hooks.py,    *)
(* mcp.py): handler threads take requests concurrently, each request that   *)
(* is let in holds one of MaxInFlight slots while its run works.  A plain   *)
(* question and an MCP tool call run in the handler's thread; a stream and  *)
(* a webhook pass their slot to a background thread.  Whichever way a       *)
(* question comes, it takes the same steps: the ways differ in what the     *)
(* caller is sent, which is left out but for refusals.  What a stream's     *)
(* caller reads, or misses after it left, is in a queue of its own.         *)
(*                                                                          *)
(* A replay service freezes the process-wide clock (agentkit/clock.py) to   *)
(* the capture time of the run's fixture for as long as the run works.      *)
(***************************************************************************)
EXTENDS HookGate, Sequences

CONSTANTS
    Requests,     \* requests, each handled by a thread of its own
    Hooks,        \* those that are webhooks; the others are questions
    Carries,      \* the delivery a hook request carries
    WellFormed,   \* deliveries that fill the hook's question and name a tenant
    MaxInFlight,  \* max_in_flight
    Instant,      \* the capture time of the fixture of the request's tenant
    MaxTime       \* bound of the clock of the gate

ASSUME ServiceAssumption ==
    /\ Hooks \subseteq Requests
    /\ Carries \in [Hooks -> Deliveries]
    /\ WellFormed \subseteq Deliveries
    /\ MaxInFlight \in Nat \ {0}
    /\ DOMAIN Instant = Requests
    /\ MaxTime \in Nat

VARIABLES
    now,        \* time.time()
    pc,         \* where the request is
    reply,      \* the error its caller got, "none" for no error
    looked,     \* the time _first_delivery read for a hook request, 0 when dead
    seen,       \* the memory of the gate
    count,      \* entries ever added to it
    free,       \* value of the semaphore _slots
    inFlight,   \* in_flight, which /healthz reports
    frozen,     \* the stack of the process-wide clock
    through,    \* history: hook requests the memory let through
    late,       \* history: those of them whose stamp had gone stale by then
    pushed      \* history: deliveries pushed out of the memory

gate == <<looked, seen, count, through, late, pushed>>
slots == <<free, inFlight>>
vars == <<now, pc, reply, gate, slots, frozen>>

Held == {"acquired", "counted", "inside", "leaving", "uncounted"}
Inside == {r \in Requests : pc[r] = "inside"}

Init ==
    /\ now = 0 /\ pc = [r \in Requests |-> "new"] /\ reply = [r \in Requests |-> "none"]
    /\ looked = [r \in Hooks |-> 0] /\ seen = {} /\ count = 0 /\ through = {} /\ late = {} /\ pushed = {}
    /\ free = MaxInFlight /\ inFlight = 0
    /\ frozen = <<>>

Moves(r, from, to) == pc[r] = from /\ pc' = [pc EXCEPT ![r] = to]
Replies(r, what) == reply' = [reply EXCEPT ![r] = what]

(* The request ends here with an error response and no slot. *)
Answer(r, from, what) == Moves(r, from, "ended") /\ Replies(r, what)

(* The clock matters as long as a hook request is on its way to the memory. *)
Tick ==
    /\ now < MaxTime /\ now' = now + 1
    /\ \E r \in Hooks : pc[r] \in {"new", "verified", "looked"}
    /\ UNCHANGED <<pc, reply, gate, slots, frozen>>

----------------------------------------------------------------------------
(* What comes before the slot *)

(* _precheck, _question, check: route, token, size, question and tenant. *)
Check(r) ==
    /\ r \notin Hooks
    /\ \/ Moves(r, "new", "checked") /\ UNCHANGED reply
       \/ Answer(r, "new", "refused")
    /\ UNCHANGED <<now, gate, slots, frozen>>

(* A JSON-RPC message for the tools.  Only tools/call asks a question.      *)
Message == [form : {"unparsable", "invalid", "notification", "request"},
            method : {"initialize", "ping", "tools/list", "tools/call", "other"},
            wellFormed : BOOLEAN,  \* params is an object
            tool : BOOLEAN,        \* the name is that of a playbook or "ask"
            arguments : BOOLEAN]   \* a question, perhaps a tenant, nothing else

(* handle_bytes, handle, call_tool: an error, an answer without a question  *)
(* (none for a notification, whatever it says), or a question.              *)
Response(m) ==
    IF m.form \in {"unparsable", "invalid"} THEN "refused"
    ELSE IF m.form = "notification" THEN "answered"
    ELSE IF ~m.wellFormed \/ m.method = "other" THEN "refused"
    ELSE IF m.method # "tools/call" THEN "answered"
    ELSE IF m.tool /\ m.arguments THEN "asked" ELSE "refused"

Responses == {Response(m) : m \in Message}

CheckMessage(r) ==
    /\ r \notin Hooks
    /\ \E response \in Responses :
         \/ response = "asked" /\ Moves(r, "new", "checked") /\ UNCHANGED reply
         \/ response = "answered" /\ Moves(r, "new", "ended") /\ UNCHANGED reply
         \/ response = "refused" /\ Answer(r, "new", "refused")
    /\ UNCHANGED <<now, gate, slots, frozen>>

(* HookGate.question up to the signature: the first look at the clock. *)
Verify(r) ==
    /\ r \in Hooks
    /\ \/ Fresh(Carries[r], now) /\ Moves(r, "new", "verified") /\ UNCHANGED reply
       \/ ~Fresh(Carries[r], now) /\ Answer(r, "new", "refused")
    /\ UNCHANGED <<now, gate, slots, frozen>>

(* _first_delivery looks again, before it takes the lock. *)
Look(r) ==
    /\ Moves(r, "verified", "looked")
    /\ looked' = [looked EXCEPT ![r] = now]
    /\ UNCHANGED <<now, reply, seen, count, through, late, pushed, slots, frozen>>

Duplicate(r) ==
    /\ pc[r] = "looked"
    /\ Remembers(Unexpired(seen, looked[r]), Carries[r])
    /\ seen' = Unexpired(seen, looked[r])
    /\ Answer(r, "looked", "duplicate")
    /\ looked' = [looked EXCEPT ![r] = 0]
    /\ UNCHANGED <<now, count, through, late, pushed, slots, frozen>>

Added(r) == Unexpired(seen, looked[r])
              \cup {[sig |-> Carries[r], at |-> looked[r], no |-> count]}

FirstDelivery(r) ==
    /\ pc[r] = "looked"
    /\ ~Remembers(Unexpired(seen, looked[r]), Carries[r])
    /\ seen' = Added(r) \ Overflow(Added(r))
    /\ count' = count + 1
    /\ through' = through \cup {r}
    /\ late' = late \cup {q \in {r} : ~Fresh(Carries[q], now)}
    /\ pushed' = pushed \cup {e.sig : e \in Overflow(Added(r))}
    /\ Moves(r, "looked", "kept")
    /\ looked' = [looked EXCEPT ![r] = 0]
    /\ UNCHANGED <<now, reply, slots, frozen>>

(* The body is read and the question checked after the delivery is kept. *)
FillQuestion(r) ==
    /\ r \in Hooks
    /\ \/ Carries[r] \in WellFormed /\ Moves(r, "kept", "checked") /\ UNCHANGED reply
       \/ Carries[r] \notin WellFormed /\ Answer(r, "kept", "refused")
    /\ UNCHANGED <<now, gate, slots, frozen>>

----------------------------------------------------------------------------
(* slot *)

Acquire(r) ==
    /\ free > 0 /\ free' = free - 1
    /\ Moves(r, "checked", "acquired")
    /\ UNCHANGED <<now, reply, gate, inFlight, frozen>>

Busy(r) ==
    /\ free = 0
    /\ Answer(r, "checked", "busy")
    /\ UNCHANGED <<now, gate, slots, frozen>>

Count(r) ==
    /\ Moves(r, "acquired", "counted")
    /\ inFlight' = inFlight + 1
    /\ UNCHANGED <<now, reply, gate, free, frozen>>

\* Mutant: the run's thread gives the slot back, and so does the handler.
UncountAndRelease(r) ==
    /\ Moves(r, "leaving", "uncounted")
    /\ inFlight' = inFlight - 1 /\ free' = free + 1
    /\ UNCHANGED <<now, reply, gate, frozen>>

Uncount(r) ==
    /\ Moves(r, "leaving", "uncounted")
    /\ inFlight' = inFlight - 1
    /\ UNCHANGED <<now, reply, gate, free, frozen>>

Release(r) ==
    /\ free' = free + 1
    /\ Moves(r, "uncounted", "ended")
    /\ UNCHANGED <<now, reply, gate, inFlight, frozen>>

----------------------------------------------------------------------------
(* The run *)

(* run: the clock is frozen to the fixture's capture time. *)
Enter(r) ==
    /\ Moves(r, "counted", "inside")
    /\ frozen' = Append(frozen, Instant[r])
    /\ UNCHANGED <<now, reply, gate, slots>>

\* Mutant: the request ends as it would have done before it had a slot.
EndsWithItsSlot(r) ==
    /\ Answer(r, "counted", "failed")
    /\ UNCHANGED <<now, gate, slots, frozen>>

(* There is nothing to run: no fixture for the tenant; or the caller of a   *)
(* stream has gone before its response line is sent, so that the generator  *)
(* of the events never starts and the slot is given back when it is freed.  *)
NeverEnters(r) ==
    /\ Moves(r, "counted", "leaving")
    /\ UNCHANGED <<now, reply, gate, slots, frozen>>

\* Mutant: the run takes the top of the stack away.
Top(s, x) == Len(s)

First(s, x) == CHOOSE k \in DOMAIN s : s[k] = x /\ \A j \in 1 .. k - 1 : s[j] # x
Without(s, k) == [j \in 1 .. Len(s) - 1 |-> IF j < k THEN s[j] ELSE s[j + 1]]

(* The run ends or raises; list.remove takes the first equal instant. *)
Thaw(r) ==
    /\ Moves(r, "inside", "leaving")
    /\ frozen' = Without(frozen, First(frozen, Instant[r]))
    /\ UNCHANGED <<now, reply, gate, slots>>

----------------------------------------------------------------------------
Handle(r) ==
    \/ Check(r) \/ CheckMessage(r) \/ Verify(r) \/ Look(r) \/ Duplicate(r) \/ FirstDelivery(r) \/ FillQuestion(r)
    \/ Acquire(r) \/ Busy(r) \/ Count(r) \/ Uncount(r) \/ Release(r)
    \/ Enter(r) \/ NeverEnters(r) \/ Thaw(r)

Next ==
    \/ Tick
    \/ \E r \in Requests : Handle(r)

Spec == Init /\ [][Next]_vars

(* Threads run, and a run ends: its tool calls have timeouts. *)
Fairness == \A r \in Requests : WF_vars(Handle(r))
FairSpec == Spec /\ Fairness

----------------------------------------------------------------------------
(* Properties *)

(* What /healthz reports and what works at the same time never exceeds the  *)
(* limit: in_flight is raised after a slot is taken and lowered before it   *)
(* is given back, by threads in any order, and no slot is given back twice, *)
(* which would let more requests in than allowed.                           *)
NeverOverLimit ==
    /\ free \in 0 .. MaxInFlight /\ inFlight \in 0 .. MaxInFlight - free
    /\ Cardinality({r \in Requests : pc[r] \in Held}) = MaxInFlight - free

(* Every slot comes back for good, on every way out: refused, busy, failed, *)
(* a caller that hung up, a stream whose generator never started.           *)
SlotsComeBack == <>[](free = MaxInFlight /\ inFlight = 0)

(* Of all the requests that carry one delivery at most one is let through,  *)
(* unless it was pushed out of a full memory, or its stamp went stale       *)
(* between the two looks at the clock or before the lock was taken; and one *)
(* is answered 409 only when another was let through.                       *)
OneRunPerDelivery ==
    /\ \A q, r \in through : (q # r /\ Carries[q] = Carries[r]) =>
          Carries[q] \in pushed \/ q \in late \/ r \in late
    /\ \A r \in Hooks : reply[r] = "duplicate" =>
          \E q \in through : q # r /\ Carries[q] = Carries[r]

(* The clock is frozen by exactly the runs that are inside, whatever the    *)
(* order in which they come and go: no run leaves its time behind.          *)
FrozenByRunsInside ==
    \A r \in Requests :
        Cardinality({k \in DOMAIN frozen : frozen[k] = Instant[r]})
          = Cardinality({q \in Inside : Instant[q] = Instant[r]})
=============================================================================
