----------------------------- MODULE ServiceProofs -----------------------------
(***************************************************************************)
(* Theorems about RunService, for any set of requests, finite or not, any  *)
(* limit, any deliveries, and any capacity and skew of the webhook gate.   *)
(*                                                                         *)
(* Three inductive invariants, one per shared resource: the slots, the     *)
(* memory of the gate and the frozen clock.                                *)
(***************************************************************************)
EXTENDS RunService, FiniteSetTheorems, WellFoundedInduction, TLAPS

PC == {"new", "checked", "verified", "looked", "kept", "ended"} \cup Held

Errors == {"none", "refused", "duplicate", "busy", "failed"}

\* The requests that hold a slot, and those that in_flight counts.
Holding == {r \in Requests : pc[r] \in Held}
Counting == {"counted", "inside", "leaving"}
Counted == {r \in Requests : pc[r] \in Counting}

Threads ==
  /\ pc \in [Requests -> PC]
  /\ reply \in [Requests -> Errors]

SlotsInv ==
  /\ Threads
  /\ free \in 0 .. MaxInFlight /\ inFlight \in Nat
  /\ IsFiniteSet(Holding) /\ Cardinality(Holding) = MaxInFlight - free
  /\ IsFiniteSet(Counted) /\ Cardinality(Counted) = inFlight

-------------------------------------------------------------------------------
(* The slots                                                               *)

\* A request moves on: only its own place changes.
LEMMA Moved ==
  ASSUME Threads, NEW r \in Requests, NEW a \in PC, NEW b \in PC, Moves(r, a, b)
  PROVE  /\ pc[r] = a /\ pc'[r] = b /\ pc' \in [Requests -> PC]
         /\ \A q \in Requests \ {r} : pc'[q] = pc[q]
BY DEF Moves, Threads

\* A step that moves no request across the borders of a set of places leaves
\* the requests in it the same; one that does adds or removes one request.
LEMMA SamePlaces ==
  ASSUME Threads, NEW r \in Requests, NEW a \in PC, NEW b \in PC, Moves(r, a, b),
         NEW S
  PROVE  LET P == {q \in Requests : pc[q] \in S}
             Q == {q \in Requests : pc'[q] \in S}
         IN /\ (a \in S <=> b \in S) => Q = P
            /\ a \notin S /\ b \in S => r \notin P /\ Q = P \cup {r}
            /\ a \in S /\ b \notin S => r \in P /\ Q = P \ {r}
BY Moved

\* So of the requests that hold a slot ...
LEMMA HoldingMoves ==
  ASSUME Threads, NEW r \in Requests, NEW a \in PC, NEW b \in PC, Moves(r, a, b)
  PROVE  /\ (a \in Held <=> b \in Held) => Holding' = Holding
         /\ a \notin Held /\ b \in Held => r \notin Holding /\ Holding' = Holding \cup {r}
         /\ a \in Held /\ b \notin Held => r \in Holding /\ Holding' = Holding \ {r}
BY SamePlaces DEF Holding

\* ... and of those that in_flight counts.
LEMMA CountedMoves ==
  ASSUME Threads, NEW r \in Requests, NEW a \in PC, NEW b \in PC, Moves(r, a, b)
  PROVE  /\ (a \in Counting <=> b \in Counting) => Counted' = Counted
         /\ a \notin Counting /\ b \in Counting => r \notin Counted /\ Counted' = Counted \cup {r}
         /\ a \in Counting /\ b \notin Counting => r \in Counted /\ Counted' = Counted \ {r}
BY SamePlaces DEF Counted

\* Adding one element, or taking one away, counts one more, or one less.
LEMMA CountOne ==
  ASSUME NEW P, NEW r, IsFiniteSet(P)
  PROVE  /\ Cardinality(P) \in Nat
         /\ r \notin P => IsFiniteSet(P \cup {r}) /\ Cardinality(P \cup {r}) = Cardinality(P) + 1
         /\ r \in P => IsFiniteSet(P \ {r}) /\ Cardinality(P \ {r}) = Cardinality(P) - 1
BY FS_CardinalityType, FS_AddElement, FS_RemoveElement

\* No slot moves: the request stays outside, or stays with its slot.
LEMMA NoSlotMoves ==
  ASSUME SlotsInv, NEW r \in Requests, NEW a \in PC, NEW b \in PC, Moves(r, a, b),
         a \in Held <=> b \in Held,
         a \in Counting <=> b \in Counting,
         reply' \in [Requests -> Errors], UNCHANGED slots
  PROVE  SlotsInv'
<1>1. Threads' /\ UNCHANGED <<free, inFlight>>
  BY Moved DEF SlotsInv, Threads, slots
<1>2. Holding' = Holding
  BY HoldingMoves DEF SlotsInv
<1>3. Counted' = Counted
  BY CountedMoves DEF SlotsInv
<1> QED
  BY <1>1, <1>2, <1>3 DEF SlotsInv

\* The four steps that move a slot or the count keep them exact.
LEMMA SlotMoves ==
  ASSUME SlotsInv, NEW r \in Requests, Acquire(r) \/ Count(r) \/ Uncount(r) \/ Release(r)
  PROVE  SlotsInv'
<1>0. /\ Threads /\ free \in 0 .. MaxInFlight /\ inFlight \in Nat /\ MaxInFlight \in Nat
      /\ IsFiniteSet(Holding) /\ Cardinality(Holding) = MaxInFlight - free
      /\ IsFiniteSet(Counted) /\ Cardinality(Counted) = inFlight
  BY ServiceAssumption DEF SlotsInv
<1>1. CASE Acquire(r)
  <2>1. Moves(r, "checked", "acquired") /\ free > 0 /\ free' = free - 1 /\ UNCHANGED <<reply, inFlight>>
    BY <1>1 DEF Acquire
  <2>2. r \notin Holding /\ Holding' = Holding \cup {r} /\ Threads'
    BY <1>0, <2>1, Moved, HoldingMoves DEF PC, Held, Threads
  <2>3. Counted' = Counted
    BY <1>0, <2>1, CountedMoves DEF PC, Held, Counting
  <2> QED
    BY <1>0, <2>1, <2>2, <2>3, CountOne DEF SlotsInv
<1>2. CASE Count(r)
  <2>1. Moves(r, "acquired", "counted") /\ inFlight' = inFlight + 1 /\ UNCHANGED <<reply, free>>
    BY <1>2 DEF Count
  <2>2. r \notin Counted /\ Counted' = Counted \cup {r} /\ Threads'
    BY <1>0, <2>1, Moved, CountedMoves DEF PC, Held, Counting, Threads
  <2>3. Holding' = Holding
    BY <1>0, <2>1, HoldingMoves DEF PC, Held
  <2> QED
    BY <1>0, <2>1, <2>2, <2>3, CountOne DEF SlotsInv
<1>3. CASE Uncount(r)
  <2>1. Moves(r, "leaving", "uncounted") /\ inFlight' = inFlight - 1 /\ UNCHANGED <<reply, free>>
    BY <1>3 DEF Uncount
  <2>2. r \in Counted /\ Counted' = Counted \ {r} /\ Threads'
    BY <1>0, <2>1, Moved, CountedMoves DEF PC, Held, Counting, Threads
  <2>3. Holding' = Holding
    BY <1>0, <2>1, HoldingMoves DEF PC, Held
  <2>4. IsFiniteSet(Counted') /\ Cardinality(Counted') \in Nat /\ Cardinality(Counted') = inFlight'
    BY <1>0, <2>1, <2>2, CountOne
  <2> QED
    BY <1>0, <2>1, <2>2, <2>3, <2>4 DEF SlotsInv
<1>4. CASE Release(r)
  <2>1. Moves(r, "uncounted", "ended") /\ free' = free + 1 /\ UNCHANGED <<reply, inFlight>>
    BY <1>4 DEF Release
  <2>2. r \in Holding /\ Holding' = Holding \ {r} /\ Threads'
    BY <1>0, <2>1, Moved, HoldingMoves DEF PC, Held, Threads
  <2>3. Counted' = Counted
    BY <1>0, <2>1, CountedMoves DEF PC, Held, Counting
  <2>4. IsFiniteSet(Holding') /\ Cardinality(Holding') = MaxInFlight - free'
        /\ Cardinality(Holding') \in Nat
    <3>1. IsFiniteSet(Holding')
      BY <1>0, <2>2, CountOne
    <3>2. Cardinality(Holding') \in Nat
      BY <3>1, FS_CardinalityType
    <3>3. Cardinality(Holding') = Cardinality(Holding) - 1
      BY <1>0, <2>2, CountOne
    <3> QED
      BY <1>0, <2>1, <3>1, <3>2, <3>3
  <2>5. free' \in 0 .. MaxInFlight
    BY <1>0, <2>1, <2>4
  <2> QED
    BY <1>0, <2>1, <2>2, <2>3, <2>4, <2>5 DEF SlotsInv
<1> QED
  BY <1>1, <1>2, <1>3, <1>4

\* Every step keeps the slots exact.
LEMMA SlotsStep == SlotsInv /\ [Next]_vars => SlotsInv'
<1> SUFFICES ASSUME SlotsInv, [Next]_vars
             PROVE  SlotsInv'
  OBVIOUS
<1>0. reply \in [Requests -> Errors] /\ Hooks \subseteq Requests
  BY ServiceAssumption DEF SlotsInv, Threads
<1>1. CASE Tick
  BY <1>1 DEF Tick, SlotsInv, Threads, Holding, Counted, slots
<1>2. ASSUME NEW r \in Requests, Check(r) \/ CheckMessage(r)
      PROVE  SlotsInv'
  <2>1. /\ Moves(r, "new", "checked") \/ Moves(r, "new", "ended")
        /\ reply' \in [Requests -> Errors] /\ UNCHANGED slots
    BY <1>0, <1>2 DEF Check, CheckMessage, Answer, Replies, Errors
  <2> QED
    BY <2>1, NoSlotMoves DEF PC, Held, Counting
<1>3. ASSUME NEW r \in Requests, Verify(r)
      PROVE  SlotsInv'
  <2>1. /\ Moves(r, "new", "verified") \/ Moves(r, "new", "ended")
        /\ reply' \in [Requests -> Errors] /\ UNCHANGED slots
    BY <1>0, <1>3 DEF Verify, Answer, Replies, Errors
  <2> QED
    BY <2>1, NoSlotMoves DEF PC, Held, Counting
<1>4. ASSUME NEW r \in Requests, Look(r) \/ Duplicate(r) \/ FirstDelivery(r) \/ FillQuestion(r) \/ Busy(r)
      PROVE  SlotsInv'
  <2>1. \E a \in {"verified", "looked", "kept", "checked"}, b \in {"looked", "ended", "kept", "checked"} :
             Moves(r, a, b)
    BY <1>4 DEF Look, Duplicate, FirstDelivery, FillQuestion, Busy, Answer
  <2>2. reply' \in [Requests -> Errors] /\ UNCHANGED slots
    BY <1>0, <1>4 DEF Look, Duplicate, FirstDelivery, FillQuestion, Busy, Answer, Replies, Errors
  <2> QED
    BY <2>1, <2>2, NoSlotMoves DEF PC, Held, Counting
<1>5. ASSUME NEW r \in Requests, Acquire(r) \/ Count(r) \/ Uncount(r) \/ Release(r)
      PROVE  SlotsInv'
  BY <1>5, SlotMoves
<1>6. ASSUME NEW r \in Requests, Enter(r) \/ NeverEnters(r) \/ Thaw(r)
      PROVE  SlotsInv'
  <2>1. \E a \in {"counted", "inside"}, b \in {"inside", "leaving"} : Moves(r, a, b)
    BY <1>6 DEF Enter, NeverEnters, Thaw
  <2>2. reply' \in [Requests -> Errors] /\ UNCHANGED slots
    BY <1>0, <1>6 DEF Enter, NeverEnters, Thaw
  <2> QED
    BY <2>1, <2>2, NoSlotMoves DEF PC, Held, Counting
<1>7. CASE UNCHANGED vars
  BY <1>7 DEF vars, slots, SlotsInv, Threads, Holding, Counted
<1> QED
  BY <1>1, <1>2, <1>3, <1>4, <1>5, <1>6, <1>7 DEF Next, Handle

\* All slots are free before the first request.
LEMMA SlotsInit == Init => SlotsInv
<1> SUFFICES ASSUME Init PROVE SlotsInv
  OBVIOUS
<1>1. Holding = {} /\ Counted = {}
  BY DEF Init, Holding, Counted, Held, Counting
<1> QED
  BY <1>1, FS_EmptySet, ServiceAssumption DEF Init, SlotsInv, Threads, PC, Errors

\* The slots stay exact throughout every behaviour.
THEOREM SlotsInvariance == Spec => []SlotsInv
BY SlotsInit, SlotsStep, PTL DEF Spec

\* However many requests come, in whatever order their threads run: never more
\* work at a time than the limit, /healthz never reports more, and the slots
\* that are out are exactly those of the requests that hold one.
THEOREM LimitHolds == Spec => []NeverOverLimit
<1>1. ASSUME SlotsInv
      PROVE  NeverOverLimit
  <2>1. Counted \subseteq Holding
    BY DEF Counted, Holding, Held, Counting
  <2>2. inFlight <= MaxInFlight - free
    BY <1>1, <2>1, FS_Subset DEF SlotsInv
  <2> QED
    BY <1>1, <2>2, ServiceAssumption DEF SlotsInv, NeverOverLimit, Holding
<1> QED
  BY <1>1, SlotsInvariance, PTL

-------------------------------------------------------------------------------
(* The memory of the webhook gate                                          *)

Before == {"new", "verified", "looked"}

\* What the gate remembers stands for a request that was let through, at a
\* time not before its stamp allows; of what was let through it forgets only
\* what was pushed out and what has become too old to be accepted again.
GateInv ==
  /\ now \in Nat /\ count \in Nat /\ seen \subseteq Entries
  /\ looked \in [Hooks -> Nat]
  /\ \A r \in Requests : pc[r] \in {"verified", "looked"} => r \in Hooks
  /\ through \subseteq Hooks /\ \A q \in through : pc[q] \notin Before
  /\ \A r \in Hooks : pc[r] = "verified" => now >= Stamp[Carries[r]] - Skew
  /\ \A r \in Hooks : pc[r] = "looked" =>
       looked[r] <= now /\ looked[r] >= Stamp[Carries[r]] - Skew
  /\ \A e \in seen : /\ e.at >= Stamp[e.sig] - Skew
                     /\ \E q \in through : Carries[q] = e.sig
  /\ \A q \in through : \/ Remembers(seen, Carries[q])
                        \/ Carries[q] \in pushed
                        \/ now > Stamp[Carries[q]] + Skew
  /\ OneRunPerDelivery

\* A step that does not come near the memory keeps this.
LEMMA GateRests ==
  ASSUME GateInv, UNCHANGED <<gate, now>>,
         \A r \in Requests : pc'[r] \in Before => pc'[r] = pc[r],
         \A r \in Hooks : reply'[r] = "duplicate" => reply[r] = "duplicate"
  PROVE  GateInv'
<1>1. UNCHANGED <<now, looked, seen, count, through, late, pushed>>
  BY DEF gate
<1>2. OneRunPerDelivery'
  BY <1>1 DEF GateInv, OneRunPerDelivery
<1>0. Hooks \subseteq Requests
  BY ServiceAssumption
<1>3. \A r \in Requests : pc'[r] \in {"verified", "looked"} => pc'[r] = pc[r]
  BY DEF Before
<1>4. \A q \in through' : pc'[q] \notin Before
  BY <1>0, <1>1 DEF GateInv
<1> QED
  BY <1>0, <1>1, <1>2, <1>3, <1>4 DEF GateInv, Remembers

\* Time passes: what may be forgotten may still be.
LEMMA GateTicks ==
  ASSUME GateInv, Tick
  PROVE  GateInv'
<1>1. now' = now + 1 /\ UNCHANGED <<pc, reply, looked, seen, count, through, late, pushed>>
  BY DEF Tick, gate
<1>2. OneRunPerDelivery'
  BY <1>1 DEF GateInv, OneRunPerDelivery
<1>3. \A r \in Hooks : Stamp[Carries[r]] \in Nat
  BY GateAssumption, ServiceAssumption
<1>4. Skew \in Nat
  BY GateAssumption
<1> QED
  BY <1>1, <1>2, <1>3, <1>4 DEF GateInv, Remembers, Before

\* The two looks at the clock.
LEMMA GateLooks ==
  ASSUME Threads, GateInv, NEW r \in Requests, Verify(r) \/ Look(r)
  PROVE  GateInv'
<1>0. /\ Hooks \subseteq Requests /\ Skew \in Nat /\ now \in Nat
      /\ \A q \in Hooks : Stamp[Carries[q]] \in Nat
  BY GateAssumption, ServiceAssumption DEF GateInv
<1>1. CASE Verify(r) /\ Fresh(Carries[r], now)
  <2>1. /\ r \in Hooks /\ Moves(r, "new", "verified") /\ UNCHANGED <<reply, now, gate>>
        /\ now >= Stamp[Carries[r]] - Skew
    BY <1>0, <1>1 DEF Verify, Fresh
  <2>2. /\ pc[r] = "new" /\ pc'[r] = "verified"
        /\ \A q \in Requests \ {r} : pc'[q] = pc[q]
    BY <2>1, Moved DEF PC
  <2>3. UNCHANGED <<reply, now, looked, seen, count, through, late, pushed>>
    BY <2>1 DEF gate
  <2>4. \A q \in through : pc'[q] \notin Before
    BY <1>0, <2>2 DEF GateInv, Before
  <2>5. OneRunPerDelivery'
    BY <2>3 DEF GateInv, OneRunPerDelivery
  <2>7. \A q \in Requests : pc'[q] \in {"verified", "looked"} => q \in Hooks
    BY <2>1, <2>2 DEF GateInv
  <2>6. \A q \in Hooks : /\ pc'[q] = "verified" => now >= Stamp[Carries[q]] - Skew
                         /\ pc'[q] = "looked" => pc[q] = "looked"
    BY <1>0, <2>1, <2>2 DEF GateInv
  <2> QED
    BY <2>3, <2>4, <2>5, <2>6, <2>7 DEF GateInv, Remembers
<1>2. CASE Verify(r) /\ ~Fresh(Carries[r], now)
  <2>1. Moves(r, "new", "ended") /\ reply' = [reply EXCEPT ![r] = "refused"] /\ UNCHANGED <<now, gate>>
    BY <1>2 DEF Verify, Answer, Replies
  <2> QED
    BY <1>0, <2>1, Moved, GateRests DEF PC, Before, Threads
<1>3. CASE Look(r)
  <2>1. /\ Moves(r, "verified", "looked") /\ looked' = [looked EXCEPT ![r] = now]
        /\ UNCHANGED <<now, reply, seen, count, through, late, pushed>>
    BY <1>3 DEF Look
  <2>2. /\ pc[r] = "verified" /\ pc'[r] = "looked"
        /\ \A q \in Requests \ {r} : pc'[q] = pc[q]
    BY <2>1, Moved DEF PC
  <2>7. r \in Hooks /\ \A q \in Requests : pc'[q] \in {"verified", "looked"} => q \in Hooks
    BY <2>2 DEF GateInv
  <2>3. \A q \in through : pc'[q] \notin Before
    BY <1>0, <2>2 DEF GateInv, Before
  <2>4. OneRunPerDelivery'
    BY <2>1 DEF GateInv, OneRunPerDelivery
  <2>5. looked' \in [Hooks -> Nat]
    BY <1>0, <2>1 DEF GateInv
  <2>6. ASSUME NEW q \in Hooks
        PROVE  /\ pc'[q] = "verified" => now >= Stamp[Carries[q]] - Skew
               /\ pc'[q] = "looked" => looked'[q] <= now /\ looked'[q] >= Stamp[Carries[q]] - Skew
    <3>1. CASE q = r
      <4>1. looked'[q] = now
        BY <2>1, <3>1 DEF GateInv
      <4> QED
        BY <1>0, <2>2, <3>1, <4>1 DEF GateInv
    <3>2. CASE q # r
      BY <1>0, <2>1, <2>2, <3>2 DEF GateInv
    <3> QED
      BY <3>1, <3>2
  <2> QED
    BY <2>1, <2>3, <2>4, <2>5, <2>6, <2>7 DEF GateInv, Remembers
<1> QED
  BY <1>1, <1>2, <1>3

\* An entry that is dropped for its age can no longer be accepted.
LEMMA Forgotten ==
  ASSUME GateInv, NEW r \in Hooks, pc[r] = "looked", NEW d \in Deliveries,
         Remembers(seen, d), ~Remembers(Unexpired(seen, looked[r]), d)
  PROVE  now > Stamp[d] + Skew
<1>1. PICK e \in seen : e.sig = d
  BY DEF Remembers
<1>2. ~(looked[r] - e.at <= 2 * Skew)
  BY <1>1 DEF Remembers, Unexpired
<1>3. e.at >= Stamp[d] - Skew /\ e.at \in Nat /\ looked[r] <= now /\ looked[r] \in Nat /\ now \in Nat
  BY <1>1 DEF GateInv, Entries
<1>4. Stamp[d] \in Nat /\ Skew \in Nat
  BY GateAssumption
<1> QED
  BY <1>2, <1>3, <1>4

\* A delivery is answered 409 only when another request carried it through.
LEMMA GateRefuses ==
  ASSUME Threads, GateInv, NEW r \in Requests, Duplicate(r)
  PROVE  GateInv'
<1>0. Hooks \subseteq Requests /\ Carries \in [Hooks -> Deliveries]
  BY ServiceAssumption
<1>1. /\ pc[r] = "looked" /\ seen' = Unexpired(seen, looked[r]) /\ Moves(r, "looked", "ended")
      /\ reply' = [reply EXCEPT ![r] = "duplicate"] /\ looked' = [looked EXCEPT ![r] = 0]
      /\ UNCHANGED <<now, count, through, late, pushed>>
      /\ Remembers(Unexpired(seen, looked[r]), Carries[r])
  BY DEF Duplicate, Answer, Replies
<1>2. pc'[r] = "ended" /\ \A q \in Requests \ {r} : pc'[q] = pc[q]
  BY <1>1, Moved DEF PC
<1>3. seen' \subseteq seen
  BY <1>1 DEF Unexpired
<1>4. \A q \in through : pc'[q] \notin Before
  BY <1>0, <1>2 DEF GateInv, Before
<1>5. OneRunPerDelivery'
  <2>1. PICK e \in seen : e.sig = Carries[r]
    BY <1>1 DEF Remembers, Unexpired
  <2>2. PICK p \in through : Carries[p] = Carries[r]
    BY <2>1 DEF GateInv
  <2>3. p # r
    BY <1>1 DEF GateInv, Before
  <2>4. \A q \in Hooks \ {r} : reply'[q] = reply[q]
    BY <1>0, <1>1 DEF Threads
  <2> QED
    BY <1>1, <2>2, <2>3, <2>4 DEF GateInv, OneRunPerDelivery
<1>6. looked' \in [Hooks -> Nat] /\ \A q \in Hooks \ {r} : looked'[q] = looked[q]
  BY <1>1 DEF GateInv
<1>7. \A q \in Requests : pc'[q] \in {"verified", "looked"} =>
        q \in Hooks /\ pc'[q] = pc[q] /\ looked'[q] = looked[q]
  BY <1>0, <1>2, <1>6 DEF GateInv
<1>8. ASSUME NEW q \in through
      PROVE  Remembers(seen', Carries[q]) \/ Carries[q] \in pushed \/ now > Stamp[Carries[q]] + Skew
  <2>1. q \in Hooks /\ Carries[q] \in Deliveries
    BY <1>0 DEF GateInv
  <2>2. r \in Hooks
    BY <1>1 DEF GateInv
  <2> QED
    BY <1>1, <1>8, <2>1, <2>2, Forgotten DEF GateInv
<1> QED
  BY <1>0, <1>1, <1>3, <1>4, <1>5, <1>6, <1>7, <1>8 DEF GateInv

\* A delivery that is let through a second time was pushed out of the memory,
\* or is no longer fresh.
LEMMA GateLetsIn ==
  ASSUME Threads, GateInv, NEW r \in Requests, FirstDelivery(r)
  PROVE  GateInv'
<1> DEFINE D == Carries[r]
           U == Unexpired(seen, looked[r])
           new == [sig |-> D, at |-> looked[r], no |-> count]
           O == Overflow(Added(r))
<1>0. Hooks \subseteq Requests /\ Carries \in [Hooks -> Deliveries] /\ now \in Nat /\ count \in Nat
  BY ServiceAssumption DEF GateInv
<1>1. /\ pc[r] = "looked" /\ Moves(r, "looked", "kept") /\ ~Remembers(U, D)
      /\ seen' = Added(r) \ O /\ count' = count + 1
      /\ through' = through \cup {r}
      /\ late' = late \cup {q \in {r} : ~Fresh(Carries[q], now)}
      /\ pushed' = pushed \cup {e.sig : e \in O}
      /\ looked' = [looked EXCEPT ![r] = 0]
      /\ UNCHANGED <<now, reply>>
  BY DEF FirstDelivery
<1>2. r \in Hooks /\ D \in Deliveries /\ Stamp[D] \in Nat /\ Skew \in Nat
  BY <1>0, <1>1, GateAssumption DEF GateInv
<1>3. looked[r] \in Nat /\ looked[r] <= now /\ looked[r] >= Stamp[D] - Skew
  BY <1>1, <1>2 DEF GateInv
<1>4. Added(r) = U \cup {new} /\ O \subseteq Added(r) /\ U \subseteq seen /\ new \in Entries
  BY <1>0, <1>2, <1>3 DEF Added, Overflow, Unexpired, Entries
<1>5. pc'[r] = "kept" /\ \A q \in Requests \ {r} : pc'[q] = pc[q]
  BY <1>1, Moved DEF PC, Held
<1>6. r \notin through
  BY <1>1 DEF GateInv, Before
<1>7. \A e \in Added(r) : Remembers(seen', e.sig) \/ e.sig \in pushed'
  BY <1>1 DEF Remembers
<1>8. ASSUME NEW q \in through
      PROVE  \/ Remembers(U, Carries[q])
             \/ Carries[q] \in pushed
             \/ now > Stamp[Carries[q]] + Skew
  <2>1. q \in Hooks /\ Carries[q] \in Deliveries
    BY <1>0 DEF GateInv
  <2> QED
    BY <1>1, <1>2, <2>1, Forgotten DEF GateInv
<1>9. ASSUME NEW q \in through'
      PROVE  Remembers(seen', Carries[q]) \/ Carries[q] \in pushed' \/ now' > Stamp[Carries[q]] + Skew
  <2>1. CASE q = r
    BY <1>4, <1>7, <2>1
  <2>2. CASE q \in through /\ Remembers(U, Carries[q])
    <3>1. PICK e \in U : e.sig = Carries[q]
      BY <2>2 DEF Remembers
    <3> QED
      BY <1>4, <1>7, <3>1
  <2> QED
    BY <1>1, <1>8, <2>1, <2>2
<1>10. ASSUME NEW q \in through, Carries[q] = D
       PROVE  D \in pushed' \/ r \in late'
  <2>1. CASE D \in pushed
    BY <1>1, <2>1
  <2>2. CASE now > Stamp[D] + Skew
    <3>1. ~Fresh(D, now)
      BY <1>0, <1>2, <2>2 DEF Fresh
    <3> QED
      BY <1>1, <3>1
  <2> QED
    BY <1>1, <1>8, <1>10, <2>1, <2>2
<1>11. OneRunPerDelivery'
  <2>1. ASSUME NEW q \in through', NEW p \in through', q # p, Carries[q] = Carries[p]
        PROVE  Carries[q] \in pushed' \/ q \in late' \/ p \in late'
    <3>1. CASE q \in through /\ p \in through
      BY <1>1, <2>1, <3>1 DEF GateInv, OneRunPerDelivery
    <3> QED
      BY <1>1, <1>10, <2>1, <3>1
  <2> QED
    BY <1>1, <2>1 DEF GateInv, OneRunPerDelivery
<1>12. looked' \in [Hooks -> Nat] /\ \A q \in Hooks \ {r} : looked'[q] = looked[q]
  BY <1>1 DEF GateInv
<1>13. \A q \in Requests : pc'[q] \in {"verified", "looked"} =>
         q \in Hooks /\ pc'[q] = pc[q] /\ looked'[q] = looked[q]
  BY <1>0, <1>5, <1>12 DEF GateInv
<1>14. through' \subseteq Hooks /\ \A q \in through' : pc'[q] \notin Before
  BY <1>0, <1>1, <1>2, <1>5 DEF GateInv, Before
<1>15. ASSUME NEW e \in seen'
       PROVE  /\ e \in Entries /\ e.at >= Stamp[e.sig] - Skew
              /\ \E q \in through' : Carries[q] = e.sig
  <2>1. CASE e = new
    BY <1>1, <1>3, <1>4, <2>1
  <2>2. CASE e \in seen
    BY <1>1, <2>2 DEF GateInv
  <2> QED
    BY <1>1, <1>4, <2>1, <2>2
<1>16. \A q \in Hooks : /\ pc'[q] = "verified" => now' >= Stamp[Carries[q]] - Skew
                        /\ pc'[q] = "looked" => /\ looked'[q] <= now'
                                               /\ looked'[q] >= Stamp[Carries[q]] - Skew
  BY <1>0, <1>1, <1>13 DEF GateInv
<1>17. now' \in Nat /\ count' \in Nat /\ seen' \subseteq Entries
  BY <1>0, <1>1, <1>15
<1>18. /\ \A e \in seen' : e.at >= Stamp[e.sig] - Skew /\ \E q \in through' : Carries[q] = e.sig
       /\ \A q \in Requests : pc'[q] \in {"verified", "looked"} => q \in Hooks
  BY <1>13, <1>15
<1> QED
  BY <1>9, <1>11, <1>12, <1>14, <1>16, <1>17, <1>18 DEF GateInv

\* Every step keeps the memory of the gate true to what was let through.
LEMMA GateStep == Threads /\ GateInv /\ [Next]_vars => GateInv'
<1> SUFFICES ASSUME Threads, GateInv, [Next]_vars
             PROVE  GateInv'
  OBVIOUS
<1>0. Hooks \subseteq Requests
  BY ServiceAssumption
<1>1. ASSUME NEW r \in Requests, NEW a \in PC, NEW b \in PC \ Before, Moves(r, a, b),
             UNCHANGED <<gate, now>>,
             \A q \in Hooks : reply'[q] = "duplicate" => reply[q] = "duplicate"
      PROVE  GateInv'
  <2>1. \A q \in Requests : pc'[q] \in Before => pc'[q] = pc[q]
    BY <1>1, Moved
  <2> QED
    BY <1>1, <2>1, GateRests
<1>2. ASSUME NEW r \in Requests, NEW what \in Errors \ {"duplicate"}, Replies(r, what)
      PROVE  \A q \in Hooks : reply'[q] = "duplicate" => reply[q] = "duplicate"
  BY <1>0, <1>2 DEF Replies, Threads
<1>3. ASSUME NEW r \in Requests, NEW a \in PC, NEW what \in Errors \ {"duplicate"}, Answer(r, a, what),
             UNCHANGED <<gate, now>>
      PROVE  GateInv'
  BY <1>1, <1>2, <1>3 DEF Answer, PC, Before, Held
<1>4. CASE Tick
  BY <1>4, GateTicks
<1>5. ASSUME NEW r \in Requests, Check(r) \/ CheckMessage(r)
      PROVE  GateInv'
  <2>1. /\ \/ Moves(r, "new", "checked") /\ UNCHANGED reply
           \/ Moves(r, "new", "ended") /\ UNCHANGED reply
           \/ Answer(r, "new", "refused")
        /\ UNCHANGED <<gate, now>>
    BY <1>5 DEF Check, CheckMessage
  <2> QED
    BY <1>1, <1>3, <2>1 DEF PC, Before, Errors, Held
<1>6. ASSUME NEW r \in Requests, Verify(r) \/ Look(r)
      PROVE  GateInv'
  BY <1>6, GateLooks
<1>7. ASSUME NEW r \in Requests, Duplicate(r)
      PROVE  GateInv'
  BY <1>7, GateRefuses
<1>8. ASSUME NEW r \in Requests, FirstDelivery(r)
      PROVE  GateInv'
  BY <1>8, GateLetsIn
<1>9. ASSUME NEW r \in Requests, FillQuestion(r)
      PROVE  GateInv'
  <2>1. /\ \/ Moves(r, "kept", "checked") /\ UNCHANGED reply
           \/ Answer(r, "kept", "refused")
        /\ UNCHANGED <<gate, now>>
    BY <1>9 DEF FillQuestion
  <2> QED
    BY <1>1, <1>3, <2>1 DEF PC, Before, Errors, Held
<1>10. ASSUME NEW r \in Requests, Busy(r)
       PROVE  GateInv'
  BY <1>3, <1>10 DEF Busy, PC, Errors
<1>11. ASSUME NEW r \in Requests,
              Acquire(r) \/ Count(r) \/ Uncount(r) \/ Release(r) \/ Enter(r) \/ NeverEnters(r) \/ Thaw(r)
       PROVE  GateInv'
  <2>1. /\ \E a \in {"checked", "acquired", "leaving", "uncounted", "counted", "inside"},
              b \in {"acquired", "counted", "uncounted", "ended", "inside", "leaving"} : Moves(r, a, b)
        /\ UNCHANGED <<gate, now, reply>>
    BY <1>11 DEF Acquire, Count, Uncount, Release, Enter, NeverEnters, Thaw
  <2> QED
    BY <1>1, <2>1 DEF PC, Before, Held
<1>12. CASE UNCHANGED vars
  BY <1>12, GateRests DEF vars
<1> QED
  BY <1>4, <1>5, <1>6, <1>7, <1>8, <1>9, <1>10, <1>11, <1>12 DEF Next, Handle

\* Nothing has been let through before the first request.
LEMMA GateInit == Init => GateInv
<1> SUFFICES ASSUME Init PROVE GateInv
  OBVIOUS
<1>1. /\ now = 0 /\ count = 0 /\ seen = {} /\ through = {}
      /\ \A r \in Requests : pc[r] = "new" /\ reply[r] = "none"
  BY DEF Init
<1>2. looked \in [Hooks -> Nat] /\ Hooks \subseteq Requests
  BY ServiceAssumption DEF Init
<1>3. OneRunPerDelivery
  BY <1>1, <1>2 DEF OneRunPerDelivery
<1> QED
  BY <1>1, <1>2, <1>3 DEF GateInv

\* However the requests interleave and the clock runs: a delivery made twice
\* is run once, unless its entry was pushed out of a full memory or its stamp
\* went stale on the way; and no delivery is turned away that did not run.
THEOREM DeliveriesRunOnce == Spec => []OneRunPerDelivery
<1>1. GateInv => OneRunPerDelivery
  BY DEF GateInv
<1>2. SlotsInv => Threads
  BY DEF SlotsInv
<1> QED
  BY <1>1, <1>2, GateInit, GateStep, SlotsInvariance, PTL DEF Spec

-------------------------------------------------------------------------------
(* The frozen clock                                                        *)

\* A nonempty set of naturals has a least element.
LEMMA LeastNat ==
  ASSUME NEW S \in SUBSET Nat, S # {}
  PROVE  \E x \in S : \A y \in S : x <= y
<1>1. PICK x \in S : \A y \in S : ~(<<y, x>> \in OpToRel(<, Nat))
  BY Zenon, NatLessThanWellFounded, WFMin
<1>2. \A y \in S : ~(y < x)
  BY <1>1 DEF OpToRel
<1> QED
  BY <1>2

\* The places of an instant in the stack.
At(s, x) == {k \in DOMAIN s : s[k] = x}

LEMMA AtFinite ==
  ASSUME NEW T, NEW s \in Seq(T), NEW x
  PROVE  IsFiniteSet(At(s, x)) /\ Cardinality(At(s, x)) \in Nat
<1>1. At(s, x) \in SUBSET (1 .. Len(s)) /\ IsFiniteSet(1 .. Len(s))
  BY FS_Interval DEF At
<1> QED
  BY <1>1, FS_Subset, FS_CardinalityType

\* list.remove finds an instant that is there.
LEMMA AtFirst ==
  ASSUME NEW T, NEW s \in Seq(T), NEW x, At(s, x) # {}
  PROVE  First(s, x) \in At(s, x)
<1>1. PICK k \in At(s, x) : \A j \in At(s, x) : k <= j
  <2>1. At(s, x) \in SUBSET Nat
    BY DEF At
  <2> QED
    BY <2>1, LeastNat
<1>2. k \in DOMAIN s /\ s[k] = x /\ \A j \in 1 .. k - 1 : s[j] # x
  BY <1>1 DEF At
<1> QED
  BY <1>2 DEF First, At

\* What append and list.remove do to the places.
LEMMA AtAppend ==
  ASSUME NEW T, NEW s \in Seq(T), NEW x, NEW y \in T
  PROVE  At(Append(s, y), x) = IF y = x THEN At(s, x) \cup {Len(s) + 1} ELSE At(s, x)
BY DEF At

LEMMA AtWithout ==
  ASSUME NEW T, NEW s \in Seq(T), NEW x, NEW k \in DOMAIN s
  PROVE  /\ Without(s, k) \in Seq(T)
         /\ Cardinality(At(Without(s, k), x))
              = Cardinality(At(s, x)) - (IF s[k] = x THEN 1 ELSE 0)
<1> DEFINE w == Without(s, k)
           A == At(s, x) \ {k}
           B == At(w, x)
           f == [i \in A |-> IF i < k THEN i ELSE i - 1]
<1>1. w \in Seq(T) /\ Len(w) = Len(s) - 1 /\ DOMAIN w = 1 .. Len(s) - 1
  BY DEF Without
<1>2. A \subseteq (1 .. Len(s)) \ {k} /\ k \in 1 .. Len(s)
  BY DEF At
<1>3. \A j \in 1 .. Len(s) - 1 : w[j] = IF j < k THEN s[j] ELSE s[j + 1]
  BY DEF Without
<1>4. f \in [A -> B]
  BY <1>1, <1>2, <1>3 DEF At
<1>5. f \in Bijection(A, B)
  <2>1. \A i, j \in A : f[i] = f[j] => i = j
    BY <1>2
  <2>2. ASSUME NEW j \in B
        PROVE  \E i \in A : f[i] = j
    <3>1. j \in 1 .. Len(s) - 1 /\ w[j] = x
      BY <1>1 DEF At
    <3>2. CASE j < k
      <4>1. j \in A /\ f[j] = j
        BY <1>2, <1>3, <3>1, <3>2 DEF At
      <4> QED
        BY <4>1
    <3>3. CASE ~(j < k)
      <4>1. j + 1 \in A /\ f[j + 1] = j
        BY <1>2, <1>3, <3>1, <3>3 DEF At
      <4> QED
        BY <4>1
    <3> QED
      BY <3>2, <3>3
  <2> QED
    BY <1>4, <2>1, <2>2 DEF Bijection, Injection, Surjection, IsInjective
<1>6. IsFiniteSet(At(s, x)) /\ Cardinality(At(s, x)) \in Nat /\ IsFiniteSet(A)
  BY AtFinite, FS_Subset
<1>7. Cardinality(B) = Cardinality(A)
  BY <1>5, <1>6, FS_Bijection DEF ExistsBijection
<1>8. k \in At(s, x) <=> s[k] = x
  BY DEF At
<1>9. Cardinality(A) = Cardinality(At(s, x)) - (IF s[k] = x THEN 1 ELSE 0)
  <2>1. CASE s[k] = x
    BY <1>6, <1>8, <2>1, FS_RemoveElement
  <2>2. CASE s[k] # x
    <3>1. A = At(s, x)
      BY <1>8, <2>2
    <3>2. Cardinality(A) = Cardinality(At(s, x))
      BY <3>1, Zenon
    <3> QED
      BY <1>6, <2>2, <3>2
  <2> QED
    BY <2>1, <2>2
<1> QED
  BY <1>1, <1>7, <1>9

FrozenInv ==
  /\ frozen \in Seq({Instant[r] : r \in Requests})
  /\ FrozenByRunsInside

\* The runs inside with a given instant.
InsideAt(x) == {q \in Inside : Instant[q] = x}

LEMMA InsideFinite ==
  ASSUME SlotsInv, NEW x
  PROVE  IsFiniteSet(InsideAt(x)) /\ Cardinality(InsideAt(x)) \in Nat
<1>1. InsideAt(x) \in SUBSET Holding
  BY DEF InsideAt, Inside, Holding, Held
<1> QED
  BY <1>1, FS_Subset, FS_CardinalityType DEF SlotsInv

\* The invariant, said with these names.
LEMMA FrozenCounts ==
  FrozenByRunsInside <=>
    \A r \in Requests : Cardinality(At(frozen, Instant[r])) = Cardinality(InsideAt(Instant[r]))
BY DEF FrozenByRunsInside, At, InsideAt

\* A run that comes in puts its own instant on the stack.
LEMMA FrozenEnters ==
  ASSUME SlotsInv, FrozenInv, NEW r \in Requests, Enter(r)
  PROVE  FrozenInv'
<1> DEFINE T == {Instant[q] : q \in Requests}
<1>1. Moves(r, "counted", "inside") /\ frozen' = Append(frozen, Instant[r])
  BY DEF Enter
<1>2. r \notin Inside /\ Inside' = Inside \cup {r}
  <2>1. pc[r] = "counted" /\ pc'[r] = "inside" /\ \A q \in Requests \ {r} : pc'[q] = pc[q]
    BY <1>1, Moved DEF SlotsInv, PC, Held
  <2> QED
    BY <2>1 DEF Inside
<1>3. frozen \in Seq(T) /\ frozen' \in Seq(T) /\ Instant[r] \in T
  BY <1>1 DEF FrozenInv
<1>4. ASSUME NEW q \in Requests
      PROVE  Cardinality(At(frozen', Instant[q])) = Cardinality(InsideAt(Instant[q])')
  <2> DEFINE x == Instant[q]
  <2>1. Cardinality(At(frozen, x)) = Cardinality(InsideAt(x))
    BY FrozenCounts DEF FrozenInv
  <2>2. IsFiniteSet(At(frozen, x)) /\ IsFiniteSet(InsideAt(x))
    BY <1>3, AtFinite, InsideFinite
  <2>3. CASE Instant[r] = x
    <3>1. At(frozen', x) = At(frozen, x) \cup {Len(frozen) + 1}
      BY <1>1, <1>3, <2>3, AtAppend
    <3>2. Len(frozen) + 1 \notin At(frozen, x)
      BY <1>3 DEF At
    <3>3. InsideAt(x)' = InsideAt(x) \cup {r} /\ r \notin InsideAt(x)
      BY <1>2, <2>3 DEF InsideAt
    <3>4. /\ Cardinality(At(frozen', x)) = Cardinality(At(frozen, x)) + 1
          /\ Cardinality(InsideAt(x)') = Cardinality(InsideAt(x)) + 1
      BY <2>2, <3>1, <3>2, <3>3, FS_AddElement
    <3> QED
      BY <2>1, <3>4
  <2>4. CASE Instant[r] # x
    <3>1. At(frozen', x) = At(frozen, x)
      BY <1>1, <1>3, <2>4, AtAppend
    <3>2. InsideAt(x)' = InsideAt(x)
      BY <1>2, <2>4 DEF InsideAt
    <3> QED
      BY <2>1, <3>1, <3>2
  <2> QED
    BY <2>3, <2>4
<1>5. FrozenByRunsInside'
  BY <1>4 DEF FrozenByRunsInside, At, InsideAt
<1> QED
  BY <1>3, <1>5 DEF FrozenInv

\* A run that leaves takes one instant equal to its own away: there is one,
\* its own or that of another run inside, which will find its own later.
LEMMA FrozenLeaves ==
  ASSUME SlotsInv, FrozenInv, NEW r \in Requests, Thaw(r)
  PROVE  FrozenInv'
<1> DEFINE T == {Instant[q] : q \in Requests}
           k == First(frozen, Instant[r])
<1>1. Moves(r, "inside", "leaving") /\ frozen' = Without(frozen, k)
  BY DEF Thaw
<1>2. r \in Inside /\ Inside' = Inside \ {r}
  <2>1. pc[r] = "inside" /\ pc'[r] = "leaving" /\ \A q \in Requests \ {r} : pc'[q] = pc[q]
    BY <1>1, Moved DEF SlotsInv, PC, Held
  <2> QED
    BY <2>1 DEF Inside
<1>3. frozen \in Seq(T)
  BY DEF FrozenInv
<1>4. k \in DOMAIN frozen /\ frozen[k] = Instant[r]
  <2>1. r \in InsideAt(Instant[r])
    BY <1>2 DEF InsideAt
  <2>2. Cardinality(InsideAt(Instant[r])) # 0
    BY <2>1, InsideFinite, FS_EmptySet
  <2>3. Cardinality(At(frozen, Instant[r])) # 0
    BY <2>2, FrozenCounts DEF FrozenInv
  <2>4. At(frozen, Instant[r]) # {}
    BY <2>3, FS_EmptySet
  <2> QED
    BY <1>3, <2>4, AtFirst DEF At
<1>5. frozen' \in Seq(T)
  BY <1>1, <1>3, <1>4, AtWithout
<1>6. ASSUME NEW q \in Requests
      PROVE  Cardinality(At(frozen', Instant[q])) = Cardinality(InsideAt(Instant[q])')
  <2> DEFINE x == Instant[q]
  <2>1. Cardinality(At(frozen, x)) = Cardinality(InsideAt(x))
    BY FrozenCounts DEF FrozenInv
  <2>2. IsFiniteSet(InsideAt(x)) /\ Cardinality(InsideAt(x)) \in Nat
    BY InsideFinite
  <2>3. Cardinality(At(frozen', x)) = Cardinality(At(frozen, x)) - (IF Instant[r] = x THEN 1 ELSE 0)
    BY <1>1, <1>3, <1>4, AtWithout
  <2>4. CASE Instant[r] = x
    <3>1. InsideAt(x)' = InsideAt(x) \ {r} /\ r \in InsideAt(x)
      BY <1>2, <2>4 DEF InsideAt
    <3>2. Cardinality(InsideAt(x)') = Cardinality(InsideAt(x)) - 1
      BY <2>2, <3>1, FS_RemoveElement
    <3> QED
      BY <2>1, <2>3, <2>4, <3>2
  <2>5. CASE Instant[r] # x
    <3>1. InsideAt(x)' = InsideAt(x)
      BY <1>2, <2>5 DEF InsideAt
    <3> QED
      BY <2>1, <2>2, <2>3, <2>5, <3>1
  <2> QED
    BY <2>4, <2>5
<1>7. FrozenByRunsInside'
  BY <1>6 DEF FrozenByRunsInside, At, InsideAt
<1> QED
  BY <1>5, <1>7 DEF FrozenInv

\* Any other step leaves the clock and the set of runs inside alone.
LEMMA FrozenRests ==
  ASSUME Threads, FrozenInv, UNCHANGED frozen, NEW r \in Requests,
         NEW a \in PC \ {"inside"}, NEW b \in PC \ {"inside"}, Moves(r, a, b)
  PROVE  FrozenInv'
<1>1. Inside' = Inside
  BY Moved DEF Inside
<1> QED
  BY <1>1 DEF FrozenInv, FrozenByRunsInside

LEMMA FrozenStep == SlotsInv /\ FrozenInv /\ [Next]_vars => FrozenInv'
<1> SUFFICES ASSUME SlotsInv, FrozenInv, [Next]_vars
             PROVE  FrozenInv'
  OBVIOUS
<1>1. CASE Tick \/ UNCHANGED vars
  BY <1>1 DEF Tick, vars, FrozenInv, FrozenByRunsInside, Inside
<1>2. ASSUME NEW r \in Requests, Enter(r) \/ Thaw(r)
      PROVE  FrozenInv'
  BY <1>2, FrozenEnters, FrozenLeaves
<1>3. ASSUME NEW r \in Requests,
             \/ Check(r) \/ CheckMessage(r) \/ Verify(r) \/ Look(r) \/ Duplicate(r) \/ FirstDelivery(r)
             \/ FillQuestion(r) \/ Acquire(r) \/ Busy(r) \/ Count(r) \/ Uncount(r) \/ Release(r)
             \/ NeverEnters(r)
      PROVE  FrozenInv'
  <2>1. /\ UNCHANGED frozen
        /\ \E a \in PC \ {"inside"}, b \in PC \ {"inside"} : Moves(r, a, b)
    <3>1. CASE Check(r) \/ CheckMessage(r) \/ Verify(r)
      BY <3>1 DEF Check, CheckMessage, Verify, Answer, PC, Held
    <3>2. CASE Look(r) \/ Duplicate(r) \/ FirstDelivery(r) \/ FillQuestion(r)
      BY <3>2 DEF Look, Duplicate, FirstDelivery, FillQuestion, Answer, PC, Held
    <3>3. CASE Acquire(r) \/ Busy(r) \/ Count(r) \/ Uncount(r) \/ Release(r) \/ NeverEnters(r)
      BY <3>3 DEF Acquire, Busy, Count, Uncount, Release, NeverEnters, Answer, PC, Held
    <3> QED
      BY <1>3, <3>1, <3>2, <3>3
  <2> QED
    BY <2>1, FrozenRests DEF SlotsInv
<1> QED
  BY <1>1, <1>2, <1>3 DEF Next, Handle

LEMMA FrozenInit == Init => FrozenInv
<1> SUFFICES ASSUME Init PROVE FrozenInv
  OBVIOUS
<1>1. frozen = <<>> /\ Inside = {}
  BY DEF Init, Inside
<1>2. \A r \in Requests : At(frozen, Instant[r]) = {} /\ InsideAt(Instant[r]) = {}
  BY <1>1 DEF At, InsideAt
<1>3. FrozenByRunsInside
  BY <1>2, FrozenCounts
<1> QED
  BY <1>1, <1>3 DEF FrozenInv

\* Whatever the order in which the runs of a replay service come and go, the
\* process-wide clock is frozen by exactly those that are inside: none leaves
\* its time behind, and none takes away the time of another.
THEOREM ClockIsFrozenByRunsInside == Spec => []FrozenByRunsInside
<1>1. FrozenInv => FrozenByRunsInside
  BY DEF FrozenInv
<1> QED
  BY <1>1, FrozenInit, FrozenStep, SlotsInvariance, PTL DEF Spec

===============================================================================
