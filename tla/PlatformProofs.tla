--------------------------- MODULE PlatformProofs ---------------------------
(***************************************************************************)
(* Theorems about the two models of what talks to the platform: WriteBatch *)
(* for any items, owners, repetitions and bounds on what else happens, and *)
(* SeatSession (in the last part) for any callers and tokens.  The modules *)
(* have no name in common, so that both can be extended here.              *)
(***************************************************************************)
EXTENDS WriteBatch, SeatSession, FiniteSetTheorems, TLAPS

Escalation == [owner : Owner, status : {"open", "acknowledged", "resolved", "withdrawn"}, by : Nat]

Entry == [status : {"none", "ran", "harness_error"}, ended : {"none", "running", "done"},
          cleanup : {"none", "done", "error"}, recorded : SUBSET Nat, score : {"pass", "drift", "fail"}]

\* A harness at work on a run, and one that has stopped.
Working == {"begin", "before", "agent", "file", "look", "after", "undo"}
Stopped == {"finished", "dead", "sweep", "swept"}

BatchTypeOK ==
    /\ openItems \subseteq Item
    /\ esc \in Seq(Escalation)
    /\ mode \in {"dry", "write", "keep"} /\ phase \in Working \cup Stopped
    /\ raising \subseteq Owner /\ filing \in Filing
    /\ record.ended \in {"running", "done"} /\ Recorded \subseteq Nat
    /\ record.dry = (mode = "dry")
    /\ report \in {"done", "error"}
    /\ entry \in Entry /\ manifest \in Seq(Entry)

\* What the clean-up, or an assignee, makes of an escalation.
LEMMA StatusChanged ==
    ASSUME esc \in Seq(Escalation), NEW e \in DOMAIN esc,
           NEW status \in {"open", "acknowledged", "resolved", "withdrawn"}, esc' = [esc EXCEPT ![e].status = status]
    PROVE  /\ esc' \in Seq(Escalation) /\ DOMAIN esc' = DOMAIN esc
           /\ \A d \in DOMAIN esc : /\ esc'[d].owner = esc[d].owner /\ esc'[d].by = esc[d].by
                                    /\ esc'[d].status = IF d = e THEN status ELSE esc[d].status
<1>1. esc[e] \in Escalation /\ DOMAIN esc = 1..Len(esc) /\ Len(esc) \in Nat
    OBVIOUS
<1> DEFINE new == [esc[e] EXCEPT !.status = status]
<1>2. new \in Escalation /\ new.owner = esc[e].owner /\ new.by = esc[e].by /\ new.status = status
    BY <1>1 DEF Escalation
<1>3. esc' = [esc EXCEPT ![e] = new]
    OBVIOUS
<1> HIDE DEF new
<1>4. \A d \in DOMAIN esc : esc'[d] = IF d = e THEN new ELSE esc[d]
    BY <1>3
<1>5. esc' \in Seq(Escalation) /\ DOMAIN esc' = DOMAIN esc
    BY <1>1, <1>2, <1>3
<1> QED
    BY <1>2, <1>4, <1>5

\* What an agent files.
LEMMA OneMore ==
    ASSUME BatchTypeOK, NEW owner \in Owner,
           esc' = Append(esc, [owner |-> owner, status |-> "open", by |-> Run])
    PROVE  /\ esc' \in Seq(Escalation) /\ Run \in Nat
           /\ Len(esc) \in Nat /\ Len(esc') = Len(esc) + 1
           /\ DOMAIN esc = 1..Len(esc) /\ DOMAIN esc' = DOMAIN esc \cup {Len(esc')}
           /\ \A d \in DOMAIN esc : esc'[d] = esc[d]
           /\ esc'[Len(esc')] = [owner |-> owner, status |-> "open", by |-> Run]
<1> DEFINE new == [owner |-> owner, status |-> "open", by |-> Run]
<1>1. Run \in Nat
    BY DEF BatchTypeOK, Run
<1>2. new \in Escalation /\ esc \in Seq(Escalation)
    BY <1>1 DEF Escalation, BatchTypeOK
<1> HIDE DEF new
<1>3. esc' = Append(esc, new)
    BY DEF new
<1>4. /\ esc' \in Seq(Escalation) /\ Len(esc) \in Nat /\ Len(esc') = Len(esc) + 1
      /\ DOMAIN esc = 1..Len(esc) /\ DOMAIN esc' = 1..Len(esc')
      /\ \A d \in DOMAIN esc : esc'[d] = esc[d]
      /\ esc'[Len(esc')] = new
    BY <1>2, <1>3
<1>5. DOMAIN esc' = DOMAIN esc \cup {Len(esc')}
    BY <1>4
<1> QED
    BY <1>1, <1>4, <1>5 DEF new

\* What a run ends with.
LEMMA Concluded ==
    ASSUME NEW result \in Filing, Conclude(result)
    PROVE  /\ record'.ended = "done" /\ record'.dry = (mode = "dry")
           /\ record'.finding = Finding(read, result, mode = "dry")
           /\ record'.answer \in Answers(Finding(read, result, mode = "dry"))
           /\ Recorded' \subseteq Nat /\ phase' = "after" /\ AgentGone
<1> DEFINE f == Finding(read, result, mode = "dry")
<1>1. PICK answer \in Answers(f) :
        record' = [ended |-> "done", dry |-> mode = "dry", finding |-> f, answer |-> answer]
    BY DEF Conclude
<1>2. f.handoffs.escalations \subseteq Nat
    BY DEF Finding, HandoffSection, Filing
<1> HIDE DEF f
<1>3. record'.ended = "done" /\ record'.dry = (mode = "dry") /\ record'.finding = f /\ record'.answer = answer
    BY <1>1
<1>4. Recorded' = f.handoffs.escalations
    BY <1>3 DEF Recorded
<1> QED
    BY <1>2, <1>3, <1>4 DEF Conclude, f

LEMMA AgentIsGone == AgentGone => raising' = {} /\ filing' \in Filing
    BY DEF AgentGone, NotRun, Filing

LEMMA InitBatchTypeOK == Init => BatchTypeOK
<1> SUFFICES ASSUME Init PROVE BatchTypeOK
    OBVIOUS
<1>1. /\ entry \in Entry /\ filing \in Filing /\ record.ended = "running" /\ Recorded = {}
      /\ record.dry = (mode = "dry")
    BY DEF Init, NoEntry, Entry, NotRun, Filing, NoRecord, Recorded
<1>2. mode \in {"dry", "write", "keep"}
    BY BatchAssumption DEF Init
<1> QED
    BY <1>1, <1>2 DEF Init, BatchTypeOK, Working, Stopped

LEMMA NextRunTypes ==
    ASSUME BatchTypeOK, NEW ended \in Entry, NextRun(ended)
    PROVE  /\ phase' \in {"finished", "begin"} /\ manifest' \in Seq(Entry) /\ raising' = {}
           /\ filing' \in Filing /\ record'.ended = "running" /\ Recorded' = {}
           /\ record'.dry = (mode = "dry") /\ report' = "done" /\ entry' \in Entry
    BY DEF BatchTypeOK, NextRun, RunOver, AgentGone, NotRun, Filing, NoRecord, Recorded, NoEntry, Entry

\* The actions that move the agent on.
Acting == CrossSeat \/ FindAssignee \/ Filed \/ \E owner \in Owner : Look(owner)

LEMMA Acts ==
    ASSUME BatchTypeOK, Acting
    PROVE  /\ UNCHANGED <<platform, mode, before, after, undo, manifest, moved>>
           /\ \/ /\ phase' \in {"file", "look"} /\ UNCHANGED <<read, record>>
                 /\ raising' \subseteq Owner /\ filing' \in Filing
              \/ \E result \in Filing : Conclude(result)
<1>0. filing \in Filing /\ raising \subseteq Owner /\ NotRun \in Filing /\ Lost \in Filing
    BY DEF BatchTypeOK, NotRun, Lost, Filing
<1>1. CASE CrossSeat
    <2>1. [NotRun EXCEPT !.verdict = "handed_off"] \in Filing
        BY DEF NotRun, Filing
    <2> QED
        BY <1>0, <1>1, <2>1 DEF CrossSeat, agent
<1>2. CASE FindAssignee
    <2>1. [NotRun EXCEPT !.verdict = "declined"] \in Filing
        BY DEF NotRun, Filing
    <2> QED
        BY <1>0, <1>2, <2>1 DEF FindAssignee
<1>3. CASE Filed
    <2>1. [filing EXCEPT !.verdict = IF filing.errors = {} THEN "resolved" ELSE "failed"] \in Filing
        BY <1>0 DEF Filing
    <2> QED
        BY <1>3, <2>1 DEF Filed, bounds
<1>4. CASE \E owner \in Owner : Look(owner)
    <2>1. PICK owner \in Owner : Look(owner)
        BY <1>4
    <2>2. \A page \in Pages(owner) : \A e \in SameSubject(owner, page) :
            [filing EXCEPT !.already = @ \cup {e}] \in Filing
        <3>1. \A page \in Pages(owner) : page \subseteq Nat
            <4>1. Listed(owner, Len(esc)) \subseteq Nat
                BY DEF Listed, BatchTypeOK
            <4> QED
                BY <4>1 DEF Pages
        <3> QED
            BY <1>0, <3>1 DEF SameSubject, Filing
    <2> QED
        BY <1>0, <2>1, <2>2 DEF Look
<1> QED
    BY <1>1, <1>2, <1>3, <1>4 DEF Acting

LEMMA NextBatchTypeOK ==
    ASSUME BatchTypeOK, [Next]_vars
    PROVE  BatchTypeOK'
<1>1. CASE Begin \/ Probe \/ StartAgent \/ ReadGate \/ ReadFeedback \/ Sweep \/ Swept \/ UNCHANGED vars
    BY <1>1 DEF Begin, Probe, StartAgent, ReadGate, ReadFeedback, Sweep, Swept, BatchTypeOK, Working, Stopped,
                platform, agent, undo, bounds, vars, Recorded
<1>2. CASE HarnessFails
    <2>1. HarnessError \in Entry
        BY DEF HarnessError, NoEntry, Entry
    <2> QED
        BY <1>2, <2>1, NextRunTypes DEF HarnessFails, BatchTypeOK, platform, Working, Stopped
<1>3. CASE EndRun
    <2>1. [entry EXCEPT !.cleanup = CleanupOutcome] \in Entry
        BY DEF BatchTypeOK, CleanupOutcome, Entry
    <2> QED
        BY <1>3, <2>1, NextRunTypes DEF EndRun, BatchTypeOK, platform, Working, Stopped
<1>4. CASE Acting
    <2>1. CASE phase' \in {"file", "look"} /\ UNCHANGED record /\ raising' \subseteq Owner /\ filing' \in Filing
        BY <1>4, <2>1, Acts DEF BatchTypeOK, platform, undo, Working, Recorded
    <2>2. CASE \E result \in Filing : Conclude(result)
        BY <1>4, <2>2, Acts, Concluded, AgentIsGone DEF BatchTypeOK, platform, undo, Working
    <2> QED
        BY <1>4, <2>1, <2>2, Acts
<1>5. CASE AgentKilled
    BY <1>5, AgentIsGone DEF AgentKilled, BatchTypeOK, platform, undo, Working, Recorded
<1>6. CASE \E owner \in Owner : Raise(owner)
    <2>1. PICK owner \in Owner : Raise(owner)
        BY <1>6
    <2>2. esc' \in Seq(Escalation)
        BY <2>1, OneMore DEF Raise, BatchTypeOK
    <2>3. filing' \in Filing
        <3>1. filing \in Filing /\ Len(Append(esc, [owner |-> owner, status |-> "open", by |-> Run])) \in Nat
            BY DEF BatchTypeOK
        <3>2. [filing EXCEPT !.errors = @ \cup {owner}] \in Filing
            BY <3>1 DEF Filing
        <3>3. \A n \in Nat : [filing EXCEPT !.escalations = @ \cup {n}] \in Filing
            BY <3>1 DEF Filing
        <3> QED
            BY <2>1, <3>1, <3>2, <3>3 DEF Raise
    <2> QED
        BY <2>1, <2>2, <2>3 DEF Raise, BatchTypeOK, undo, Recorded
<1>7. CASE StartCleanup
    <2>1. OverallStatus(Statuses(Checks)) \in {"pass", "drift", "fail"}
        BY DEF OverallStatus
    <2>2. entry' \in Entry
        BY <1>7, <2>1 DEF StartCleanup, BatchTypeOK, Entry
    <2>3. record'.ended = "running" /\ Recorded' = {} /\ record'.dry = (mode = "dry")
        BY <1>7 DEF StartCleanup, NoRecord, Recorded
    <2> QED
        BY <1>7, <2>2, <2>3, AgentIsGone DEF StartCleanup, BatchTypeOK, platform, Working
<1>8. CASE Withdraw
    <2>1. esc' \in Seq(Escalation)
        BY <1>8, StatusChanged DEF Withdraw, BatchTypeOK
    <2> QED
        BY <1>8, <2>1 DEF Withdraw, BatchTypeOK, agent, Recorded
<1>9. CASE \E e \in DOMAIN esc : Inspect(e)
    BY <1>9 DEF Inspect, BatchTypeOK, platform, agent, Recorded
<1>10. CASE \E e \in DOMAIN esc : Reply(e)
    <2>1. esc' \in Seq(Escalation)
        BY <1>10, StatusChanged DEF Reply, BatchTypeOK
    <2> QED
        BY <1>10, <2>1 DEF Reply, BatchTypeOK, agent, undo, Recorded
<1>11. CASE HarnessKilled
    <2>1. /\ record'.ended = "running" /\ Recorded' = {} /\ record'.dry = (mode = "dry")
          /\ entry' \in Entry
        BY <1>11 DEF HarnessKilled, RunOver, NoRecord, Recorded, NoEntry, Entry
    <2> QED
        BY <1>11, <2>1, AgentIsGone DEF HarnessKilled, RunOver, BatchTypeOK, platform, Stopped
<1>12. CASE \E item \in Item : Move(item)
    BY <1>12 DEF Move, BatchTypeOK, agent, undo, Recorded
<1> QED
    BY <1>1, <1>2, <1>3, <1>4, <1>5, <1>6, <1>7, <1>8, <1>9, <1>10, <1>11, <1>12 DEF Next, Acting

-----------------------------------------------------------------------------
(* Never two open escalations with one subject                             *)

\* What a step does to the escalations.
LEMMA EscSteps ==
    ASSUME BatchTypeOK, [Next]_vars
    PROVE  \/ UNCHANGED esc
           \/ \E owner \in Owner : Raise(owner)
           \/ /\ UNCHANGED <<raising, manifest, mode, phase, before, after>>
              /\ \E e \in DOMAIN esc, status \in {"open", "acknowledged", "resolved", "withdrawn"} :
                    /\ esc' = [esc EXCEPT ![e].status = status]
                    /\ IsOpen(e) \/ status \notin OpenStatus
<1>1. CASE \/ Begin \/ Probe \/ StartAgent \/ ReadGate \/ ReadFeedback \/ Sweep \/ Swept
           \/ HarnessFails \/ EndRun \/ AgentKilled \/ StartCleanup \/ HarnessKilled \/ UNCHANGED vars
    BY <1>1 DEF Begin, Probe, StartAgent, ReadGate, ReadFeedback, Sweep, Swept, HarnessFails, EndRun,
                AgentKilled, StartCleanup, HarnessKilled, platform, vars
<1>2. CASE Acting \/ (\E e \in DOMAIN esc : Inspect(e)) \/ \E item \in Item : Move(item)
    BY <1>2, Acts DEF Inspect, Move, platform
<1>3. CASE Withdraw
    <2>1. PICK s \in seen : esc' = esc \/ (s.id \in DOMAIN esc /\ esc' = [esc EXCEPT ![s.id].status = "withdrawn"])
        <3>1. \A s \in seen : s.id \notin DOMAIN esc => [esc EXCEPT ![s.id].status = "withdrawn"] = esc
            BY DEF BatchTypeOK
        <3> QED
            BY <1>3, <3>1 DEF Withdraw
    <2> QED
        BY <1>3, <2>1 DEF Withdraw, agent, OpenStatus
<1>4. CASE \E e \in DOMAIN esc : Reply(e)
    BY <1>4 DEF Reply, agent
<1> QED
    BY <1>1, <1>2, <1>3, <1>4 DEF Next, Acting

\* Everything that may be listed for owner's subject does not fit on one page.
Overfull(owner) == Cardinality(Listed(owner, Len(esc))) > Page

\* The write node is about to file for an owner only while no escalation of
\* that subject is open or more is listed than it has seen.
OnceInv ==
    /\ \A owner \in raising : SameSubject(owner, DOMAIN esc) = {} \/ Overfull(owner)
    /\ FiledOnce

\* What was listed is as long as no escalation changes its owner.
LEMMA ListedStays ==
    ASSUME BatchTypeOK, NEW owner, NEW n \in 0..Len(esc),
           \A d \in DOMAIN esc : esc'[d].owner = esc[d].owner
    PROVE  {j \in 1..n : Filtered => esc'[j].owner = owner} = Listed(owner, n)
<1>1. \A e \in 1..n : e \in DOMAIN esc
    <2>1. Len(esc) \in Nat /\ DOMAIN esc = 1..Len(esc)
        BY DEF BatchTypeOK
    <2> QED
        BY <2>1
<1> QED
    BY <1>1 DEF Listed

LEMMA NextOnceInv ==
    ASSUME BatchTypeOK, OnceInv, [Next]_vars
    PROVE  OnceInv'
<1>1. CASE \E owner \in Owner : Raise(owner)
    <2>1. PICK owner \in Owner : Raise(owner)
        BY <1>1
    <2>2. CASE UNCHANGED esc
        BY <2>1, <2>2 DEF Raise, OnceInv, FiledOnce, Listed
    <2>3. CASE esc' = Append(esc, [owner |-> owner, status |-> "open", by |-> Run])
        <3>1. \A e \in DOMAIN esc : IsOpen(e) /\ esc[e].owner = owner => Overfull(owner)
            BY <2>1 DEF Raise, OnceInv, SameSubject
        <3>a. /\ DOMAIN esc = 1..Len(esc) /\ Len(esc) \in Nat /\ DOMAIN esc' = 1..(Len(esc) + 1)
              /\ \A d \in DOMAIN esc : esc'[d] = esc[d]
              /\ esc'[Len(esc) + 1].owner = owner
            BY <2>3, OneMore DEF BatchTypeOK
        <3>b. \A n \in 0..Len(esc) : {j \in 1..n : Filtered => esc'[j].owner = owner} = Listed(owner, n)
            BY <3>a, ListedStays
        <3>2. FiledOnce'
            <4> SUFFICES ASSUME NEW d \in DOMAIN esc', NEW e \in DOMAIN esc',
                                {esc'[d].status, esc'[e].status} \subseteq {"open", "acknowledged"},
                                esc'[d].owner = esc'[e].owner, d < e
                         PROVE  Cardinality({j \in 1..(e - 1) : Filtered => esc'[j].owner = esc'[e].owner}) > Page
                BY DEF FiledOnce, Listed
            <4>1. d \in DOMAIN esc /\ e - 1 \in 0..Len(esc)
                BY <3>a
            <4>2. CASE e \in DOMAIN esc
                <5>1. Cardinality(Listed(esc[e].owner, e - 1)) > Page
                    BY <3>a, <4>1, <4>2 DEF OnceInv, FiledOnce
                <5>2. esc'[e].owner = esc[e].owner
                    BY <3>a, <4>2
                <5>3. {j \in 1..(e - 1) : Filtered => esc'[j].owner = esc[e].owner} = Listed(esc[e].owner, e - 1)
                    BY <3>a, <4>1, ListedStays
                <5> QED
                    BY <5>1, <5>2, <5>3
            <4>3. CASE e = Len(esc) + 1
                <5>1. IsOpen(d) /\ esc[d].owner = owner
                    BY <3>a, <4>1, <4>3 DEF IsOpen, OpenStatus
                <5>2. Cardinality(Listed(owner, Len(esc))) > Page
                    BY <3>1, <4>1, <5>1 DEF Overfull
                <5>3. e - 1 = Len(esc) /\ esc'[e].owner = owner
                    BY <3>a, <4>3
                <5>4. {j \in 1..Len(esc) : Filtered => esc'[j].owner = owner} = Listed(owner, Len(esc))
                    BY <3>a, <3>b
                <5> QED
                    BY <5>2, <5>3, <5>4
            <4> QED
                BY <3>a, <4>2, <4>3
        <3> QED
            BY <2>1, <3>2 DEF Raise, OnceInv
    <2> QED
        BY <2>1, <2>2, <2>3 DEF Raise
<1>2. CASE /\ UNCHANGED raising
           /\ \E e \in DOMAIN esc, status \in {"open", "acknowledged", "resolved", "withdrawn"} :
                 /\ esc' = [esc EXCEPT ![e].status = status]
                 /\ IsOpen(e) \/ status \notin OpenStatus
    <2>1. PICK e \in DOMAIN esc, status \in {"open", "acknowledged", "resolved", "withdrawn"} :
            esc' = [esc EXCEPT ![e].status = status] /\ (IsOpen(e) \/ status \notin OpenStatus)
        BY <1>2
    <2>2. /\ DOMAIN esc' = DOMAIN esc
          /\ \A d \in DOMAIN esc : esc'[d].owner = esc[d].owner /\ (IsOpen(d)' => IsOpen(d))
        BY <2>1, StatusChanged DEF BatchTypeOK, IsOpen
    <2>a. /\ Len(esc') = Len(esc) /\ DOMAIN esc = 1..Len(esc) /\ Len(esc) \in Nat
          /\ \A o : \A n \in 0..Len(esc) :
                {j \in 1..n : Filtered => esc'[j].owner = o} = Listed(o, n)
        <3>1. Len(esc') = Len(esc) /\ DOMAIN esc = 1..Len(esc) /\ Len(esc) \in Nat
            BY <2>1 DEF BatchTypeOK
        <3> QED
            BY <2>2, <3>1, ListedStays
    <2>3. \A owner \in raising : SameSubject(owner, DOMAIN esc)' = {} \/ Overfull(owner)'
        <3> SUFFICES ASSUME NEW owner \in raising PROVE SameSubject(owner, DOMAIN esc)' = {} \/ Overfull(owner)'
            OBVIOUS
        <3>1. CASE SameSubject(owner, DOMAIN esc) = {}
            BY <2>2, <3>1 DEF SameSubject
        <3>2. CASE Overfull(owner)
            <4>1. {j \in 1..Len(esc') : Filtered => esc'[j].owner = owner} = Listed(owner, Len(esc))
                BY <2>a
            <4>2. Cardinality({j \in 1..Len(esc') : Filtered => esc'[j].owner = owner}) > Page
                BY <3>2, <4>1 DEF Overfull
            <4> QED
                BY <4>2 DEF Overfull, Listed
        <3> QED
            BY <3>1, <3>2 DEF OnceInv
    <2>4. FiledOnce'
        <3> SUFFICES ASSUME NEW d \in DOMAIN esc, NEW f \in DOMAIN esc,
                            {esc'[d].status, esc'[f].status} \subseteq {"open", "acknowledged"},
                            esc'[d].owner = esc'[f].owner, d < f
                     PROVE  Cardinality({j \in 1..(f - 1) : Filtered => esc'[j].owner = esc'[f].owner}) > Page
            BY <2>2 DEF FiledOnce, Listed
        <3>1. Cardinality(Listed(esc[f].owner, f - 1)) > Page
            BY <2>2 DEF OnceInv, FiledOnce, IsOpen, OpenStatus
        <3>2. f - 1 \in 0..Len(esc) /\ esc'[f].owner = esc[f].owner
            BY <2>2, <2>a
        <3>3. {j \in 1..(f - 1) : Filtered => esc'[j].owner = esc[f].owner} = Listed(esc[f].owner, f - 1)
            BY <2>a, <3>2
        <3> QED
            BY <3>1, <3>2, <3>3
    <2> QED
        BY <1>2, <2>3, <2>4 DEF OnceInv
<1>3. CASE UNCHANGED esc /\ ~(\E owner \in Owner : Raise(owner))
    <2>1. FiledOnce'
        BY <1>3 DEF OnceInv, FiledOnce, Listed
    <2>2. \/ raising' \subseteq raising
          \/ \A owner \in raising' : SameSubject(owner, DOMAIN esc) = {} \/ Overfull(owner)
        <3>1. CASE \/ Begin \/ Probe \/ StartAgent \/ ReadGate \/ ReadFeedback \/ Sweep \/ Swept
                   \/ HarnessFails \/ EndRun \/ AgentKilled \/ StartCleanup \/ HarnessKilled \/ UNCHANGED vars
            BY <3>1 DEF Begin, Probe, StartAgent, ReadGate, ReadFeedback, Sweep, Swept, HarnessFails, EndRun,
                        NextRun, RunOver, AgentGone, AgentKilled, StartCleanup, HarnessKilled, agent, vars
        <3>2. CASE CrossSeat \/ FindAssignee \/ Filed
            BY <3>2 DEF CrossSeat, FindAssignee, Filed, Conclude, AgentGone, agent
        <3>3. CASE \E owner \in Owner : Look(owner)
            <4>1. PICK owner \in Owner : Look(owner)
                BY <3>3
            <4>2. CASE raising' = {owner} /\ \E page \in Pages(owner) : SameSubject(owner, page) = {}
                <5>1. CASE Cardinality(Listed(owner, Len(esc))) <= Page
                    <6>1. SameSubject(owner, Listed(owner, Len(esc))) = {}
                        BY <4>2, <5>1 DEF Pages
                    <6>2. DOMAIN esc = 1..Len(esc)
                        BY DEF BatchTypeOK
                    <6> QED
                        BY <4>2, <6>1, <6>2 DEF SameSubject, Listed
                <5>2. CASE ~(Cardinality(Listed(owner, Len(esc))) <= Page)
                    <6>1. Cardinality(Listed(owner, Len(esc))) \in Nat /\ Page \in Nat
                        <7>1. IsFiniteSet(1..Len(esc))
                            BY FS_Interval DEF BatchTypeOK
                        <7>2. IsFiniteSet(Listed(owner, Len(esc)))
                            BY <7>1, FS_Subset DEF Listed
                        <7> QED
                            BY <7>2, FS_CardinalityType, BatchAssumption
                    <6> QED
                        BY <4>2, <5>2, <6>1 DEF Overfull
                <5> QED
                    BY <5>1, <5>2
            <4> QED
                BY <4>1, <4>2 DEF Look, Conclude, AgentGone
        <3>4. CASE Withdraw \/ (\E e \in DOMAIN esc : Inspect(e) \/ Reply(e)) \/ \E item \in Item : Move(item)
            BY <3>4 DEF Withdraw, Inspect, Reply, Move, agent
        <3> QED
            BY <1>3, <3>1, <3>2, <3>3, <3>4 DEF Next
    <2> QED
        BY <1>3, <2>1, <2>2 DEF OnceInv, SameSubject, IsOpen, Overfull, Listed
<1> QED
    BY <1>1, <1>2, <1>3, EscSteps

\* However often other teams answer escalations, and wherever calls fail or
\* processes die, no subject has two open escalations while what is listed for
\* it fits on the one page that is read: the write node has looked for one and
\* found none before it files (handoffs.py), and nothing else files.  Hence the
\* invariant ties raising to what is open and to what may be listed.
THEOREM SubjectsAreFiledOnce == Spec => []FiledOnce
<1>1. Init => BatchTypeOK /\ OnceInv
    <2>1. Init => OnceInv
        BY DEF Init, OnceInv, FiledOnce
    <2> QED
        BY <2>1, InitBatchTypeOK
<1>2. BatchTypeOK /\ OnceInv /\ [Next]_vars => (BatchTypeOK /\ OnceInv)'
    BY NextBatchTypeOK, NextOnceInv
<1>3. OnceInv => FiledOnce
    BY DEF OnceInv
<1> QED
    BY <1>1, <1>2, <1>3, PTL DEF Spec

-----------------------------------------------------------------------------
(* The ground truth files                                                  *)

Probed == {"gate", "rows", "esc"}
Prefixes == {{}, {"gate"}, {"gate", "rows"}, Probed}

\* How far each ground truth has come in each phase, and that nothing is
\* found or graded from one that is not there yet.
Files ==
    /\ DOMAIN before \in Prefixes /\ DOMAIN after \in Prefixes
    /\ phase \notin {"before", "agent", "file", "look", "after"} => DOMAIN before = {}
    /\ phase \in {"agent", "file", "look", "after"} => DOMAIN before = Probed
    /\ phase # "after" => DOMAIN after = {}

\* The probes come in their order, each once.
LEMMA ProbeKey ==
    ASSUME NEW truth, DOMAIN truth \in Prefixes
    PROVE  /\ Complete(truth) => DOMAIN truth = Probed
           /\ Cardinality(DOMAIN truth) < Len(ProbeOrder) =>
                LET key == ProbeOrder[Cardinality(DOMAIN truth) + 1]
                IN key \in Probed \ DOMAIN truth /\ DOMAIN truth \cup {key} \in Prefixes
<1>1. Cardinality({}) = 0 /\ IsFiniteSet({})
    BY FS_EmptySet
<1>2. Cardinality({"gate"}) = 1 /\ IsFiniteSet({"gate"})
    BY FS_Singleton
<1>3. Cardinality({"gate", "rows"}) = 2 /\ IsFiniteSet({"gate", "rows"})
    <2>1. {"gate"} \cup {"rows"} = {"gate", "rows"} /\ "rows" \notin {"gate"}
        OBVIOUS
    <2> QED
        BY <1>2, <2>1, FS_AddElement
<1>4. Cardinality(Probed) = 3
    <2>1. {"gate", "rows"} \cup {"esc"} = Probed /\ "esc" \notin {"gate", "rows"}
        BY DEF Probed
    <2> QED
        BY <1>3, <2>1, FS_AddElement
<1>5. Len(ProbeOrder) = 3 /\ ProbeOrder[1] = "gate" /\ ProbeOrder[2] = "rows" /\ ProbeOrder[3] = "esc"
    BY DEF ProbeOrder
<1> QED
    BY <1>1, <1>2, <1>3, <1>4, <1>5 DEF Prefixes, Probed, Complete

\* What a probe makes of a file: one entry more, what there is or that it failed.
Adds(old, new) ==
    /\ DOMAIN new \in Prefixes
    /\ \A k \in DOMAIN new : new[k] \in {Truth(k), Unread} \/ (k \in DOMAIN old /\ new[k] = old[k])

LEMMA ProbeAdds ==
    ASSUME Files, Probe
    PROVE  \/ phase = "before" /\ Adds(before, before') /\ after' = after
           \/ phase = "after" /\ Adds(after, after') /\ before' = before
<1> DEFINE truth == IF phase = "before" THEN before ELSE after
           key == ProbeOrder[Cardinality(DOMAIN truth) + 1]
<1>1. PICK value \in {Truth(key), Unread} :
        /\ phase \in {"before", "after"} /\ Cardinality(DOMAIN truth) < Len(ProbeOrder)
        /\ before' = IF phase = "before" THEN Observed(before, key, value) ELSE before
        /\ after' = IF phase = "after" THEN Observed(after, key, value) ELSE after
    BY DEF Probe
<1>2. DOMAIN truth \in Prefixes
    BY DEF Files
<1>3. DOMAIN truth \cup {key} \in Prefixes
    BY <1>1, <1>2, ProbeKey
<1> HIDE DEF key, truth
<1>4. Adds(truth, Observed(truth, key, value))
    BY <1>3 DEF Adds, Observed
<1>5. CASE phase = "before"
    BY <1>1, <1>4, <1>5 DEF truth
<1>6. CASE phase = "after"
    BY <1>1, <1>4, <1>6 DEF truth
<1> QED
    BY <1>1, <1>5, <1>6

LEMMA NextFiles ==
    ASSUME BatchTypeOK, Files, [Next]_vars
    PROVE  Files'
<1>0. DOMAIN NoTruth = {} /\ {} \in Prefixes
    BY DEF NoTruth, Prefixes
<1>1. CASE Probe
    <2>1. phase' = phase
        BY <1>1 DEF Probe
    <2>2. \/ phase = "before" /\ DOMAIN before' \in Prefixes /\ after' = after
          \/ phase = "after" /\ DOMAIN after' \in Prefixes /\ before' = before
        BY <1>1, ProbeAdds DEF Adds
    <2> QED
        BY <2>1, <2>2 DEF Files
<1>2. CASE StartAgent
    BY <1>2, ProbeKey DEF StartAgent, Files
<1>3. CASE Begin \/ ReadGate \/ ReadFeedback \/ AgentKilled
    BY <1>3 DEF Begin, ReadGate, ReadFeedback, AgentKilled, Files
<1>4. CASE HarnessFails \/ EndRun \/ StartCleanup \/ HarnessKilled
    BY <1>0, <1>4 DEF HarnessFails, EndRun, NextRun, StartCleanup, HarnessKilled, RunOver, Files
<1>5. CASE Acting
    <2>1. phase \in {"agent", "file", "look"}
        BY <1>5 DEF Acting, CrossSeat, FindAssignee, Filed, Look
    <2>2. phase' \in {"file", "look", "after"} /\ before' = before /\ after' = after
        BY <1>5, Acts, Concluded
    <2> QED
        BY <2>1, <2>2 DEF Files
<1>6. CASE Sweep \/ Swept \/ Withdraw \/ UNCHANGED vars
    BY <1>6 DEF Sweep, Swept, Withdraw, Files, vars
<1>7. CASE \/ \E owner \in Owner : Raise(owner)
           \/ \E e \in DOMAIN esc : Inspect(e) \/ Reply(e)
           \/ \E item \in Item : Move(item)
    BY <1>7 DEF Raise, Inspect, Reply, Move, Files
<1> QED
    BY <1>1, <1>2, <1>3, <1>4, <1>5, <1>6, <1>7 DEF Next, Acting

-----------------------------------------------------------------------------
(* Whose escalations there are                                             *)

\* Which escalations are the current run's: none before it may write, none of
\* those the ground truth before it lists, all of those in the one after it.
WhoseInv ==
    /\ \A e \in DOMAIN esc : esc[e].by <= Run
    /\ phase \in {"begin", "before", "agent", "file"} => Ours(Run) = {}
    /\ mode = "dry" => esc = <<>> /\ phase \notin {"file", "look"}
    /\ raising # {} => phase = "look"
    /\ "esc" \in DOMAIN before => Ids(before.esc) \subseteq DOMAIN esc \ Ours(Run)
    /\ "esc" \in DOMAIN after /\ after.esc # Unread => Ours(Run) \subseteq Ids(after.esc)

\* What the run has filed grows only while it files.
LEMMA OursGrow ==
    ASSUME BatchTypeOK, WhoseInv, [Next]_vars, UNCHANGED manifest
    PROVE  /\ DOMAIN esc \subseteq DOMAIN esc' /\ Ours(Run)' \cap DOMAIN esc = Ours(Run)
           /\ Ours(Run)' = Ours(Run) \/ (phase = "look" /\ phase' = phase /\ before' = before)
           /\ \A e \in DOMAIN esc' : esc'[e].by <= Run
           /\ \A i \in Nat : i < Run => Ours(i)' = Ours(i)
           /\ (esc = <<>> /\ esc' # <<>>) => mode # "dry"
<1>0. Run' = Run /\ Run \in Nat
    BY DEF Run, BatchTypeOK
<1>1. CASE UNCHANGED esc
    BY <1>0, <1>1 DEF Ours, WhoseInv
<1>2. CASE \E owner \in Owner : Raise(owner)
    <2>1. PICK owner \in Owner : Raise(owner)
        BY <1>2
    <2>2. CASE UNCHANGED esc
        BY <1>1, <2>2
    <2>3. CASE esc' = Append(esc, [owner |-> owner, status |-> "open", by |-> Run])
        <3>1. \A i \in Nat : Ours(i)' = Ours(i) \/ i = Run
            BY <2>3, OneMore DEF Ours
        <3>2. Ours(Run)' \cap DOMAIN esc = Ours(Run)
            BY <1>0, <2>3, OneMore DEF Ours
        <3>3. phase = "look" /\ phase' = phase /\ before' = before /\ mode # "dry"
            BY <2>1 DEF Raise, WhoseInv
        <3> QED
            BY <1>0, <2>3, <3>1, <3>2, <3>3, OneMore DEF WhoseInv
    <2> QED
        BY <2>1, <2>2, <2>3 DEF Raise
<1>3. CASE \E e \in DOMAIN esc, status \in {"open", "acknowledged", "resolved", "withdrawn"} :
             esc' = [esc EXCEPT ![e].status = status]
    <2>1. DOMAIN esc' = DOMAIN esc /\ \A d \in DOMAIN esc : esc'[d].by = esc[d].by
        BY <1>3, StatusChanged DEF BatchTypeOK
    <2>2. esc = <<>> => DOMAIN esc = {}
        OBVIOUS
    <2> QED
        BY <1>0, <1>3, <2>1, <2>2 DEF Ours, WhoseInv
<1> QED
    BY <1>1, <1>2, <1>3, EscSteps

\* What a step does to the phase and the files, unless the run ends.
LEMMA PhaseSteps ==
    ASSUME BatchTypeOK, WhoseInv, [Next]_vars, ~HarnessFails, ~EndRun
    PROVE  /\ UNCHANGED <<manifest, mode>>
           /\ phase' \in {"begin", "before", "agent", "file"} => phase \in {"begin", "before", "agent", "file"}
           /\ phase' \in {"file", "look"} => mode # "dry"
           /\ raising' # {} => phase' = "look"
           /\ Probe \/ UNCHANGED <<before, after>> \/ (before' = NoTruth /\ after' = NoTruth)
<1>1. CASE Begin \/ Probe \/ StartAgent \/ ReadGate \/ ReadFeedback \/ AgentKilled \/ UNCHANGED vars
    BY <1>1 DEF Begin, Probe, StartAgent, ReadGate, ReadFeedback, AgentKilled, AgentGone, WhoseInv, agent, undo, vars
<1>2. CASE StartCleanup \/ HarnessKilled \/ Sweep \/ Swept \/ Withdraw
    BY <1>2 DEF StartCleanup, HarnessKilled, RunOver, AgentGone, Sweep, Swept, Withdraw, WhoseInv, agent, undo
<1>3. CASE CrossSeat \/ FindAssignee \/ Filed
    BY <1>3 DEF CrossSeat, FindAssignee, Filed, Conclude, AgentGone, WhoseInv, agent, undo
<1>4. CASE \E owner \in Owner : Look(owner) \/ Raise(owner)
    BY <1>4 DEF Look, Raise, Conclude, AgentGone, WhoseInv, undo
<1>5. CASE (\E e \in DOMAIN esc : Inspect(e) \/ Reply(e)) \/ \E item \in Item : Move(item)
    BY <1>5 DEF Inspect, Reply, Move, WhoseInv, agent, undo
<1> QED
    BY <1>1, <1>2, <1>3, <1>4, <1>5 DEF Next

\* One more run is in the manifest.
LEMMA RunEnds ==
    ASSUME BatchTypeOK, HarnessFails \/ EndRun
    PROVE  /\ \E ended \in Entry :
                /\ manifest' = Append(manifest, ended) /\ NextRun(ended)
                /\ ended = IF phase = "undo" THEN [entry EXCEPT !.cleanup = CleanupOutcome] ELSE HarnessError
           /\ manifest' \in Seq(Entry) /\ DOMAIN manifest' = DOMAIN manifest \cup {Run}
           /\ \A i \in DOMAIN manifest : manifest'[i] = manifest[i] /\ i < Run
           /\ Run \in Nat /\ Len(manifest') = Run /\ Run' = Run + 1
           /\ phase' = IF Run = Repeat THEN "finished" ELSE "begin"
           /\ UNCHANGED platform /\ mode' = mode
           /\ raising' = {} /\ before' = NoTruth /\ after' = NoTruth
<1>1. HarnessError \in Entry /\ [entry EXCEPT !.cleanup = CleanupOutcome] \in Entry
    BY DEF HarnessError, NoEntry, Entry, BatchTypeOK, CleanupOutcome
<1>2. PICK ended \in Entry : /\ NextRun(ended)
                            /\ ended = IF phase = "undo" THEN [entry EXCEPT !.cleanup = CleanupOutcome] ELSE HarnessError
    BY <1>1 DEF HarnessFails, EndRun
<1>3. manifest' = Append(manifest, ended) /\ manifest \in Seq(Entry)
    BY <1>2 DEF NextRun, BatchTypeOK
<1>4. /\ manifest' \in Seq(Entry) /\ Len(manifest) \in Nat /\ Len(manifest') = Len(manifest) + 1
      /\ DOMAIN manifest = 1..Len(manifest) /\ DOMAIN manifest' = 1..Len(manifest')
      /\ \A i \in DOMAIN manifest : manifest'[i] = manifest[i]
    BY <1>3
<1>5. UNCHANGED platform /\ mode' = mode
    BY DEF HarnessFails, EndRun, platform
<1> QED
    BY <1>2, <1>3, <1>4, <1>5 DEF NextRun, RunOver, AgentGone, Run

LEMMA NextWhoseInv ==
    ASSUME BatchTypeOK, Files, WhoseInv, [Next]_vars
    PROVE  WhoseInv'
<1>0. DOMAIN NoTruth = {}
    BY DEF NoTruth
<1>1. CASE HarnessFails \/ EndRun
    <2>1. esc' = esc /\ DOMAIN esc' = DOMAIN esc
        BY <1>1, RunEnds DEF platform
    <2>2. /\ Run \in Nat /\ Run' = Run + 1 /\ phase' \in {"finished", "begin"} /\ mode' = mode
          /\ raising' = {} /\ DOMAIN before' = {} /\ DOMAIN after' = {}
        BY <1>0, <1>1, RunEnds
    <2>3. \A e \in DOMAIN esc : esc[e].by \in Nat
        <3>1. \A e \in DOMAIN esc : esc[e] \in Escalation
            BY DEF BatchTypeOK
        <3> QED
            BY <3>1 DEF Escalation
    <2>4. \A e \in DOMAIN esc' : esc'[e].by <= Run' /\ esc'[e].by # Run'
        BY <2>1, <2>2, <2>3 DEF WhoseInv
    <2>5. Ours(Run)' = {}
        BY <2>4 DEF Ours
    <2> QED
        BY <2>1, <2>2, <2>4, <2>5 DEF WhoseInv
<1>2. CASE ~HarnessFails /\ ~EndRun
    <2>1. manifest' = manifest /\ mode' = mode /\ Run' = Run
        BY <1>2, PhaseSteps DEF Run
    <2>2. \A e \in DOMAIN esc' : esc'[e].by <= Run'
        BY <2>1, OursGrow
    <2>3. phase' \in {"begin", "before", "agent", "file"} => Ours(Run)' = {}
        BY <1>2, <2>1, OursGrow, PhaseSteps DEF WhoseInv
    <2>4. mode' = "dry" => esc' = <<>> /\ phase' \notin {"file", "look"}
        BY <1>2, <2>1, OursGrow, PhaseSteps DEF WhoseInv
    <2>5. "esc" \in DOMAIN before' => Ids(before'.esc) \subseteq DOMAIN esc' \ Ours(Run)'
        <3>1. CASE before' = before
            BY <2>1, <3>1, OursGrow DEF WhoseInv
        <3>2. CASE Probe /\ before' # before
            <4>1. phase = "before" /\ Adds(before, before')
                BY <3>2, ProbeAdds
            <4>2. esc' = esc /\ Ours(Run)' = {} /\ Ours(Run) = {}
                BY <2>1, <3>2, <4>1 DEF Probe, platform, WhoseInv, Ours
            <4>3. "esc" \in DOMAIN before' =>
                    before'.esc \in {esc, Unread} \/ ("esc" \in DOMAIN before /\ before'.esc = before.esc)
                BY <4>1 DEF Adds, Truth
            <4> QED
                BY <4>2, <4>3 DEF WhoseInv, Ids
        <3>3. CASE before' = NoTruth
            BY <1>0, <3>3
        <3> QED
            BY <1>2, <3>1, <3>2, <3>3, PhaseSteps
    <2>6. "esc" \in DOMAIN after' /\ after'.esc # Unread => Ours(Run)' \subseteq Ids(after'.esc)
        <3>1. CASE after' = after
            BY <2>1, <3>1, OursGrow DEF WhoseInv, Files
        <3>2. CASE Probe /\ after' # after
            <4>1. phase = "after" /\ Adds(after, after')
                BY <3>2, ProbeAdds
            <4>2. esc' = esc /\ Ours(Run)' = Ours(Run) /\ Ours(Run) \subseteq DOMAIN esc
                BY <2>1, <3>2, <4>1 DEF Probe, platform, Ours
            <4>3. "esc" \in DOMAIN after' =>
                    after'.esc \in {esc, Unread} \/ ("esc" \in DOMAIN after /\ after'.esc = after.esc)
                BY <4>1 DEF Adds, Truth
            <4> QED
                BY <4>2, <4>3 DEF WhoseInv, Ids
        <3>3. CASE after' = NoTruth
            BY <1>0, <3>3
        <3> QED
            BY <1>2, <3>1, <3>2, <3>3, PhaseSteps
    <2> QED
        BY <1>2, <2>2, <2>3, <2>4, <2>5, <2>6, PhaseSteps DEF WhoseInv
<1> QED
    BY <1>1, <1>2

-----------------------------------------------------------------------------
(* What a passed run has left                                              *)

LEMMA StatusIn ==
    ASSUME NEW checks, NEW i \in DOMAIN checks, NEW n \in DOMAIN checks[i]
    PROVE  checks[i][n] \in Statuses(checks)
    BY DEF Statuses

\* A run is graded "pass" only if it ended and its record names what it filed.
LEMMA PassMeans ==
    ASSUME BatchTypeOK, Files, WhoseInv, phase = "after", Complete(after),
           OverallStatus(Statuses(Checks)) = "pass"
    PROVE  record.ended = "done" /\ Ours(Run) \subseteq Recorded
<1> DEFINE want == Expected(after)
           h == record.finding.handoffs
           builtin == BuiltinChecks(record, before, after)
           filed == HandoffChecks(record, before, after, assignable)
<1>1. Statuses(Checks) \cap {"fail", "error"} = {}
    BY DEF OverallStatus
<1>2. DOMAIN Checks = 1..4 /\ Checks[1] = builtin /\ Checks[3] = filed
    BY DEF Checks, CheckRun
<1>3. record.ended = "done"
    <2>1. "completed" \in DOMAIN builtin /\ builtin["completed"] = PassOrFail(record.ended = "done")
        BY DEF BuiltinChecks
    <2>2. builtin["completed"] \in Statuses(Checks)
        BY <1>2, <2>1, StatusIn
    <2> QED
        BY <1>1, <2>1, <2>2 DEF PassOrFail
<1>4. \A n \in DOMAIN filed : filed[n] \notin {"fail", "error"}
    <2>1. \A n \in DOMAIN filed : filed[n] \in Statuses(Checks)
        BY <1>2, StatusIn
    <2> QED
        BY <1>1, <2>1
<1>5. want # Unread /\ h.outcome = "answered"
    BY <1>4 DEF HandoffChecks
<1> HIDE DEF builtin
<1>6. IF record.dry THEN TRUE ELSE FilingMatchesPlatform(h, DOMAIN h.proposed, before, after, assignable)
    <2> DEFINE filing1 == PassOrFail(IF record.dry THEN PreviewedOnly(h, DOMAIN h.proposed, before, after)
                    ELSE FilingMatchesPlatform(h, DOMAIN h.proposed, before, after, assignable))
    <2>1. "filing" \in DOMAIN filed /\ filed["filing"] = filing1
        BY <1>3, <1>5 DEF HandoffChecks
    <2>2. filing1 # "fail"
        BY <1>4, <2>1
    <2> QED
        BY <2>2 DEF PassOrFail
<1>7. Ours(Run) \subseteq h.escalations
    <2>1. CASE mode = "dry"
        BY <2>1 DEF WhoseInv, Ours
    <2>2. CASE mode # "dry"
        <3>1. after.esc # Unread /\ (New(before, after) = {} \/ New(before, after) \subseteq h.escalations)
            BY <1>6, <2>2 DEF BatchTypeOK, FilingMatchesPlatform
        <3>2. "esc" \in DOMAIN before /\ "esc" \in DOMAIN after
            BY ProbeKey DEF Files, Probed
        <3>3. Ours(Run) \subseteq New(before, after)
            BY <3>1, <3>2 DEF WhoseInv, New
        <3> QED
            BY <3>1, <3>3
    <2> QED
        BY <2>1, <2>2
<1> QED
    BY <1>3, <1>7 DEF Recorded

\* A clean-up that has gone well so far has closed what it is done with.
Clearing ==
    mode = "write" /\ report = "done" => \A e \in Ours(Run) : e \in targets \/ ~IsOpen(e)

\* Nothing of a run is open any more.
Gone(i) == \A e \in Ours(i) : ~IsOpen(e)

\* What a pass in the manifest, or one about to be written there, stands for.
ScoreInv ==
    /\ phase = "undo" =>
         /\ entry.status = "ran"
         /\ entry.score = "pass" => entry.ended = "done" /\ Ours(Run) \subseteq entry.recorded /\ Clearing
    /\ \A i \in DOMAIN manifest : manifest[i].score = "pass" =>
         /\ manifest[i].status = "ran" /\ manifest[i].ended = "done"
         /\ Ours(i) \subseteq manifest[i].recorded
         /\ manifest[i].cleanup = "done" => Gone(i)
    /\ Len(manifest) <= Repeat
    /\ phase \in Working => Len(manifest) < Repeat

\* What is closed stays closed.
LEMMA ClosedStays ==
    ASSUME BatchTypeOK, [Next]_vars
    PROVE  \A e \in DOMAIN esc : e \in DOMAIN esc' /\ (~IsOpen(e) => ~IsOpen(e)')
<1>1. CASE \E owner \in Owner : Raise(owner)
    <2>1. CASE UNCHANGED esc
        BY <2>1 DEF IsOpen
    <2>2. CASE \E owner \in Owner : esc' = Append(esc, [owner |-> owner, status |-> "open", by |-> Run])
        BY <2>2, OneMore DEF IsOpen
    <2> QED
        BY <1>1, <2>1, <2>2 DEF Raise
<1>2. CASE \E e \in DOMAIN esc, status \in {"open", "acknowledged", "resolved", "withdrawn"} :
             esc' = [esc EXCEPT ![e].status = status] /\ (IsOpen(e) \/ status \notin OpenStatus)
    BY <1>2, StatusChanged DEF BatchTypeOK, IsOpen
<1>3. CASE UNCHANGED esc
    BY <1>3 DEF IsOpen
<1> QED
    BY <1>1, <1>2, <1>3, EscSteps

\* The clean-up takes an escalation from its targets when it is closed, or
\* reports an error.
LEMMA ClearingKept ==
    ASSUME BatchTypeOK, WhoseInv, phase = "undo", phase' = "undo", [Next]_vars, Clearing
    PROVE  Clearing'
<1>0. Withdraw \/ (\E e \in DOMAIN esc : Inspect(e) \/ Reply(e)) \/ UNCHANGED vars
    BY DEF Next, Begin, HarnessFails, Probe, StartAgent, ReadGate, ReadFeedback, CrossSeat, FindAssignee,
           Filed, AgentKilled, Look, Raise, StartCleanup, EndRun, NextRun, Sweep, Swept,
           HarnessKilled, Move, WhoseInv
<1>1. UNCHANGED <<manifest, mode>> /\ Run' = Run
    BY <1>0 DEF vars, Withdraw, Inspect, Reply, Run
<1>2. Ours(Run)' = Ours(Run) /\ Ours(Run) \subseteq DOMAIN esc
    BY <1>1, OursGrow DEF Ours
<1>3. report' = "done" => report = "done" /\ \A e \in Ours(Run) : e \in targets => e \in targets' \/ ~IsOpen(e)'
    <2>1. CASE Withdraw
        <3>1. PICK s \in seen :
                /\ targets' = targets \ {s.id}
                /\ \/ esc' = [esc EXCEPT ![s.id].status = "withdrawn"] /\ report' = report
                   \/ report' = "error"
            BY <2>1 DEF Withdraw
        <3>2. CASE report' = "error"
            BY <3>2
        <3>3. CASE esc' = [esc EXCEPT ![s.id].status = "withdrawn"] /\ report' = report
            <4>1. ASSUME NEW e \in DOMAIN esc, e = s.id PROVE ~IsOpen(e)'
                <5>1. esc[e] \in Escalation
                    BY DEF BatchTypeOK
                <5>2. esc'[e] = [esc[e] EXCEPT !.status = "withdrawn"]
                    BY <3>3, <4>1
                <5>3. esc'[e].status = "withdrawn"
                    BY <5>1, <5>2 DEF Escalation
                <5> QED
                    BY <5>3 DEF IsOpen, OpenStatus
            <4>2. \A e \in targets : e # s.id => e \in targets'
                BY <3>1
            <4> QED
                BY <1>2, <3>3, <4>1, <4>2
        <3> QED
            BY <3>1, <3>2, <3>3
    <2>2. CASE \E e \in DOMAIN esc : Inspect(e)
        BY <2>2 DEF Inspect, platform, IsOpen
    <2>3. CASE (\E e \in DOMAIN esc : Reply(e)) \/ UNCHANGED vars
        BY <2>3 DEF Reply, undo, vars
    <2> QED
        BY <1>0, <2>1, <2>2, <2>3
<1> QED
    BY <1>1, <1>2, <1>3, ClosedStays DEF Clearing

LEMMA NextScoreInv ==
    ASSUME BatchTypeOK, Files, WhoseInv, ScoreInv, [Next]_vars
    PROVE  ScoreInv'
<1>1. CASE HarnessFails \/ EndRun
    <2>1. PICK ended \in Entry :
            /\ manifest' = Append(manifest, ended)
            /\ ended = IF phase = "undo" THEN [entry EXCEPT !.cleanup = CleanupOutcome] ELSE HarnessError
        BY <1>1, RunEnds
    <2>2. /\ DOMAIN manifest' = DOMAIN manifest \cup {Run} /\ esc' = esc
          /\ \A i \in DOMAIN manifest : manifest'[i] = manifest[i] /\ i < Run
          /\ Run \in Nat /\ Len(manifest') = Run /\ phase' = IF Run = Repeat THEN "finished" ELSE "begin"
        BY <1>1, RunEnds DEF platform
    <2>3. manifest'[Run] = ended
        BY <2>1 DEF Run, BatchTypeOK
    <2>4. phase \in Working
        BY <1>1 DEF HarnessFails, EndRun, Working
    <2>5. \A i \in DOMAIN manifest' : Ours(i)' = Ours(i) /\ (Gone(i)' <=> Gone(i))
        BY <2>2 DEF Ours, Gone, IsOpen
    <2>6. ended.score = "pass" =>
            /\ ended.status = "ran" /\ ended.ended = "done"
            /\ Ours(Run) \subseteq ended.recorded
            /\ ended.cleanup = "done" => Gone(Run)
        <3>1. CASE phase = "undo"
            <4>1. /\ ended.score = entry.score /\ ended.status = entry.status /\ ended.ended = entry.ended
                  /\ ended.recorded = entry.recorded /\ ended.cleanup = CleanupOutcome
                BY <2>1, <3>1 DEF BatchTypeOK, Entry
            <4>2. EndRun
                BY <1>1, <3>1 DEF HarnessFails
            <4>3. CleanupOutcome = "done" => mode = "write" /\ report = "done"
                BY DEF CleanupOutcome
            <4> QED
                BY <3>1, <4>1, <4>2, <4>3 DEF ScoreInv, Clearing, Gone, EndRun
        <3>2. CASE phase # "undo"
            BY <2>1, <3>2 DEF HarnessError, NoEntry
        <3> QED
            BY <3>1, <3>2
    <2>7. Len(manifest') <= Repeat /\ (phase' \in Working => Len(manifest') < Repeat)
        BY <2>2, <2>4, BatchAssumption DEF ScoreInv, Run, Working, BatchTypeOK
    <2> QED
        BY <2>2, <2>3, <2>5, <2>6, <2>7 DEF ScoreInv
<1>2. CASE ~HarnessFails /\ ~EndRun
    <2>1. manifest' = manifest /\ mode' = mode /\ Run' = Run
        BY <1>2, PhaseSteps DEF Run
    <2>2. \A i \in DOMAIN manifest : Ours(i)' = Ours(i)
        <3>1. \A i \in DOMAIN manifest : i \in Nat /\ i < Run
            BY DEF BatchTypeOK, Run
        <3> QED
            BY <2>1, <3>1, OursGrow
    <2>3. \A i \in DOMAIN manifest : Gone(i) => Gone(i)'
        BY <2>2, ClosedStays DEF Gone, Ours
    <2>4. phase' \in Working => phase \in Working
        BY <1>2 DEF Next, vars, Begin, Probe, StartAgent, ReadGate, ReadFeedback, CrossSeat, FindAssignee, Filed,
           AgentKilled, Look, Raise, StartCleanup, Withdraw, Inspect, Reply, Sweep, Swept, HarnessKilled, Move,
           Conclude, Working
    <2>5. phase' = "undo" =>
            /\ entry'.status = "ran"
            /\ entry'.score = "pass" => entry'.ended = "done" /\ Ours(Run)' \subseteq entry'.recorded /\ Clearing'
        <3>1. CASE StartCleanup
            <4>1. /\ phase = "after" /\ Complete(after) /\ esc' = esc /\ report' = report
                  /\ targets' = IF mode = "write" THEN Recorded ELSE {}
                  /\ entry'.status = "ran" /\ entry'.ended = record.ended /\ entry'.recorded = Recorded
                  /\ entry'.score = OverallStatus(Statuses(Checks))
                BY <3>1 DEF StartCleanup, platform
            <4>2. Ours(Run)' = Ours(Run)
                BY <2>1, <4>1 DEF Ours
            <4>3. entry'.score = "pass" => record.ended = "done" /\ Ours(Run) \subseteq Recorded
                BY <4>1, PassMeans
            <4> QED
                BY <2>1, <4>1, <4>2, <4>3 DEF Clearing
        <3>2. CASE ~StartCleanup /\ phase' = "undo"
            <4>1. phase = "undo" /\ entry' = entry
                BY <1>2, <3>2 DEF Next, vars, Begin, Probe, StartAgent, ReadGate, ReadFeedback, CrossSeat,
                   FindAssignee, Filed, AgentKilled, Look, Raise, Withdraw, Inspect, Reply,
                   Sweep, Swept, HarnessKilled, Move, Conclude, undo
            <4>2. Ours(Run)' = Ours(Run)
                BY <2>1, <4>1, OursGrow
            <4> QED
                BY <3>2, <4>1, <4>2, ClearingKept DEF ScoreInv
        <3> QED
            BY <3>1, <3>2
    <2> QED
        BY <2>1, <2>2, <2>3, <2>4, <2>5 DEF ScoreInv
<1> QED
    BY <1>1, <1>2

BatchInv == BatchTypeOK /\ Files /\ WhoseInv /\ ScoreInv

LEMMA BatchInvHolds == Spec => []BatchInv
<1>1. Init => BatchInv
    <2> SUFFICES ASSUME Init PROVE BatchInv
        OBVIOUS
    <2>1. DOMAIN before = {} /\ DOMAIN after = {} /\ phase = "begin"
        BY DEF Init, NoTruth
    <2>2. Files
        BY <2>1 DEF Files, Prefixes
    <2>3. WhoseInv
        BY <2>1 DEF WhoseInv, Init, Ours
    <2>4. ScoreInv
        BY <2>1, BatchAssumption DEF ScoreInv, Init
    <2> QED
        BY <2>2, <2>3, <2>4, InitBatchTypeOK DEF BatchInv
<1>2. BatchInv /\ [Next]_vars => BatchInv'
    BY NextBatchTypeOK, NextFiles, NextWhoseInv, NextScoreInv DEF BatchInv
<1> QED
    BY <1>1, <1>2, PTL DEF Spec

\* The record of a run that is graded as passed names every escalation the run
\* filed, and when its clean-up reports done none of them is open: grading
\* fails a run with an unrecorded one, and the clean-up deals with all that
\* the record names (batch.py, grade.py, cleanup.py).
THEOREM PassedLeaveNothing == Spec => []PassedRunsLeaveNothing
<1>1. BatchInv => PassedRunsLeaveNothing
    BY DEF BatchInv, ScoreInv, PassedRunsLeaveNothing, Scores, Gone
<1> QED
    BY <1>1, BatchInvHolds, PTL

\* When every run of a finished batch passed, there are Repeat of them and
\* each ran to its end (run_batch, grade.py).
THEOREM PassedRanInFull == Spec => []PassingTasksRanInFull
<1>1. BatchInv => PassingTasksRanInFull
    <2> SUFFICES ASSUME BatchInv, TaskPasses(Scores, Repeat)
                 PROVE  /\ Len(manifest) = Repeat
                        /\ \A i \in DOMAIN manifest : manifest[i].status = "ran" /\ manifest[i].ended = "done"
        BY DEF PassingTasksRanInFull
    <2>1. manifest \in Seq(Entry) /\ DOMAIN Scores = DOMAIN manifest /\ Len(Scores) = Len(manifest)
        BY DEF BatchInv, BatchTypeOK, Scores
    <2>2. Len(manifest) \in Nat /\ Len(manifest) >= Repeat /\ Len(manifest) <= Repeat
        BY <2>1 DEF TaskPasses, BatchInv, ScoreInv
    <2>3. \A i \in DOMAIN manifest : manifest[i].score = "pass"
        BY <2>1 DEF TaskPasses, Scores
    <2> QED
        BY <2>2, <2>3, BatchAssumption DEF BatchInv, ScoreInv
<1> QED
    BY <1>1, BatchInvHolds, PTL

-----------------------------------------------------------------------------
(* Data that moves under a run                                             *)

GateOf(items) == items \cap Critical

\* What a file says comes from one of the given states of the items.
From(truth, Sets) ==
    /\ "gate" \in DOMAIN truth => truth.gate \in {Unread} \cup {GateOf(S) : S \in Sets}
    /\ "rows" \in DOMAIN truth => truth.rows \in {Unread} \cup Sets

\* What a finding says of the release gate when it read the blockers of S.
Judged(finding, S) == finding.gate = (GateOf(S) = {}) /\ finding.blockers = GateOf(S)

\* So does what the agent has read, and what a run whose reads went well found.
ReadFrom(Sets) ==
    /\ "gate" \in DOMAIN read => read.gate \in {Unread} \cup {GateOf(S) : S \in Sets}
    /\ "rows" \in DOMAIN read => read.cut \/ read.rows \in {Unread} \cup Sets

FoundFrom(Sets) ==
    ReadsWentWell =>
        /\ \E S \in Sets : Judged(record.finding, S)
        /\ \E S \in Sets : record.finding.handoffs.proposed = ProposeHandoffs(S)
        /\ record.answer \in Answers(record.finding)

\* One item was opened or closed, or none.
OneApart(S, T) == \/ S = T
                  \/ \E i \in Item : S = T \cup {i} \/ T = S \cup {i}

\* The items were S before they changed: during the probes before the run,
\* during the run, or during the probes after it.
MovedFrom(S) ==
    /\ moved = 0 => S = openItems
    /\ OneApart(S, openItems)
    /\ \/ /\ From(before, {S, openItems}) /\ From(after, {openItems})
          /\ ReadFrom({openItems}) /\ FoundFrom({openItems})
       \/ /\ From(before, {S}) /\ From(after, {openItems})
          /\ ReadFrom({S, openItems}) /\ FoundFrom({S, openItems})
       \/ /\ From(before, {S}) /\ From(after, {S, openItems})
          /\ ReadFrom({S}) /\ FoundFrom({S})

\* What the agent has read in each phase.
Reading ==
    /\ moved \in Nat
    /\ phase \notin {"agent", "file", "look"} => DOMAIN read = {}
    /\ phase \in {"file", "look"} => {"gate", "rows"} \subseteq DOMAIN read
    /\ "rows" \in DOMAIN read => "cut" \in DOMAIN read
    /\ phase # "after" => record.ended = "running"

TimeInv == Reading /\ (moved <= 1 => \E S \in SUBSET Item : MovedFrom(S))

\* Lists read in two states that are one item apart give one of the two.
LEMMA OneOfThem ==
    ASSUME NEW S \in SUBSET Item, NEW T \in SUBSET Item, OneApart(S, T),
           NEW A \in {S, T}, NEW B \in {S, T}
    PROVE  /\ GateOf(A) \cup B \in {S, T}
           /\ A = B => GateOf(A) \cup B = A
    BY DEF GateOf, OneApart

\* What is read is what is found.
LEMMA FindsWhatItRead ==
    ASSUME NEW S \in SUBSET Item, NEW T \in SUBSET Item, OneApart(S, T), ReadFrom({S, T}),
           {"gate", "rows"} \subseteq DOMAIN read, NEW result \in Filing, Conclude(result)
    PROVE  FoundFrom({S, T})'
<1> SUFFICES ASSUME ReadsWentWell'
             PROVE  /\ \E R \in {S, T} : Judged(record'.finding, R)
                    /\ \E R \in {S, T} : record'.finding.handoffs.proposed = ProposeHandoffs(R)
                    /\ record'.answer \in Answers(record'.finding)
    BY DEF FoundFrom
<1> DEFINE f == Finding(read, result, mode = "dry")
<1>1. record'.finding = f /\ record'.answer \in Answers(f)
    BY Concluded
<1>2. /\ f.handoffs = HandoffSection(read, result, mode = "dry")
      /\ f.gate = Ready(read.gate) /\ f.blockers = Known(read.gate)
    BY DEF Finding
<1>3. f.handoffs.outcome = "answered" /\ f.handoffs.unavailable = {}
    BY <1>1 DEF ReadsWentWell
<1>4. ~read.cut
    BY <1>2, <1>3 DEF HandoffSection
<1>5. /\ f.handoffs.proposed = ProposeHandoffs(OpenSeriousItems(read.gate, read.rows))
      /\ f.handoffs.unavailable = {source \in {"gate", "rows"} : read[source] = Unread}
    BY <1>2, <1>4 DEF HandoffSection
<1>6. read.gate # Unread /\ read.rows # Unread
    BY <1>3, <1>5
<1>7. PICK A \in {S, T}, B \in {S, T} : read.gate = GateOf(A) /\ read.rows = B
    BY <1>4, <1>6 DEF ReadFrom
<1>8. OpenSeriousItems(read.gate, read.rows) \in {S, T}
    BY <1>6, <1>7, OneOfThem DEF OpenSeriousItems, Known
<1>9. Judged(f, A)
    BY <1>2, <1>6, <1>7 DEF Judged, Ready, Known
<1> QED
    BY <1>1, <1>5, <1>7, <1>8, <1>9

\* At the start of a run, and after its end, nothing has been read.
LEMMA Untouched ==
    ASSUME (openItems \subseteq Item)', DOMAIN before' = {}, DOMAIN after' = {}, DOMAIN read' = {},
           record'.ended = "running", moved' = 0, phase' # "file", phase' # "look"
    PROVE  TimeInv'
<1>1. PICK S \in SUBSET Item : S = openItems'
    OBVIOUS
<1>2. MovedFrom(S)'
    BY <1>1 DEF MovedFrom, OneApart, From, ReadFrom, FoundFrom, ReadsWentWell
<1> QED
    BY <1>2 DEF TimeInv, Reading

\* The items move: for the first time, or it does not matter.
LEMMA MoveKeeps ==
    ASSUME BatchTypeOK, Files, TimeInv, NEW item \in Item, Move(item)
    PROVE  TimeInv'
<1>1. /\ phase' = phase /\ UNCHANGED <<before, after, read, record>> /\ openItems' \subseteq Item
      /\ openItems = openItems' \cup {item} \/ openItems' = openItems \cup {item}
      /\ moved' = IF phase = "begin" THEN 0 ELSE moved + 1
      /\ phase \in {"begin", "before", "agent", "after"}
    BY DEF Move, agent, BatchTypeOK
<1>2. CASE phase = "begin"
    BY <1>1, <1>2, Untouched DEF Files, TimeInv, Reading
<1>3. CASE phase # "begin"
    <2>1. Reading' /\ moved \in Nat
        BY <1>1, <1>3 DEF TimeInv, Reading
    <2>2. ASSUME moved' <= 1 PROVE \E S \in SUBSET Item : MovedFrom(S)'
        <3>1. moved = 0 /\ moved' = 1
            BY <1>1, <1>3, <2>1, <2>2
        <3>2. PICK S \in SUBSET Item : MovedFrom(S)
            BY <3>1 DEF TimeInv
        <3>3. S = openItems /\ {S, S} = {S}
            BY <3>1, <3>2 DEF MovedFrom
        <3>4. From(before, {S}) /\ From(after, {S}) /\ ReadFrom({S}) /\ FoundFrom({S})
            BY <3>2, <3>3 DEF MovedFrom
        <3>5. \A Sets : /\ From(before, Sets)' = From(before, Sets) /\ From(after, Sets)' = From(after, Sets)
                       /\ ReadFrom(Sets)' = ReadFrom(Sets) /\ FoundFrom(Sets)' = FoundFrom(Sets)
            BY <1>1 DEF From, ReadFrom, FoundFrom, ReadsWentWell
        <3>6. moved' # 0 /\ OneApart(S, openItems')
            BY <1>1, <3>1, <3>3 DEF OneApart
        <3>7. CASE phase = "before"
            <4>1. From(before, {S, openItems'})
                BY <3>4 DEF From
            <4>2. From(after, {openItems'}) /\ ReadFrom({openItems'}) /\ FoundFrom({openItems'})
                BY <3>7 DEF From, ReadFrom, FoundFrom, ReadsWentWell, Files, TimeInv, Reading
            <4> QED
                BY <3>5, <3>6, <4>1, <4>2 DEF MovedFrom
        <3>8. CASE phase = "agent"
            <4>1. ReadFrom({S, openItems'})
                BY <3>4 DEF ReadFrom
            <4>2. From(after, {openItems'}) /\ FoundFrom({S, openItems'})
                BY <3>8 DEF From, FoundFrom, ReadsWentWell, Files, TimeInv, Reading
            <4> QED
                BY <3>4, <3>5, <3>6, <4>1, <4>2 DEF MovedFrom
        <3>9. CASE phase = "after"
            <4>1. From(after, {S, openItems'})
                BY <3>4 DEF From
            <4> QED
                BY <3>4, <3>5, <3>6, <4>1 DEF MovedFrom
        <3> QED
            BY <1>1, <1>3, <3>7, <3>8, <3>9
    <2> QED
        BY <2>1, <2>2 DEF TimeInv
<1> QED
    BY <1>2, <1>3

\* A probe, or a read of the agent, sees the items as they are.
LEMMA ProbeKeeps ==
    ASSUME BatchTypeOK, Files, TimeInv, Probe
    PROVE  TimeInv'
<1>1. UNCHANGED <<phase, openItems, read, record, moved>>
    BY DEF Probe, platform, agent
<1>2. ASSUME NEW S \in SUBSET Item, MovedFrom(S) PROVE MovedFrom(S)'
    <2>1. OneApart(S, openItems)' /\ (moved' = 0 => S = openItems')
        BY <1>1, <1>2 DEF MovedFrom, OneApart
    <2>2. \A Sets : ReadFrom(Sets)' = ReadFrom(Sets) /\ FoundFrom(Sets)' = FoundFrom(Sets)
        BY <1>1 DEF ReadFrom, FoundFrom, ReadsWentWell
    <2>3. ASSUME NEW old, NEW new, Adds(old, new), NEW Sets, openItems \in Sets, From(old, Sets)
          PROVE  From(new, Sets)
        BY <2>3 DEF Adds, From, Truth, GateOf
    <2>4. CASE phase = "before" /\ Adds(before, before') /\ after' = after
        <3>1. /\ From(after, {openItems}) /\ ReadFrom({openItems}) /\ FoundFrom({openItems})
            BY <2>4 DEF From, ReadFrom, FoundFrom, ReadsWentWell, Files, TimeInv, Reading
        <3>2. From(before, {S, openItems})
            BY <1>2 DEF MovedFrom, From
        <3>3. From(before', {S, openItems})
            BY <2>3, <2>4, <3>2
        <3> QED
            BY <1>1, <2>1, <2>2, <2>4, <3>1, <3>3 DEF MovedFrom
    <2>5. CASE phase = "after" /\ Adds(after, after') /\ before' = before
        <3>1. From(after, {openItems}) => From(after', {openItems})
            BY <2>3, <2>5
        <3>2. From(after, {S, openItems}) => From(after', {S, openItems})
            BY <2>3, <2>5
        <3> QED
            BY <1>1, <1>2, <2>1, <2>2, <2>5, <3>1, <3>2 DEF MovedFrom
    <2> QED
        BY <2>4, <2>5, ProbeAdds
<1> QED
    BY <1>1, <1>2 DEF TimeInv, Reading

LEMMA ReadKeeps ==
    ASSUME Files, TimeInv, ReadGate \/ ReadFeedback
    PROVE  TimeInv'
<1>1. /\ phase = "agent" /\ UNCHANGED <<phase, openItems, before, after, record, moved>>
      /\ DOMAIN after = {} /\ record.ended = "running"
    BY DEF ReadGate, ReadFeedback, platform, Files, TimeInv, Reading
<1>2. ASSUME NEW Sets, openItems \in Sets, ReadFrom(Sets) PROVE ReadFrom(Sets)'
    <2>1. CASE ReadGate
        <3>1. PICK gate \in {GateOf(openItems), Unread} : read' = Observed(read, "gate", gate)
            BY <2>1 DEF ReadGate, GateOf
        <3>2. /\ DOMAIN read' = DOMAIN read \cup {"gate"} /\ read'.gate = gate
              /\ "rows" \in DOMAIN read => "rows" \in DOMAIN read' /\ read'.rows = read.rows
            BY <3>1 DEF Observed
        <3>3. "rows" \in DOMAIN read => read'.cut \/ read'.rows \in {Unread} \cup Sets
            <4>1. "cut" \in DOMAIN read => read'.cut = read.cut
                BY <3>1 DEF Observed
            <4> QED
                BY <1>2, <3>2, <4>1 DEF ReadFrom, TimeInv, Reading
        <3> QED
            BY <1>2, <3>2, <3>3 DEF ReadFrom
    <2>2. CASE ReadFeedback
        <3>1. PICK rows : read' = Observed(Observed(read, "rows", rows), "cut", rows \notin {openItems, Unread})
            BY <2>2 DEF ReadFeedback
        <3>2. /\ read'.cut = (rows \notin {openItems, Unread}) /\ read'.rows = rows
              /\ "gate" \in DOMAIN read' => "gate" \in DOMAIN read /\ read'.gate = read.gate
            BY <3>1 DEF Observed
        <3> QED
            BY <1>2, <3>2 DEF ReadFrom
    <2> QED
        BY <2>1, <2>2
<1>3. ASSUME NEW S \in SUBSET Item, MovedFrom(S) PROVE MovedFrom(S)'
    <2>1. OneApart(S, openItems)' /\ (moved' = 0 => S = openItems')
        BY <1>1, <1>3 DEF MovedFrom, OneApart
    <2>2. \A Sets : From(after, Sets)' /\ FoundFrom(Sets)' /\ From(before, Sets)' = From(before, Sets)
        BY <1>1 DEF From, FoundFrom, ReadsWentWell
    <2>3. CASE From(before, {S, openItems}) /\ ReadFrom({openItems})
        <3>1. ReadFrom({openItems})'
            BY <1>1, <1>2, <2>3
        <3> QED
            BY <1>1, <2>1, <2>2, <2>3, <3>1 DEF MovedFrom
    <2>4. CASE From(before, {S}) /\ ReadFrom({S, openItems})
        <3>1. ReadFrom({S, openItems})'
            BY <1>1, <1>2, <2>4
        <3> QED
            BY <1>1, <2>1, <2>2, <2>4, <3>1 DEF MovedFrom
    <2>5. ReadFrom({S}) => ReadFrom({S, openItems})
        BY DEF ReadFrom
    <2> QED
        BY <1>3, <2>3, <2>4, <2>5 DEF MovedFrom
<1> QED
    <2>1. "rows" \in DOMAIN read' => "cut" \in DOMAIN read'
        BY DEF ReadGate, ReadFeedback, Observed, TimeInv, Reading
    <2> QED
        BY <1>1, <1>3, <2>1 DEF TimeInv, Reading, ReadGate, ReadFeedback

\* The agent stops reading: it concludes, or it is killed.
LEMMA AgentEnds ==
    ASSUME BatchTypeOK, TimeInv, phase \in {"agent", "file", "look"}, phase' = "after", read' = NoTruth,
           UNCHANGED <<openItems, before, after, moved>>,
           \/ UNCHANGED record
           \/ {"gate", "rows"} \subseteq DOMAIN read /\ \E result \in Filing : Conclude(result)
    PROVE  TimeInv'
<1>1. DOMAIN read' = {} /\ Reading'
    BY DEF NoTruth, TimeInv, Reading
<1>2. ASSUME NEW S \in SUBSET Item, MovedFrom(S) PROVE MovedFrom(S)'
    <2>1. OneApart(S, openItems)' /\ (moved' = 0 => S = openItems')
        BY <1>2 DEF MovedFrom, OneApart
    <2>2. \A Sets : /\ From(before, Sets)' = From(before, Sets) /\ From(after, Sets)' = From(after, Sets)
                   /\ ReadFrom(Sets)'
        BY <1>1 DEF From, ReadFrom
    <2>3. ASSUME NEW A \in SUBSET Item, NEW B \in SUBSET Item, OneApart(A, B), ReadFrom({A, B})
          PROVE  FoundFrom({A, B})'
        <3>1. CASE UNCHANGED record
            BY <3>1 DEF TimeInv, Reading, FoundFrom, ReadsWentWell
        <3> QED
            BY <2>3, <3>1, FindsWhatItRead
    <2>4. /\ OneApart(S, S) /\ OneApart(openItems, openItems) /\ OneApart(S, openItems)
          /\ openItems \in SUBSET Item
          /\ {S, S} = {S} /\ {openItems, openItems} = {openItems}
        BY <1>2 DEF OneApart, MovedFrom, BatchTypeOK
    <2>5. ReadFrom({S}) => FoundFrom({S})'
        BY <2>3, <2>4
    <2>6. ReadFrom({openItems}) => \A T : T = openItems => FoundFrom({T})'
        BY <2>3, <2>4
    <2>7. ReadFrom({S, openItems}) => \A T : T = openItems => FoundFrom({S, T})'
        BY <2>3, <2>4
    <2> QED
        BY <1>2, <2>1, <2>2, <2>5, <2>6, <2>7 DEF MovedFrom
<1> QED
    BY <1>1, <1>2 DEF TimeInv

LEMMA NextTimeInv ==
    ASSUME BatchTypeOK, Files, TimeInv, [Next]_vars
    PROVE  TimeInv'
<1>0. DOMAIN NoTruth = {} /\ (openItems \subseteq Item)'
    BY NextBatchTypeOK DEF NoTruth, BatchTypeOK
<1>1. CASE Probe \/ ReadGate \/ ReadFeedback \/ \E item \in Item : Move(item)
    BY <1>1, ProbeKeeps, ReadKeeps, MoveKeeps
<1>2. CASE HarnessFails \/ EndRun \/ StartCleanup \/ HarnessKilled
    <2>1. /\ before' = NoTruth /\ after' = NoTruth /\ read' = NoTruth /\ moved' = 0
          /\ record'.ended = "running" /\ phase' \notin {"file", "look"}
        BY <1>2 DEF HarnessFails, EndRun, NextRun, StartCleanup, HarnessKilled, RunOver, AgentGone, NoRecord
    <2> QED
        BY <1>0, <2>1, Untouched
<1>3. CASE AgentKilled
    BY <1>3, AgentEnds DEF AgentKilled, AgentGone, platform
<1>4. CASE Acting
    <2>1. /\ UNCHANGED <<openItems, before, after, moved>> /\ phase \in {"agent", "file", "look"}
          /\ {"gate", "rows"} \subseteq DOMAIN read
        BY <1>4, Acts DEF platform, Acting, CrossSeat, FindAssignee, Filed, Look, TimeInv, Reading
    <2>2. CASE \E result \in Filing : Conclude(result)
        BY <2>1, <2>2, AgentEnds, Concluded DEF AgentGone
    <2>3. CASE phase' \in {"file", "look"} /\ UNCHANGED <<read, record>>
        BY <2>1, <2>3 DEF TimeInv, Reading, MovedFrom, OneApart, From, ReadFrom, FoundFrom, ReadsWentWell
    <2> QED
        BY <1>4, <2>2, <2>3, Acts
<1>5. CASE \/ Begin \/ StartAgent \/ Sweep \/ Swept \/ Withdraw \/ UNCHANGED vars
           \/ \E owner \in Owner : Raise(owner)
           \/ \E e \in DOMAIN esc : Inspect(e) \/ Reply(e)
    <2>1. /\ UNCHANGED <<openItems, before, after, moved, read, record>>
          /\ phase' = phase \/ (phase \notin {"after", "file", "look"} /\ phase' \notin {"after", "file", "look"})
        BY <1>5 DEF Begin, StartAgent, Sweep, Swept, Withdraw, Raise, Inspect, Reply, vars, platform, agent
    <2>2. Reading'
        BY <1>5, <2>1 DEF TimeInv, Reading, Begin, StartAgent, Sweep, Swept, Withdraw, Raise, Inspect, Reply, vars
    <2> QED
        BY <2>1, <2>2 DEF TimeInv, MovedFrom, OneApart, From, ReadFrom, FoundFrom, ReadsWentWell
<1> QED
    BY <1>1, <1>2, <1>3, <1>4, <1>5 DEF Next, Acting

\* What was found is what is there after the run, or what was there before it.
LEMMA FoundIsOneOfThem ==
    ASSUME BatchTypeOK, Files, phase = "after", Complete(after), ReadsWentWell,
           \A t \in {before, after} : Unread \notin {t.gate, t.rows},
           NEW S \in SUBSET Item, MovedFrom(S)
    PROVE  \E B \in SUBSET Item, A \in SUBSET Item :
             /\ Expected(before) = ProposeHandoffs(B) /\ Expected(after) = ProposeHandoffs(A)
             /\ record.finding.handoffs.proposed \in {Expected(before), Expected(after)}
             /\ record.finding.gate = (record.finding.blockers = {})
             /\ record.finding.blockers \in {before.gate, after.gate}
             /\ record.answer \in Answers(record.finding)
<1> DEFINE T == openItems
<1>1. T \in SUBSET Item /\ OneApart(S, T) /\ OneApart(S, S) /\ OneApart(T, T)
    BY DEF BatchTypeOK, MovedFrom, OneApart
<1>2. {"gate", "rows"} \subseteq DOMAIN before /\ {"gate", "rows"} \subseteq DOMAIN after
    BY ProbeKey DEF Files, Probed
<1>3. ASSUME NEW truth \in {before, after}, NEW X \in SUBSET Item, NEW Y \in SUBSET Item, OneApart(X, Y),
             From(truth, {X, Y})
      PROVE  \E R \in {X, Y}, G \in {X, Y} :
               Expected(truth) = ProposeHandoffs(R) /\ truth.gate = GateOf(G)
    <2>1. truth.gate # Unread /\ truth.rows # Unread
        OBVIOUS
    <2>0. "gate" \in DOMAIN truth /\ "rows" \in DOMAIN truth
        BY <1>2
    <2>2. PICK G \in {X, Y}, R \in {X, Y} : truth.gate = GateOf(G) /\ truth.rows = R
        <3>1. truth.gate \in {GateOf(Z) : Z \in {X, Y}}
            BY <1>3, <2>0, <2>1 DEF From
        <3>2. truth.rows \in {X, Y}
            BY <1>3, <2>0, <2>1 DEF From
        <3> QED
            BY <3>1, <3>2
    <2>3. OpenSeriousItems(truth.gate, truth.rows) = GateOf(G) \cup R
        BY <2>1, <2>2 DEF OpenSeriousItems, Known
    <2>4. Expected(truth) = ProposeHandoffs(GateOf(G) \cup R) /\ truth.gate = GateOf(G)
        BY <2>1, <2>2, <2>3 DEF Expected, Ready
    <2> DEFINE R1 == GateOf(G) \cup R
    <2>5. R1 \in {X, Y}
        BY <1>3, OneOfThem
    <2> HIDE DEF R1
    <2> QED
        BY <2>4, <2>5 DEF R1
<1>5. ASSUME NEW truth \in {before, after}, NEW X \in SUBSET Item, From(truth, {X})
      PROVE  Expected(truth) = ProposeHandoffs(X) /\ truth.gate = GateOf(X)
    <2>1. OneApart(X, X) /\ {X, X} = {X}
        BY DEF OneApart
    <2>2. From(truth, {X, X})
        BY <1>5, <2>1
    <2>3. PICK R \in {X, X}, G \in {X, X} :
            Expected(truth) = ProposeHandoffs(R) /\ truth.gate = GateOf(G)
        BY <1>3, <2>1, <2>2
    <2>4. R = X /\ G = X
        OBVIOUS
    <2> QED
        BY <2>3, <2>4
<1>6. ASSUME NEW Sets, FoundFrom(Sets)
      PROVE  /\ \E R \in Sets : Judged(record.finding, R)
             /\ \E R \in Sets : record.finding.handoffs.proposed = ProposeHandoffs(R)
             /\ record.answer \in Answers(record.finding)
    BY <1>6 DEF FoundFrom
<1> HIDE DEF T
<1>7. CASE From(before, {S, T}) /\ From(after, {T}) /\ FoundFrom({T})
    <2>1. PICK R \in {S, T}, G \in {S, T} :
            Expected(before) = ProposeHandoffs(R) /\ before.gate = GateOf(G)
        BY <1>1, <1>3, <1>7
    <2>2. Expected(after) = ProposeHandoffs(T) /\ after.gate = GateOf(T)
        BY <1>1, <1>5, <1>7
    <2>3. /\ Judged(record.finding, T) /\ record.finding.handoffs.proposed = ProposeHandoffs(T)
          /\ record.answer \in Answers(record.finding)
        BY <1>6, <1>7
    <2>4. record.finding.gate = (record.finding.blockers = {}) /\ record.finding.blockers = after.gate
        BY <2>2, <2>3 DEF Judged
    <2>5. R \in SUBSET Item /\ T \in SUBSET Item /\ record.finding.handoffs.proposed = Expected(after)
        BY <1>1, <2>2, <2>3
    <2> QED
        BY <2>1, <2>2, <2>3, <2>4, <2>5
<1>8. CASE From(before, {S}) /\ From(after, {T}) /\ FoundFrom({S, T})
    <2>1. Expected(before) = ProposeHandoffs(S) /\ before.gate = GateOf(S)
        BY <1>5, <1>8
    <2>2. Expected(after) = ProposeHandoffs(T) /\ after.gate = GateOf(T)
        BY <1>1, <1>5, <1>8
    <2>3. /\ Judged(record.finding, S) \/ Judged(record.finding, T)
          /\ record.finding.handoffs.proposed \in {ProposeHandoffs(S), ProposeHandoffs(T)}
          /\ record.answer \in Answers(record.finding)
        BY <1>6, <1>8
    <2>4. /\ record.finding.gate = (record.finding.blockers = {})
          /\ record.finding.blockers \in {before.gate, after.gate}
        BY <2>1, <2>2, <2>3 DEF Judged
    <2>5. T \in SUBSET Item /\ record.finding.handoffs.proposed \in {Expected(before), Expected(after)}
        BY <1>1, <2>1, <2>2, <2>3
    <2> QED
        BY <2>1, <2>2, <2>3, <2>4, <2>5
<1>9. CASE From(before, {S}) /\ From(after, {S, T}) /\ FoundFrom({S})
    <2>1. Expected(before) = ProposeHandoffs(S) /\ before.gate = GateOf(S)
        BY <1>5, <1>9
    <2>2. PICK R \in {S, T}, G \in {S, T} :
            Expected(after) = ProposeHandoffs(R) /\ after.gate = GateOf(G)
        BY <1>1, <1>3, <1>9
    <2>3. /\ Judged(record.finding, S) /\ record.finding.handoffs.proposed = ProposeHandoffs(S)
          /\ record.answer \in Answers(record.finding)
        BY <1>6, <1>9
    <2>4. record.finding.gate = (record.finding.blockers = {}) /\ record.finding.blockers = before.gate
        BY <2>1, <2>3 DEF Judged
    <2>5. R \in SUBSET Item /\ record.finding.handoffs.proposed = Expected(before)
        BY <1>1, <2>1, <2>3
    <2> QED
        BY <2>1, <2>2, <2>3, <2>4, <2>5
<1> QED
    BY <1>7, <1>8, <1>9 DEF MovedFrom, T

\* An answer names the owners of its finding.
LEMMA AnswerNames ==
    ASSUME NEW f, f.handoffs.outcome = "answered", NEW a \in Answers(f)
    PROVE  NamesOwners(a, f.handoffs.proposed)
    BY DEF Answers, SaysWhatIsRequired, NamesOwners

LEMMA JudgedFairly ==
    ASSUME NEW got, NEW want, NEW then, got \in {want, then}
    PROVE  Judge(got, want, then) # "fail"
    BY DEF Judge

LEMMA NotBlamed ==
    ASSUME BatchTypeOK, Files, TimeInv
    PROVE  MovedDataIsNotBlamed
<1> SUFFICES ASSUME phase = "after", Complete(after), ReadsWentWell, moved <= 1,
                    \A t \in {before, after} : Unread \notin {t.gate, t.rows},
                    DOMAIN Expected(before) # {}
             PROVE  "fail" \notin {Checks[2].ready, Checks[2].critical, Checks[3].owners, Checks[3].citations, Checks[4].named}
    BY DEF MovedDataIsNotBlamed
<1> DEFINE f == record.finding
           h == f.handoffs
           a == record.answer
           then == Expected(before)
           want == Expected(after)
<1>1. PICK B \in SUBSET Item, A \in SUBSET Item :
        /\ then = ProposeHandoffs(B) /\ want = ProposeHandoffs(A)
        /\ h.proposed \in {then, want}
        /\ f.gate = (f.blockers = {}) /\ f.blockers \in {before.gate, after.gate}
        /\ a \in Answers(f)
    BY FoundIsOneOfThem DEF TimeInv
<1>2. then # Unread /\ want # Unread
    BY <1>1, UnreadAssumption
<1>3. record.ended = "done" /\ h.outcome = "answered"
    BY DEF ReadsWentWell
<1>4. Before(before, want) = then
    BY <1>2 DEF Before
<1>5. Checks[2].ready # "fail" /\ Checks[2].critical # "fail"
    <2>1. Checks[2] = GateChecks(record, before, after)
        BY DEF Checks, CheckRun
    <2>2. before.gate # Unread /\ after.gate # Unread
        OBVIOUS
    <2>3. f.gate \in {Ready(after.gate), Ready(before.gate)}
        BY <1>1, <2>2 DEF Ready
    <2>4. GateChecks(record, before, after).ready = Judge(f.gate, Ready(after.gate), Ready(before.gate))
        BY <1>3, <2>2 DEF GateChecks
    <2>5. f.gate # Unread
        BY <1>1, UnreadAssumption
    <2>6. GateChecks(record, before, after).critical =
            Judge(Cardinality(f.blockers), Cardinality(after.gate), Cardinality(before.gate))
        BY <1>3, <2>2, <2>5 DEF GateChecks
    <2>7. Cardinality(f.blockers) \in {Cardinality(after.gate), Cardinality(before.gate)}
        BY <1>1
    <2> QED
        BY <2>1, <2>3, <2>4, <2>6, <2>7, JudgedFairly
<1>6. Checks[3].owners # "fail" /\ Checks[3].citations # "fail"
    <2>1. Checks[3] = HandoffChecks(record, before, after, assignable)
        BY DEF Checks, CheckRun
    <2> HIDE DEF then, want
    <2>2. /\ HandoffChecks(record, before, after, assignable).owners =
               Judge(DOMAIN h.proposed, DOMAIN want, DOMAIN then)
          /\ HandoffChecks(record, before, after, assignable).citations = Judge(h.proposed, want, then)
        BY <1>2, <1>3, <1>4 DEF HandoffChecks, want
    <2>3. DOMAIN h.proposed \in {DOMAIN want, DOMAIN then}
        BY <1>1
    <2> QED
        BY <1>1, <2>1, <2>2, <2>3, JudgedFairly
<1>7. Checks[4].named # "fail"
    <2>1. Checks[4] = AnswerChecks(record, before, after)
        BY DEF Checks, CheckRun
    <2>2. NamesOwners(a, h.proposed)
        BY <1>1, <1>3, AnswerNames
    <2> HIDE DEF then, want
    <2>3. AnswerChecks(record, before, after).named =
            IF NamesOwners(a, want) THEN "pass"
            ELSE IF then = Unread THEN "fail" ELSE IF NamesOwners(a, then) THEN "drift" ELSE "fail"
        BY <1>2, <1>3 DEF AnswerChecks, want, then
    <2> QED
        BY <1>1, <1>2, <2>1, <2>2, <2>3
<1> QED
    BY <1>5, <1>6, <1>7

\* When the platform's items changed at most once between the first probe and
\* the last, a run whose reads went well is never failed for it: whatever it
\* read, the ground truth before or after agrees with it (checks.py, judge).
THEOREM MovedIsNotBlamed == Spec => []MovedDataIsNotBlamed
<1>1. Init => TimeInv
    <2> SUFFICES ASSUME Init PROVE TimeInv
        OBVIOUS
    <2>1. MovedFrom(openItems)
        BY DEF Init, MovedFrom, OneApart, From, ReadFrom, FoundFrom, ReadsWentWell, NoTruth, NoRecord
    <2>2. Reading
        BY DEF Init, Reading, NoTruth, NoRecord
    <2> QED
        BY <2>1, <2>2 DEF TimeInv, Init
<1>2. BatchInv /\ TimeInv /\ [Next]_vars => TimeInv'
    BY NextTimeInv DEF BatchInv
<1>3. BatchInv /\ TimeInv => MovedDataIsNotBlamed
    BY NotBlamed DEF BatchInv
<1> QED
    BY <1>1, <1>2, <1>3, BatchInvHolds, PTL DEF Spec

-----------------------------------------------------------------------------
(* The session: one login for many threads                                 *)

\* A caller that has no token yet has sent nothing.
Early == {"idle", "first", "login"}

\* The token is the newest one issued; whoever is inside the lock came for
\* the token that is still there; a token that a login replaced is older than
\* the present one; a session without a token has a password.
Renewals ==
  /\ token = issued
  /\ password \/ token # 0
  /\ \A c \in Caller :
       /\ call[c].at \in Early => call[c].stale = 0
       /\ call[c].at \in {"login", "renewing"} => call[c].stale = token
  /\ \A t \in 0..MaxTokens : replaced[t] <= 1 /\ (replaced[t] # 0 => t < token)

\* Until its call ends a write was not processed: its one attempt ends it.
Unsent ==
  \A c \in Writer :
    /\ call[c].at = "wire" => call[c].tries >= 1
    /\ call[c].at # "done" => applied[c] = 0 /\ call[c].kind = "none"
    /\ applied[c] <= 1
    /\ call[c].kind = "expired" => applied[c] = 0

IInv == SessionTypeOK /\ Renewals /\ Unsent

LEMMA InitIInv == SessionInit => IInv
<1> SUFFICES ASSUME SessionInit PROVE IInv
  OBVIOUS
<1>1. /\ password \in BOOLEAN /\ token \in 0..MaxTokens /\ issued = token
      /\ valid \subseteq 1..MaxTokens /\ holder = {} /\ (password \/ token # 0)
      /\ applied \in [Caller -> Nat] /\ replaced \in [0..MaxTokens -> Nat]
      /\ \A t \in 0..MaxTokens : replaced[t] = 0
  BY SessionAssumption DEF SessionInit
<1>2. \A c \in Caller : /\ call[c].at = "idle" /\ call[c].stale = 0
                        /\ call[c].kind = "none" /\ applied[c] = 0
  BY DEF SessionInit
<1>3. call \in [Caller -> CallState]
  BY DEF SessionInit, CallState, At, Kind
<1>4. SessionTypeOK
  BY <1>1, <1>2, <1>3 DEF SessionTypeOK
<1>5. Renewals
  BY <1>1, <1>2 DEF Renewals, Early
<1>6. Unsent
  <2> SUFFICES ASSUME NEW c \in Writer
               PROVE  call[c].at = "idle" /\ call[c].kind = "none" /\ applied[c] = 0
    BY DEF Unsent
  <2>1. c \in Caller
    BY SessionAssumption
  <2> QED BY <1>2, <2>1
<1> QED BY <1>4, <1>5, <1>6 DEF IInv

Inside == {"login", "renewing"}

\* What the new state r of the caller that moves must satisfy, when nobody
\* logs in by the step.
Fits(c, r) ==
  /\ r.at \in Inside => holder \subseteq {c}
  /\ r.at \in Early => r.stale = 0
  /\ r.at \in Inside => r.stale = token
  /\ c \in Writer =>
       /\ r.at = "wire" => r.tries >= 1
       /\ r.at # "done" => applied'[c] = 0 /\ r.kind = "none"
       /\ applied'[c] <= 1
       /\ r.kind = "expired" => applied'[c] = 0

LEMMA CallerMoves ==
  ASSUME IInv, NEW c \in Caller, NEW r \in CallState,
         call' = [call EXCEPT ![c] = r],
         holder' = IF r.at \in Inside THEN {c} ELSE holder \ {c},
         applied' \in [Caller -> Nat], \A d \in Caller \ {c} : applied'[d] = applied[d],
         UNCHANGED <<password, token, issued, valid, replaced>>,
         Fits(c, r)
  PROVE  IInv'
<1>1. /\ call \in [Caller -> CallState]
      /\ holder = {d \in Caller : call[d].at \in Inside}
  BY DEF IInv, SessionTypeOK, Inside
<1>2. /\ call' \in [Caller -> CallState] /\ call'[c] = r
      /\ \A d \in Caller \ {c} : call'[d] = call[d]
  BY <1>1
<1>3. holder' = {d \in Caller : call'[d].at \in Inside}
  <2>1. CASE r.at \in Inside
    BY <1>1, <1>2, <2>1 DEF Fits
  <2>2. CASE r.at \notin Inside
    BY <1>1, <1>2, <2>2
  <2> QED BY <2>1, <2>2
<1>4. SessionTypeOK'
  <2>1. \A d, e \in holder' : d = e
    BY DEF IInv, SessionTypeOK
  <2> QED BY <1>2, <1>3, <2>1 DEF IInv, SessionTypeOK, Inside
<1>5. Renewals'
  <2>1. \A d \in Caller :
          /\ call'[d].at \in Early => call'[d].stale = 0
          /\ call'[d].at \in {"login", "renewing"} => call'[d].stale = token
    BY <1>2 DEF Fits, Inside, IInv, Renewals
  <2> QED BY <2>1 DEF IInv, Renewals
<1>6. Unsent'
  BY <1>2, SessionAssumption DEF Fits, IInv, Unsent
<1> QED BY <1>4, <1>5, <1>6 DEF IInv

\* The three shapes of the caller's new state.
LEMMA Shapes ==
  ASSUME NEW s \in CallState
  PROVE  /\ \A at \in At : /\ [s EXCEPT !.at = at] \in CallState
                           /\ [s EXCEPT !.at = at].at = at
                           /\ [s EXCEPT !.at = at].stale = s.stale
                           /\ [s EXCEPT !.at = at].kind = s.kind
         /\ \A k \in Kind : /\ [s EXCEPT !.at = "done", !.kind = k] \in CallState
                            /\ [s EXCEPT !.at = "done", !.kind = k].at = "done"
                            /\ [s EXCEPT !.at = "done", !.kind = k].kind = k
         /\ [s EXCEPT !.at = "headers", !.round = 2] \in CallState
         /\ [s EXCEPT !.at = "headers", !.round = 2].at = "headers"
         /\ [s EXCEPT !.at = "headers", !.round = 2].kind = s.kind
  BY DEF CallState, At, Kind

\* Two shapes that several actions share: the call ends; the request is sent
\* again.
LEMMA CallEnds ==
  ASSUME IInv, NEW c \in Caller, NEW k \in Kind, Ends(c, k),
         holder' = holder \ {c},
         applied' \in [Caller -> Nat], \A d \in Caller \ {c} : applied'[d] = applied[d],
         c \in Writer => applied'[c] <= 1 /\ (k = "expired" => applied'[c] = 0),
         UNCHANGED <<password, token, issued, valid, replaced>>
  PROVE  IInv'
<1> DEFINE r == [call[c] EXCEPT !.at = "done", !.kind = k]
<1>1. call[c] \in CallState
  BY DEF IInv, SessionTypeOK
<1>2. r \in CallState /\ r.at = "done" /\ r.kind = k
  BY <1>1 DEF CallState, At, Kind
<1>3. call' = [call EXCEPT ![c] = r]
  BY DEF Ends
<1> HIDE DEF r
<1>4. Fits(c, r) /\ r.at \notin Inside
  BY <1>2 DEF Fits, Inside, Early
<1> QED BY <1>2, <1>3, <1>4, CallerMoves

LEMMA CallResends ==
  ASSUME IInv, NEW c \in Caller, call[c].at \in {"rejected", "renewing"}, Resends(c),
         holder' = holder \ {c},
         UNCHANGED <<password, token, issued, valid, applied, replaced>>
  PROVE  IInv'
<1> DEFINE r == [call[c] EXCEPT !.at = "headers", !.round = 2]
<1>1. call[c] \in CallState
  BY DEF IInv, SessionTypeOK
<1>2. r \in CallState /\ r.at = "headers" /\ r.kind = call[c].kind
  BY <1>1, Shapes
<1>3. call' = [call EXCEPT ![c] = r]
  BY DEF Resends
<1> HIDE DEF r
<1>4. Fits(c, r) /\ r.at \notin Inside
  BY <1>2 DEF Fits, Inside, Early, IInv, Unsent
<1>5. applied' \in [Caller -> Nat]
  BY DEF IInv, SessionTypeOK
<1> QED BY <1>2, <1>3, <1>4, <1>5, CallerMoves

LEMMA CallGoes ==
  ASSUME IInv, NEW c \in Caller, NEW at \in At, Goes(c, at),
         call[c].at # "done", at \notin {"done", "wire"},
         at \in Inside => /\ holder = {} /\ call[c].stale = token,
         at \in Early => call[c].stale = 0,
         holder' = IF at \in Inside THEN {c} ELSE holder \ {c},
         UNCHANGED <<password, token, issued, valid, applied, replaced>>
  PROVE  IInv'
<1> DEFINE r == [call[c] EXCEPT !.at = at]
<1>1. call[c] \in CallState
  BY DEF IInv, SessionTypeOK
<1>2. r \in CallState /\ r.at = at /\ r.stale = call[c].stale /\ r.kind = call[c].kind
  BY <1>1, Shapes
<1>3. call' = [call EXCEPT ![c] = r]
  BY DEF Goes
<1> HIDE DEF r
<1>4. Fits(c, r)
  BY <1>2 DEF Fits, Inside, Early, IInv, Unsent
<1>5. applied' \in [Caller -> Nat]
  BY DEF IInv, SessionTypeOK
<1> QED BY <1>2, <1>3, <1>4, <1>5, CallerMoves

\* A login: the token is a new one, and nobody else is inside the lock.
LEMMA LoginKeeps ==
  ASSUME IInv, NEW c \in Caller, Login(c)
  PROVE  IInv'
<1>1. call[c] \in CallState /\ call \in [Caller -> CallState] /\ token = issued /\ token \in Nat
  BY SessionAssumption DEF IInv, SessionTypeOK, Renewals
<1>2. call[c].at \in Inside /\ call[c].stale = token /\ issued < MaxTokens /\ token' = token + 1
  BY <1>1 DEF Login, Inside, IInv, Renewals
<1>3. \A d \in Caller \ {c} : call[d].at \notin Inside
  BY <1>2 DEF IInv, SessionTypeOK, Inside
<1>4. PICK r \in CallState : /\ call' = [call EXCEPT ![c] = r]
                             /\ r.at \in {"idle", "headers"} /\ r.kind = call[c].kind
                             /\ r.at = "idle" => call[c].at = "login" /\ r.stale = call[c].stale
  <2>1. CASE call[c].at = "login"
    <3> DEFINE r == [call[c] EXCEPT !.at = "idle"]
    <3>1. call' = [call EXCEPT ![c] = r]
      BY <2>1 DEF Login, LoggedIn, Goes
    <3>2. /\ r \in CallState /\ r.at = "idle" /\ r.stale = call[c].stale
          /\ r.kind = call[c].kind
      BY <1>1 DEF CallState, At
    <3> HIDE DEF r
    <3> QED BY <2>1, <3>1, <3>2
  <2>2. CASE call[c].at # "login"
    <3> DEFINE r == [call[c] EXCEPT !.at = "headers", !.round = 2]
    <3>1. call' = [call EXCEPT ![c] = r]
      BY <2>2 DEF Login, LoggedIn, Resends
    <3>2. r \in CallState /\ r.at = "headers" /\ r.kind = call[c].kind
      BY <1>1 DEF CallState, At
    <3> HIDE DEF r
    <3> QED BY <3>1, <3>2
  <2> QED BY <2>1, <2>2
<1>5. /\ call' \in [Caller -> CallState] /\ call'[c] = r
      /\ \A d \in Caller \ {c} : call'[d] = call[d]
  BY <1>1, <1>4
<1>6. SessionTypeOK'
  <2>1. holder' = {} /\ \A d \in Caller : call'[d].at \notin Inside
    BY <1>3, <1>4, <1>5 DEF Login, Inside
  <2>2. replaced' \in [0..MaxTokens -> Nat]
    BY <1>2, <1>1 DEF Login, IInv, SessionTypeOK
  <2>3. token' \in 0..MaxTokens /\ issued' \in 0..MaxTokens /\ valid' \subseteq 1..MaxTokens
    BY <1>1, <1>2, SessionAssumption DEF Login, IInv, SessionTypeOK
  <2> QED BY <1>5, <2>1, <2>2, <2>3 DEF Login, IInv, SessionTypeOK, Inside
<1>7. Renewals'
  <2>1. \A d \in Caller :
          /\ call'[d].at \in Early => call'[d].stale = 0
          /\ call'[d].at \notin {"login", "renewing"}
    BY <1>3, <1>4, <1>5 DEF Inside, Early, IInv, Renewals
  <2>2. replaced[token] = 0 /\ token \in 0..MaxTokens
    BY DEF IInv, Renewals, SessionTypeOK
  <2>3. replaced' = [replaced EXCEPT ![token] = 1]
    BY <1>2, <2>2 DEF Login
  <2>4. \A t \in 0..MaxTokens : replaced'[t] <= 1 /\ (replaced'[t] # 0 => t < token')
    BY <1>1, <1>2, <2>2, <2>3, SessionAssumption DEF IInv, SessionTypeOK, Renewals
  <2>5. token' = issued' /\ token' # 0
    BY <1>1, <1>2 DEF Login
  <2> QED BY <2>1, <2>4, <2>5 DEF Renewals
<1>8. Unsent'
  BY <1>2, <1>4, <1>5, SessionAssumption DEF Inside, IInv, Unsent, Login
<1> QED BY <1>6, <1>7, <1>8 DEF IInv

\* Processing a request changes the count of that caller only.
LEMMA ProcessedOnce ==
  ASSUME SessionTypeOK, NEW c \in Caller, MayBeProcessed(c)
  PROVE  /\ applied' \in [Caller -> Nat] /\ \A d \in Caller \ {c} : applied'[d] = applied[d]
         /\ applied[c] = 0 => applied'[c] <= 1
  BY DEF SessionTypeOK, MayBeProcessed, Processed

LEMMA StepIInv == IInv /\ [SessionNext]_sessionVars => IInv'
<1> SUFFICES ASSUME IInv, [SessionNext]_sessionVars PROVE IInv'
  OBVIOUS
<1>0. /\ SessionTypeOK /\ Unsent /\ Renewals
      /\ \A c \in Caller : /\ call[c] \in CallState
                           /\ call[c].at \notin Inside => holder \ {c} = holder
                           /\ call[c].at \in Inside => holder \ {c} = {}
  BY DEF IInv, SessionTypeOK, Inside
<1>1. ASSUME NEW c \in Caller, StartCall(c) PROVE IInv'
  <2>1. CASE token # 0
    <3> DEFINE r == [call[c] EXCEPT !.at = "headers", !.stale = token]
    <3>1. token \in Nat
      BY <1>0 DEF SessionTypeOK
    <3>2. r \in CallState /\ r.at = "headers" /\ r.kind = call[c].kind
      BY <1>0, <3>1 DEF CallState, At
    <3>3. call' = [call EXCEPT ![c] = r]
      BY <1>1, <2>1 DEF StartCall
    <3> HIDE DEF r
    <3>4. Fits(c, r) /\ r.at \notin Inside
      BY <1>0, <1>1, <3>2 DEF StartCall, Fits, Inside, Early, Unsent
    <3>5. holder' = holder \ {c}
      BY <1>0, <1>1 DEF StartCall, Inside
    <3>6. applied' \in [Caller -> Nat]
      BY <1>0, <1>1 DEF StartCall, SessionTypeOK
    <3> QED BY <1>1, <3>2, <3>3, <3>4, <3>5, <3>6, CallerMoves DEF StartCall
  <2>2. CASE token = 0
    BY <1>0, <1>1, <2>2, CallGoes DEF StartCall, At, Inside, Early, Renewals
  <2> QED BY <2>1, <2>2
<1>2. ASSUME NEW c \in Caller, FirstLock(c) PROVE IInv'
  <2>1. CASE token # 0
    BY <1>0, <1>2, <2>1, CallGoes DEF FirstLock, At, Inside, Early, Renewals
  <2>2. CASE token = 0
    BY <1>0, <1>2, <2>2, CallGoes DEF FirstLock, At, Inside, Early, Renewals
  <2> QED BY <2>1, <2>2
<1>3. ASSUME NEW c \in Caller, Renew(c) PROVE IInv'
  <2>1. CASE MustReplace(c)
    BY <1>0, <1>3, <2>1, CallGoes DEF Renew, MustReplace, At, Inside, Early, Renewals
  <2>2. CASE ~MustReplace(c)
    BY <1>0, <1>3, <2>2, CallResends DEF Renew, Inside
  <2> QED BY <2>1, <2>2
<1>4. ASSUME NEW c \in Caller, KeepToken(c) PROVE IInv'
  <2>1. CASE call[c].at = "login"
    BY <1>0, <1>4, <2>1, CallGoes DEF KeepToken, LoggedIn, At, Inside, Early, Renewals
  <2>2. CASE call[c].at # "login"
    BY <1>0, <1>4, <2>2, CallResends DEF KeepToken, LoggedIn, Inside
  <2> QED BY <2>1, <2>2
<1>5. ASSUME NEW c \in Caller, Login(c) PROVE IInv'
  BY <1>5, LoginKeeps
<1>6. ASSUME NEW c \in Caller, LoginFails(c) PROVE IInv'
  <2>1. PICK k \in Kind : Ends(c, k)
    BY <1>6 DEF LoginFails, Kind
  <2>2. c \in Writer => applied[c] = 0
    BY <1>0, <1>6 DEF LoginFails, Unsent
  <2> QED BY <1>0, <1>6, <2>1, <2>2, CallEnds DEF LoginFails, AfterFailedLogin, Inside, SessionTypeOK
<1>7. ASSUME NEW c \in Caller, Headers(c) PROVE IInv'
  <2> DEFINE r == [call[c] EXCEPT !.at = "wire", !.carry = token, !.tries = 1]
  <2>1. token \in Nat
    BY <1>0 DEF SessionTypeOK
  <2>2. r \in CallState /\ r.at = "wire" /\ r.tries = 1 /\ r.kind = call[c].kind
    BY <1>0, <2>1 DEF CallState, At
  <2>3. call' = [call EXCEPT ![c] = r]
    BY <1>7 DEF Headers
  <2> HIDE DEF r
  <2>4. Fits(c, r) /\ r.at \notin Inside
    BY <1>0, <1>7, <2>2 DEF Headers, Fits, Inside, Early, Unsent
  <2>5. holder' = holder \ {c} /\ applied' \in [Caller -> Nat]
    BY <1>0, <1>7 DEF Headers, Inside, SessionTypeOK
  <2> QED BY <1>7, <2>2, <2>3, <2>4, <2>5, CallerMoves DEF Headers
<1>8. ASSUME NEW c \in Caller, Reject(c) PROVE IInv'
  <2>1. CASE call[c].round = 1
    <3> DEFINE r == [call[c] EXCEPT !.at = "rejected", !.refused = call[c].carry]
    <3>1. r \in CallState /\ r.at = "rejected" /\ r.kind = call[c].kind
      BY <1>0 DEF CallState, At
    <3>2. call' = [call EXCEPT ![c] = r]
      BY <1>8, <2>1 DEF Reject
    <3> HIDE DEF r
    <3>3. Fits(c, r) /\ r.at \notin Inside
      BY <1>0, <1>8, <3>1 DEF Reject, Fits, Inside, Early, Unsent
    <3>4. holder' = holder \ {c} /\ applied' \in [Caller -> Nat]
      BY <1>0, <1>8 DEF Reject, Inside, SessionTypeOK
    <3> QED BY <1>8, <3>1, <3>2, <3>3, <3>4, CallerMoves DEF Reject
  <2>2. CASE call[c].round # 1
    <3>1. c \in Writer => applied[c] = 0
      BY <1>0, <1>8 DEF Reject, Unsent
    <3> QED BY <1>0, <1>8, <2>2, <3>1, CallEnds DEF Reject, Inside, Kind, SessionTypeOK
  <2> QED BY <2>1, <2>2
<1>9. ASSUME NEW c \in Caller, GetReply(c) PROVE IInv'
  <2>1. PICK k \in {"ok", "other"} : Ends(c, k)
    BY <1>9 DEF GetReply
  <2>2. MayBeProcessed(c)
    BY <1>9 DEF GetReply, MayBeProcessed
  <2>3. c \in Writer => applied[c] = 0
    BY <1>0, <1>9 DEF GetReply, Unsent
  <2>4. c \in Writer => applied'[c] <= 1
    BY <1>0, <2>2, <2>3, ProcessedOnce
  <2> QED BY <1>0, <1>9, <2>1, <2>2, <2>4, ProcessedOnce, CallEnds DEF GetReply, Inside, Kind
<1>10. ASSUME NEW c \in Caller, NoReply(c) PROVE IInv'
  <2>1. MayBeProcessed(c) /\ call[c].at = "wire"
    BY <1>10 DEF NoReply
  <2>2. /\ c \in Writer => applied[c] = 0 /\ call[c].tries >= 1
        /\ applied' \in [Caller -> Nat] /\ \A d \in Caller \ {c} : applied'[d] = applied[d]
        /\ c \in Writer => applied'[c] <= 1
    BY <1>0, <2>1, ProcessedOnce DEF Unsent
  <2>3. holder' = holder \ {c}
    BY <1>0, <1>10, <2>1 DEF NoReply, Inside
  <2>4. CASE call[c].tries < Attempts(c)
    <3> DEFINE r == [call[c] EXCEPT !.tries = call[c].tries + 1]
    <3>1. r \in CallState /\ r.at = "wire"
      BY <1>0, <2>1 DEF CallState
    <3>2. call' = [call EXCEPT ![c] = r]
      BY <1>10, <2>4 DEF NoReply
    <3>3. call[c].tries \in Nat
      BY <1>0 DEF CallState
    <3> HIDE DEF r
    <3>4. c \notin Writer
      BY <2>2, <2>4, <3>3 DEF Attempts
    <3>5. Fits(c, r) /\ r.at \notin Inside
      BY <3>1, <3>4 DEF Fits, Inside, Early
    <3> QED BY <1>10, <2>2, <2>3, <3>1, <3>2, <3>5, CallerMoves DEF NoReply
  <2>5. CASE ~(call[c].tries < Attempts(c))
    BY <1>10, <2>2, <2>3, <2>5, CallEnds DEF NoReply, Kind
  <2> QED BY <2>4, <2>5
<1>11. ASSUME NEW c \in Caller, Garbled(c) PROVE IInv'
  <2>1. MayBeProcessed(c) /\ call[c].at = "wire"
    BY <1>11 DEF Garbled
  <2>2. /\ c \in Writer => applied[c] = 0
        /\ applied' \in [Caller -> Nat] /\ \A d \in Caller \ {c} : applied'[d] = applied[d]
        /\ c \in Writer => applied'[c] <= 1
    BY <1>0, <2>1, ProcessedOnce DEF Unsent
  <2>3. holder' = holder \ {c}
    BY <1>0, <1>11, <2>1 DEF Garbled, Inside
  <2> QED BY <1>11, <2>2, <2>3, CallEnds DEF Garbled, Kind
<1>12. ASSUME NEW t \in valid, Expire(t) PROVE IInv'
  BY <1>0, <1>12 DEF Expire, IInv, SessionTypeOK, Renewals, Unsent
<1>13. CASE UNCHANGED sessionVars
  BY <1>13 DEF sessionVars, IInv, SessionTypeOK, Renewals, Unsent
<1> QED
  BY <1>1, <1>2, <1>3, <1>4, <1>5, <1>6, <1>7, <1>8, <1>9, <1>10, <1>11, <1>12, <1>13 DEF SessionNext, Step

\* The strengthening that carries the theorems below.
THEOREM Invariance == SessionSpec => []IInv
<1>1. QED BY InitIInv, StepIInv, PTL DEF SessionSpec

\* The session keeps to its types and its lock admits one caller at a time.
THEOREM SessionTypeCorrect == SessionSpec => []SessionTypeOK
<1>1. IInv => SessionTypeOK
  BY DEF IInv
<1>2. QED BY <1>1, Invariance, PTL

\* However many callers meet a missing or a rejected token, one login
\* replaces it (SeatSession.renew, ensure_token).
THEOREM OnlyTheFirstLogsIn == SessionSpec => []OneLoginPerToken
<1>1. IInv => OneLoginPerToken
  BY DEF IInv, Renewals, OneLoginPerToken
<1>2. QED BY <1>1, Invariance, PTL

\* A write is processed at most once per call, and not at all when the call
\* ends TOKEN_EXPIRED (_post_envelope's resend, UrllibWire's single attempt).
THEOREM ResendIsSafe == SessionSpec => []WritesAppliedOnce
<1>1. IInv => WritesAppliedOnce
  BY DEF IInv, Unsent, WritesAppliedOnce
<1>2. QED BY <1>1, Invariance, PTL

===============================================================================
