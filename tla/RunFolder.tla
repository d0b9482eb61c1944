------------------------------ MODULE RunFolder ------------------------------
(***************************************************************************)
(* The life of one run folder: run_task and resume_task of                 *)
(* agentkit/harness/run_one.py, the record's ended field                   *)
(* (agentkit/record/run_record.py), graph.json, and the tool journal       *)
(* (agentkit/transport/journal.py, agentkit/record/durable_io.py).  The    *)
(* engine is reduced to what these files show of it: which node runs,      *)
(* pauses, ends, and which call it makes.  A claim of a node whose action   *)
(* is not called (it waits for a person, or was refused) is one step with  *)
(* its outcome.  One command at a time works on the folder; it may be      *)
(* killed anywhere.                                                        *)
(***************************************************************************)
EXTENDS Naturals, Sequences, FiniteSets

CONSTANTS
  Node,         \* the nodes of the plan; each makes one tool call
  Deps,         \* Deps[n]: the nodes n waits for
  Asks,         \* the nodes that wait for a person's yes before they call
  Timed,        \* the nodes whose action has a timeout (reads only)
  MaxCrashes    \* bound: how often a command is killed

\* A plan without a cycle, as GraphStore.apply admits no other: among any nodes
\* there is one that waits for none of them.
ASSUME FolderAssumption ==
  /\ Deps \in [Node -> SUBSET Node]
  /\ \A S \in SUBSET Node : S # {} => \E n \in S : Deps[n] \cap S = {}
  /\ Asks \subseteq Node
  /\ Timed \subseteq Node
  /\ MaxCrashes \in Nat

VARIABLES
  record,   \* `ended` in taskrun.json; "none": no such file
  file,     \* graph.json
  lines,    \* tool_journal.jsonl: the calls it shows, in the order of the lines
  pc,       \* where the command that works on the folder is; "idle": no command
  mem,      \* the command's GraphStore
  seq,      \* JournaledSeatClient._seq: the number of the next call
  thread,   \* thread[n]: the pool thread of node n
  strays,   \* attempts abandoned after their timeout that still run
  answers,  \* resume_task's answers that are not in graph.json yet
  sent,     \* history: sent[n]: how often the platform got n's call
  crashes   \* history

disk == <<record, file, lines>>
process == <<pc, mem, seq, thread, strays, answers>>
vars == <<disk, process, sent, crashes>>

Ended == {"none", "running", "paused", "done", "error"}

State == {"pending", "running", "paused", "yes", "no", "done"}

\* A call: who makes it, under which number, and whether it was sent.
Line == [node : Node, seq : Nat]

Thread == [at : {"none", "queued", "numbered", "sent", "out"}, seq : Nat]

NoThread == [at |-> "none", seq |-> 0]

Pending == [n \in Node |-> "pending"]

Init ==
  /\ record = "none" /\ file = Pending /\ lines = <<>>
  /\ pc = "idle" /\ mem = Pending /\ seq = 1
  /\ thread = [n \in Node |-> NoThread] /\ strays = {}
  /\ answers = [n \in {} |-> "yes"]
  /\ sent = [n \in Node |-> 0] /\ crashes = 0

\* The process is gone, and its threads with it.
Leaves ==
  /\ pc' = "idle" /\ mem' = Pending /\ seq' = 1
  /\ thread' = [n \in Node |-> NoThread] /\ strays' = {}
  /\ answers' = [n \in {} |-> "yes"]

-------------------------------------------------------------------------------
(* run_task and resume_task up to the graph                                *)

\* run_task: the record is on disk before any work.  The callers give every
\* run a folder of its own.
Open ==
  /\ pc = "idle" /\ record = "none"
  /\ record' = "running" /\ pc' = "setup"
  /\ UNCHANGED <<file, lines, mem, seq, thread, strays, answers, sent, crashes>>

Waiting(g) == {n \in Node : g[n] = "paused"}

\* Mutant: any run can be resumed.
ResumableAlways == record # "none"

\* resume_task refuses a run that is not paused ...
Resumable == record = "paused"

\* ... and answers for nodes that are not waiting; its caller refuses to
\* resume without any answer.
Resume ==
  /\ pc = "idle" /\ Resumable
  /\ mem' = [n \in Node |-> IF file[n] = "running" THEN "pending" ELSE file[n]]
  /\ \E A \in SUBSET Waiting(file) \ {{}} : answers' \in [A -> {"yes", "no"}]
  /\ pc' = "answer"
  /\ UNCHANGED <<disk, seq, thread, strays, sent, crashes>>

\* store.resume(node, answer), which saves graph.json
Answer(n) ==
  /\ pc = "answer" /\ n \in DOMAIN answers
  /\ mem' = [mem EXCEPT ![n] = answers[n]]
  /\ file' = mem'
  /\ answers' = [m \in DOMAIN answers \ {n} |-> answers[m]]
  /\ UNCHANGED <<record, lines, pc, seq, thread, strays, sent, crashes>>

Reopened == "running"

LastSeq == LET S == {lines[i].seq : i \in DOMAIN lines} \cup {0}
           IN CHOOSE s \in S : \A t \in S : t <= s

\* Mutant: the calls of a resumed run are numbered from 1 again.
FromOne == 1

\* start_seq = last_seq + 1
NextSeq == LastSeq + 1

Reopen ==
  /\ pc = "answer" /\ DOMAIN answers = {}
  /\ record' = Reopened /\ seq' = NextSeq /\ pc' = "setup"
  /\ UNCHANGED <<file, lines, mem, thread, strays, answers, sent, crashes>>

\* The pack, the login, the catalogue, the plan; then run() and
\* continue_from(), which both save graph.json.
Start ==
  /\ pc = "setup"
  /\ file' = mem /\ pc' = "work"
  /\ UNCHANGED <<record, lines, mem, seq, thread, strays, answers, sent, crashes>>

\* TaskRun.finish; what follows is telemetry, and threads that the run
\* abandoned still live.
Finished(ended) ==
  /\ record' = ended /\ pc' = "closing"
  /\ UNCHANGED <<file, lines, mem, seq, thread, strays, answers, sent, crashes>>

\* `except Exception`, before, during or after the graph: the record says so.
\* The pool has waited for its threads.
Fail ==
  /\ pc \in {"setup", "failing", "conclude"}
  /\ \A n \in Node : thread[n].at \in {"none", "out"}
  /\ Finished("error")

-------------------------------------------------------------------------------
(* The graph                                                               *)

Ready(n) == mem[n] \in {"pending", "yes", "no"} /\ \A d \in Deps[n] : mem[d] = "done"

Saved(n, state) == mem' = [mem EXCEPT ![n] = state] /\ file' = mem'

Moves(n, at) == thread' = [thread EXCEPT ![n].at = at]

\* A node without an answer pauses, one that a person refused ends without
\* a call; the others start.
Claim(n) ==
  /\ pc = "work" /\ Ready(n) /\ thread[n].at = "none"
  /\ \/ mem[n] = "pending" /\ n \in Asks /\ Saved(n, "paused") /\ UNCHANGED thread
     \/ mem[n] = "no" /\ Saved(n, "done") /\ UNCHANGED thread
     \/ /\ mem[n] = "yes" \/ n \notin Asks
        /\ mem[n] # "no"
        /\ Saved(n, "running") /\ Moves(n, "queued")
  /\ UNCHANGED <<record, lines, pc, seq, strays, answers, sent, crashes>>

\* invoke_tool: the call gets its number under the lock, ...
Number(n) ==
  /\ thread[n].at = "queued"
  /\ thread' = [thread EXCEPT ![n] = [at |-> "numbered", seq |-> seq]]
  /\ seq' = seq + 1
  /\ UNCHANGED <<disk, pc, mem, strays, answers, sent, crashes>>

\* ... is sent, ...
Send(n) ==
  /\ thread[n].at = "numbered"
  /\ Moves(n, "sent")
  /\ sent' = [sent EXCEPT ![n] = @ + 1]
  /\ UNCHANGED <<disk, pc, mem, seq, strays, answers, crashes>>

\* ... and journalled when it has returned, with its result or its error.  A
\* call whose arguments the schema refuses is journalled and not sent.
Journal(n) ==
  /\ thread[n].at \in {"numbered", "sent"}
  /\ lines' = Append(lines, [node |-> n, seq |-> thread[n].seq])
  /\ Moves(n, "out")
  /\ UNCHANGED <<record, file, pc, mem, seq, strays, answers, sent, crashes>>

\* The node fails with its timeout; the attempt, which has its number by then,
\* goes on in its own thread and may reach the journal at any time while the
\* process lives.  What an abandoned read sends is not counted.
Abandon(n) ==
  /\ n \in Timed /\ thread[n].at \in {"numbered", "sent"}
  /\ strays' = strays \cup {[node |-> n, seq |-> thread[n].seq]}
  /\ Moves(n, "out")
  /\ UNCHANGED <<disk, pc, mem, seq, answers, sent, crashes>>

Late(call) ==
  /\ lines' = Append(lines, call)
  /\ strays' = strays \ {call}
  /\ UNCHANGED <<record, file, pc, mem, seq, thread, answers, sent, crashes>>

\* The scheduler records the outcome and asks the planner, which may raise:
\* the pool then ends its threads, and their outcomes are dropped.
Finish(n) ==
  /\ pc = "work" /\ thread[n].at = "out" /\ mem[n] = "running"
  /\ Saved(n, "done")
  /\ pc' \in {"work", "failing"}
  /\ UNCHANGED <<record, lines, seq, thread, strays, answers, sent, crashes>>

-------------------------------------------------------------------------------
(* The end of a command                                                    *)

Over == \A n \in Node : ~Ready(n) /\ mem[n] # "running"

\* _conclude: the run waits for a person, ...
Pause ==
  /\ pc = "work" /\ Over /\ Waiting(mem) # {}
  /\ Finished("paused")

\* ... or is answered, which may fail.
Conclude ==
  /\ pc = "work" /\ Over /\ Waiting(mem) = {}
  /\ pc' = "conclude"
  /\ UNCHANGED <<disk, mem, seq, thread, strays, answers, sent, crashes>>

Done == pc = "conclude" /\ Finished("done")

Exit ==
  /\ pc = "closing"
  /\ Leaves
  /\ UNCHANGED <<disk, sent, crashes>>

\* The command is killed.  A line it was writing is torn and does not count;
\* nothing is appended behind it, because a record that says "running" is not
\* resumed.  (Left out: an abandoned read's line torn while a paused run exits.)
Crash ==
  /\ pc # "idle" /\ crashes < MaxCrashes
  /\ crashes' = crashes + 1
  /\ Leaves
  /\ UNCHANGED <<disk, sent>>

Command == Open \/ Resume \/ Reopen \/ Start \/ Fail \/ Pause \/ Conclude \/ Done \/ Exit

Works(n) ==
  Answer(n) \/ Claim(n) \/ Number(n) \/ Send(n) \/ Journal(n) \/ Abandon(n) \/ Finish(n)

Next ==
  \/ Command
  \/ \E n \in Node : Works(n)
  \/ \E call \in strays : Late(call)
  \/ Crash

Spec == Init /\ [][Next]_vars

-------------------------------------------------------------------------------
(* Properties                                                              *)

\* The files and the process keep to their types.
TypeOK ==
  /\ record \in Ended
  /\ file \in [Node -> State] /\ mem \in [Node -> State]
  /\ lines \in Seq(Line)
  /\ pc \in {"idle", "setup", "answer", "work", "failing", "conclude", "closing"}
  /\ seq \in Nat \ {0}
  /\ thread \in [Node -> Thread]
  /\ strays \subseteq Line
  /\ DOMAIN answers \subseteq Node
  /\ \A n \in DOMAIN answers : answers[n] \in {"yes", "no"}
  /\ sent \in [Node -> Nat]
  /\ crashes \in Nat

\* Journal numbers are unique over the whole folder, also when abandoned
\* attempts append late and a resumed run goes on from the lines it finds.
JournalNumbersUnique ==
  \A i, j \in DOMAIN lines : lines[i].seq = lines[j].seq => i = j

\* Once the record says how the run ended, the journal shows every call that
\* was sent, but for reads abandoned after a timeout; where a crash lost one
\* the record still says "running".
CallsAreJournalled ==
  record # "running" =>
    \A n \in Node \ Timed : sent[n] > 0 => \E i \in DOMAIN lines : lines[i].node = n

\* The journal can be graded: no number twice, no call missing.
JournalIsSound == JournalNumbersUnique /\ CallsAreJournalled

\* A call that a person has to allow is sent at most once in the life of the
\* folder, crashes and resumes included, and not before graph.json says so.
SentOnceAfterYes ==
  \A n \in Asks : sent[n] <= 1 /\ (sent[n] = 1 => file[n] \in {"running", "done"})

\* A run that is done has no unfinished node, and the files of a run that
\* ended, well or not, are never touched again, but for the journal lines of
\* abandoned reads: they are what is graded.
FinalIsFinal ==
  [][/\ record \in {"done", "error"} =>
          /\ UNCHANGED <<record, file>>
          /\ lines' = lines \/ \E call \in strays : lines' = Append(lines, call)
     /\ record' = "done" => \A n \in Node : file'[n] = "done"]_vars

\* "run_one --resume <run_dir> --approve <node> or --reject <node> completes
\* the same folder": a paused run has a node to answer.
PausedCanBeContinued ==
  pc = "idle" /\ record = "paused" => Waiting(file) # {}

===============================================================================
