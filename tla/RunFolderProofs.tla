--------------------------- MODULE RunFolderProofs ----------------------------
(***************************************************************************)
(* Theorems about RunFolder, for every plan, every set of nodes that ask   *)
(* or time out, and any number of crashes and resumes.                     *)
(***************************************************************************)
EXTENDS RunFolder, SequenceTheorems, TLAPS

Lines == DOMAIN lines

Journalled(s) == \E i \in Lines : lines[i].seq = s

\* Node n has taken a number for a call that is not in the journal yet.
Holds(n) == thread[n].at \in {"numbered", "sent"}

\* The record and the graph on disk tell where the command is.
Life ==
  /\ record = "none" => pc = "idle" /\ lines = <<>> /\ file = Pending
  /\ pc \in {"setup", "work", "failing", "conclude"} => record = "running"
  /\ pc = "answer" => record = "paused"
  /\ pc = "closing" => record \in {"paused", "done", "error"}
  /\ file = mem \/ (pc = "idle" /\ mem = Pending)
  /\ record = "paused" => \A n \in Node : file[n] # "running"
  /\ pc # "answer" => DOMAIN answers = {}
  /\ \A n \in DOMAIN answers : file[n] = "paused"

\* Threads live from the first claim to the end of the pool; strays live on.
Threads ==
  /\ pc \in {"idle", "answer", "setup"} => strays = {} /\ \A n \in Node : thread[n].at = "none"
  /\ pc \in {"conclude", "closing"} => \A n \in Node : thread[n].at \in {"none", "out"}
  /\ \A n \in Node : thread[n].at \in {"queued", "numbered", "sent"} => mem[n] = "running"

\* The journal has a largest number; numbers held by threads and strays are
\* below the next one, and different from each other and from the journal's.
Numbers ==
  /\ lines = <<>> \/ \E i \in Lines : \A j \in Lines : lines[j].seq <= lines[i].seq
  /\ pc \notin {"idle", "answer"} => \A i \in Lines : lines[i].seq < seq
  /\ \A n \in Node : Holds(n) => thread[n].seq < seq /\ ~Journalled(thread[n].seq)
  /\ \A m, n \in Node : Holds(m) /\ Holds(n) /\ thread[m].seq = thread[n].seq => m = n
  /\ \A c \in strays : c.seq < seq /\ ~Journalled(c.seq)
  /\ \A c, d \in strays : c.seq = d.seq => c = d
  /\ \A c \in strays, n \in Node : Holds(n) => thread[n].seq # c.seq

\* A call that was sent is in the journal or about to be written to it, unless
\* the command that sent it was killed.
Calls ==
  pc # "idle" \/ record # "running" =>
    \A n \in Node \ Timed :
      sent[n] > 0 => thread[n].at = "sent" \/ \E i \in Lines : lines[i].node = n

\* A node on its way to its call has not called in any life of the folder.
Unsent ==
  \A n \in Asks : thread[n].at \in {"queued", "numbered"} => sent[n] = 0

IInv ==
  TypeOK /\ Life /\ Threads /\ Numbers /\ JournalNumbersUnique /\ Calls /\ Unsent /\ SentOnceAfterYes

LEMMA InitIInv == Init => IInv
<1> SUFFICES ASSUME Init PROVE IInv
  OBVIOUS
<1>1. TypeOK
  BY FolderAssumption DEF Init, TypeOK, Ended, State, Thread, NoThread, Pending
<1>2. lines = <<>> /\ Lines = {} /\ DOMAIN answers = {} /\ strays = {}
      /\ pc = "idle" /\ record = "none" /\ file = Pending /\ mem = Pending
  BY DEF Init, Lines
<1>3. \A n \in Node : thread[n].at = "none" /\ sent[n] = 0
  BY DEF Init, NoThread
<1>4. Life
  BY <1>2 DEF Life
<1>5. Threads
  BY <1>2, <1>3 DEF Threads
<1>6. Numbers
  BY <1>2, <1>3 DEF Numbers, Holds
<1>7. JournalNumbersUnique
  BY <1>2 DEF JournalNumbersUnique, Lines
<1>8. Calls /\ Unsent /\ SentOnceAfterYes
  BY <1>3, FolderAssumption DEF Calls, Unsent, SentOnceAfterYes
<1> QED BY <1>1, <1>4, <1>5, <1>6, <1>7, <1>8 DEF IInv

\* The journal's next number is above all that are in it, crashes or not.
LEMMA NextSeqIsNew ==
  ASSUME TypeOK, Numbers
  PROVE  NextSeq \in Nat \ {0} /\ \A i \in Lines : lines[i].seq < NextSeq
<1> DEFINE S == {lines[i].seq : i \in Lines} \cup {0}
<1>1. \A i \in Lines : lines[i].seq \in Nat
  <2>1. lines \in Seq(Line)
    BY DEF TypeOK
  <2>2. \A i \in Lines : lines[i] \in Line
    BY <2>1, ElementOfSeq, LenProperties DEF Lines
  <2> QED BY <2>2 DEF Line
<1>2. \E s \in S : \A t \in S : t <= s
  <2>1. CASE lines = <<>>
    BY <2>1 DEF Lines
  <2>2. CASE \E i \in Lines : \A j \in Lines : lines[j].seq <= lines[i].seq
    <3>1. PICK i \in Lines : \A j \in Lines : lines[j].seq <= lines[i].seq
      BY <2>2
    <3>2. \A t \in S : t <= lines[i].seq
      BY <1>1, <3>1
    <3> QED BY <3>2
  <2> QED BY <2>1, <2>2 DEF Numbers
<1>3. LastSeq \in S /\ \A t \in S : t <= LastSeq
  BY <1>2 DEF LastSeq, Lines
<1>4. S \subseteq Nat
  BY <1>1
<1> QED BY <1>1, <1>3, <1>4 DEF NextSeq

-------------------------------------------------------------------------------
(* Types                                                                   *)

LEMMA LeavesTypes ==
  ASSUME Leaves
  PROVE  /\ pc' = "idle" /\ mem' = Pending /\ seq' = 1 /\ strays' = {} /\ DOMAIN answers' = {}
         /\ mem' \in [Node -> State] /\ thread' \in [Node -> Thread]
         /\ \A n \in Node : thread'[n].at = "none"
BY DEF Leaves, Pending, State, Thread, NoThread

LEMMA TypeStep ==
  ASSUME TypeOK, Numbers, [Next]_vars
  PROVE  TypeOK'
<1> USE DEF TypeOK
<1>1. CASE Open
  BY <1>1 DEF Open, Ended
<1>2. CASE Resume
  <2>1. mem' \in [Node -> State]
    BY <1>2 DEF Resume, State
  <2>2. DOMAIN answers' \subseteq Node /\ \A n \in DOMAIN answers' : answers'[n] \in {"yes", "no"}
    BY <1>2 DEF Resume, Waiting
  <2> QED BY <1>2, <2>1, <2>2 DEF Resume, disk
<1>3. CASE Reopen
  BY <1>3, NextSeqIsNew DEF Reopen, Reopened, Ended
<1>4. CASE Start
  BY <1>4 DEF Start
<1>5. ASSUME NEW e \in Ended, Finished(e)
      PROVE  TypeOK'
  BY <1>5 DEF Finished
<1>6. CASE Fail \/ Pause \/ Done
  BY <1>5, <1>6 DEF Fail, Pause, Done, Ended
<1>7. CASE Conclude
  BY <1>7 DEF Conclude, disk
<1>8. CASE Exit \/ Crash
  BY <1>8, LeavesTypes, FolderAssumption DEF Exit, Crash, disk
<1>9. ASSUME NEW n \in Node, Works(n)
      PROVE  TypeOK'
  <2>1. CASE Answer(n)
    <3>1. answers[n] \in State
      BY <2>1 DEF Answer, State
    <3> QED BY <2>1, <3>1 DEF Answer
  <2>2. ASSUME NEW at \in {"queued", "sent", "out"}, Moves(n, at)
        PROVE  thread' \in [Node -> Thread]
    BY <2>2 DEF Moves, Thread
  <2>3. CASE Claim(n)
    <3>1. mem' \in [Node -> State] /\ file' \in [Node -> State]
      BY <2>3 DEF Claim, Saved, State
    <3>2. thread' \in [Node -> Thread]
      BY <2>2, <2>3 DEF Claim
    <3> QED BY <2>3, <3>1, <3>2 DEF Claim
  <2>4. CASE Number(n)
    <3>1. thread' \in [Node -> Thread]
      BY <2>4 DEF Number, Thread
    <3> QED BY <2>4, <3>1 DEF Number, disk
  <2>5. CASE Send(n)
    BY <2>2, <2>5 DEF Send, disk
  <2>6. CASE Journal(n)
    <3>1. [node |-> n, seq |-> thread[n].seq] \in Line
      BY DEF Thread, Line
    <3> QED BY <2>2, <2>6, <3>1 DEF Journal
  <2>7. CASE Abandon(n)
    <3>1. [node |-> n, seq |-> thread[n].seq] \in Line
      BY DEF Thread, Line
    <3> QED BY <2>2, <2>7, <3>1 DEF Abandon, disk
  <2>8. CASE Finish(n)
    BY <2>8 DEF Finish, Saved, State
  <2> QED BY <1>9, <2>1, <2>3, <2>4, <2>5, <2>6, <2>7, <2>8 DEF Works
<1>10. ASSUME NEW c \in strays, Late(c)
       PROVE  TypeOK'
  BY <1>10 DEF Late
<1>11. CASE UNCHANGED vars
  BY <1>11 DEF vars, disk, process
<1> QED BY <1>1, <1>2, <1>3, <1>4, <1>6, <1>7, <1>8, <1>9, <1>10, <1>11 DEF Next, Command

-------------------------------------------------------------------------------
(* Where the command is                                                    *)

LEMMA LifeStep ==
  ASSUME TypeOK, Life, Threads, [Next]_vars
  PROVE  Life'
<1> USE DEF Life
<1>1. CASE Open
  BY <1>1 DEF Open
<1>2. CASE Resume
  <2>1. record = "paused" /\ mem' = file
    BY <1>2 DEF Resume, Resumable, TypeOK
  <2> QED BY <1>2, <2>1 DEF Resume, Waiting, disk
<1>3. CASE Reopen
  BY <1>3 DEF Reopen, Reopened
<1>4. CASE Start
  BY <1>4 DEF Start
<1>5. CASE Fail
  BY <1>5 DEF Fail, Finished
<1>6. CASE Pause
  BY <1>6 DEF Pause, Finished, Over
<1>7. CASE Conclude
  BY <1>7 DEF Conclude, disk
<1>8. CASE Done
  BY <1>8 DEF Done, Finished
<1>9. CASE Exit \/ Crash
  BY <1>9, LeavesTypes DEF Exit, Crash, Leaves, disk
<1>10. ASSUME NEW n \in Node, Works(n)
       PROVE  Life'
  <2>1. CASE Answer(n)
    <3>1. pc = "answer" /\ record = "paused" /\ n \in DOMAIN answers
          /\ answers[n] \in {"yes", "no"}
      BY <2>1 DEF Answer, TypeOK
    <3>2. file = mem /\ file \in [Node -> State]
      BY <3>1 DEF TypeOK
    <3>3. DOMAIN answers' = DOMAIN answers \ {n}
      BY <2>1 DEF Answer
    <3>4. file' = [file EXCEPT ![n] = answers[n]] /\ mem' = file'
      BY <2>1, <3>2 DEF Answer
    <3>5. \A m \in Node : file'[m] # "running"
      BY <3>1, <3>2, <3>4
    <3>6. \A m \in DOMAIN answers' : file'[m] = "paused"
      BY <3>1, <3>2, <3>3, <3>4 DEF TypeOK
    <3> QED BY <2>1, <3>1, <3>4, <3>5, <3>6 DEF Answer
  <2>2. CASE Claim(n)
    BY <2>2 DEF Claim, Saved
  <2>3. CASE Number(n) \/ Send(n) \/ Abandon(n)
    BY <2>3 DEF Number, Send, Abandon, disk
  <2>4. CASE Journal(n)
    <3>1. record # "none"
      BY <2>4 DEF Journal, Threads
    <3> QED BY <2>4, <3>1 DEF Journal
  <2>5. CASE Finish(n)
    BY <2>5 DEF Finish, Saved
  <2> QED BY <1>10, <2>1, <2>2, <2>3, <2>4, <2>5 DEF Works
<1>11. ASSUME NEW c \in strays, Late(c)
       PROVE  Life'
  BY <1>11 DEF Late, Threads
<1>12. CASE UNCHANGED vars
  BY <1>12 DEF vars, disk, process
<1> QED BY <1>1, <1>2, <1>3, <1>4, <1>5, <1>6, <1>7, <1>8, <1>9, <1>10, <1>11, <1>12
        DEF Next, Command

LEMMA ThreadsStep ==
  ASSUME TypeOK, Life, Threads, [Next]_vars
  PROVE  Threads'
<1> USE DEF Threads
<1>1. CASE Open \/ Reopen \/ Start
  BY <1>1 DEF Open, Reopen, Start
<1>2. CASE Resume
  BY <1>2 DEF Resume
<1>3. CASE Fail
  BY <1>3 DEF Fail, Finished
<1>4. \A n \in Node : thread[n].at \in {"none", "queued", "numbered", "sent", "out"}
  BY DEF TypeOK, Thread
<1>5. CASE Pause \/ Conclude
  BY <1>4, <1>5 DEF Pause, Conclude, Finished, Over
<1>6. CASE Done
  BY <1>6 DEF Done, Finished
<1>7. CASE Exit \/ Crash
  BY <1>7, LeavesTypes DEF Exit, Crash
<1>8. ASSUME NEW n \in Node, Works(n)
      PROVE  Threads'
  <2>1. CASE Answer(n)
    BY <2>1 DEF Answer
  <2>2. CASE Claim(n)
    BY <2>2 DEF Claim, Saved, Moves, TypeOK
  <2>3. CASE Number(n)
    BY <2>3 DEF Number, TypeOK
  <2>4. CASE Send(n)
    BY <2>4 DEF Send, Moves, TypeOK
  <2>5. CASE Journal(n)
    BY <2>5 DEF Journal, Moves, TypeOK
  <2>6. CASE Abandon(n)
    BY <2>6 DEF Abandon, Moves, TypeOK
  <2>7. CASE Finish(n)
    BY <2>7 DEF Finish, Saved, TypeOK
  <2> QED BY <1>8, <2>1, <2>2, <2>3, <2>4, <2>5, <2>6, <2>7 DEF Works
<1>9. ASSUME NEW c \in strays, Late(c)
      PROVE  Threads'
  BY <1>9 DEF Late
<1>10. CASE UNCHANGED vars
  BY <1>10 DEF vars, disk, process
<1> QED BY <1>1, <1>2, <1>3, <1>5, <1>6, <1>7, <1>8, <1>9, <1>10 DEF Next, Command

-------------------------------------------------------------------------------
(* The journal                                                             *)

\* A line with a number the journal does not have goes to its end.
LEMMA LineAdded ==
  ASSUME TypeOK, Numbers, JournalNumbersUnique,
         NEW c \in Line, lines' = Append(lines, c), ~Journalled(c.seq)
  PROVE  /\ JournalNumbersUnique'
         /\ \A s \in Nat : Journalled(s)' <=> Journalled(s) \/ s = c.seq
         /\ \A n \in Node : (\E i \in Lines' : lines'[i].node = n)
                              <=> n = c.node \/ \E i \in Lines : lines[i].node = n
         /\ \A b \in Nat : (\A i \in Lines : lines[i].seq < b) /\ c.seq < b
                            => \A i \in Lines' : lines'[i].seq < b
         /\ \E i \in Lines' : \A j \in Lines' : lines'[j].seq <= lines'[i].seq
<1> DEFINE k == Len(lines)
<1>1. lines \in Seq(Line) /\ k \in Nat /\ Lines = 1..k
  BY LenProperties DEF TypeOK, Lines
<1>2. \A i \in 1..k : lines[i] \in Line
  BY <1>1, ElementOfSeq
<1>3. /\ Lines' = 1..(k + 1)
      /\ \A i \in 1..k : lines'[i] = lines[i]
      /\ lines'[k + 1] = c
  <2>1. /\ lines' \in Seq(Line) /\ Len(lines') = k + 1
        /\ \A i \in 1..k : lines'[i] = lines[i]
        /\ lines'[k + 1] = c
    BY <1>1, AppendProperties
  <2>2. DOMAIN lines' = 1..(k + 1)
    BY <2>1, LenProperties
  <2> QED BY <2>1, <2>2 DEF Lines
<1>4. c.seq \in Nat /\ \A i \in 1..k : lines[i].seq \in Nat
  BY <1>2 DEF Line
<1> HIDE DEF k
<1>a. \A j \in Lines' : lines'[j] = c \/ (j \in Lines /\ lines'[j] = lines[j])
  <2> SUFFICES ASSUME NEW j \in 1..(k + 1)
               PROVE  lines'[j] = c \/ (j \in 1..k /\ lines'[j] = lines[j])
    BY <1>1, <1>3
  <2>1. j = k + 1 \/ j \in 1..k
    BY <1>1
  <2> QED BY <1>3, <2>1
<1>b. \A i \in Lines : i \in Lines' /\ lines'[i] = lines[i]
  <2>1. \A i \in 1..k : i \in 1..(k + 1)
    BY <1>1
  <2> QED BY <1>1, <1>3, <2>1
<1>c. k + 1 \in Lines' /\ lines'[k + 1] = c
  BY <1>1, <1>3
<1>5. JournalNumbersUnique'
  <2>1. \A i, j \in 1..(k + 1) : lines'[i].seq = lines'[j].seq => i = j
    BY <1>1, <1>3 DEF JournalNumbersUnique, Journalled, Lines
  <2> QED BY <1>3, <2>1 DEF JournalNumbersUnique, Lines
<1>6. \A s \in Nat : Journalled(s)' <=> Journalled(s) \/ s = c.seq
  BY <1>1, <1>3 DEF Journalled
<1>7. \A n \in Node : (\E i \in Lines' : lines'[i].node = n)
                       <=> n = c.node \/ \E i \in Lines : lines[i].node = n
  BY <1>a, <1>b, <1>c
<1>8. \A b \in Nat : (\A i \in Lines : lines[i].seq < b) /\ c.seq < b
                     => \A i \in Lines' : lines'[i].seq < b
  BY <1>a
<1>9. \E i \in Lines' : \A j \in Lines' : lines'[j].seq <= lines'[i].seq
  <2>1. CASE lines = <<>>
    <3>1. k = 0
      BY <2>1, <1>1 DEF Lines
    <3> QED BY <1>3, <1>4, <3>1
  <2>2. CASE \E i \in Lines : \A j \in Lines : lines[j].seq <= lines[i].seq
    <3>1. PICK i \in Lines : \A j \in Lines : lines[j].seq <= lines[i].seq
      BY <2>2
    <3>2. lines[i].seq \in Nat /\ i \in Lines' /\ lines'[i] = lines[i]
      BY <1>1, <1>4, <1>b, <3>1
    <3>3. CASE c.seq <= lines[i].seq
      <4>1. \A j \in Lines' : lines'[j].seq <= lines'[i].seq
        BY <1>a, <3>1, <3>2, <3>3
      <4> QED BY <3>2, <4>1
    <3>4. CASE lines[i].seq < c.seq
      <4>1. ASSUME NEW j \in Lines'
            PROVE  lines'[j].seq <= c.seq
        <5>1. CASE lines'[j] = c
          BY <1>4, <5>1
        <5>2. CASE j \in Lines /\ lines'[j] = lines[j]
          BY <1>1, <1>4, <3>1, <3>2, <3>4, <5>2
        <5> QED BY <1>a, <5>1, <5>2
      <4>2. lines'[k + 1].seq = c.seq
        BY <1>c
      <4>3. \A j \in Lines' : lines'[j].seq <= lines'[k + 1].seq
        BY <4>1, <4>2
      <4> QED BY <1>c, <4>3
    <3>5. c.seq <= lines[i].seq \/ lines[i].seq < c.seq
      BY <1>4, <3>2
    <3> QED BY <3>3, <3>4, <3>5, Zenon
  <2> QED BY <2>1, <2>2 DEF Numbers
<1> QED BY <1>5, <1>6, <1>7, <1>8, <1>9

\* A step that hands out no number and writes no line.
LEMMA NumbersKept ==
  ASSUME TypeOK, Numbers, JournalNumbersUnique, lines' = lines, strays' \subseteq strays,
         \A n \in Node : Holds(n)' => Holds(n) /\ thread'[n].seq = thread[n].seq,
         seq' = seq \/ (strays' = {} /\ \A n \in Node : ~Holds(n)'),
         pc' \notin {"idle", "answer"} => \A i \in Lines : lines[i].seq < seq'
  PROVE  Numbers' /\ JournalNumbersUnique'
<1>1. Lines' = Lines /\ \A s : Journalled(s)' <=> Journalled(s)
  BY DEF Lines, Journalled
<1>2. \A n \in Node : Holds(n)' => thread'[n].seq < seq' /\ ~Journalled(thread[n].seq)'
  BY <1>1 DEF Numbers
<1>3. \A c \in strays' : c.seq < seq' /\ ~Journalled(c.seq)'
  BY <1>1 DEF Numbers
<1>4. JournalNumbersUnique'
  BY DEF JournalNumbersUnique
<1> QED BY <1>1, <1>2, <1>3, <1>4 DEF Numbers

LEMMA NumbersStep ==
  ASSUME TypeOK, Life, Threads, Numbers, JournalNumbersUnique, [Next]_vars
  PROVE  Numbers' /\ JournalNumbersUnique'
<1>1. CASE Open
  BY <1>1, NumbersKept DEF Open, Holds, Numbers, Life, Lines
<1>2. CASE Resume
  BY <1>2, NumbersKept DEF Resume, Holds, disk
<1>3. CASE Reopen
  <2>1. strays = {} /\ \A n \in Node : ~Holds(n)
    BY <1>3 DEF Reopen, Threads, Holds
  <2>2. seq' = NextSeq /\ lines' = lines /\ strays' = strays /\ thread' = thread
    BY <1>3 DEF Reopen
  <2>3. \A n \in Node : ~Holds(n)'
    BY <2>1, <2>2 DEF Holds
  <2> QED BY <2>1, <2>2, <2>3, NumbersKept, NextSeqIsNew
<1>4. CASE Start \/ Conclude
  BY <1>4, NumbersKept DEF Start, Conclude, Holds, Numbers, disk
<1>5. ASSUME NEW e, Finished(e), pc \notin {"idle", "answer"}
      PROVE  Numbers' /\ JournalNumbersUnique'
  BY <1>5, NumbersKept DEF Finished, Holds, Numbers
<1>6. CASE Fail \/ Pause \/ Done
  BY <1>5, <1>6 DEF Fail, Pause, Done
<1>7. CASE Exit \/ Crash
  <2>1. lines' = lines /\ strays' = {} /\ pc' = "idle" /\ \A n \in Node : ~Holds(n)'
    BY <1>7, LeavesTypes DEF Exit, Crash, disk, Holds
  <2> QED BY <2>1, NumbersKept
<1>8. ASSUME NEW n \in Node, Works(n)
      PROVE  Numbers' /\ JournalNumbersUnique'
  <2>1. CASE Answer(n)
    BY <2>1, NumbersKept DEF Answer, Holds
  <2>2. CASE Claim(n)
    <3>1. \A m \in Node : Holds(m)' => Holds(m) /\ thread'[m] = thread[m]
      <4>1. thread' = thread \/ thread' = [thread EXCEPT ![n].at = "queued"]
        BY <2>2 DEF Claim, Moves
      <4>2. CASE thread' = thread
        BY <4>2 DEF Holds
      <4>3. CASE thread' = [thread EXCEPT ![n].at = "queued"]
        <5>1. thread'[n].at = "queued" /\ \A m \in Node \ {n} : thread'[m] = thread[m]
          BY <4>3 DEF TypeOK, Thread
        <5> QED BY <5>1 DEF Holds
      <4> QED BY <4>1, <4>2, <4>3
    <3> QED BY <2>2, <3>1, NumbersKept DEF Claim, Numbers
  <2>3. CASE Number(n)
    <3>1. /\ lines' = lines /\ strays' = strays /\ seq' = seq + 1 /\ pc' = pc
          /\ thread' = [thread EXCEPT ![n] = [at |-> "numbered", seq |-> seq]]
          /\ thread[n].at = "queued"
      BY <2>3 DEF Number, disk
    <3>2. pc \notin {"idle", "answer"} /\ ~Holds(n)
      BY <3>1 DEF Threads, Holds
    <3>3. Lines' = Lines /\ \A s : Journalled(s)' <=> Journalled(s)
      BY <3>1 DEF Lines, Journalled
    <3>4. \A i \in Lines : lines[i].seq < seq
      BY <3>2 DEF Numbers
    <3>5. ~Journalled(seq)
      BY <3>4 DEF Journalled, TypeOK
    <3>6. \A m \in Node : \/ m = n /\ Holds(m)' /\ thread'[m].seq = seq
                          \/ m # n /\ (Holds(m)' <=> Holds(m)) /\ thread'[m] = thread[m]
      BY <3>1 DEF Holds, TypeOK
    <3>7. \A i \in Lines : lines[i].seq \in Nat
      <4>1. \A i \in Lines : lines[i] \in Line
        BY ElementOfSeq, LenProperties DEF TypeOK, Lines
      <4> QED BY <4>1 DEF Line
    <3>8. \A m \in Node : thread[m].seq \in Nat
      BY DEF TypeOK, Thread
    <3>9. seq \in Nat /\ \A c \in strays : c.seq \in Nat
      BY DEF TypeOK, Line
    <3>10. lines' = <<>> \/ \E i \in Lines' : \A j \in Lines' : lines'[j].seq <= lines'[i].seq
      BY <3>1, <3>3 DEF Numbers
    <3>11. \A i \in Lines' : lines'[i].seq < seq'
      BY <3>1, <3>3, <3>4, <3>7, <3>9
    <3>12. \A m \in Node : Holds(m)' => thread'[m].seq < seq' /\ ~Journalled(thread[m].seq)'
      BY <3>1, <3>3, <3>5, <3>6, <3>8, <3>9 DEF Numbers
    <3>13. \A m, o \in Node : Holds(m)' /\ Holds(o)' /\ thread'[m].seq = thread'[o].seq => m = o
      BY <3>6, <3>8, <3>9 DEF Numbers
    <3>14. \A c \in strays' : c.seq < seq' /\ ~Journalled(c.seq)'
      BY <3>1, <3>3, <3>9 DEF Numbers
    <3>15. \A c, d \in strays' : c.seq = d.seq => c = d
      BY <3>1 DEF Numbers
    <3>16. \A c \in strays', m \in Node : Holds(m)' => thread'[m].seq # c.seq
      BY <3>1, <3>6, <3>9 DEF Numbers
    <3>17. JournalNumbersUnique'
      BY <3>1 DEF JournalNumbersUnique
    <3> QED BY <3>10, <3>11, <3>12, <3>13, <3>14, <3>15, <3>16, <3>17 DEF Numbers
  <2>4. CASE Send(n)
    <3>1. \A m \in Node : Holds(m)' => Holds(m) /\ thread'[m].seq = thread[m].seq
      BY <2>4 DEF Send, Moves, Holds, TypeOK, Thread
    <3> QED BY <2>4, <3>1, NumbersKept DEF Send, Numbers, disk
  <2>5. CASE Journal(n)
    <3> DEFINE c == [node |-> n, seq |-> thread[n].seq]
    <3>1. /\ Holds(n) /\ lines' = Append(lines, c) /\ c \in Line /\ c.seq = thread[n].seq
          /\ seq' = seq /\ strays' = strays /\ pc' = pc
      BY <2>5 DEF Journal, Holds, TypeOK, Line, Thread
    <3>2. \A m \in Node : Holds(m)' => m # n /\ Holds(m) /\ thread'[m] = thread[m]
      BY <2>5 DEF Journal, Moves, Holds, TypeOK
    <3>3. c.seq < seq /\ ~Journalled(c.seq)
      BY <3>1 DEF Numbers
    <3> HIDE DEF c
    <3>4. seq \in Nat /\ (\A d \in strays : d.seq \in Nat) /\ \A m \in Node : thread[m].seq \in Nat
      BY DEF TypeOK, Line, Thread
    <3>5. /\ JournalNumbersUnique'
          /\ \A s \in Nat : Journalled(s)' <=> Journalled(s) \/ s = c.seq
          /\ (\A i \in Lines : lines[i].seq < seq) => \A i \in Lines' : lines'[i].seq < seq
          /\ \E i \in Lines' : \A j \in Lines' : lines'[j].seq <= lines'[i].seq
      BY <3>1, <3>3, <3>4, LineAdded
    <3>6. \A m \in Node : Holds(m)' => thread'[m].seq < seq' /\ ~Journalled(thread[m].seq)'
      BY <3>1, <3>2, <3>4, <3>5 DEF Numbers
    <3>7. \A d \in strays' : d.seq < seq' /\ ~Journalled(d.seq)'
      BY <3>1, <3>4, <3>5 DEF Numbers
    <3>8. \A i \in Lines' : pc' \notin {"idle", "answer"} => lines'[i].seq < seq'
      BY <3>1, <3>5 DEF Numbers
    <3>9. /\ \A m, o \in Node : Holds(m)' /\ Holds(o)' /\ thread'[m].seq = thread'[o].seq => m = o
          /\ \A d, e \in strays' : d.seq = e.seq => d = e
          /\ \A d \in strays', m \in Node : Holds(m)' => thread'[m].seq # d.seq
      BY <3>1, <3>2 DEF Numbers
    <3> QED BY <3>5, <3>6, <3>7, <3>8, <3>9 DEF Numbers
  <2>6. CASE Abandon(n)
    <3> DEFINE c == [node |-> n, seq |-> thread[n].seq]
    <3>1. /\ Holds(n) /\ lines' = lines /\ c.seq = thread[n].seq
          /\ seq' = seq /\ strays' = strays \cup {c} /\ pc' = pc
      BY <2>6 DEF Abandon, Holds, disk
    <3>2. \A m \in Node : Holds(m)' => m # n /\ Holds(m) /\ thread'[m] = thread[m]
      BY <2>6 DEF Abandon, Moves, Holds, TypeOK
    <3> HIDE DEF c
    <3>3. Lines' = Lines /\ \A s : Journalled(s)' <=> Journalled(s)
      BY <3>1 DEF Lines, Journalled
    <3>4. \A m \in Node : Holds(m)' => thread'[m].seq < seq' /\ ~Journalled(thread[m].seq)'
      BY <3>1, <3>2, <3>3 DEF Numbers
    <3>5. \A d \in strays' : d.seq < seq' /\ ~Journalled(d.seq)'
      BY <3>1, <3>3 DEF Numbers
    <3>6. \A d, e \in strays' : d.seq = e.seq => d = e
      BY <3>1 DEF Numbers
    <3>7. \A m, o \in Node : Holds(m)' /\ Holds(o)' /\ thread'[m].seq = thread'[o].seq => m = o
      BY <3>2 DEF Numbers
    <3>8. \A d \in strays', m \in Node : Holds(m)' => thread'[m].seq # d.seq
      BY <3>1, <3>2 DEF Numbers
    <3>9. JournalNumbersUnique'
      BY <3>1 DEF JournalNumbersUnique
    <3> QED BY <3>1, <3>3, <3>4, <3>5, <3>6, <3>7, <3>8, <3>9 DEF Numbers
  <2>7. CASE Finish(n)
    <3>1. pc = "work" /\ pc' \in {"work", "failing"} /\ lines' = lines /\ seq' = seq
          /\ thread' = thread /\ strays' = strays
      BY <2>7 DEF Finish
    <3> QED BY <3>1, NumbersKept DEF Holds, Numbers
  <2> QED BY <1>8, <2>1, <2>2, <2>3, <2>4, <2>5, <2>6, <2>7 DEF Works
<1>9. ASSUME NEW c \in strays, Late(c)
      PROVE  Numbers' /\ JournalNumbersUnique'
  <2>1. /\ lines' = Append(lines, c) /\ strays' = strays \ {c} /\ c \in Line
        /\ seq' = seq /\ pc' = pc /\ thread' = thread
    BY <1>9 DEF Late, TypeOK
  <2>2. c.seq < seq /\ ~Journalled(c.seq)
    BY DEF Numbers
  <2>3. seq \in Nat /\ (\A d \in strays : d.seq \in Nat) /\ \A m \in Node : thread[m].seq \in Nat
    BY DEF TypeOK, Line, Thread
  <2>4. /\ JournalNumbersUnique'
        /\ \A s \in Nat : Journalled(s)' <=> Journalled(s) \/ s = c.seq
        /\ (\A i \in Lines : lines[i].seq < seq) => \A i \in Lines' : lines'[i].seq < seq
        /\ \E i \in Lines' : \A j \in Lines' : lines'[j].seq <= lines'[i].seq
    BY <2>1, <2>2, <2>3, LineAdded
  <2>5. \A m \in Node : Holds(m)' <=> Holds(m)
    BY <2>1 DEF Holds
  <2>6. \A m \in Node : Holds(m)' => thread'[m].seq < seq' /\ ~Journalled(thread[m].seq)'
    BY <2>1, <2>3, <2>4, <2>5 DEF Numbers
  <2>7. \A d \in strays' : d.seq < seq' /\ ~Journalled(d.seq)'
    BY <2>1, <2>3, <2>4 DEF Numbers
  <2>8. \A i \in Lines' : pc' \notin {"idle", "answer"} => lines'[i].seq < seq'
    BY <2>1, <2>4 DEF Numbers
  <2>9. /\ \A m, o \in Node : Holds(m)' /\ Holds(o)' /\ thread'[m].seq = thread'[o].seq => m = o
        /\ \A d, e \in strays' : d.seq = e.seq => d = e
        /\ \A d \in strays', m \in Node : Holds(m)' => thread'[m].seq # d.seq
    BY <2>1, <2>5 DEF Numbers
  <2> QED BY <2>4, <2>6, <2>7, <2>8, <2>9 DEF Numbers
<1>10. CASE UNCHANGED vars
  BY <1>10, NumbersKept DEF vars, disk, process, Holds, Numbers
<1> QED BY <1>1, <1>2, <1>3, <1>4, <1>6, <1>7, <1>8, <1>9, <1>10 DEF Next, Command

-------------------------------------------------------------------------------
(* The calls                                                               *)

\* A step that sends nothing and stops no thread that has sent.
LEMMA CallsKept ==
  ASSUME Calls, sent' = sent, pc # "idle" \/ record # "running",
         \A n \in Node : (\E i \in Lines : lines[i].node = n) => \E i \in Lines' : lines'[i].node = n,
         \A n \in Node : thread[n].at = "sent" =>
                           thread'[n].at = "sent" \/ n \in Timed \/ \E i \in Lines' : lines'[i].node = n
  PROVE  Calls'
BY DEF Calls

LEMMA CallsStep ==
  ASSUME TypeOK, Life, Threads, Numbers, JournalNumbersUnique, Calls, [Next]_vars
  PROVE  Calls'
<1>1. CASE Open
  BY <1>1, CallsKept DEF Open, Lines
<1>2. CASE Resume
  BY <1>2, CallsKept DEF Resume, Resumable, Lines, disk
<1>3. CASE Reopen \/ Start \/ Conclude
  BY <1>3, CallsKept DEF Reopen, Start, Conclude, Lines, disk
<1>4. ASSUME NEW e, Finished(e), pc # "idle"
      PROVE  Calls'
  BY <1>4, CallsKept DEF Finished, Lines
<1>5. CASE Fail \/ Pause \/ Done
  BY <1>4, <1>5 DEF Fail, Pause, Done
<1>6. CASE Exit \/ Crash
  <2>1. /\ pc # "idle" /\ pc' = "idle" /\ record' = record /\ lines' = lines /\ sent' = sent
    BY <1>6, LeavesTypes DEF Exit, Crash, disk
  <2>2. CASE record = "running"
    BY <2>1, <2>2 DEF Calls
  <2>3. CASE record # "running"
    <3>1. \A n \in Node : thread[n].at # "sent"
      BY <2>1, <2>3 DEF Life, Threads, TypeOK
    <3> QED BY <2>1, <3>1, CallsKept DEF Lines
  <2> QED BY <2>2, <2>3
<1>7. ASSUME NEW n \in Node, Works(n)
      PROVE  Calls'
  <2>1. CASE Answer(n)
    BY <2>1, CallsKept DEF Answer, Lines
  <2>2. CASE Claim(n)
    <3>1. \A m \in Node : thread[m].at = "sent" => thread'[m].at = "sent"
      BY <2>2 DEF Claim, Moves, TypeOK
    <3> QED BY <2>2, <3>1, CallsKept DEF Claim, Lines
  <2>3. CASE Number(n)
    <3>1. \A m \in Node : thread[m].at = "sent" => thread'[m].at = "sent"
      BY <2>3 DEF Number, TypeOK
    <3>2. pc # "idle"
      BY <2>3 DEF Number, Threads
    <3> QED BY <2>3, <3>1, <3>2, CallsKept DEF Number, Lines, disk
  <2>4. CASE Send(n)
    <3>1. pc # "idle" /\ lines' = lines
      BY <2>4 DEF Send, Threads, disk
    <3>2. thread'[n].at = "sent" /\ \A m \in Node \ {n} : thread'[m] = thread[m]
      BY <2>4 DEF Send, Moves, TypeOK, Thread
    <3>3. \A m \in Node \ {n} : sent'[m] = sent[m]
      BY <2>4 DEF Send, TypeOK
    <3> QED BY <3>1, <3>2, <3>3 DEF Calls, Lines
  <2>5. CASE Journal(n)
    <3> DEFINE c == [node |-> n, seq |-> thread[n].seq]
    <3>1. /\ Holds(n) /\ lines' = Append(lines, c) /\ c \in Line /\ c.seq = thread[n].seq
          /\ c.node = n /\ pc # "idle" /\ sent' = sent
      BY <2>5 DEF Journal, Holds, TypeOK, Line, Thread, Threads
    <3>2. ~Journalled(c.seq)
      BY <3>1 DEF Numbers
    <3> HIDE DEF c
    <3>3. \A m \in Node : (\E i \in Lines' : lines'[i].node = m)
                           <=> m = n \/ \E i \in Lines : lines[i].node = m
      BY <3>1, <3>2, LineAdded
    <3>4. \A m \in Node \ {n} : thread'[m] = thread[m]
      BY <2>5 DEF Journal, Moves, TypeOK
    <3> QED BY <3>1, <3>3, <3>4, CallsKept
  <2>6. CASE Abandon(n)
    <3>1. pc # "idle" /\ lines' = lines /\ sent' = sent /\ n \in Timed
      BY <2>6 DEF Abandon, Threads, disk
    <3>2. \A m \in Node \ {n} : thread'[m] = thread[m]
      BY <2>6 DEF Abandon, Moves, TypeOK
    <3> QED BY <3>1, <3>2, CallsKept DEF Lines
  <2>7. CASE Finish(n)
    BY <2>7, CallsKept DEF Finish, Lines
  <2> QED BY <1>7, <2>1, <2>2, <2>3, <2>4, <2>5, <2>6, <2>7 DEF Works
<1>8. ASSUME NEW c \in strays, Late(c)
      PROVE  Calls'
  <2>1. lines' = Append(lines, c) /\ c \in Line /\ ~Journalled(c.seq) /\ sent' = sent /\ thread' = thread
    BY <1>8 DEF Late, TypeOK, Numbers
  <2>2. \A m \in Node : (\E i \in Lines' : lines'[i].node = m)
                         <=> m = c.node \/ \E i \in Lines : lines[i].node = m
    BY <2>1, LineAdded
  <2>3. pc # "idle"
    BY DEF Threads
  <2> QED BY <2>1, <2>2, <2>3, CallsKept
<1>9. CASE UNCHANGED vars
  BY <1>9 DEF vars, disk, process, Calls, Lines
<1> QED BY <1>1, <1>2, <1>3, <1>5, <1>6, <1>7, <1>8, <1>9 DEF Next, Command

\* A step that sends nothing, and changes the state of no node that has called.
LEMMA AskedKept ==
  ASSUME Unsent, SentOnceAfterYes, sent' = sent,
         \A n \in Asks : file[n] \in {"running", "done"} => file'[n] \in {"running", "done"},
         \A n \in Asks : thread'[n].at \in {"queued", "numbered"} =>
                           thread[n].at \in {"queued", "numbered"} \/ sent[n] = 0
  PROVE  Unsent' /\ SentOnceAfterYes'
BY DEF Unsent, SentOnceAfterYes

LEMMA AskedStep ==
  ASSUME TypeOK, Life, Threads, Unsent, SentOnceAfterYes, [Next]_vars
  PROVE  Unsent' /\ SentOnceAfterYes'
<1>0. Asks \subseteq Node /\ \A n \in Asks : sent[n] \in Nat
  BY FolderAssumption DEF TypeOK
<1>1. CASE Open \/ Resume \/ Reopen \/ Conclude
  BY <1>1, AskedKept DEF Open, Resume, Reopen, Conclude, disk
<1>2. CASE Start
  BY <1>2, AskedKept DEF Start, Life
<1>3. ASSUME NEW e, Finished(e)
      PROVE  Unsent' /\ SentOnceAfterYes'
  BY <1>3, AskedKept DEF Finished
<1>4. CASE Fail \/ Pause \/ Done
  BY <1>3, <1>4 DEF Fail, Pause, Done
<1>5. CASE Exit \/ Crash
  <2>1. file' = file /\ sent' = sent /\ \A n \in Asks : thread'[n].at = "none"
    BY <1>0, <1>5, LeavesTypes DEF Exit, Crash, disk
  <2> QED BY <2>1, AskedKept
<1>6. ASSUME NEW n \in Node, Works(n)
      PROVE  Unsent' /\ SentOnceAfterYes'
  <2>1. CASE Answer(n)
    <3>1. pc = "answer" /\ file[n] = "paused" /\ file' = [file EXCEPT ![n] = answers[n]]
      BY <2>1 DEF Answer, Life
    <3>2. \A m \in Asks : file[m] \in {"running", "done"} => file'[m] \in {"running", "done"}
      BY <1>0, <3>1 DEF TypeOK
    <3> QED BY <2>1, <3>2, AskedKept DEF Answer
  <2>2. CASE Claim(n)
    <3>1. file = mem /\ mem[n] \notin {"running", "done"}
      BY <2>2 DEF Claim, Ready, Life
    <3>2. n \in Asks => sent[n] = 0
      BY <1>0, <3>1 DEF SentOnceAfterYes
    <3>3. \A m \in Node \ {n} : file'[m] = file[m] /\ thread'[m] = thread[m]
      BY <2>2, <3>1 DEF Claim, Saved, Moves, TypeOK
    <3>4. sent' = sent
      BY <2>2 DEF Claim
    <3> QED BY <1>0, <3>1, <3>2, <3>3, <3>4, AskedKept
  <2>3. CASE Number(n)
    <3>1. file' = file /\ sent' = sent /\ \A m \in Node \ {n} : thread'[m] = thread[m]
      BY <2>3 DEF Number, TypeOK, disk
    <3>2. thread[n].at = "queued"
      BY <2>3 DEF Number
    <3> QED BY <1>0, <3>1, <3>2, AskedKept
  <2>4. CASE Send(n)
    <3>1. /\ file' = file /\ thread[n].at = "numbered" /\ thread'[n].at = "sent"
          /\ \A m \in Node \ {n} : thread'[m] = thread[m] /\ sent'[m] = sent[m]
          /\ sent'[n] = sent[n] + 1
      BY <2>4 DEF Send, Moves, TypeOK, Thread, disk
    <3>2. file[n] = "running"
      BY <3>1 DEF Threads, Life
    <3>3. n \in Asks => sent'[n] = 1
      BY <3>1 DEF Unsent
    <3>4. Unsent'
      BY <1>0, <3>1 DEF Unsent
    <3>5. SentOnceAfterYes'
      BY <1>0, <3>1, <3>2, <3>3 DEF SentOnceAfterYes
    <3> QED BY <3>4, <3>5
  <2>5. CASE Journal(n) \/ Abandon(n)
    <3>1. file' = file /\ sent' = sent /\ thread'[n].at = "out"
          /\ \A m \in Node \ {n} : thread'[m] = thread[m]
      BY <2>5 DEF Journal, Abandon, Moves, TypeOK, Thread, disk
    <3> QED BY <1>0, <3>1, AskedKept
  <2>6. CASE Finish(n)
    <3>1. file = mem /\ file' = [file EXCEPT ![n] = "done"]
      BY <2>6 DEF Finish, Saved, Life
    <3>2. \A m \in Asks : file[m] \in {"running", "done"} => file'[m] \in {"running", "done"}
      BY <1>0, <3>1 DEF TypeOK
    <3> QED BY <2>6, <3>2, AskedKept DEF Finish
  <2> QED BY <1>6, <2>1, <2>2, <2>3, <2>4, <2>5, <2>6 DEF Works
<1>7. ASSUME NEW c \in strays, Late(c)
      PROVE  Unsent' /\ SentOnceAfterYes'
  BY <1>7, AskedKept DEF Late
<1>8. CASE UNCHANGED vars
  BY <1>8, AskedKept DEF vars, disk, process
<1> QED BY <1>1, <1>2, <1>4, <1>5, <1>6, <1>7, <1>8 DEF Next, Command

-------------------------------------------------------------------------------
(* Theorems                                                                *)

LEMMA NextIInv == IInv /\ [Next]_vars => IInv'
BY TypeStep, LifeStep, ThreadsStep, NumbersStep, CallsStep, AskedStep DEF IInv

LEMMA IInvAlways == Spec => []IInv
BY InitIInv, NextIInv, PTL DEF Spec

\* The folder and the process keep to their types in every life of the folder.
THEOREM FolderTypeCorrect == Spec => []TypeOK
BY IInvAlways, PTL DEF IInv

\* No two lines of a journal have one number, whatever was abandoned, killed
\* or resumed (journal.py's counter, resume_task's start_seq).
THEOREM NumbersStayUnique == Spec => []JournalNumbersUnique
BY IInvAlways, PTL DEF IInv

\* A record that does not say "running" belongs to a journal that shows every
\* call that was sent, reads abandoned after a timeout excepted.
THEOREM EveryCallIsJournalled == Spec => []CallsAreJournalled
<1>1. IInv => CallsAreJournalled
  <2> SUFFICES ASSUME TypeOK, Life, Threads, Calls, record # "running"
               PROVE  \A n \in Node \ Timed : sent[n] > 0 => \E i \in DOMAIN lines : lines[i].node = n
    BY DEF IInv, CallsAreJournalled
  <2>1. \A n \in Node : thread[n].at # "sent"
    BY DEF Life, Threads, TypeOK
  <2> QED BY <2>1 DEF Calls, Lines
<1> QED BY <1>1, IInvAlways, PTL

\* What is graded is a journal with every call once, under its own number.
THEOREM JournalStaysSound == Spec => []JournalIsSound
BY NumbersStayUnique, EveryCallIsJournalled, PTL DEF JournalIsSound

\* A call that a person has to allow is sent at most once in all lives of the
\* folder, and only when graph.json has left the paused state.
THEOREM AllowedCallsAreSentOnce == Spec => []SentOnceAfterYes
BY IInvAlways, PTL DEF IInv

-------------------------------------------------------------------------------
(* The end of a run                                                        *)

\* A run that comes to its answer, or has been answered, has no open node.
Complete ==
  /\ pc = "conclude" => \A n \in Node : mem[n] = "done"
  /\ record = "done" => \A n \in Node : file[n] = "done"

\* When nothing runs, waits for a person or can start, everything is done:
\* among the nodes that are not, one would wait for none of the others.
LEMMA OverIsDone ==
  ASSUME TypeOK, Over, Waiting(mem) = {}
  PROVE  \A n \in Node : mem[n] = "done"
<1> DEFINE S == {n \in Node : mem[n] # "done"}
<1>1. SUFFICES ASSUME S # {} PROVE FALSE
  OBVIOUS
<1>2. PICK n \in S : Deps[n] \cap S = {}
  BY <1>1, FolderAssumption
<1>3. \A d \in Deps[n] : mem[d] = "done"
  BY <1>2, FolderAssumption
<1>4. mem[n] \in {"pending", "yes", "no"}
  BY <1>2 DEF TypeOK, State, Over, Waiting
<1> QED
  BY <1>2, <1>3, <1>4 DEF Over, Ready

\* What the record says last, it says for good, and so does graph.json.
LEMMA EndedStays ==
  ASSUME IInv, [Next]_vars, record \in {"done", "error"}
  PROVE  /\ UNCHANGED <<record, file>>
         /\ lines' = lines \/ \E call \in strays : lines' = Append(lines, call)
<1>1. pc \in {"idle", "closing"}
  BY DEF IInv, TypeOK, Life
<1>2. \A n \in Node : thread[n].at \in {"none", "out"}
  BY <1>1 DEF IInv, Threads
<1>3. CASE Command
  BY <1>1, <1>3 DEF Command, Open, Resume, Resumable, Reopen, Start, Fail, Pause, Conclude, Done, Exit, disk
<1>4. CASE \E n \in Node : Works(n)
  BY <1>1, <1>2, <1>4 DEF Works, Answer, Claim, Number, Send, Journal, Abandon, Finish
<1>5. CASE \E call \in strays : Late(call)
  BY <1>5 DEF Late
<1>6. CASE Crash \/ UNCHANGED vars
  BY <1>6 DEF Crash, disk, vars
<1> QED
  BY <1>3, <1>4, <1>5, <1>6 DEF Next

LEMMA CompleteKept == IInv /\ Complete /\ [Next]_vars => Complete'
<1> SUFFICES ASSUME IInv, Complete, [Next]_vars PROVE Complete'
  OBVIOUS
<1>1. CASE record = "done"
  <2>1. record' = "done" /\ file' = file
    BY <1>1, EndedStays
  <2>2. pc' # "conclude"
    <3>1. IInv'
      BY NextIInv
    <3> QED
      BY <2>1, <3>1 DEF IInv, Life
  <2> QED
    BY <1>1, <2>1, <2>2 DEF Complete
<1>2. CASE record # "done" /\ Conclude
  <2>1. \A n \in Node : mem[n] = "done"
    BY <1>2, OverIsDone DEF Conclude, IInv
  <2> QED
    BY <1>2, <2>1 DEF Conclude, Complete, disk
<1>3. CASE record # "done" /\ Done
  <2>1. file = mem /\ \A n \in Node : mem[n] = "done"
    BY <1>3 DEF Done, Complete, IInv, Life
  <2> QED
    BY <1>3, <2>1 DEF Done, Finished, Complete
<1>4. ASSUME record # "done", ~Conclude, ~Done
      PROVE  record' # "done" /\ (pc' = "conclude" => pc = "conclude" /\ mem' = mem)
  <2>1. CASE Command
    BY <1>4, <2>1 DEF Command, Open, Resume, Reopen, Reopened, Start, Fail, Finished, Pause, Exit, Leaves, disk
  <2>2. CASE \E n \in Node : Works(n)
    BY <1>4, <2>2 DEF Works, Answer, Claim, Number, Send, Journal, Abandon, Finish, disk
  <2>3. CASE \E call \in strays : Late(call)
    BY <1>4, <2>3 DEF Late
  <2>4. CASE Crash \/ UNCHANGED vars
    BY <1>4, <2>4 DEF Crash, Leaves, disk, process, vars
  <2> QED
    BY <2>1, <2>2, <2>3, <2>4 DEF Next
<1> QED
  BY <1>1, <1>2, <1>3, <1>4 DEF Complete

\* A record that says "done" belongs to a graph with every node finished, and
\* the files of a run that ended are not touched again, resumes included,
\* except by the journal lines of reads abandoned after their timeout.
THEOREM EndedIsFinal == Spec => FinalIsFinal
<1>1. Init => Complete
  BY DEF Init, Complete
<1>2. Spec => []Complete
  BY <1>1, CompleteKept, IInvAlways, PTL DEF Spec
<1> DEFINE Step ==
  /\ record \in {"done", "error"} =>
       /\ UNCHANGED <<record, file>>
       /\ lines' = lines \/ \E call \in strays : lines' = Append(lines, call)
  /\ record' = "done" => \A n \in Node : file'[n] = "done"
<1>3. IInv /\ Complete /\ [Next]_vars => [Step]_vars
  BY EndedStays, CompleteKept DEF Complete
<1> HIDE DEF Step
<1>4. Spec => [][Step]_vars
  BY <1>2, <1>3, IInvAlways, PTL DEF Spec
<1> QED
  BY <1>4 DEF Step, FinalIsFinal

===============================================================================
