----------------------------- MODULE DurableGraph -----------------------------
(***************************************************************************)
(* What graph.json promises to whoever reads it, at any moment and across  *)
(* crashes and resumes: the graph only grows, a verdict is final, and a    *)
(* verdict appears only where the verdicts it rests on are already there.  *)
(*                                                                         *)
(* The two executors of agentkit/graph/engine.py implement this            *)
(* specification; claims, threads, pauses and crashes are invisible in it. *)
(***************************************************************************)
CONSTANTS
  Node,     \* ids of nodes
  Settled,  \* the nodes that join on any verdict
  Verdict   \* the verdicts a node can end with, "resolved" and "bypassed" among them

VARIABLES
  present,  \* the nodes of the graph
  after,    \* after[n]: what n depends on
  verdict   \* verdict[n], "none" until n is done

dvars == <<present, after, verdict>>

Finished == {n \in Node : verdict[n] # "none"}
Failed == {n \in Finished : verdict[n] # "resolved"}

DInit ==
  /\ present = {}
  /\ after = [n \in Node |-> {}]
  /\ verdict = [n \in Node |-> "none"]

\* A patch: new nodes, and new dependencies of nodes that are not finished.
Grow ==
  /\ present \subseteq present' /\ present' \subseteq Node
  /\ \A n \in Node : after[n] \subseteq after'[n] /\ after'[n] \subseteq present'
  /\ \A n \in Finished : after'[n] = after[n]
  /\ UNCHANGED verdict

\* Some nodes of the graph finish: a bypassed node because a dependency it
\* required failed, any other after all its dependencies, which resolved
\* unless it joins on any verdict.
Finish ==
  /\ UNCHANGED <<present, after>>
  /\ \A n \in Finished : verdict'[n] = verdict[n]
  /\ \A n \in present \ Finished :
       \/ verdict'[n] = "none"
       \/ /\ verdict'[n] = "bypassed"
          /\ n \notin Settled /\ after[n] \cap Failed' # {}
       \/ /\ verdict'[n] \in Verdict \ {"bypassed"}
          /\ after[n] \subseteq Finished'
          /\ n \notin Settled => after[n] \cap Failed' = {}
  /\ \A n \in Node \ present : verdict'[n] = "none"

DNext == Grow \/ Finish

DSpec == DInit /\ [][DNext]_dvars

===============================================================================
