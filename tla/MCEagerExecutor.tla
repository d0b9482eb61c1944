---------------------------- MODULE MCEagerExecutor ----------------------------
(* A small release review: a gate and a read feed a write that files the    *)
(* finding; the answer is a partial join.  When the gate is blocked a rule  *)
(* adds a follow-up that the answer must wait for; a failed follow-up asks   *)
(* for more than the node budget; a refused read asks for a cycle.          *)
EXTENDS EagerExecutor

MCNode == {"gate", "rev", "file", "answer", "follow", "extra"}
MCPlan == {"gate", "rev", "file", "answer"}
MCDeps == [n \in MCNode |->
             CASE n = "file" -> {"gate", "rev"}
               [] n = "answer" -> {"gate", "file"}
               [] n = "follow" -> {"gate"}
               [] OTHER -> {}]
MCData == {"blocked", "clear"}
MCOutcomes == [n \in MCNode |->
             CASE n = "gate" -> {[verdict |-> "resolved", data |-> d] : d \in MCData}
               [] OTHER -> {[verdict |-> "resolved", data |-> "clear"]}]
MCRules == {
  [watch |-> "gate", verdict |-> "resolved", on |-> {"blocked"},
   add |-> {"follow"}, link |-> {<<"follow", "answer">>}],
  [watch |-> "follow", verdict |-> "failed", on |-> {"none"}, add |-> {"extra"}, link |-> {}],
  [watch |-> "rev", verdict |-> "declined", on |-> {"none"},
   add |-> {}, link |-> {<<"answer", "file">>}]}
===============================================================================
