----------------------------- MODULE MCSuperstep ------------------------------
(* Two reads that run in one step and feed a partial join, which files the   *)
(* finding.  Each read's outcome may make a rule add a follow-up: both       *)
(* follow-ups write the single-value channel, and if the second read is     *)
(* declined its rule asks for one node more than the budget has left when   *)
(* the first rule has fired too.                                            *)
EXTENDS SuperstepExecutor

MCNode == {"left", "right", "join", "ask", "more", "over"}
MCIdOrder == <<"ask", "join", "left", "more", "over", "right">>
MCDeps == [n \in MCNode |->
             CASE n = "join" -> {"left", "right"}
               [] n = "ask" -> {"left"}
               [] OTHER -> {}]
MCData == {"blocked", "clear"}
MCOutcomes == [n \in MCNode |->
             CASE n = "left" -> {[verdict |-> "resolved", data |-> d] : d \in MCData}
               [] OTHER -> {[verdict |-> "resolved", data |-> "clear"]}]
MCRules == {
  [watch |-> "left", verdict |-> "resolved", on |-> {"blocked"},
   add |-> {"ask"}, link |-> {<<"ask", "join">>}],
  [watch |-> "right", verdict |-> "resolved", on |-> {"clear"}, add |-> {"more"}, link |-> {}],
  [watch |-> "right", verdict |-> "declined", on |-> {"none"}, add |-> {"more", "over"}, link |-> {}]}

MCChannel == {"log", "slot"}
MCKind == [c \in MCChannel |-> IF c = "log" THEN "topic" ELSE "last_value"]
MCNames == [c \in MCChannel |-> {}]
MCInitial == [c \in MCChannel |-> <<>>]
MCCombine(a, b) == b
MCNameOrder == <<"log", "slot">>
MCWritesOf == [n \in MCNode |->
  [c \in (IF n \in {"left", "right", "ask"} THEN {"log"} ELSE {})
         \cup (IF n \in {"ask", "more"} THEN {"slot"} ELSE {}) |-> [value |-> n, over |-> FALSE]]]
===============================================================================
