------------------------------ MODULE MCForkRun -------------------------------
(* Two nodes that may end in one step, one more that waits for both, and a   *)
(* follow-up of the first that it waits for too; the second may decline, and *)
(* the third is bypassed.  Together they write a channel of each kind.       *)
EXTENDS ForkRun

MCModes == {<<TRUE, "jsonl">>, <<FALSE, "sqlite">>}

MCNode == {"gate", "rev", "join", "ask"}
MCIdOrder == <<"ask", "gate", "join", "rev">>
MCDeps == [n \in MCNode |->
             CASE n = "join" -> {"gate", "rev"}
               [] n = "ask" -> {"gate"}
               [] OTHER -> {}]
MCData == {"blocked", "clear"}
Ok(d) == [verdict |-> "resolved", data |-> d]
No == [verdict |-> "declined", data |-> "clear"]
MCOutcomes == [n \in MCNode |->
  CASE n = "gate" -> {Ok("blocked"), Ok("clear")}
    [] n = "rev" -> {Ok("blocked"), No}
    [] OTHER -> {Ok("clear")}]
MCRules == {
  [watch |-> "gate", verdict |-> "resolved", on |-> {"blocked"}, add |-> {"ask"}, link |-> {<<"ask", "join">>}]}
MCUpdates == {[n \in {"gate"} |-> Ok(d)] : d \in MCData} \cup {[n \in {"rev", "ask"} |-> Ok("clear")]}

MCChannel == {"bar", "eph", "last", "late", "sum", "top"}
MCNameOrder == <<"bar", "eph", "last", "late", "sum", "top">>
MCKind == [c \in MCChannel |->
  CASE c = "bar" -> "barrier" [] c = "eph" -> "ephemeral" [] c = "last" -> "last_value"
    [] c = "late" -> "latest" [] c = "sum" -> "reducer" [] c = "top" -> "topic"]
MCNames == [c \in MCChannel |-> IF c = "bar" THEN {1, 2} ELSE {}]
MCInitial == [c \in MCChannel |-> IF c = "sum" THEN <<1>> ELSE <<>>]
MCValue == 0..9
MCCombine(a, b) == IF b = 9 THEN 9 ELSE (a + 2 * b) % 9
W(cs, v) == [c \in cs |-> [value |-> v, over |-> FALSE]]
MCWritesOf == [n \in MCNode |-> [d \in MCData |->
  CASE n = "gate" /\ d = "clear" -> W({"last", "top", "bar"}, 1)
    [] n = "gate" -> W({"late", "sum", "top", "bar"}, 1)
    [] n = "rev" /\ d = "clear" -> W({"last", "eph", "sum", "top", "bar", "late"}, 2)
    [] n = "rev" -> W({"last", "bar"}, 3)
    [] n = "ask" -> W({"last", "top"}, 4)
    [] OTHER -> [c \in {"sum"} |-> [value |-> 5, over |-> TRUE]]]]
===============================================================================
