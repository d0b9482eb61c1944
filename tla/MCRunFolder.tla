----------------------------- MODULE MCRunFolder ------------------------------
(* Two writes that a person must allow, answered together or one after the   *)
(* other, a read with a timeout before one of them, and a write that follows *)
(* the other without asking.                                                 *)
EXTENDS RunFolder

MCNode == {"file", "notify", "read", "close"}
MCDeps == [file |-> {}, notify |-> {"read"}, read |-> {}, close |-> {"file"}]
===============================================================================
