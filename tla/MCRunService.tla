---------------------------- MODULE MCRunService ----------------------------
(* A delivery sent twice, another one, a stream and a question; two slots, a *)
(* memory of one delivery, a skew of one tick: the second copy can come      *)
(* while the first is remembered, after it was pushed out, and at the edge   *)
(* of the window.                                                            *)
EXTENDS RunService, TLC

MCHooks == {"h1", "h2", "h3"}
MCRequests == MCHooks \cup {"q"}
MCDeliveries == {"release", "nightly"}
MCStamp == ("release" :> 1) @@ ("nightly" :> 1)
MCCarries == ("h1" :> "release") @@ ("h2" :> "release") @@ ("h3" :> "nightly")
MCWellFormed == {"release"}
MCInstant == ("h1" :> "may") @@ ("h2" :> "may") @@ ("h3" :> "may") @@ ("q" :> "june")
=============================================================================
