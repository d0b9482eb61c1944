--------------------------- MODULE MCWriteBatch ---------------------------
(* One hand-off task on a file with a blocker for one team and a serious    *)
(* item for two.                                                           *)
EXTENDS WriteBatch

CONSTANTS crack, ppap, mfg, quality

MCOwnersOf == [i \in {crack, ppap} |-> IF i = crack THEN {mfg} ELSE {mfg, quality}]
=============================================================================
