------------------------------ MODULE HookGate ------------------------------
(***************************************************************************)
(* The memory of the webhook gate (agentkit/service/hooks.py).  Every       *)
(* method body that touches it runs under the gate's lock, so each is an    *)
(* operator on the memory.                                                  *)
(*                                                                          *)
(* A delivery stands for its signature: the signature covers the time stamp *)
(* and the body, so a repeated signature is a repeated delivery.  The       *)
(* memory is a set of entries; `no' is the place in the ordered dictionary. *)
(***************************************************************************)
EXTENDS Integers, FiniteSets

CONSTANTS
    Deliveries,   \* signed deliveries a sender may make, or make again
    Stamp,        \* the time stamp each of them carries
    Skew,         \* MAX_SKEW_S
    Capacity      \* how many deliveries the gate remembers

ASSUME GateAssumption ==
    /\ Stamp \in [Deliveries -> Nat]
    /\ Skew \in Nat
    /\ Capacity \in Nat \ {0}

Entries == [sig : Deliveries, at : Nat, no : Nat]

(* question: the stamp may be off by MAX_SKEW_S in either direction. *)
Fresh(d, now) == now - Stamp[d] <= Skew /\ Stamp[d] - now <= Skew

\* Mutant: a delivery is forgotten after MAX_SKEW_S.
UnexpiredForOneSkew(seen, now) == {e \in seen : now - e.at <= Skew}

(* _first_delivery: entries older than twice the skew are dropped first. *)
Unexpired(seen, now) == {e \in seen : now - e.at <= 2 * Skew}

Remembers(seen, d) == \E e \in seen : e.sig = d

(* The entries pushed out, oldest first, when there are more than Capacity;  *)
(* one delivery is added at a time, so that is at most one.                  *)
Overflow(seen) ==
    IF Cardinality(seen) > Capacity
      THEN {e \in seen : \A f \in seen : e.no <= f.no}
      ELSE {}
=============================================================================
