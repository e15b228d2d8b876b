--------------------------- MODULE MCBridgeLease ---------------------------
(* Instances of BridgeLease for TLC. *)
EXTENDS BridgeLease, TLC

CONSTANTS t1, t2, b1, b2

MCCreatedAt == [t \in Tasks |-> IF t = t1 THEN 1 ELSE 2]
MCServes == [b \in Bridges |-> Tasks]
MCSymmetry == Permutations(Bridges)
=============================================================================
