--------------------------- MODULE MCRemoteTasks ---------------------------
(* Instances of RemoteTasks for TLC. *)
EXTENDS RemoteTasks, TLC

CONSTANTS p1, p2, p3, g1, l1, coder, reviewer

MCAgent == [t \in Tasks |-> IF t = p2 THEN reviewer ELSE coder]

\* Workers and handlers are interchangeable; tasks are not.
MCSymmetry == Permutations(Workers) \union Permutations(Handlers)
=============================================================================
