--------------------------- MODULE MCNodeSLOStore ---------------------------
(***************************************************************************)
(* A small instance of NodeSLOStore for TLC: two leaf fields per block,   *)
(* two values, a default that leaves one threshold leaf nil (as the       *)
(* default leaves MemoryEvictLowerPercent nil), the RdtResctrl gate off,  *)
(* and three pushed specs: the empty spec, a spec that only overrides one *)
(* threshold leaf, and a spec with a nil threshold block and partial QoS  *)
(* and burst blocks.                                                      *)
(***************************************************************************)
EXTENDS NodeSLOStore

CONSTANTS l1, l2, v1, v2

MCLeaf == {l1, l2}
MCValues == {v1, v2}

MCDefault ==
    [b \in Blocks |->
        CASE b = "threshold" -> [l \in MCLeaf |-> IF l = l1 THEN v1 ELSE Nil]
          [] b = "qos"       -> [l \in MCLeaf |-> v1]
          [] OTHER           -> [l \in MCLeaf |-> IF l = l1 THEN v1 ELSE v2]]

MCPushedSpecs ==
    { [b \in Blocks |-> Nil],
      [b \in Blocks |-> IF b = "threshold" THEN [l \in MCLeaf |-> IF l = l1 THEN v2 ELSE Nil]
                        ELSE Nil],
      [b \in Blocks |-> CASE b = "threshold" -> Nil
                          [] b = "qos"       -> [l \in MCLeaf |-> IF l = l1 THEN v1 ELSE Nil]
                          [] OTHER           -> [l \in MCLeaf |-> IF l = l1 THEN Nil ELSE v1]] }

=============================================================================
