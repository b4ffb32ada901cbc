---------------------------- MODULE MCResManager ----------------------------
(***************************************************************************)
(* ResManager for TLC: the store instance of MCNodeSLOStore, no extra     *)
(* readers, and the six policies in the order Run launches them.  The     *)
(* threshold Enable is leaf l1, whose default is v1 and which the         *)
(* threshold-only pushed spec sets to v2, the value true.                 *)
(***************************************************************************)
EXTENDS ResManager

CONSTANTS l1, l2, v1, v2

MCLeaf == {l1, l2}
MCValues == {v1, v2}

MCDefault ==
    [b \in Blocks |->
        CASE b = "threshold" -> [l \in MCLeaf |-> IF l = l1 THEN v1 ELSE Nil]
          [] b = "qos"       -> [l \in MCLeaf |-> v1]
          [] OTHER           -> [l \in MCLeaf |-> IF l = l1 THEN v1 ELSE v2]]

MCPushedSpecs ==
    { [b \in Blocks |-> Nil],
      [b \in Blocks |-> IF b = "threshold" THEN [l \in MCLeaf |-> IF l = l1 THEN v2 ELSE Nil]
                        ELSE Nil],
      [b \in Blocks |-> CASE b = "threshold" -> Nil
                          [] b = "qos"       -> [l \in MCLeaf |-> IF l = l1 THEN v1 ELSE Nil]
                          [] OTHER           -> [l \in MCLeaf |-> IF l = l1 THEN Nil ELSE v1]] }

MCPolicyOrder ==
    <<"BECgroupReconcile", "CgroupReconcile", "BECPUSuppress",
      "CPUBurst", "BEMemoryEvict", "RdtResctrl">>

=============================================================================
