------------------------------- MODULE MCSupply -------------------------------
(* Three servers that share a tool name until one of them drops it and       *)
(* changes the definition of its other tool.  One has a configured prefix,   *)
(* which is the name of another.                                             *)
EXTENDS Supply

MCOffers ==
  [fs |-> {[read |-> "plain", issue |-> "plain"], [issue |-> "changed"]},
   gh |-> {[read |-> "plain"]},
   hub |-> {[read |-> "plain"]}]
MCNamespace == [fs |-> None, gh |-> None, hub |-> "fs"]

(* A server whose poisoned definition gives way to a plain one. *)
MCPoisonedOffers ==
  [fs |-> {[read |-> "poisoned"], [read |-> "plain"]}, gh |-> {[issue |-> "plain"]}]

MCPoisonedNamespace == [fs |-> None, gh |-> None]

MCMode ==
  [credential_egress |-> "require_approval", tool_poisoning |-> "block",
   rug_pull |-> "require_approval", signatures |-> "off"]
MCPoison == [d \in Defs |-> IF d = "poisoned" THEN {"medium", "critical"} ELSE {}]
MCFeed == [k \in Keys |-> {}]
===============================================================================
