------------------------------ MODULE Decisions ------------------------------
(***************************************************************************)
(* Policy decisions and the stricter-of-two merge every layer of the proxy *)
(* is combined with (policy/decisions.ts, policy/engine.ts).               *)
(*                                                                         *)
(* A decision keeps what later code branches on: its action, enforcement   *)
(* level and tier.  Reason, risk level and the other display fields are    *)
(* left out.                                                               *)
(***************************************************************************)
EXTENDS Integers

CONSTANT NoDecision   (* the null a layer returns when it has no opinion *)

ActionType == {"allow", "require_approval", "deny"}
EnforcementLevel == {"advisory", "soft_mandatory", "hard_mandatory"}
RuleTier == {"built_in", "host", "user", "session"}

PolicyDecision ==
  [action : ActionType, enforcement : EnforcementLevel, tier : RuleTier]

ASSUME NoDecisionIsNone == NoDecision \notin PolicyDecision

Decision(action, enforcement, tier) ==
  [action |-> action, enforcement |-> enforcement, tier |-> tier]

ACTION_STRICTNESS == [deny |-> 3, require_approval |-> 2, allow |-> 1]
ENFORCEMENT_STRICTNESS == [hard_mandatory |-> 3, soft_mandatory |-> 2, advisory |-> 1]

(* a is strictly more restrictive than b: by action, then by enforcement. *)
Outranks(a, b) ==
  \/ ACTION_STRICTNESS[a.action] > ACTION_STRICTNESS[b.action]
  \/ /\ a.action = b.action
     /\ ENFORCEMENT_STRICTNESS[a.enforcement] > ENFORCEMENT_STRICTNESS[b.enforcement]

(* Equally strict decisions: the host's wins on the left, else the right one. *)
stricter(a, b) ==
  IF Outranks(a, b) \/ (a.tier = "host" /\ ~Outranks(b, a)) THEN a ELSE b

(* Faulty variant: the last layer to speak replaces the decision. *)
MergeLastWins(decision, other) == IF other = NoDecision THEN decision ELSE other

(* `if (other) decision = stricter(decision, other)` *)
Merge(decision, other) ==
  IF other = NoDecision THEN decision ELSE stricter(decision, other)
=============================================================================
