------------------------------- MODULE MCProxy -------------------------------
(***************************************************************************)
(* A small proxy: one tool that is freely allowed, one that needs          *)
(* approval, host rules that deny some of the latter's arguments, and a    *)
(* floor preset that wants approval for everything but what it denies.     *)
(***************************************************************************)
EXTENDS Proxy, TLC

CONSTANTS c1, c2

MCCalls == {c1, c2}
MCTools == {"search", "exec", "write"}
MCArgs == {"plain", "deploy", "destroy"}
MCDestructiveArgs == {"destroy"}
MCFilesystemWrite == {"write"}
MCWorkspaceArgs == {"plain"}

(* The host denies deployments; everything else is left to the user's rules. *)
MCHostRules ==
  << RuleOf([tool |-> {"exec"}, args_contain |-> {"deploy"}], "deny",
            "soft_mandatory", NoCondition) >>

MCUserRules ==
  << RuleOf([tool |-> {"search"}], "allow", "soft_mandatory", NoCondition),
     RuleOf([tool |-> {"exec"}], "require_approval", "soft_mandatory", NoCondition) >>

MCFloorRules ==
  << RuleOf([tool |-> {"write"}], "deny", "soft_mandatory", NoCondition),
     RuleOf([tool |-> MCTools], "require_approval", "soft_mandatory", NoCondition) >>

(* An allowed tool, a held one, and the held one with arguments no rule,     *)
(* override or answer may let through.                                       *)
MCRequests ==
  {[tool |-> "search", args |-> "plain"], [tool |-> "exec", args |-> "plain"],
   [tool |-> "exec", args |-> "destroy"]}

(* The held tool, and the same with arguments the host denies. *)
ExecRequests ==
  {[tool |-> "exec", args |-> "plain"], [tool |-> "exec", args |-> "deploy"]}

(* A finding in warn mode, and one in block mode. *)
MCThreatDecisions ==
  {Decision("allow", "advisory", "built_in"),
   Decision("deny", "hard_mandatory", "built_in")}
NoThreat == {NoDecision}

MCPrice == [t \in MCTools |-> IF t = "exec" THEN 2 ELSE 1]
MCTokens == [t \in MCTools |-> 1]

NoLimits ==
  [k \in DollarLimits \cup CallLimits \cup TokenLimits |-> Unset]
OneCallAMinute == [NoLimits EXCEPT !.per_minute = 1]
OneCallOneDollar == [NoLimits EXCEPT !.per_minute = 1, !.daily = 1]
==============================================================================
