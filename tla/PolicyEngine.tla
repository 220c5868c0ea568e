---------------------------- MODULE PolicyEngine ----------------------------
(***************************************************************************)
(* Rule matching and the tier order of the policy engine                   *)
(* (policy/engine.ts, policy/matcher.ts, policy/built-in-rules.ts).        *)
(*                                                                         *)
(* A call is a tool with its arguments.  A match (or condition) block is a *)
(* record over the fields it declares; the string patterns of a field are  *)
(* given by the set of values they accept.                                 *)
(***************************************************************************)
EXTENDS Decisions, Sequences

CONSTANTS
  Tools,            (* original tool names                                       *)
  Args,             (* argument objects, up to what the patterns tell apart      *)
  DestructiveArgs,  (* arguments whose command holds a hard-boundary needle      *)
  FilesystemWrite,  (* the tools the pattern "filesystem_write" accepts          *)
  WorkspaceArgs,    (* arguments whose path is under ~/workspace or /tmp         *)
  HostRules,        (* host-policy.yaml, packs resolved, in order                *)
  UserRules         (* config.yaml, packs resolved, in order                     *)

ToolCall == [tool : Tools, args : Args]

ReservedFields == {"glama_grade", "url_not_in", "body_contains_file_content"}
ToolFields == {"tool"}
ArgsFields == {"args_contain", "command_matches", "path_starts_with"}
TagFields == {"tool_tag", "registry"}
MatchFields == ToolFields \cup ArgsFields \cup TagFields \cup ReservedFields

(* enforcement is the level after its default (soft_mandatory) is applied.   *)
(* A rule may name a server, a field that the matcher does not know.         *)
RuleOK(rule) ==
  /\ DOMAIN rule.match \subseteq MatchFields \cup {"server"}
  /\ DOMAIN rule.condition \subseteq MatchFields
  /\ rule.action \in ActionType \cup {"deny_unless", "deny_if"}
  /\ rule.enforcement \in EnforcementLevel

RuleListOK(rules) ==
  /\ Len(rules) \in Nat
  /\ DOMAIN rules = 1..Len(rules)
  /\ \A i \in DOMAIN rules : RuleOK(rules[i])

ASSUME RulesAssumption == RuleListOK(HostRules) /\ RuleListOK(UserRules)

NoCondition == [f \in {} |-> {}]

RuleOf(match, action, enforcement, condition) ==
  [match |-> match, action |-> action, enforcement |-> enforcement,
   condition |-> condition]

(* The three shipped boundaries differ in their needles and reasons only. *)
HARD_BOUNDARIES ==
  << RuleOf([command_matches |-> DestructiveArgs], "deny", "hard_mandatory",
            NoCondition) >>

DEFAULTS ==
  << RuleOf([tool_tag |-> {"communication"}], "require_approval",
            "soft_mandatory", NoCondition),
     RuleOf([tool |-> FilesystemWrite], "deny_unless", "soft_mandatory",
            [path_starts_with |-> WorkspaceArgs]),
     RuleOf([registry |-> {"unknown"}], "require_approval",
            "soft_mandatory", NoCondition) >>

(* Every declared field must accept the call.  The dispatcher passes no tag  *)
(* and no registry, so a rule that declares one matches nothing; a reserved  *)
(* field is ignored.                                                         *)
fieldsMatch(m, call) ==
  /\ DOMAIN m \cap TagFields = {}
  /\ \A f \in DOMAIN m \cap ToolFields : call.tool \in m[f]
  /\ \A f \in DOMAIN m \cap ArgsFields : call.args \in m[f]

(* A conditional rule always decides; it fails closed on a condition that is *)
(* absent, empty or not evaluable.                                           *)
resolveAction(rule, call) ==
  LET evaluable == DOMAIN rule.condition # {}
                   /\ DOMAIN rule.condition \cap ReservedFields = {}
      holds == fieldsMatch(rule.condition, call)
  IN  IF rule.action \notin {"deny_unless", "deny_if"} THEN rule.action
      ELSE IF evaluable /\ (holds <=> rule.action = "deny_unless")
           THEN "allow" ELSE "deny"

toDecision(rule, tier, call) ==
  Decision(resolveAction(rule, call), rule.enforcement, tier)

firstMatch(rules, tier, call) ==
  LET hits == {i \in DOMAIN rules : fieldsMatch(rules[i].match, call)}
  IN  IF hits = {} THEN NoDecision
      ELSE toDecision(rules[CHOOSE i \in hits : \A j \in hits : i <= j], tier, call)

(* Host floor and user rules: the stricter of the two when both match. *)
hostAndUser(host, user, call) ==
  LET h == firstMatch(host, "host", call)
      u == firstMatch(user, "user", call)
  IN  IF h = NoDecision THEN u ELSE Merge(h, u)

LockdownDenial == Decision("deny", "hard_mandatory", "built_in")
SessionAllow == Decision("allow", "soft_mandatory", "session")
ImplicitDeny == Decision("deny", "soft_mandatory", "built_in")

(* Faulty variant: session overrides consulted before everything else. *)
evaluateOverridesFirst(locked, granted, host, user, call) ==
  IF call.tool \in granted THEN SessionAllow
  ELSE IF locked THEN LockdownDenial
  ELSE IF firstMatch(HARD_BOUNDARIES, "built_in", call) # NoDecision
       THEN firstMatch(HARD_BOUNDARIES, "built_in", call)
  ELSE IF hostAndUser(host, user, call) # NoDecision
       THEN hostAndUser(host, user, call)
  ELSE ImplicitDeny

(* The tiers in order.  `granted` holds the tools with an unexpired session  *)
(* override: every override allows exactly one tool, so the first match is   *)
(* the same decision whichever override it is.                               *)
evaluate(locked, granted, host, user, call) ==
  LET boundary == firstMatch(HARD_BOUNDARIES, "built_in", call)
      configured == hostAndUser(host, user, call)
      default == firstMatch(DEFAULTS, "built_in", call)
  IN  IF locked THEN LockdownDenial
      ELSE IF boundary # NoDecision THEN boundary
      ELSE IF call.tool \in granted THEN SessionAllow
      ELSE IF configured # NoDecision THEN configured
      ELSE IF default # NoDecision THEN default
      ELSE ImplicitDeny
=============================================================================
