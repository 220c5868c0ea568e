---------------------------- MODULE Configuration ----------------------------
(***************************************************************************)
(* Where the rules come from, and what is said of them before they run:    *)
(* rule packs (policy/packs.ts), the loader (config/loader.ts), presets    *)
(* (policy/presets.ts), `habena policy` and `habena security audit`        *)
(* (cli/commands/policy.ts, policy/audit.ts), the chat floor               *)
(* (chat/config.ts) and the agent registry (identity/registry.ts).         *)
(*                                                                         *)
(* A configuration is a record with extends (names of packs) and rules.  A *)
(* match block may name a server; the matcher does not know the field.     *)
(***************************************************************************)
EXTENDS PolicyEngine, FiniteSets, FiniteSetsExt, SequencesExt, TLC

CONSTANTS
  ToolsLike,       (* the tools a tool pattern accepts                        *)
  ShellNeedles     (* arguments that hold "rm -rf", "DROP TABLE" and          *)
                   (* "DROP DATABASE", all three                              *)

ASSUME PatternsAssumption == ToolsLike["*"] = Tools /\ ShellNeedles \subseteq Args

-----------------------------------------------------------------------------
(* Packs.  A search directory maps file names to packs, a file that does    *)
(* not parse to NoPack; the operator's directory is the last.               *)

NoPack == [name |-> "", rules |-> <<>>]

(* As listed: by the name a pack gives itself, later directories first. *)
listPacks(dirs) ==
  LET Declares(k, n) == \E f \in DOMAIN dirs[k] : dirs[k][f] # NoPack /\ dirs[k][f].name = n
      packs == UNION {{dirs[k][f] : f \in DOMAIN dirs[k]} \ {NoPack} : k \in DOMAIN dirs}
  IN  {p \in packs : \E k \in DOMAIN dirs :
         /\ \E f \in DOMAIN dirs[k] : dirs[k][f] = p
         /\ \A l \in DOMAIN dirs : l > k => ~Declares(l, p.name)}

(* As imported: by the name of the file. *)
getPack(name, dirs) ==
  LET found == {k \in DOMAIN dirs : name \in DOMAIN dirs[k]}
  IN  IF found = {} THEN NoPack ELSE dirs[Max(found)][name]

resolveExtends(names, dirs) ==
  [rules |-> FlattenSeq([k \in DOMAIN names |-> getPack(names[k], dirs).rules]),
   missing |-> {n \in ToSet(names) : getPack(n, dirs) = NoPack}]

(* Pack rules first, then the file's own; host-policy.yaml likewise. *)
loadConfigWithPacks(raw, dirs) ==
  [raw EXCEPT !.rules = resolveExtends(raw.extends, dirs).rules \o raw.rules]

loadHostPolicy(raw, dirs) == loadConfigWithPacks(raw, dirs).rules

-----------------------------------------------------------------------------
(* Presets *)

Like(pattern, action, enforcement) ==
  RuleOf([tool |-> ToolsLike[pattern]], action, enforcement, NoCondition)
Allowing(pattern) == Like(pattern, "allow", "soft_mandatory")
Asking(pattern) == Like(pattern, "require_approval", "soft_mandatory")
Denying(pattern) == Like(pattern, "deny", "hard_mandatory")

(* All needles of args_contain must be there. *)
PresetBoundaries ==
  << RuleOf([tool |-> ToolsLike["shell_*"], args_contain |-> ShellNeedles], "deny",
            "hard_mandatory", NoCondition) >>

PRESETS ==
  [observe |-> PresetBoundaries \o <<Allowing("*")>>,
   cautious |->
     PresetBoundaries
       \o <<Allowing("read_*"), Allowing("list_*"), Allowing("search_*"), Allowing("get_*"),
            RuleOf([tool_tag |-> {"communication"}], "require_approval", "soft_mandatory", NoCondition),
            Asking("write_*"), Asking("create_*"), Asking("update_*"),
            Denying("delete_*"), Denying("drop_*"), Asking("*")>>,
   deny_all |-> PresetBoundaries \o <<Denying("*")>>]

(* The rules are replaced, what the file extends stays. *)
applyPreset(config, preset) == [config EXCEPT !.rules = PRESETS[preset]]

policyPresetApplyCommand(config, preset, force, dryRun) ==
  IF dryRun \/ (config.rules # <<>> /\ ~force) THEN config ELSE applyPreset(config, preset)

(* What the commands tell of a call: an engine of its own, never locked and *)
(* without session overrides.                                               *)
policyExplainCommand(config, host, dirs, call) ==
  evaluate(FALSE, {}, loadHostPolicy(host, dirs), loadConfigWithPacks(config, dirs).rules, call)

(* The floor of runs from the phone.  An unknown preset closes the channel. *)
resolveChatConfig(chat) ==
  chat @@ [enabled |-> FALSE, web |-> TRUE, inbound |-> FALSE,
           commands_per_10min |-> 10, policy_floor |-> "cautious"]

telegramInbound(chat) ==
  LET c == resolveChatConfig(chat)
  IN  c.enabled /\ c.inbound /\ c.policy_floor \in DOMAIN PRESETS

floorRules(chat) == PRESETS[resolveChatConfig(chat).policy_floor]

-----------------------------------------------------------------------------
(* The audit of a policy: positions of the rules it complains of. *)

normalizedAction(rule) ==
  IF rule.action \in {"deny_unless", "deny_if"} THEN "deny" ELSE rule.action

IsWildcardAllow(rule) ==
  "tool" \in DOMAIN rule.match /\ rule.match.tool = ToolsLike["*"] /\ normalizedAction(rule) = "allow"

checkWildcardBeforeSpecific(rules) ==
  {i \in DOMAIN rules :
     /\ normalizedAction(rules[i]) \in {"deny", "require_approval"}
     /\ \E w \in DOMAIN rules : w < i /\ IsWildcardAllow(rules[w])}

checkOrphanServerReference(rules, servers) ==
  {i \in DOMAIN rules : "server" \in DOMAIN rules[i].match /\ rules[i].match.server \notin servers}

sameToolPattern(a, b) ==
  "tool" \in DOMAIN a.match /\ "tool" \in DOMAIN b.match /\ a.match.tool = b.match.tool

checkHostPolicyOverriddenAttempt(user, host) ==
  {i \in DOMAIN user :
     /\ normalizedAction(user[i]) = "allow"
     /\ \E h \in DOMAIN host : normalizedAction(host[h]) # "allow" /\ sameToolPattern(user[i], host[h])}

auditPolicy(user, host, servers) ==
  [unreachable |-> checkWildcardBeforeSpecific(user),
   unreachableHost |-> checkWildcardBeforeSpecific(host),
   orphans |-> checkOrphanServerReference(user, servers),
   overridden |-> checkHostPolicyOverriddenAttempt(user, host)]

-----------------------------------------------------------------------------
(* agents.yaml: the budget of each agent, by the amounts it sets.  A variant *)
(* takes the amounts of the command, in place of all of the base's.          *)

register(registry, name, budget) == (name :> budget) @@ registry

createVariant(registry, name, base, budget) ==
  IF base \in DOMAIN registry THEN register(registry, name, budget) ELSE registry
=============================================================================
