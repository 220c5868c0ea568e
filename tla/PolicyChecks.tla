----------------------------- MODULE PolicyChecks -----------------------------
(***************************************************************************)
(* What packs, presets, the audit of a policy and learned rules come to in *)
(* the engine, for every list of up to three of nine rules, every pair of  *)
(* pack directories over two names, and every log of three rows.  TLC      *)
(* evaluates the assumptions before a run starts.                          *)
(***************************************************************************)
EXTENDS Configuration, Learn

Matches ==
  {[tool |-> Tools], [tool |-> FilesystemWrite], [tool |-> Tools, args_contain |-> DestructiveArgs]}
SampleRules == {RuleOf(m, action, "soft_mandatory", NoCondition) : m \in Matches, action \in ActionType}
Lists(n) == UNION {[1..k -> SampleRules] : k \in 0..n}

Fresh(host, user, call) == evaluate(FALSE, {}, host, user, call)
OnBoundary(call) == firstMatch(HARD_BOUNDARIES, "built_in", call) # NoDecision

(* The first wildcard above a rule is one that matches every call. *)
IsBehindWildcard(rules, i) ==
  \E w \in 1..i - 1 : IsWildcardAllow(rules[w]) /\ DOMAIN rules[w].match = {"tool"}

(* A rule the audit calls unreachable decides nothing, if the wildcard above *)
(* it has no other field ("the deny will never fire", policy/audit.ts).      *)
ASSUME UnreachableNeverFires ==
  \A rules \in Lists(3) : \A i \in checkWildcardBeforeSpecific(rules) :
    IsBehindWildcard(rules, i) =>
      \A call \in ToolCall :
        firstMatch(rules, "user", call) = firstMatch(RemoveAt(rules, i), "user", call)

(* Behind a wildcard narrowed by its arguments such a rule does fire, though *)
(* the audit complains of it alike.                                          *)
ASSUME NarrowWildcardIsTakenForAll ==
  \E rules \in Lists(2) : \E i \in checkWildcardBeforeSpecific(rules), call \in ToolCall :
    firstMatch(rules, "user", call) # firstMatch(RemoveAt(rules, i), "user", call)

(* A rule for a server that is not configured decides calls like any other:  *)
(* the audit says "This rule will never fire".                               *)
ASSUME OrphanFires ==
  \E action \in ActionType, call \in ToolCall :
    LET rules == <<RuleOf([tool |-> Tools, server |-> "slack"], action, "soft_mandatory", NoCondition)>>
    IN  auditPolicy(rules, <<>>, {"fs"}).orphans = {1} /\ firstMatch(rules, "user", call) # NoDecision

(* Where the host's file, packs included, does not simply allow a call, no   *)
(* rule of the user's does ("A user config.yaml cannot weaken a host-policy  *)
(* deny", config/loader.ts).                                                 *)
ASSUME HostIsAFloor ==
  \A own \in Lists(1), pack \in Lists(1), user \in Lists(2), call \in ToolCall :
    LET host == loadHostPolicy([extends |-> <<"p">>, rules |-> own], <<[p |-> [name |-> "p", rules |-> pack]]>>)
        floor == firstMatch(host, "host", call)
    IN  floor # NoDecision =>
          ACTION_STRICTNESS[Fresh(host, user, call).action] >= ACTION_STRICTNESS[floor.action]

(* "The host floor wins - this user rule has no effect", the audit says      *)
(* (policy/audit.ts) of a rule whose pattern the host restricts: the host    *)
(* decides, if its rule names nothing but the pattern.                       *)
ASSUME OverriddenIsTheHostsDecision ==
  \A host, user \in Lists(1) : \A i \in auditPolicy(user, host, {}).overridden :
    DOMAIN host[1].match = {"tool"} =>
      \A call \in ToolCall :
        \/ OnBoundary(call) \/ call.tool \notin user[i].match.tool
        \/ Fresh(host, user, call).action = host[1].action

(* If the host's rule is narrowed by arguments, the rule said to have no     *)
(* effect still allows calls.                                                *)
ASSUME OverriddenMayAllow ==
  \E host, user \in Lists(1), call \in ToolCall :
    auditPolicy(user, host, {}).overridden = {1} /\ Fresh(host, user, call).action = "allow"

(* What an imported pack decides, the file's own rules do not change: pack   *)
(* rules come first.  The comments in packs.ts and types.ts promise the      *)
(* contrary ("user overrides still win under first-match-wins semantics").   *)
ASSUME PackRulesWin ==
  \A pack, own \in Lists(2), call \in ToolCall :
    LET rules == loadConfigWithPacks([extends |-> <<"p">>, rules |-> own],
                                     <<[p |-> [name |-> "p", rules |-> pack]]>>).rules
        imported == firstMatch(pack, "user", call)
    IN  firstMatch(rules, "user", call) =
          IF imported # NoDecision THEN imported ELSE firstMatch(own, "user", call)

-----------------------------------------------------------------------------
PackNames == {"p", "q"}
SomePacks == [name : PackNames, rules : {<<>>, <<Allowing("*")>>}] \cup {NoPack}
PackDirs == UNION {[files -> SomePacks] : files \in SUBSET PackNames}
NamedAlike(dir) == \A f \in DOMAIN dir : dir[f] # NoPack /\ dir[f].name = f

(* Packs that bear their file's name and parse are imported as they are      *)
(* listed, the operator's before a shipped one (packs.ts: "User packs with   *)
(* the same name override shipped ones").                                    *)
ASSUME ListedIsImported ==
  \A shipped, mine \in PackDirs :
    NamedAlike(shipped) /\ NamedAlike(mine) =>
      listPacks(<<shipped, mine>>) = {getPack(n, <<shipped, mine>>) : n \in PackNames} \ {NoPack}

(* A file of the operator's that does not parse hides the shipped pack of    *)
(* its name from imports: the rules are missing, while the list shows it.    *)
ASSUME BrokenFileHidesPack ==
  \E shipped, mine \in PackDirs : \E n \in PackNames :
    /\ NamedAlike(shipped)
    /\ n \in DOMAIN shipped /\ shipped[n] \in listPacks(<<shipped, mine>>)
    /\ n \in resolveExtends(<<n>>, <<shipped, mine>>).missing

(* A preset applied to a file without packs gives the posture it names:      *)
(* nothing passes, or nothing but the boundaries is stopped, or nothing is   *)
(* denied that is not destructive and nothing is written unasked.  A pack    *)
(* that the file extends stays in front of it, deny-all included.            *)
ASSUME PresetsHold ==
  LET Posture(preset, pack, call) ==
        policyExplainCommand(
          policyPresetApplyCommand([extends |-> <<"p">>, rules |-> <<Allowing("*")>>], preset, TRUE, FALSE),
          [extends |-> <<>>, rules |-> <<>>], <<[p |-> [name |-> "p", rules |-> pack]]>>, call).action
  IN  /\ \A call \in ToolCall :
           /\ Posture("deny_all", <<>>, call) = "deny"
           /\ OnBoundary(call) \/ call.args \in ShellNeedles \/ Posture("observe", <<>>, call) = "allow"
           /\ Posture("cautious", <<>>, call) = "deny" =>
                \/ OnBoundary(call) \/ call.args \in ShellNeedles
                \/ call.tool \in ToolsLike["delete_*"] \cup ToolsLike["drop_*"]
           /\ call.tool \in ToolsLike["write_*"] => Posture("cautious", <<>>, call) # "allow"
      /\ \E call \in ToolCall : Posture("deny_all", <<Allowing("*")>>, call) = "allow"

(* Telegram is open only with a floor that stops calls the phone may not     *)
(* make on its own (start.ts: "FAIL CLOSED").                                *)
ASSUME PhoneHasAFloor ==
  /\ ~telegramInbound([enabled |-> TRUE]) /\ ~telegramInbound([inbound |-> TRUE])
  /\ ~telegramInbound([enabled |-> TRUE, inbound |-> TRUE, policy_floor |-> "strict"])
  /\ telegramInbound([enabled |-> TRUE, inbound |-> TRUE])
  /\ \A call \in ToolCall :
       call.tool \in ToolsLike["write_*"] =>
         Fresh(<<>>, floorRules([enabled |-> TRUE, inbound |-> TRUE]), call).action # "allow"

(* A variant made without amounts is left to the global ones: its base's     *)
(* are gone (identity/registry.ts, createVariant).                           *)
ASSUME VariantForgetsBudget ==
  LET agents == register([a \in {} |-> 0], "main", [daily |-> 1])
  IN  createVariant(agents, "careful", "main", [k \in {} |-> 0])["careful"] = [k \in {} |-> 0]

-----------------------------------------------------------------------------
LogRows ==
  [agent : {"main", "other"}, tool : Tools, time : {1},
   decision : {"allow"}, tier : {"user"}]
  \cup [agent : {"main", "other"}, tool : Tools, time : {1},
        decision : {"deny"}, tier : {"user", "built_in"}]
LogOf(f) == {[id |-> n] @@ f[n] : n \in DOMAIN f}

(* What is learned from one agent's calls allows no tool it was ever denied  *)
(* in the window and none it used less than minAllow times, and has one rule *)
(* a tool ("Intentionally conservative", learn/analyzer.ts).                 *)
ASSUME LearnedIsConservative ==
  \A f \in [1..3 -> LogRows] :
    LET own == {r \in LogOf(f) : r.agent = "main"}
        rules == learnCommand(LogOf(f), 1, 14, "main", 2)
    IN  /\ \A t \in Tools : Cardinality({k \in DOMAIN rules : t \in rules[k].match.tool}) <= 1
        /\ \A k \in DOMAIN rules : rules[k].action = "allow" =>
             LET rows == {r \in own : r.tool \in rules[k].match.tool}
             IN  Cardinality(rows) >= 2 /\ \A r \in rows : r.decision = "allow"

(* Learned from several agents at once, a rule of one agent's calls allows   *)
(* the tool to one that was denied it: buckets are by agent, rules are not.  *)
ASSUME LearnedMixesAgents ==
  \E f \in [1..3 -> LogRows], call \in ToolCall :
    /\ firstMatch(learnCommand(LogOf(f), 1, 14, AnyAgent, 2), "user", call)
         = Decision("allow", "soft_mandatory", "user")
    /\ \E r \in LogOf(f) : r.tool = call.tool /\ r.decision = "deny"
===============================================================================
