------------------------------ MODULE RuleProofs ------------------------------
(***************************************************************************)
(* Proofs about rules, for lists, packs and policies of any length: the    *)
(* merge of two decisions, the first match, the tier order, what packs and *)
(* presets come to in the engine and what the audit says of a rule.        *)
(*                                                                         *)
(* The argument: the decision of a list is that of its least matching      *)
(* position (LeastElement), so a rule behind one that matches decides      *)
(* nothing; and no tier between the boundaries and the session overrides   *)
(* is more lenient than the host's file or the user's (StricterIsStrictest).*)
(***************************************************************************)
EXTENDS Configuration, Numbers, SequenceTheorems, TLAPS

-----------------------------------------------------------------------------
(* What the merge of two decisions guarantees, for any two decisions.        *)

(* The merge chooses, it does not invent: its result is one of the two. *)
LEMMA StricterChooses ==
  ASSUME NEW a \in PolicyDecision, NEW b \in PolicyDecision
  PROVE  stricter(a, b) \in {a, b} /\ stricter(a, b) \in PolicyDecision
  BY DEF stricter

(* Strictness is a number from 1 to 3 and determines the action. *)
LEMMA StrictnessOrdersActions ==
  /\ \A x \in ActionType : ACTION_STRICTNESS[x] \in 1..3
  /\ \A x, y \in ActionType : ACTION_STRICTNESS[x] = ACTION_STRICTNESS[y] => x = y
  BY DEF ActionType, ACTION_STRICTNESS

(* stricter() never lets the more lenient action through (engine.ts): the    *)
(* result is at least as strict as either decision.                          *)
THEOREM StricterIsStrictest ==
  ASSUME NEW a \in PolicyDecision, NEW b \in PolicyDecision
  PROVE  /\ ACTION_STRICTNESS[stricter(a, b).action] >= ACTION_STRICTNESS[a.action]
         /\ ACTION_STRICTNESS[stricter(a, b).action] >= ACTION_STRICTNESS[b.action]
<1>1. a.action \in ActionType /\ b.action \in ActionType
  BY DEF PolicyDecision
<1>2. /\ ACTION_STRICTNESS[a.action] \in 1..3
      /\ ACTION_STRICTNESS[b.action] \in 1..3
  BY <1>1, StrictnessOrdersActions
<1>3. CASE Outranks(a, b)
  <2>1. ACTION_STRICTNESS[a.action] >= ACTION_STRICTNESS[b.action]
    BY <1>2, <1>3 DEF Outranks
  <2> QED
    BY <1>2, <1>3, <2>1 DEF stricter
<1>4. CASE ~Outranks(a, b)
  <2>1. ACTION_STRICTNESS[b.action] >= ACTION_STRICTNESS[a.action]
    BY <1>2, <1>4 DEF Outranks
  <2>2. CASE Outranks(b, a)
    BY <1>2, <1>4, <2>1, <2>2 DEF stricter
  <2>3. CASE ~Outranks(b, a)
    <3>1. ACTION_STRICTNESS[a.action] >= ACTION_STRICTNESS[b.action]
      BY <1>2, <2>3 DEF Outranks
    <3> QED
      BY <1>2, <2>1, <3>1 DEF stricter
  <2> QED
    BY <2>2, <2>3
<1> QED
  BY <1>3, <1>4

(* The order of strictness: what outranks, or is not outranked by, a         *)
(* decision that outranks a third outranks the third.                        *)
LEMMA OutranksIsAnOrder ==
  ASSUME NEW a \in PolicyDecision, NEW b \in PolicyDecision, NEW c \in PolicyDecision,
         ~ Outranks(b, a), Outranks(b, c)
  PROVE  Outranks(a, c)
<1>1. /\ a.action \in ActionType /\ b.action \in ActionType /\ c.action \in ActionType
      /\ a.enforcement \in EnforcementLevel /\ b.enforcement \in EnforcementLevel
      /\ c.enforcement \in EnforcementLevel
  BY DEF PolicyDecision
<1>2. /\ \A x \in ActionType : ACTION_STRICTNESS[x] \in Int
      /\ \A x \in EnforcementLevel : ENFORCEMENT_STRICTNESS[x] \in Int
      /\ \A x, y \in ActionType : ACTION_STRICTNESS[x] = ACTION_STRICTNESS[y] => x = y
  BY DEF ActionType, EnforcementLevel, ACTION_STRICTNESS, ENFORCEMENT_STRICTNESS
<1> QED
  BY <1>1, <1>2 DEF Outranks

(* A merge does not move a decision away from the host's but to a stricter   *)
(* one: what is the host's own, or stricter, stays so.                       *)
HostOrStricter(d, h) == d = h \/ Outranks(d, h)

LEMMA MergeKeepsHost ==
  ASSUME NEW h \in PolicyDecision, h.tier = "host",
         NEW d \in PolicyDecision, HostOrStricter(d, h),
         NEW other \in PolicyDecision \cup {NoDecision}
  PROVE  HostOrStricter(Merge(d, other), h)
<1>1. CASE other = NoDecision
  BY <1>1 DEF Merge
<1>2. CASE other # NoDecision
  <2>1. other \in PolicyDecision /\ Merge(d, other) = stricter(d, other)
    BY <1>2 DEF Merge
  <2>2. SUFFICES ASSUME stricter(d, other) = other, ~ Outranks(d, other),
                        ~ (d.tier = "host" /\ ~ Outranks(other, d))
                 PROVE  Outranks(other, h)
    BY <2>1 DEF HostOrStricter, stricter
  <2>3. CASE d = h
    BY <2>2, <2>3
  <2>4. CASE Outranks(d, h)
    BY <2>1, <2>2, <2>4, OutranksIsAnOrder
  <2> QED
    BY <2>3, <2>4 DEF HostOrStricter
<1> QED
  BY <1>1, <1>2

LEMMA MergeType ==
  ASSUME NEW a \in PolicyDecision, NEW b \in PolicyDecision \cup {NoDecision}
  PROVE  /\ Merge(a, b) \in PolicyDecision
         /\ Merge(a, b) \in {a, b}
         /\ ACTION_STRICTNESS[Merge(a, b).action] >= ACTION_STRICTNESS[a.action]
         /\ b # NoDecision =>
              ACTION_STRICTNESS[Merge(a, b).action] >= ACTION_STRICTNESS[b.action]
<1>1. ACTION_STRICTNESS[a.action] \in 1..3
  BY StrictnessOrdersActions DEF PolicyDecision
<1>2. CASE b = NoDecision
  BY <1>1, <1>2 DEF Merge
<1>3. CASE b # NoDecision
  <2>1. b \in PolicyDecision
    BY <1>3
  <2> QED
    BY <1>3, <2>1, StricterChooses, StricterIsStrictest DEF Merge
<1> QED
  BY <1>2, <1>3

-----------------------------------------------------------------------------
(* Rule evaluation.                                                          *)

LEMMA ToDecisionType ==
  ASSUME NEW rule, RuleOK(rule), NEW tier \in RuleTier, NEW call
  PROVE  toDecision(rule, tier, call) \in PolicyDecision
<1>1. resolveAction(rule, call) \in ActionType
  BY DEF resolveAction, RuleOK, ActionType
<1> QED
  BY <1>1 DEF toDecision, Decision, RuleOK, PolicyDecision

(* firstMatch() returns a decision of a rule of the list, or nothing. *)
LEMMA FirstMatchType ==
  ASSUME NEW rules, RuleListOK(rules), NEW tier \in RuleTier, NEW call
  PROVE  firstMatch(rules, tier, call) \in PolicyDecision \cup {NoDecision}
<1> DEFINE hits == {i \in DOMAIN rules : fieldsMatch(rules[i].match, call)}
           first == CHOOSE i \in hits : \A j \in hits : i <= j
<1>1. CASE hits = {}
  BY <1>1 DEF firstMatch
<1>2. CASE hits # {}
  <2>1. hits \in SUBSET Nat
    BY DEF RuleListOK
  <2>2. \E i \in hits : \A j \in hits : i <= j
    BY <1>2, <2>1, LeastElement
  <2>3. first \in hits
    BY <2>2
  <2>4. RuleOK(rules[first])
    BY <2>3 DEF RuleListOK
  <2>5. toDecision(rules[first], tier, call) \in PolicyDecision
    BY <2>4, ToDecisionType
  <2> QED
    BY <1>2, <2>5 DEF firstMatch
<1> QED
  BY <1>1, <1>2

LEMMA HardBoundariesOK == RuleListOK(HARD_BOUNDARIES)
  BY DEF RuleListOK, RuleOK, HARD_BOUNDARIES, RuleOf, NoCondition, MatchFields,
         ToolFields, ArgsFields, TagFields, ReservedFields, ActionType,
         EnforcementLevel

LEMMA DefaultsOK == RuleListOK(DEFAULTS)
  BY DEF RuleListOK, RuleOK, DEFAULTS, RuleOf, NoCondition, MatchFields,
         ToolFields, ArgsFields, TagFields, ReservedFields, ActionType,
         EnforcementLevel

(* evaluate() always decides. *)
LEMMA EvaluateType ==
  ASSUME NEW locked, NEW granted, NEW host, RuleListOK(host), NEW user,
         RuleListOK(user), NEW call
  PROVE  evaluate(locked, granted, host, user, call) \in PolicyDecision
<1>1. /\ LockdownDenial \in PolicyDecision
      /\ SessionAllow \in PolicyDecision
      /\ ImplicitDeny \in PolicyDecision
  BY DEF LockdownDenial, SessionAllow, ImplicitDeny, Decision, PolicyDecision,
         ActionType, EnforcementLevel, RuleTier
<1>2. {"built_in", "host", "user"} \subseteq RuleTier
  BY DEF RuleTier
<1>3. /\ firstMatch(HARD_BOUNDARIES, "built_in", call) \in PolicyDecision \cup {NoDecision}
      /\ firstMatch(DEFAULTS, "built_in", call) \in PolicyDecision \cup {NoDecision}
      /\ firstMatch(host, "host", call) \in PolicyDecision \cup {NoDecision}
      /\ firstMatch(user, "user", call) \in PolicyDecision \cup {NoDecision}
  BY <1>2, HardBoundariesOK, DefaultsOK, FirstMatchType
<1>4. hostAndUser(host, user, call) \in PolicyDecision \cup {NoDecision}
  BY <1>3, MergeType DEF hostAndUser
<1> QED
  BY <1>1, <1>3, <1>4 DEF evaluate

(* A call with destructive arguments is denied, whatever the rules, the      *)
(* overrides and the state of lockdown.                                      *)
LEMMA BoundaryDenies ==
  ASSUME NEW locked, NEW granted, NEW host, NEW user,
         NEW call \in ToolCall, call.args \in DestructiveArgs
  PROVE  evaluate(locked, granted, host, user, call).action = "deny"
<1> DEFINE boundary == firstMatch(HARD_BOUNDARIES, "built_in", call)
           rule == HARD_BOUNDARIES[1]
           hits == {i \in DOMAIN HARD_BOUNDARIES :
                      fieldsMatch(HARD_BOUNDARIES[i].match, call)}
<1>1. /\ DOMAIN HARD_BOUNDARIES = {1}
      /\ rule.match = [command_matches |-> DestructiveArgs]
      /\ rule.action = "deny"
      /\ rule.enforcement = "hard_mandatory"
  BY DEF HARD_BOUNDARIES, RuleOf
<1>2. fieldsMatch(rule.match, call)
  BY <1>1 DEF fieldsMatch, TagFields, ToolFields, ArgsFields
<1>3. hits = {1}
  BY <1>1, <1>2
<1>4. (CHOOSE i \in hits : \A j \in hits : i <= j) = 1
  BY <1>3
<1>5. boundary = toDecision(rule, "built_in", call)
  BY <1>3, <1>4 DEF firstMatch
<1>6. boundary = Decision("deny", "hard_mandatory", "built_in")
  BY <1>1, <1>5 DEF toDecision, resolveAction
<1>7. boundary \in PolicyDecision /\ boundary # NoDecision
  BY <1>6, NoDecisionIsNone DEF Decision, PolicyDecision, ActionType, EnforcementLevel,
     RuleTier
<1> QED
  BY <1>6, <1>7 DEF evaluate, LockdownDenial, Decision
(* firstMatch() stamps the tier of the list it searched. *)
LEMMA FirstMatchTier ==
  ASSUME NEW rules, NEW tier, NEW call, firstMatch(rules, tier, call) # NoDecision
  PROVE  firstMatch(rules, tier, call).tier = tier
  BY DEF firstMatch, toDecision, Decision

(* Only an override for the tool of the call makes evaluate() answer from    *)
(* the session tier.                                                         *)
LEMMA SessionTierNeedsGrant ==
  ASSUME NEW locked, NEW granted, NEW host, RuleListOK(host), NEW user,
         RuleListOK(user), NEW call,
         evaluate(locked, granted, host, user, call).tier = "session"
  PROVE  call.tool \in granted
<1> DEFINE boundary == firstMatch(HARD_BOUNDARIES, "built_in", call)
           h == firstMatch(host, "host", call)
           u == firstMatch(user, "user", call)
           default == firstMatch(DEFAULTS, "built_in", call)
<1>1. /\ boundary # NoDecision => boundary.tier = "built_in"
      /\ h # NoDecision => h.tier = "host"
      /\ u # NoDecision => u.tier = "user"
      /\ default # NoDecision => default.tier = "built_in"
  BY FirstMatchTier
<1>2. hostAndUser(host, user, call) \in {NoDecision, h, u}
  BY DEF hostAndUser, Merge, stricter
<1>3. hostAndUser(host, user, call) # NoDecision =>
        hostAndUser(host, user, call).tier \in {"host", "user"}
  BY <1>1, <1>2
<1>4. LockdownDenial.tier = "built_in" /\ ImplicitDeny.tier = "built_in"
  BY DEF LockdownDenial, ImplicitDeny, Decision
<1> QED
  BY <1>1, <1>3, <1>4 DEF evaluate


-----------------------------------------------------------------------------
(* Lists of rules.  The first match is that of the least position that       *)
(* matches.                                                                  *)

Hits(rules, call) == {i \in DOMAIN rules : fieldsMatch(rules[i].match, call)}

IsFirstHit(i, rules, call) ==
  i \in Hits(rules, call) /\ \A j \in Hits(rules, call) : i <= j

LEMMA SomeHitIsFirst ==
  ASSUME NEW S, NEW rules \in Seq(S), NEW call, Hits(rules, call) # {}
  PROVE  \E i \in 1..Len(rules) : IsFirstHit(i, rules, call)
<1>1. DOMAIN rules = 1..Len(rules) /\ Len(rules) \in Nat
  BY LenProperties
<1>2. Hits(rules, call) \in SUBSET Nat
  BY <1>1 DEF Hits
<1>3. \E i \in Hits(rules, call) : \A j \in Hits(rules, call) : i <= j
  BY <1>2, LeastElement
<1> QED
  BY <1>1, <1>3 DEF IsFirstHit, Hits

LEMMA FirstHitDecides ==
  ASSUME NEW rules, DOMAIN rules \subseteq Int, NEW tier, NEW call, NEW i,
         IsFirstHit(i, rules, call)
  PROVE  firstMatch(rules, tier, call) = toDecision(rules[i], tier, call)
<1> DEFINE hits == {k \in DOMAIN rules : fieldsMatch(rules[k].match, call)}
<1>1. hits = Hits(rules, call)
  BY DEF Hits
<1>2. hits \subseteq Int
  OBVIOUS
<1>3. i \in hits /\ \A j \in hits : i <= j
  BY <1>1 DEF IsFirstHit
<1>4. (CHOOSE k \in hits : \A j \in hits : k <= j) = i
  <2>1. \A k \in hits : (\A j \in hits : k <= j) => k = i
    BY <1>2, <1>3
  <2> QED
    BY <1>3, <2>1
<1> QED
  BY <1>3, <1>4 DEF firstMatch

LEMMA NoHitNoDecision ==
  ASSUME NEW rules, NEW tier, NEW call, Hits(rules, call) = {}
  PROVE  firstMatch(rules, tier, call) = NoDecision
  BY DEF firstMatch, Hits

(* Rules that parsed.                                                        *)
IsRuleSet(S) == \A rule \in S : RuleOK(rule)

LEMMA RulesAreListed ==
  ASSUME NEW S, IsRuleSet(S), NEW rules \in Seq(S)
  PROVE  RuleListOK(rules)
  BY LenProperties, ElementOfSeq DEF IsRuleSet, RuleListOK

(* A list that matches decides.                                              *)
LEMMA HitIsDecision ==
  ASSUME NEW S, IsRuleSet(S), NEW rules \in Seq(S), NEW tier \in RuleTier, NEW call
  PROVE  firstMatch(rules, tier, call) # NoDecision <=> Hits(rules, call) # {}
<1>1. ASSUME Hits(rules, call) # {} PROVE firstMatch(rules, tier, call) # NoDecision
  <2>1. PICK i \in 1..Len(rules) : IsFirstHit(i, rules, call)
    BY <1>1, SomeHitIsFirst
  <2>2. RuleOK(rules[i])
    BY ElementOfSeq DEF IsRuleSet
  <2>3. toDecision(rules[i], tier, call) \in PolicyDecision
    BY <2>2, ToDecisionType
  <2> QED
    BY <2>1, <2>3, LenProperties, FirstHitDecides, NoDecisionIsNone
<1> QED
  BY <1>1, NoHitNoDecision

(* Of two lists in a row the first decides, unless none of its rules does.   *)
LEMMA FormerDecidesFirst ==
  ASSUME NEW S, IsRuleSet(S), NEW r \in Seq(S), NEW s \in Seq(S),
         NEW tier \in RuleTier, NEW call
  PROVE  firstMatch(r \o s, tier, call) =
           IF firstMatch(r, tier, call) # NoDecision THEN firstMatch(r, tier, call)
           ELSE firstMatch(s, tier, call)
<1>1. /\ Len(r) \in Nat /\ DOMAIN r = 1..Len(r)
      /\ Len(s) \in Nat /\ DOMAIN s = 1..Len(s)
      /\ r \o s \in Seq(S) /\ DOMAIN (r \o s) = 1..Len(r) + Len(s) /\ DOMAIN (r \o s) \subseteq Int
      /\ \A i \in 1..Len(r) + Len(s) : (r \o s)[i] = IF i <= Len(r) THEN r[i] ELSE s[i - Len(r)]
  BY LenProperties, ConcatProperties
<1>2. \A i \in Hits(r \o s, call) :
        IF i <= Len(r) THEN i \in Hits(r, call) ELSE i - Len(r) \in Hits(s, call)
  BY <1>1 DEF Hits
<1>3. /\ \A i \in Hits(r, call) : i \in Hits(r \o s, call) /\ i <= Len(r)
      /\ \A i \in Hits(s, call) : i + Len(r) \in Hits(r \o s, call)
  BY <1>1 DEF Hits
<1>4. CASE Hits(r, call) # {}
  <2>1. PICK i \in 1..Len(r) : IsFirstHit(i, r, call)
    BY <1>4, SomeHitIsFirst
  <2>2. IsFirstHit(i, r \o s, call)
    <3>1. i \in Hits(r, call) /\ \A j \in Hits(r, call) : i <= j
      BY <2>1 DEF IsFirstHit
    <3>2. Hits(r \o s, call) \subseteq Int
      BY <1>1 DEF Hits
    <3>3. \A j \in Hits(r \o s, call) : i <= j
      BY <1>1, <1>2, <3>1, <3>2
    <3> QED
      BY <1>3, <3>1, <3>3 DEF IsFirstHit
  <2>3. (r \o s)[i] = r[i]
    BY <1>1
  <2>4. firstMatch(r \o s, tier, call) = firstMatch(r, tier, call)
    <3>1. firstMatch(r, tier, call) = toDecision(r[i], tier, call)
      BY <1>1, <2>1, FirstHitDecides
    <3>2. firstMatch(r \o s, tier, call) = toDecision((r \o s)[i], tier, call)
      BY <1>1, <2>2, FirstHitDecides
    <3> QED
      BY <2>3, <3>1, <3>2
  <2> QED
    BY <1>4, <2>4, HitIsDecision
<1>5. CASE Hits(r, call) = {}
  <2>1. firstMatch(r, tier, call) = NoDecision
    BY <1>5, NoHitNoDecision
  <2>2. CASE Hits(s, call) # {}
    <3>1. PICK i \in 1..Len(s) : IsFirstHit(i, s, call)
      BY <2>2, SomeHitIsFirst
    <3>2. IsFirstHit(i + Len(r), r \o s, call)
      <4>1. i \in Hits(s, call) /\ \A j \in Hits(s, call) : i <= j
        BY <3>1 DEF IsFirstHit
      <4>2. Hits(r \o s, call) \subseteq Int
        BY <1>1 DEF Hits
      <4>3. \A j \in Hits(r \o s, call) : j - Len(r) \in Hits(s, call)
        BY <1>2, <1>5
      <4>4. \A j \in Hits(r \o s, call) : i + Len(r) <= j
        BY <1>1, <4>1, <4>2, <4>3
      <4> QED
        BY <1>3, <4>1, <4>4 DEF IsFirstHit
    <3>3. (r \o s)[i + Len(r)] = s[i]
      BY <1>1
    <3>4. firstMatch(r \o s, tier, call) = firstMatch(s, tier, call)
      <4>1. firstMatch(s, tier, call) = toDecision(s[i], tier, call)
        BY <1>1, <3>1, FirstHitDecides
      <4>2. firstMatch(r \o s, tier, call) = toDecision((r \o s)[i + Len(r)], tier, call)
        BY <1>1, <3>2, FirstHitDecides
      <4> QED
        BY <3>3, <4>1, <4>2
    <3> QED
      BY <2>1, <3>4
  <2>3. CASE Hits(s, call) = {}
    <3>1. Hits(r \o s, call) = {}
      BY <1>2, <1>5, <2>3
    <3> QED
      BY <2>1, <2>3, <3>1, NoHitNoDecision
  <2> QED
    BY <2>2, <2>3
<1> QED
  BY <1>4, <1>5

-----------------------------------------------------------------------------
(* Packs.  FlattenSeq is a recursive function on 1..n, where n is the number *)
(* of lists; there is one for every n.                                       *)

Flattens(f, lists, n) ==
  f = [i \in 1..n |-> IF i = 1 THEN lists[i] ELSE f[i - 1] \o lists[i]]

LEMMA FlattensExists ==
  ASSUME NEW lists, NEW n \in Nat
  PROVE  \E f : Flattens(f, lists, n)
<1> DEFINE bad == {m \in Nat : ~ \E f : Flattens(f, lists, m)}
<1>1. SUFFICES ASSUME bad # {} PROVE FALSE
  OBVIOUS
<1>2. PICK m \in bad : \A k \in bad : m <= k
  BY <1>1, LeastElement
<1>3. CASE m = 0
  <2> DEFINE f == [i \in 1..0 |-> IF i = 1 THEN lists[i] ELSE lists[i]]
  <2>1. f = [i \in 1..0 |-> IF i = 1 THEN lists[i] ELSE f[i - 1] \o lists[i]]
    OBVIOUS
  <2> QED
    BY <1>3, <2>1 DEF Flattens
<1>4. CASE m # 0
  <2>1. m - 1 \in Nat /\ m - 1 \notin bad
    BY <1>2, <1>4
  <2>2. PICK f : Flattens(f, lists, m - 1)
    BY <2>1
  <2> DEFINE g == [i \in 1..m |->
                     IF i < m THEN f[i] ELSE IF i = 1 THEN lists[i] ELSE f[i - 1] \o lists[i]]
             h == [i \in 1..m |-> IF i = 1 THEN lists[i] ELSE g[i - 1] \o lists[i]]
  <2>3. \A i \in 1..m - 1 : f[i] = IF i = 1 THEN lists[i] ELSE f[i - 1] \o lists[i]
    BY <2>2 DEF Flattens
  <2>4. \A i \in 1..m : g[i] = h[i]
    <3> SUFFICES ASSUME NEW i \in 1..m PROVE g[i] = h[i]
      OBVIOUS
    <3>1. CASE i = 1
      BY <1>2, <2>3, <3>1
    <3>2. CASE i # 1
      <4>1. i - 1 \in 1..m - 1 /\ g[i - 1] = f[i - 1]
        BY <1>2, <3>2
      <4>2. h[i] = f[i - 1] \o lists[i]
        BY <3>2, <4>1
      <4>3. g[i] = f[i - 1] \o lists[i]
        <5>1. CASE i < m
          <6>1. i \in 1..m - 1 /\ g[i] = f[i]
            BY <1>2, <5>1
          <6> QED
            BY <2>3, <3>2, <6>1
        <5>2. CASE ~(i < m)
          BY <3>2, <5>2
        <5> QED
          BY <5>1, <5>2
      <4> QED
        BY <4>2, <4>3
    <3> QED
      BY <3>1, <3>2
  <2>5. g = h
    BY <2>4
  <2> QED
    BY <1>2, <2>5 DEF Flattens
<1> QED
  BY <1>3, <1>4

LEMMA FlattenSeqIs ==
  ASSUME NEW lists, Len(lists) \in Nat, Len(lists) # 0
  PROVE  \E f : Flattens(f, lists, Len(lists)) /\ FlattenSeq(lists) = f[Len(lists)]
<1> DEFINE f == CHOOSE f : Flattens(f, lists, Len(lists))
<1>1. Flattens(f, lists, Len(lists))
  BY FlattensExists
<1>2. FlattenSeq(lists) = f[Len(lists)]
  BY Zenon DEF FlattenSeq, Flattens
<1> QED
  BY <1>1, <1>2

(* list decides as the first of the n lists that decides.                    *)
DecidesAsFirst(list, lists, n, tier, call) ==
  LET decided(k) == firstMatch(lists[k], tier, call)
  IN  /\ \A k \in 1..n : decided(k) # NoDecision /\ (\A j \in 1..k - 1 : decided(j) = NoDecision)
                           => firstMatch(list, tier, call) = decided(k)
      /\ (\A k \in 1..n : decided(k) = NoDecision) => firstMatch(list, tier, call) = NoDecision

LEMMA PrefixDecides ==
  ASSUME NEW S, IsRuleSet(S), NEW lists \in Seq(Seq(S)), NEW tier \in RuleTier, NEW call,
         NEW f, Flattens(f, lists, Len(lists)), NEW i \in 1..Len(lists)
  PROVE  f[i] \in Seq(S) /\ DecidesAsFirst(f[i], lists, i, tier, call)
<1> DEFINE n == Len(lists)
           Good(k) == f[k] \in Seq(S) /\ DecidesAsFirst(f[k], lists, k, tier, call)
           bad == {k \in 1..n : ~Good(k)}
<1>1. n \in Nat /\ \A k \in 1..n : lists[k] \in Seq(S)
  BY LenProperties, ElementOfSeq
<1>2. SUFFICES ASSUME bad # {} PROVE FALSE
  OBVIOUS
<1>3. PICK m \in bad : \A k \in bad : m <= k
  <2>1. bad \in SUBSET Nat
    BY <1>1
  <2> QED
    BY <1>2, <2>1, LeastElement
<1>4. \A k \in 1..n : f[k] = IF k = 1 THEN lists[k] ELSE f[k - 1] \o lists[k]
  BY DEF Flattens
<1>5. CASE m = 1
  <2>1. f[m] = lists[1]
    BY <1>3, <1>4, <1>5
  <2>2. DecidesAsFirst(lists[1], lists, 1, tier, call)
    BY DEF DecidesAsFirst
  <2> QED
    BY <1>1, <1>3, <1>5, <2>1, <2>2
<1>6. CASE m # 1
  <2>1. m \in 1..n /\ m - 1 \in 1..n /\ m - 1 \notin bad
    BY <1>1, <1>3, <1>6
  <2>2. f[m - 1] \in Seq(S) /\ DecidesAsFirst(f[m - 1], lists, m - 1, tier, call)
    BY <2>1
  <2>3. f[m] = f[m - 1] \o lists[m] /\ lists[m] \in Seq(S)
    BY <1>1, <1>4, <1>6, <2>1
  <2>4. f[m] \in Seq(S)
    BY <2>2, <2>3, ConcatProperties
  <2>5. firstMatch(f[m], tier, call) =
          IF firstMatch(f[m - 1], tier, call) # NoDecision THEN firstMatch(f[m - 1], tier, call)
          ELSE firstMatch(lists[m], tier, call)
    BY <2>2, <2>3, FormerDecidesFirst
  <2> DEFINE d(k) == firstMatch(lists[k], tier, call)
             before == firstMatch(f[m - 1], tier, call)
             after == firstMatch(f[m], tier, call)
  <2>6. /\ \A k \in 1..m - 1 : d(k) # NoDecision /\ (\A j \in 1..k - 1 : d(j) = NoDecision) => before = d(k)
        /\ (\A k \in 1..m - 1 : d(k) = NoDecision) => before = NoDecision
    BY <2>2 DEF DecidesAsFirst
  <2>7. after = IF before # NoDecision THEN before ELSE d(m)
    BY <2>5
  <2> HIDE DEF d, before, after
  <2>8. ASSUME NEW k \in 1..m, d(k) # NoDecision, \A j \in 1..k - 1 : d(j) = NoDecision
        PROVE  after = d(k)
    <3>1. CASE k = m
      BY <2>6, <2>7, <2>8, <3>1
    <3>2. CASE k # m
      <4>1. k \in 1..m - 1
        BY <1>1, <2>1, <3>2
      <4> QED
        BY <2>6, <2>7, <2>8, <4>1
    <3> QED
      BY <3>1, <3>2
  <2>9. ASSUME \A k \in 1..m : d(k) = NoDecision PROVE after = NoDecision
    <3>1. m \in 1..m /\ \A k \in 1..m - 1 : k \in 1..m
      BY <1>1, <2>1
    <3> QED
      BY <2>6, <2>7, <2>9, <3>1
  <2>10. DecidesAsFirst(f[m], lists, m, tier, call)
    BY <2>8, <2>9 DEF DecidesAsFirst, d, after
  <2> QED
    BY <1>3, <2>4, <2>10
<1> QED
  BY <1>5, <1>6

(* What an imported pack decides, neither a later pack nor the file's own    *)
(* rules change (config/loader.ts prepends the packs' rules, in the order    *)
(* of `extends`; packs.ts promises that the user's overrides still win).     *)
THEOREM PackRulesWin ==
  ASSUME NEW S, IsRuleSet(S), NEW Names, NEW raw \in [extends : Seq(Names), rules : Seq(S)],
         NEW dirs, \A n \in Names : getPack(n, dirs).rules \in Seq(S),
         NEW tier \in RuleTier, NEW call
  PROVE  LET loaded == firstMatch(loadConfigWithPacks(raw, dirs).rules, tier, call)
             imported(k) == firstMatch(getPack(raw.extends[k], dirs).rules, tier, call)
         IN  /\ \A k \in 1..Len(raw.extends) :
                  imported(k) # NoDecision /\ (\A j \in 1..k - 1 : imported(j) = NoDecision)
                    => loaded = imported(k)
             /\ (\A k \in 1..Len(raw.extends) : imported(k) = NoDecision)
                  => loaded = firstMatch(raw.rules, tier, call)
<1> DEFINE n == Len(raw.extends)
           lists == [k \in DOMAIN raw.extends |-> getPack(raw.extends[k], dirs).rules]
           packs == FlattenSeq(lists)
           imported(k) == firstMatch(getPack(raw.extends[k], dirs).rules, tier, call)
<1>1. /\ n \in Nat /\ DOMAIN raw.extends = 1..n
      /\ \A k \in 1..n : raw.extends[k] \in Names
  BY LenProperties, ElementOfSeq
<1>2. lists \in Seq(Seq(S)) /\ Len(lists) = n
  BY <1>1
<1>3. packs \in Seq(S) /\ DecidesAsFirst(packs, lists, n, tier, call)
  <2>1. CASE n = 0
    <3>1. packs = lists /\ lists = << >>
      BY <1>2, <2>1 DEF FlattenSeq
    <3>2. firstMatch(<< >>, tier, call) = NoDecision
      <4>1. Hits(<< >>, call) = {}
        BY DEF Hits
      <4> QED
        BY <4>1, NoHitNoDecision
    <3> QED
      BY <2>1, <3>1, <3>2 DEF DecidesAsFirst
  <2>2. CASE n # 0
    <3>1. PICK f : Flattens(f, lists, Len(lists)) /\ packs = f[Len(lists)]
      BY <1>1, <1>2, <2>2, FlattenSeqIs
    <3>2. n \in 1..Len(lists)
      BY <1>1, <1>2, <2>2
    <3>3. f[n] \in Seq(S) /\ DecidesAsFirst(f[n], lists, n, tier, call)
      BY <1>2, <3>1, <3>2, PrefixDecides
    <3> QED
      BY <1>2, <3>1, <3>3
  <2> QED
    BY <2>1, <2>2
<1>4. loadConfigWithPacks(raw, dirs).rules = packs \o raw.rules
  BY DEF loadConfigWithPacks, resolveExtends
<1>5. \A k \in 1..n : firstMatch(lists[k], tier, call) = imported(k)
  BY <1>1
<1>6. firstMatch(packs \o raw.rules, tier, call) =
        IF firstMatch(packs, tier, call) # NoDecision THEN firstMatch(packs, tier, call)
        ELSE firstMatch(raw.rules, tier, call)
  BY <1>3, FormerDecidesFirst
<1>7. /\ \A k \in 1..n : imported(k) # NoDecision /\ (\A j \in 1..k - 1 : imported(j) = NoDecision)
                           => firstMatch(packs, tier, call) = imported(k)
      /\ (\A k \in 1..n : imported(k) = NoDecision) => firstMatch(packs, tier, call) = NoDecision
  <2>1. \A k \in 1..n : \A j \in 1..k - 1 : j \in 1..n
    BY <1>1
  <2> HIDE DEF imported, lists, packs
  <2> QED
    BY <1>3, <1>5, <2>1 DEF DecidesAsFirst
<1> HIDE DEF packs, lists, imported
<1>8. /\ \A k \in 1..n : imported(k) # NoDecision /\ (\A j \in 1..k - 1 : imported(j) = NoDecision)
                           => firstMatch(packs \o raw.rules, tier, call) = imported(k)
      /\ (\A k \in 1..n : imported(k) = NoDecision)
           => firstMatch(packs \o raw.rules, tier, call) = firstMatch(raw.rules, tier, call)
  BY <1>6, <1>7
<1> QED
  BY <1>4, <1>8 DEF imported

-----------------------------------------------------------------------------
(* The audit of a policy.                                                    *)

(* A rule behind one that allows every call decides nothing: without it the  *)
(* list decides the same ("the deny will never fire", policy/audit.ts).      *)
THEOREM UnreachableNeverFires ==
  ASSUME NEW S, NEW rules \in Seq(S), NEW i \in checkWildcardBeforeSpecific(rules),
         NEW w \in 1..i - 1, IsWildcardAllow(rules[w]), DOMAIN rules[w].match = {"tool"},
         NEW tier, NEW call \in ToolCall
  PROVE  firstMatch(rules, tier, call) = firstMatch(RemoveAt(rules, i), tier, call)
<1> DEFINE n == Len(rules)
           rest == RemoveAt(rules, i)
<1>1. n \in Nat /\ DOMAIN rules = 1..n /\ i \in 1..n
  BY LenProperties DEF checkWildcardBeforeSpecific
<1>2. fieldsMatch(rules[w].match, call)
  BY PatternsAssumption DEF IsWildcardAllow, fieldsMatch, ToolFields, ArgsFields, TagFields, ToolCall
<1>3. w \in Hits(rules, call)
  BY <1>1, <1>2 DEF Hits
<1>4. PICK m \in 1..n : IsFirstHit(m, rules, call)
  BY <1>3, SomeHitIsFirst
<1>5. m <= w /\ m \in 1..i - 1
  BY <1>1, <1>3, <1>4 DEF IsFirstHit
<1>6. /\ DOMAIN rest = 1..n - 1
      /\ \A k \in 1..i - 1 : k \in 1..n - 1 /\ rest[k] = rules[k]
  <2> DEFINE front == SubSeq(rules, 1, i - 1)
             back == SubSeq(rules, i + 1, n)
  <2>1. \A k \in 1..n : rules[k] \in S
    BY ElementOfSeq
  <2>2. /\ front \in Seq(S) /\ Len(front) = i - 1
        /\ \A k \in 1..i - 1 : front[k] = rules[k]
    <3>1. \A k \in 1..i - 1 : rules[k] \in S
      BY <1>1, <2>1
    <3>2. i - 1 \in Int /\ 1 \in Int
      BY <1>1
    <3>3. /\ front \in Seq(S)
          /\ Len(front) = IF 1 <= i - 1 THEN (i - 1) - 1 + 1 ELSE 0
          /\ \A k \in 1..(i - 1) - 1 + 1 : front[k] = rules[1 + k - 1]
      BY <3>1, <3>2, SubSeqProperties
    <3> QED
      BY <1>1, <3>3
  <2>3. back \in Seq(S) /\ Len(back) = n - i
    <3>1. \A k \in i + 1..n : rules[k] \in S
      BY <1>1, <2>1
    <3>2. /\ back \in Seq(S)
          /\ Len(back) = IF i + 1 <= n THEN n - (i + 1) + 1 ELSE 0
      BY <1>1, <3>1, SubSeqProperties
    <3> QED
      BY <1>1, <3>2
  <2>4. rest = front \o back
    BY DEF RemoveAt
  <2> HIDE DEF front, back, rest
  <2>5. /\ rest \in Seq(S) /\ Len(rest) = Len(front) + Len(back)
        /\ \A k \in 1..Len(front) + Len(back) : rest[k] = IF k <= Len(front) THEN front[k] ELSE back[k - Len(front)]
    BY <2>2, <2>3, <2>4, ConcatProperties
  <2>6. Len(front) + Len(back) = n - 1
    BY <1>1, <2>2, <2>3
  <2>7. DOMAIN rest = 1..n - 1
    BY <2>5, <2>6, LenProperties
  <2>8. ASSUME NEW k \in 1..i - 1 PROVE k \in 1..n - 1 /\ rest[k] = rules[k]
    <3>1. k \in 1..n - 1 /\ k <= Len(front)
      BY <1>1, <2>2
    <3> QED
      BY <2>2, <2>5, <2>6, <3>1
  <2> QED
    BY <2>7, <2>8
<1> HIDE DEF rest
<1>7. IsFirstHit(m, rest, call)
  <2>1. \A k \in 1..i - 1 : k \in Hits(rest, call) <=> k \in Hits(rules, call)
    BY <1>1, <1>6 DEF Hits
  <2>2. m \in Hits(rest, call)
    BY <1>4, <1>5, <2>1 DEF IsFirstHit
  <2>3. \A k \in Hits(rest, call) : m <= k
    <3> SUFFICES ASSUME NEW k \in Hits(rest, call) PROVE m <= k
      OBVIOUS
    <3>1. k \in Nat
      BY <1>6 DEF Hits
    <3>2. CASE k < i
      <4>1. k \in 1..i - 1
        BY <1>1, <1>6, <3>1, <3>2 DEF Hits
      <4> QED
        BY <1>4, <2>1, <4>1 DEF IsFirstHit
    <3> QED
      BY <1>1, <1>5, <3>1, <3>2
  <2> QED
    BY <2>2, <2>3 DEF IsFirstHit
<1>8. firstMatch(rules, tier, call) = toDecision(rules[m], tier, call)
  BY <1>1, <1>4, FirstHitDecides
<1>9. firstMatch(rest, tier, call) = toDecision(rest[m], tier, call)
  <2>1. DOMAIN rest \subseteq Int
    BY <1>1, <1>6
  <2> QED
    BY <1>7, <2>1, FirstHitDecides
<1>10. rest[m] = rules[m]
  BY <1>5, <1>6
<1> QED
  BY <1>8, <1>9, <1>10 DEF rest

(* Of the tiers of evaluate(), if no session override answers, none is more  *)
(* lenient than what the host's file or the user's says of the call.         *)
LEMMA NoTierIsLaxer ==
  ASSUME NEW locked, NEW granted, NEW host, RuleListOK(host), NEW user, RuleListOK(user),
         NEW call, call.tool \notin granted, NEW d \in PolicyDecision,
         d \in {firstMatch(host, "host", call), firstMatch(user, "user", call)}
  PROVE  ACTION_STRICTNESS[evaluate(locked, granted, host, user, call).action]
           >= ACTION_STRICTNESS[d.action]
<1> DEFINE boundary == firstMatch(HARD_BOUNDARIES, "built_in", call)
           h == firstMatch(host, "host", call)
           u == firstMatch(user, "user", call)
           both == hostAndUser(host, user, call)
<1>1. {"built_in", "host", "user"} \subseteq RuleTier
  BY DEF RuleTier
<1>2. h \in PolicyDecision \cup {NoDecision} /\ u \in PolicyDecision \cup {NoDecision}
  BY <1>1, FirstMatchType
<1>3. /\ both \in PolicyDecision
      /\ ACTION_STRICTNESS[both.action] >= ACTION_STRICTNESS[d.action]
  <2>1. ACTION_STRICTNESS[d.action] \in 1..3
    BY StrictnessOrdersActions DEF PolicyDecision
  <2>2. CASE h = NoDecision
    <3>1. both = u /\ u = d
      BY <2>2, NoDecisionIsNone DEF hostAndUser
    <3> QED
      BY <2>1, <3>1
  <2>3. CASE h # NoDecision
    <3>1. h \in PolicyDecision /\ both = Merge(h, u)
      BY <1>2, <2>3 DEF hostAndUser
    <3>3. d = h \/ (d = u /\ u # NoDecision)
      BY NoDecisionIsNone
    <3> HIDE DEF h, u, both
    <3>2. /\ both \in PolicyDecision
          /\ ACTION_STRICTNESS[both.action] >= ACTION_STRICTNESS[h.action]
          /\ u # NoDecision => ACTION_STRICTNESS[both.action] >= ACTION_STRICTNESS[u.action]
      BY <1>2, <3>1, MergeType
    <3> QED
      BY <3>2, <3>3
  <2> QED
    BY <2>2, <2>3
<1>4. boundary # NoDecision => boundary.action = "deny"
  <2>1. \A rule : rule.action = "deny" => toDecision(rule, "built_in", call).action = "deny"
    BY DEF toDecision, Decision, resolveAction
  <2>2. DOMAIN HARD_BOUNDARIES = {1} /\ HARD_BOUNDARIES[1].action = "deny"
    BY DEF HARD_BOUNDARIES, RuleOf
  <2>3. HARD_BOUNDARIES \in Seq({HARD_BOUNDARIES[1]})
    BY DEF HARD_BOUNDARIES
  <2>4. ASSUME Hits(HARD_BOUNDARIES, call) # {} PROVE boundary.action = "deny"
    <3>1. PICK i \in 1..Len(HARD_BOUNDARIES) : IsFirstHit(i, HARD_BOUNDARIES, call)
      BY <2>3, <2>4, SomeHitIsFirst
    <3>2. boundary = toDecision(HARD_BOUNDARIES[i], "built_in", call)
      <4>1. DOMAIN HARD_BOUNDARIES \subseteq Int
        BY <2>2
      <4> QED
        BY <3>1, <4>1, FirstHitDecides
    <3>3. i = 1
      BY <2>2, <3>1 DEF IsFirstHit, Hits
    <3> QED
      BY <2>1, <2>2, <3>2, <3>3
  <2> QED
    BY <2>4, NoHitNoDecision
<1>5. ACTION_STRICTNESS["deny"] = 3 /\ ACTION_STRICTNESS[d.action] \in 1..3
  BY StrictnessOrdersActions DEF PolicyDecision, ACTION_STRICTNESS
<1>6. evaluate(locked, granted, host, user, call) =
        IF locked THEN LockdownDenial ELSE IF boundary # NoDecision THEN boundary ELSE both
  BY <1>3, NoDecisionIsNone DEF evaluate
<1>7. LockdownDenial.action = "deny"
  BY DEF LockdownDenial, Decision
<1> HIDE DEF boundary, both
<1> QED
  BY <1>3, <1>4, <1>5, <1>6, <1>7

(* Where the host's file, packs included, decides a call, no user rule gives *)
(* a more lenient decision ("A user config.yaml cannot weaken a host-policy  *)
(* deny", config/loader.ts).                                                 *)
THEOREM HostIsAFloor ==
  ASSUME NEW locked, NEW granted, NEW host, RuleListOK(host), NEW user, RuleListOK(user),
         NEW call, call.tool \notin granted,
         firstMatch(host, "host", call) # NoDecision
  PROVE  ACTION_STRICTNESS[evaluate(locked, granted, host, user, call).action]
           >= ACTION_STRICTNESS[firstMatch(host, "host", call).action]
<1>1. firstMatch(host, "host", call) \in PolicyDecision
  BY FirstMatchType DEF RuleTier
<1> QED
  BY <1>1, NoTierIsLaxer

(* "The host floor wins - this user rule has no effect", the audit says of a *)
(* rule whose pattern the host restricts (policy/audit.ts): a call that      *)
(* bears the pattern is as restricted as the host's rule says, if that names *)
(* the pattern alone and no rule of the host's comes before it.              *)
THEOREM OverriddenHasNoEffect ==
  ASSUME NEW locked, NEW granted, NEW S, IsRuleSet(S), NEW host \in Seq(S), NEW user \in Seq(S),
         NEW i \in checkHostPolicyOverriddenAttempt(user, host),
         NEW h \in DOMAIN host, sameToolPattern(user[i], host[h]),
         host[h].action \in {"require_approval", "deny"}, DOMAIN host[h].match = {"tool"},
         NEW call \in ToolCall, call.tool \notin granted, call.tool \in user[i].match.tool,
         \A k \in 1..h - 1 : ~fieldsMatch(host[k].match, call)
  PROVE  ACTION_STRICTNESS[evaluate(locked, granted, host, user, call).action]
           >= ACTION_STRICTNESS[host[h].action]
<1>1. DOMAIN host = 1..Len(host) /\ Len(host) \in Nat
  BY LenProperties
<1>2. fieldsMatch(host[h].match, call)
  BY DEF fieldsMatch, ToolFields, ArgsFields, TagFields, sameToolPattern
<1>3. IsFirstHit(h, host, call)
  BY <1>1, <1>2 DEF IsFirstHit, Hits
<1>4. firstMatch(host, "host", call) = toDecision(host[h], "host", call)
  BY <1>1, <1>3, FirstHitDecides
<1>5. toDecision(host[h], "host", call).action = host[h].action
  BY DEF toDecision, Decision, resolveAction
<1>6. RuleOK(host[h])
  BY ElementOfSeq, <1>1 DEF IsRuleSet
<1>7. toDecision(host[h], "host", call) \in PolicyDecision
  BY <1>6, ToDecisionType DEF RuleTier
<1>8. RuleListOK(host) /\ RuleListOK(user)
  BY RulesAreListed
<1> QED
  BY <1>4, <1>5, <1>7, <1>8, NoTierIsLaxer

-----------------------------------------------------------------------------
(* Presets, in a file that extends no pack.                                  *)

LEMMA PresetRules ==
  /\ \A pattern : /\ RuleOK(Allowing(pattern)) /\ RuleOK(Asking(pattern)) /\ RuleOK(Denying(pattern))
                  /\ Allowing(pattern).action = "allow" /\ Asking(pattern).action = "require_approval"
                  /\ Denying(pattern).action = "deny"
                  /\ \A rule \in {Allowing(pattern), Asking(pattern), Denying(pattern)} :
                       rule.match = [tool |-> ToolsLike[pattern]]
  /\ Len(PresetBoundaries) = 1 /\ PresetBoundaries \in Seq({PresetBoundaries[1]})
  /\ RuleOK(PresetBoundaries[1]) /\ PresetBoundaries[1].action = "deny"
  /\ PresetBoundaries[1].match = [tool |-> ToolsLike["shell_*"], args_contain |-> ShellNeedles]
  BY DEF Allowing, Asking, Denying, Like, PresetBoundaries, RuleOf, RuleOK, NoCondition,
         MatchFields, ToolFields, ArgsFields, TagFields, ReservedFields, ActionType, EnforcementLevel

LEMMA ToolPatternMatches ==
  ASSUME NEW pattern, NEW call, NEW rule, rule.match = [tool |-> ToolsLike[pattern]]
  PROVE  fieldsMatch(rule.match, call) <=> call.tool \in ToolsLike[pattern]
  BY DEF fieldsMatch, ToolFields, ArgsFields, TagFields

(* Two rules, the second of which is for every tool.                         *)
LEMMA PresetOfTwo ==
  ASSUME NEW rule, RuleOK(rule), rule.match = [tool |-> ToolsLike["*"]], NEW call \in ToolCall
  PROVE  LET rules == PresetBoundaries \o <<rule>>
         IN  /\ RuleListOK(rules)
             /\ IF fieldsMatch(PresetBoundaries[1].match, call)
                THEN firstMatch(rules, "user", call) = toDecision(PresetBoundaries[1], "user", call)
                ELSE firstMatch(rules, "user", call) = toDecision(rule, "user", call)
<1> DEFINE rules == PresetBoundaries \o <<rule>>
           S == {PresetBoundaries[1], rule}
<1>1. PresetBoundaries \in Seq(S) /\ <<rule>> \in Seq(S) /\ Len(<<rule>>) = 1 /\ IsRuleSet(S)
  BY PresetRules DEF IsRuleSet
<1>2. /\ rules \in Seq(S) /\ Len(rules) = 2
      /\ rules[1] = PresetBoundaries[1] /\ rules[2] = rule
  <2> DEFINE m == Len(PresetBoundaries) + Len(<<rule>>)
  <2>1. /\ rules \in Seq(S) /\ Len(rules) = m
        /\ \A i \in 1..m : rules[i] = IF i <= Len(PresetBoundaries) THEN PresetBoundaries[i]
                                     ELSE <<rule>>[i - Len(PresetBoundaries)]
    BY <1>1, ConcatProperties
  <2>2. m = 2 /\ Len(PresetBoundaries) = 1
    BY PresetRules
  <2> HIDE DEF rules, m
  <2> QED
    BY <2>1, <2>2
<1> HIDE DEF rules
<1>3. DOMAIN rules = {1, 2}
  BY <1>2, LenProperties
<1>4. fieldsMatch(rule.match, call)
  BY ToolPatternMatches, PatternsAssumption DEF ToolCall
<1>5. IsFirstHit(IF fieldsMatch(PresetBoundaries[1].match, call) THEN 1 ELSE 2, rules, call)
  BY <1>2, <1>3, <1>4 DEF IsFirstHit, Hits
<1>6. DOMAIN rules \subseteq Int
  BY <1>3
<1>7. RuleListOK(rules)
  BY <1>1, <1>2, RulesAreListed
<1>8. IF fieldsMatch(PresetBoundaries[1].match, call)
      THEN firstMatch(rules, "user", call) = toDecision(rules[1], "user", call)
      ELSE firstMatch(rules, "user", call) = toDecision(rules[2], "user", call)
  BY <1>5, <1>6, FirstHitDecides
<1> QED
  BY <1>2, <1>7, <1>8 DEF rules

LEMMA OutrightAction ==
  ASSUME NEW rule, RuleOK(rule), rule.action \in ActionType, NEW tier \in RuleTier, NEW call
  PROVE  /\ toDecision(rule, tier, call) \in PolicyDecision
         /\ toDecision(rule, tier, call).action = rule.action
  BY ToDecisionType DEF toDecision, Decision, resolveAction, ActionType

(* deny_all: nothing passes, whatever the host's file says.                  *)
THEOREM DenyAllDenies ==
  ASSUME NEW locked, NEW granted, NEW host, RuleListOK(host), NEW call \in ToolCall,
         call.tool \notin granted
  PROVE  evaluate(locked, granted, host, PRESETS.deny_all, call).action = "deny"
<1> DEFINE user == PresetBoundaries \o <<Denying("*")>>
           d == firstMatch(user, "user", call)
<1>1. PRESETS.deny_all = user
  BY DEF PRESETS
<1>2. /\ RuleListOK(user)
      /\ d \in {toDecision(PresetBoundaries[1], "user", call), toDecision(Denying("*"), "user", call)}
  BY PresetRules, PresetOfTwo
<1> HIDE DEF user
<1>3. d \in PolicyDecision /\ d.action = "deny"
  <2>1. "user" \in RuleTier /\ "deny" \in ActionType
    BY DEF RuleTier, ActionType
  <2>2. /\ toDecision(PresetBoundaries[1], "user", call) \in PolicyDecision
        /\ toDecision(PresetBoundaries[1], "user", call).action = "deny"
    BY <2>1, PresetRules, OutrightAction
  <2>3. /\ toDecision(Denying("*"), "user", call) \in PolicyDecision
        /\ toDecision(Denying("*"), "user", call).action = "deny"
    <3>1. RuleOK(Denying("*")) /\ Denying("*").action = "deny"
      BY PresetRules
    <3> QED
      BY <2>1, <3>1, OutrightAction
  <2> QED
    BY <1>2, <2>2, <2>3
<1>4. ACTION_STRICTNESS[evaluate(locked, granted, host, user, call).action] >= ACTION_STRICTNESS["deny"]
  BY <1>2, <1>3, NoTierIsLaxer
<1>5. evaluate(locked, granted, host, user, call).action \in ActionType
  BY <1>2, EvaluateType DEF PolicyDecision
<1> QED
  BY <1>1, <1>4, <1>5 DEF ACTION_STRICTNESS, ActionType

(* observe: without a host file or a lockdown, all but the boundaries passes.*)
THEOREM ObserveAllows ==
  ASSUME NEW granted, NEW call \in ToolCall, call.args \notin DestructiveArgs,
         ~(call.tool \in ToolsLike["shell_*"] /\ call.args \in ShellNeedles)
  PROVE  evaluate(FALSE, granted, << >>, PRESETS.observe, call).action = "allow"
<1> DEFINE user == PresetBoundaries \o <<Allowing("*")>>
           d == firstMatch(user, "user", call)
<1>1. PRESETS.observe = user
  BY DEF PRESETS
<1>2. ~fieldsMatch(PresetBoundaries[1].match, call)
  BY PresetRules DEF fieldsMatch, ToolFields, ArgsFields, TagFields
<1>3. d = toDecision(Allowing("*"), "user", call)
  BY <1>2, PresetRules, PresetOfTwo
<1> HIDE DEF user
<1>4. d \in PolicyDecision /\ d.action = "allow"
  <2>1. "user" \in RuleTier /\ "allow" \in ActionType
    BY DEF RuleTier, ActionType
  <2>2. /\ toDecision(Allowing("*"), "user", call) \in PolicyDecision
        /\ toDecision(Allowing("*"), "user", call).action = "allow"
    <3>1. RuleOK(Allowing("*")) /\ Allowing("*").action = "allow"
      BY PresetRules
    <3> QED
      BY <2>1, <3>1, OutrightAction
  <2> QED
    BY <1>3, <2>2
<1>5. firstMatch(<< >>, "host", call) = NoDecision
  <2>1. Hits(<< >>, call) = {}
    BY DEF Hits
  <2> QED
    BY <2>1, NoHitNoDecision
<1>6. hostAndUser(<< >>, user, call) = d
  BY <1>5 DEF hostAndUser
<1>7. firstMatch(HARD_BOUNDARIES, "built_in", call) = NoDecision
  <2>1. DOMAIN HARD_BOUNDARIES = {1} /\ HARD_BOUNDARIES[1].match = [command_matches |-> DestructiveArgs]
    BY DEF HARD_BOUNDARIES, RuleOf
  <2>2. Hits(HARD_BOUNDARIES, call) = {}
    BY <2>1 DEF Hits, fieldsMatch, ToolFields, ArgsFields, TagFields
  <2> QED
    BY <2>2, NoHitNoDecision
<1>8. evaluate(FALSE, granted, << >>, user, call) \in {SessionAllow, d}
  BY <1>4, <1>6, <1>7, NoDecisionIsNone DEF evaluate
<1>9. SessionAllow.action = "allow"
  BY DEF SessionAllow, Decision
<1> QED
  BY <1>1, <1>4, <1>8, <1>9

(* cautious, the floor of runs from the phone: only tools that read are      *)
(* allowed unasked, whatever the host's file says.                           *)
THEOREM CautiousAsks ==
  ASSUME NEW locked, NEW granted, NEW host, RuleListOK(host), NEW call \in ToolCall,
         call.tool \notin granted,
         \A pattern \in {"read_*", "list_*", "search_*", "get_*"} : call.tool \notin ToolsLike[pattern]
  PROVE  evaluate(locked, granted, host, PRESETS.cautious, call).action # "allow"
<1> DEFINE tagged == RuleOf([tool_tag |-> {"communication"}], "require_approval",
                            "soft_mandatory", NoCondition)
           own == <<Allowing("read_*"), Allowing("list_*"), Allowing("search_*"), Allowing("get_*"),
                    tagged, Asking("write_*"), Asking("create_*"), Asking("update_*"),
                    Denying("delete_*"), Denying("drop_*"), Asking("*")>>
           user == PresetBoundaries \o own
           S == {PresetBoundaries[1]} \cup {own[i] : i \in 1..11}
           d == firstMatch(user, "user", call)
<1>1. PRESETS.cautious = user
  BY DEF PRESETS
<1>2. RuleOK(tagged) /\ tagged.action = "require_approval"
  BY DEF RuleOf, RuleOK, NoCondition, MatchFields, ToolFields, ArgsFields, TagFields,
         ReservedFields, ActionType, EnforcementLevel
<1> HIDE DEF tagged
<1>3. Len(own) = 11 /\ own \in Seq({own[i] : i \in 1..11})
  OBVIOUS
<1>4. \A i \in 1..11 :
        /\ RuleOK(own[i]) /\ own[i].action \in ActionType
        /\ i \notin 1..4 => own[i].action # "allow"
        /\ i \in 1..4 => ~fieldsMatch(own[i].match, call)
  <2>1. /\ own[1] = Allowing("read_*") /\ own[2] = Allowing("list_*")
        /\ own[3] = Allowing("search_*") /\ own[4] = Allowing("get_*")
        /\ own[5] = tagged /\ own[6] = Asking("write_*") /\ own[7] = Asking("create_*")
        /\ own[8] = Asking("update_*") /\ own[9] = Denying("delete_*")
        /\ own[10] = Denying("drop_*") /\ own[11] = Asking("*")
    OBVIOUS
  <2> HIDE DEF own
  <2>2. \A pattern \in {"read_*", "list_*", "search_*", "get_*"} :
          ~fieldsMatch(Allowing(pattern).match, call)
    BY PresetRules, ToolPatternMatches
  <2> DEFINE reads == {own[1], own[2], own[3], own[4]}
             others == {own[5], own[6], own[7], own[8], own[9], own[10], own[11]}
  <2>3. \A rule \in reads : RuleOK(rule) /\ rule.action \in ActionType /\ ~fieldsMatch(rule.match, call)
    <3>1. \A rule \in reads : \E pattern \in {"read_*", "list_*", "search_*", "get_*"} : rule = Allowing(pattern)
      BY <2>1
    <3>2. \A pattern : RuleOK(Allowing(pattern)) /\ Allowing(pattern).action = "allow"
      BY PresetRules
    <3> QED
      BY <2>2, <3>1, <3>2 DEF ActionType
  <2>4. \A rule \in others : RuleOK(rule) /\ rule.action \in ActionType /\ rule.action # "allow"
    <3>1. \A rule \in others :
            rule = tagged \/ \E pattern : rule = Asking(pattern) \/ rule = Denying(pattern)
      BY <2>1
    <3>2. \A pattern : /\ RuleOK(Asking(pattern)) /\ Asking(pattern).action = "require_approval"
                       /\ RuleOK(Denying(pattern)) /\ Denying(pattern).action = "deny"
      BY PresetRules
    <3> QED
      BY <1>2, <3>1, <3>2 DEF ActionType
  <2>5. \A i \in 1..11 : IF i \in 1..4 THEN own[i] \in reads ELSE own[i] \in others
    OBVIOUS
  <2> HIDE DEF reads, others
  <2> QED
    BY <2>3, <2>4, <2>5
<1>5. fieldsMatch(own[11].match, call)
  BY PresetRules, ToolPatternMatches, PatternsAssumption DEF ToolCall
<1> HIDE DEF own
<1>6. /\ user \in Seq(S) /\ Len(user) = 12 /\ user[1] = PresetBoundaries[1]
      /\ \A i \in 2..12 : user[i] = own[i - 1]
  <2>1. PresetBoundaries \in Seq(S) /\ own \in Seq(S)
    BY <1>3, PresetRules, SeqMonotonic
  <2> DEFINE m == Len(PresetBoundaries) + Len(own)
  <2>2. /\ user \in Seq(S) /\ Len(user) = m
        /\ \A i \in 1..m : user[i] = IF i <= Len(PresetBoundaries) THEN PresetBoundaries[i]
                                    ELSE own[i - Len(PresetBoundaries)]
    BY <2>1, ConcatProperties
  <2>3. m = 12 /\ Len(PresetBoundaries) = 1
    BY <1>3, PresetRules
  <2> HIDE DEF user, m
  <2> QED
    BY <2>2, <2>3
<1>7. IsRuleSet(S)
  BY <1>4, PresetRules DEF IsRuleSet
<1> HIDE DEF user, S
<1>8. PICK i \in 1..12 : IsFirstHit(i, user, call)
  <2>1. DOMAIN user = 1..12
    BY <1>6, LenProperties
  <2>2. 12 \in Hits(user, call)
    BY <1>5, <1>6, <2>1 DEF Hits
  <2> QED
    BY <1>6, <2>2, SomeHitIsFirst
<1>9. fieldsMatch(user[i].match, call) /\ RuleOK(user[i]) /\ user[i].action \in ActionType \ {"allow"}
  <2>1. fieldsMatch(user[i].match, call)
    BY <1>8 DEF IsFirstHit, Hits
  <2>2. CASE i = 1
    BY <1>6, <2>1, <2>2, PresetRules DEF ActionType
  <2>3. CASE i # 1
    <3>1. i - 1 \in 1..11 /\ user[i] = own[i - 1]
      BY <1>6, <1>8, <2>3
    <3> QED
      BY <1>4, <2>1, <3>1
  <2> QED
    BY <2>2, <2>3
<1>10. d \in PolicyDecision /\ d.action # "allow"
  <2>1. d = toDecision(user[i], "user", call)
    <3>1. DOMAIN user \subseteq Int
      BY <1>6, LenProperties
    <3> QED
      BY <1>8, <3>1, FirstHitDecides
  <2> QED
    BY <1>9, <2>1, OutrightAction DEF RuleTier
<1>11. ACTION_STRICTNESS[evaluate(locked, granted, host, user, call).action] >= ACTION_STRICTNESS[d.action]
  <2>1. RuleListOK(user)
    BY <1>6, <1>7, RulesAreListed
  <2> QED
    BY <1>10, <2>1, NoTierIsLaxer
<1>12. ACTION_STRICTNESS[d.action] >= 2
  BY <1>10 DEF PolicyDecision, ActionType, ACTION_STRICTNESS
<1>13. ACTION_STRICTNESS["allow"] = 1
  BY DEF ACTION_STRICTNESS
<1>14. ASSUME evaluate(locked, granted, host, user, call).action = "allow" PROVE FALSE
  <2>1. ACTION_STRICTNESS[d.action] \in 1..3
    BY <1>10, StrictnessOrdersActions DEF PolicyDecision
  <2> QED
    BY <1>11, <1>12, <1>13, <1>14, <2>1
<1> QED
  BY <1>1, <1>14

-----------------------------------------------------------------------------
(* Where packs are found.                                                    *)

IsGreatest(m, T) == m \in T /\ \A k \in T : k <= m

LEMMA MaxIsGreatest ==
  ASSUME NEW n \in Nat, NEW T \in SUBSET (1..n), T # {}
  PROVE  IsGreatest(Max(T), T) /\ \A m : IsGreatest(m, T) => m = Max(T)
<1>1. T \in SUBSET Nat /\ \A t \in T : t <= n
  OBVIOUS
<1>2. \E m \in T : \A k \in T : m >= k
  BY <1>1, GreatestElement
<1>3. Max(T) \in T /\ \A k \in T : Max(T) >= k
  BY <1>2 DEF Max
<1> DEFINE x == Max(T)
<1> HIDE DEF x
<1>4. x \in T /\ x \in Nat /\ \A m \in T : m \in Nat /\ m <= x
  BY <1>1, <1>3 DEF x
<1>5. ASSUME NEW m, m \in T, \A k \in T : k <= m PROVE m = x
  <2>1. m <= x /\ x <= m /\ m \in Nat
    BY <1>4, <1>5
  <2> QED
    BY <1>4, <2>1
<1> QED
  BY <1>4, <1>5 DEF IsGreatest, x

(* If every pack parses and bears its file's name, the packs that are listed *)
(* are those that imports give, the latest directory's of each name          *)
(* (packs.ts: "User packs with the same name override shipped ones").        *)
THEOREM ListedIsImported ==
  ASSUME NEW n \in Nat, NEW dirs, DOMAIN dirs = 1..n, NEW Names,
         \A k \in 1..n : DOMAIN dirs[k] \subseteq Names,
         \A k \in 1..n : \A f \in DOMAIN dirs[k] : dirs[k][f] # NoPack /\ dirs[k][f].name = f
  PROVE  listPacks(dirs) = {getPack(f, dirs) : f \in Names} \ {NoPack}
<1> DEFINE found(f) == {k \in DOMAIN dirs : f \in DOMAIN dirs[k]}
           Declares(k, f) == \E g \in DOMAIN dirs[k] : dirs[k][g] # NoPack /\ dirs[k][g].name = f
           listed == listPacks(dirs)
<1>1. \A k \in 1..n : \A f : Declares(k, f) <=> k \in found(f)
  OBVIOUS
<1>2. \A f : found(f) # {} => /\ IsGreatest(Max(found(f)), found(f))
                              /\ \A m : IsGreatest(m, found(f)) => m = Max(found(f))
  <2> SUFFICES ASSUME NEW f, found(f) # {}
               PROVE  /\ IsGreatest(Max(found(f)), found(f))
                      /\ \A m : IsGreatest(m, found(f)) => m = Max(found(f))
    OBVIOUS
  <2>1. found(f) \in SUBSET (1..n)
    OBVIOUS
  <2> HIDE DEF found
  <2> QED
    BY <2>1, MaxIsGreatest
<1>3. \A f : getPack(f, dirs) = IF found(f) = {} THEN NoPack ELSE dirs[Max(found(f))][f]
  BY DEF getPack
<1>4. \A p : p \in listed <=>
        \E k \in 1..n : /\ \E f \in DOMAIN dirs[k] : dirs[k][f] = p
                        /\ \A l \in 1..n : l > k => ~Declares(l, p.name)
  BY DEF listPacks
<1>5. ASSUME NEW p \in listed PROVE \E f \in Names : getPack(f, dirs) = p /\ p # NoPack
  <2>1. PICK k \in 1..n : /\ \E f \in DOMAIN dirs[k] : dirs[k][f] = p
                          /\ \A l \in 1..n : l > k => ~Declares(l, p.name)
    BY <1>4, <1>5
  <2>2. PICK f \in DOMAIN dirs[k] : dirs[k][f] = p
    BY <2>1
  <2>3. p # NoPack /\ p.name = f /\ f \in Names
    BY <2>1, <2>2
  <2>4. k \in found(f) /\ found(f) \subseteq 1..n
    BY <2>1, <2>2
  <2>5. IsGreatest(k, found(f))
    <3>1. \A l \in found(f) : ~ (l > k)
      BY <1>1, <2>1, <2>3, <2>4
    <3>2. \A l \in found(f) : l <= k
      BY <2>4, <3>1
    <3> QED
      BY <2>4, <3>2 DEF IsGreatest
  <2> HIDE DEF found
  <2>6. k = Max(found(f)) /\ found(f) # {}
    BY <1>2, <2>4, <2>5
  <2> QED
    BY <1>3, <2>2, <2>3, <2>6
<1>6. ASSUME NEW f \in Names, getPack(f, dirs) # NoPack PROVE getPack(f, dirs) \in listed
  <2> DEFINE k == Max(found(f))
             p == getPack(f, dirs)
  <2>1. found(f) # {} /\ p = dirs[k][f]
    BY <1>3, <1>6
  <2>2. IsGreatest(k, found(f))
    BY <1>2, <2>1
  <2>3. k \in 1..n /\ f \in DOMAIN dirs[k]
    BY <2>2 DEF IsGreatest
  <2>4. p.name = f
    BY <2>1, <2>3
  <2>5. \A l \in 1..n : l > k => l \notin found(f)
    <3>1. \A l \in found(f) : l <= k
      BY <2>2 DEF IsGreatest
    <3>2. k \in Nat
      BY <2>3
    <3> HIDE DEF k, found
    <3> QED
      BY <3>1, <3>2
  <2>6. \A l \in 1..n : l > k => ~Declares(l, p.name)
    BY <1>1, <2>4, <2>5
  <2> HIDE DEF k, p, Declares, listed
  <2> QED
    BY <1>4, <2>1, <2>3, <2>6 DEF p
<1> QED
  BY <1>5, <1>6
===============================================================================
