----------------------------- MODULE ProxyProofs -----------------------------
(***************************************************************************)
(* Proofs about the dispatcher for any rules, calls, limits and clock, and *)
(* that it implements the abstract gate.                                   *)
(*                                                                         *)
(* The argument: the merge of the layers is one of their decisions and at  *)
(* least as strict as each (MergedIsStrictest, from what RuleProofs shows  *)
(* of a merge of two).  So a call cleared at once was allowed by every     *)
(* layer, and one held was denied by none; from there only its own queue   *)
(* entry can settle it, and the entry exists only while the call is held   *)
(* (IInv).                                                                 *)
(***************************************************************************)
EXTENDS Proxy, RuleProofs, TLAPS

-----------------------------------------------------------------------------
(* The merge of the layers.                                                  *)

LEMMA BudgetType ==
  ASSUME NEW budget, NEW reading, NEW cost
  PROVE  check(budget, reading, cost) \in PolicyDecision \cup {NoDecision}
  BY DEF check, Denial, Decision, PolicyDecision, ActionType, EnforcementLevel, RuleTier

LEMMA LayersType ==
  ASSUME NEW call, NEW threat \in ThreatDecisions
  PROVE  /\ policyDecision(call) \in PolicyDecision
         /\ budgetDecision(call) \in PolicyDecision \cup {NoDecision}
         /\ threat \in PolicyDecision \cup {NoDecision}
         /\ floorDecision(call) \in PolicyDecision \cup {NoDecision}
<1>1. policyDecision(call) \in PolicyDecision
  BY EvaluateType, RulesAssumption DEF policyDecision
<1>2. budgetDecision(call) \in PolicyDecision \cup {NoDecision}
  BY BudgetType DEF budgetDecision
<1>3. RuleListOK(<< >>) /\ RuleListOK(FloorRules)
  BY ProxyAssumption DEF RuleListOK
<1>4. floorDecision(call) \in PolicyDecision \cup {NoDecision}
  BY <1>3, EvaluateType DEF floorDecision
<1> QED
  BY <1>1, <1>2, <1>4, ProxyAssumption

(* The merged decision is the decision of one layer and at least as strict   *)
(* as that of each.                                                          *)
THEOREM MergedIsStrictest ==
  ASSUME NEW call, NEW threat \in ThreatDecisions
  PROVE  /\ mergedDecision(call, threat) \in LayerDecisions(call, threat)
         /\ LayerDecisions(call, threat) \subseteq PolicyDecision
         /\ \A d \in LayerDecisions(call, threat) :
              ACTION_STRICTNESS[mergedDecision(call, threat).action]
                >= ACTION_STRICTNESS[d.action]
<1> DEFINE p == policyDecision(call)
           b == budgetDecision(call)
           f == floorDecision(call)
           m1 == Merge(p, b)
           m2 == Merge(m1, threat)
           m3 == Merge(m2, f)
<1>1. /\ p \in PolicyDecision
      /\ b \in PolicyDecision \cup {NoDecision}
      /\ threat \in PolicyDecision \cup {NoDecision}
      /\ f \in PolicyDecision \cup {NoDecision}
  BY LayersType
<1> HIDE DEF p, b, f
<1>2. /\ m1 \in PolicyDecision /\ m1 \in {p, b}
      /\ ACTION_STRICTNESS[m1.action] >= ACTION_STRICTNESS[p.action]
      /\ b # NoDecision => ACTION_STRICTNESS[m1.action] >= ACTION_STRICTNESS[b.action]
  BY <1>1, MergeType
<1> HIDE DEF m1
<1>3. /\ m2 \in PolicyDecision /\ m2 \in {m1, threat}
      /\ ACTION_STRICTNESS[m2.action] >= ACTION_STRICTNESS[m1.action]
      /\ threat # NoDecision =>
           ACTION_STRICTNESS[m2.action] >= ACTION_STRICTNESS[threat.action]
  BY <1>1, <1>2, MergeType
<1> HIDE DEF m2
<1>4. /\ m3 \in PolicyDecision /\ m3 \in {m2, f}
      /\ ACTION_STRICTNESS[m3.action] >= ACTION_STRICTNESS[m2.action]
      /\ f # NoDecision => ACTION_STRICTNESS[m3.action] >= ACTION_STRICTNESS[f.action]
  BY <1>1, <1>3, MergeType
<1> HIDE DEF m3
<1>5. mergedDecision(call, threat) = m3
  BY DEF mergedDecision, m3, m2, m1, p, b, f
<1>6. LayerDecisions(call, threat) = {p, b, threat, f} \ {NoDecision}
  BY DEF LayerDecisions, p, b, f
<1>7. m3 \in LayerDecisions(call, threat)
  BY <1>2, <1>3, <1>4, <1>6, NoDecisionIsNone
<1>8. LayerDecisions(call, threat) \subseteq PolicyDecision
  BY <1>1, <1>6
<1>9. \A d \in PolicyDecision : ACTION_STRICTNESS[d.action] \in 1..3
  BY StrictnessOrdersActions DEF PolicyDecision
<1>10. ASSUME NEW d \in LayerDecisions(call, threat)
       PROVE  ACTION_STRICTNESS[m3.action] >= ACTION_STRICTNESS[d.action]
  <2>1. /\ ACTION_STRICTNESS[m1.action] \in 1..3
        /\ ACTION_STRICTNESS[m2.action] \in 1..3
        /\ ACTION_STRICTNESS[m3.action] \in 1..3
        /\ ACTION_STRICTNESS[d.action] \in 1..3
    BY <1>2, <1>3, <1>4, <1>8, <1>9
  <2>2. CASE d = p
    BY <1>2, <1>3, <1>4, <2>1, <2>2
  <2>3. CASE d = b
    BY <1>2, <1>3, <1>4, <1>6, <2>1, <2>3
  <2>4. CASE d = threat
    BY <1>3, <1>4, <1>6, <2>1, <2>4
  <2>5. CASE d = f
    BY <1>4, <1>6, <2>1, <2>5
  <2> QED
    BY <1>6, <2>2, <2>3, <2>4, <2>5
<1> QED
  BY <1>5, <1>7, <1>8, <1>10

(* The host policy is a floor no layer gets under, whatever the order they   *)
(* are merged in: where its file rules on a call that no hard boundary,      *)
(* lockdown or session override takes away from it, the merged decision is   *)
(* the host's own, tier and all, or one that is stricter (engine.ts:         *)
(* "Host-policy is a floor ... the stricter one wins ... ties go to host").  *)
THEOREM HostPolicyIsFloor ==
  ASSUME NEW call, NEW threat \in ThreatDecisions,
         firstMatch(HostRules, "host", call) # NoDecision,
         ~ lockdown, firstMatch(HARD_BOUNDARIES, "built_in", call) = NoDecision,
         call.tool \notin GrantedTools
  PROVE  HostOrStricter(mergedDecision(call, threat), firstMatch(HostRules, "host", call))
<1> DEFINE h == firstMatch(HostRules, "host", call)
           u == firstMatch(UserRules, "user", call)
           p == policyDecision(call)
           b == budgetDecision(call)
           f == floorDecision(call)
<1>1. /\ h \in PolicyDecision \cup {NoDecision} /\ h # NoDecision
      /\ u \in PolicyDecision \cup {NoDecision}
  BY RulesAssumption, FirstMatchType DEF RuleTier
<1>2. h.tier = "host"
  BY <1>1 DEF firstMatch, toDecision, Decision
<1>3. p = Merge(h, u)
  <2>1. hostAndUser(HostRules, UserRules, call) = Merge(h, u)
    BY <1>1 DEF hostAndUser
  <2>2. Merge(h, u) # NoDecision
    BY <1>1, MergeType, NoDecisionIsNone
  <2> QED
    BY <2>1, <2>2 DEF policyDecision, evaluate
<1>4. /\ p \in PolicyDecision
      /\ b \in PolicyDecision \cup {NoDecision}
      /\ threat \in PolicyDecision \cup {NoDecision}
      /\ f \in PolicyDecision \cup {NoDecision}
  BY LayersType
<1>5. mergedDecision(call, threat) = Merge(Merge(Merge(p, b), threat), f)
  BY DEF mergedDecision
<1> HIDE DEF h, u, p, b, f
<1>6. h \in PolicyDecision /\ HostOrStricter(h, h)
  BY <1>1 DEF HostOrStricter
<1>7. HostOrStricter(p, h)
  BY <1>1, <1>2, <1>3, <1>6, MergeKeepsHost
<1>8. HostOrStricter(Merge(p, b), h) /\ Merge(p, b) \in PolicyDecision
  BY <1>2, <1>4, <1>6, <1>7, MergeKeepsHost, MergeType
<1>9. /\ HostOrStricter(Merge(Merge(p, b), threat), h)
      /\ Merge(Merge(p, b), threat) \in PolicyDecision
  BY <1>2, <1>4, <1>6, <1>8, MergeKeepsHost, MergeType
<1>10. HostOrStricter(Merge(Merge(Merge(p, b), threat), f), h)
  BY <1>2, <1>4, <1>6, <1>9, MergeKeepsHost
<1> QED
  BY <1>5, <1>10 DEF h

(* What the merged action says of every layer. *)
LEMMA MergedAction ==
  ASSUME NEW call, NEW threat \in ThreatDecisions
  PROVE  LET d == mergedDecision(call, threat)
             ds == LayerDecisions(call, threat)
         IN  /\ d \in PolicyDecision /\ d \in ds /\ ds \in SUBSET PolicyDecision
             /\ d.action = "allow" => \A e \in ds : e.action = "allow"
             /\ d.action = "require_approval" => \A e \in ds : e.action # "deny"
<1> DEFINE d == mergedDecision(call, threat)
           ds == LayerDecisions(call, threat)
<1>1. /\ d \in ds /\ ds \subseteq PolicyDecision
      /\ \A e \in ds : ACTION_STRICTNESS[d.action] >= ACTION_STRICTNESS[e.action]
  BY MergedIsStrictest
<1>2. \A e \in ds : e.action \in ActionType
  BY <1>1 DEF PolicyDecision
<1> HIDE DEF d, ds
<1>3. /\ ACTION_STRICTNESS["allow"] = 1
      /\ ACTION_STRICTNESS["require_approval"] = 2
      /\ ACTION_STRICTNESS["deny"] = 3
  BY DEF ACTION_STRICTNESS
<1>4. d.action = "allow" => \A e \in ds : e.action = "allow"
  BY <1>1, <1>2, <1>3 DEF ActionType
<1>5. d.action = "require_approval" => \A e \in ds : e.action # "deny"
  BY <1>1, <1>2, <1>3 DEF ActionType
<1> QED
  BY <1>1, <1>4, <1>5 DEF d, ds

(* A boundary call is denied by the policy layer, hence by the merge.        *)
LEMMA BoundaryLayer ==
  ASSUME NEW call \in ToolCall, call.args \in DestructiveArgs,
         NEW threat \in ThreatDecisions
  PROVE  \E d \in LayerDecisions(call, threat) : d.action = "deny"
<1>1. policyDecision(call).action = "deny"
  BY BoundaryDenies DEF policyDecision
<1>2. policyDecision(call) \in PolicyDecision
  BY LayersType
<1> QED
  BY <1>1, <1>2, NoDecisionIsNone DEF LayerDecisions
-----------------------------------------------------------------------------
(* Type correctness.                                                         *)

LEMMA ConcludeType ==
  ASSUME TypeOK, NEW c \in Calls, NEW d \in PolicyDecision, Conclude(c, d)
  PROVE  /\ decision' \in [Calls -> PolicyDecision \cup {NoDecision}]
         /\ audit' \in [Calls -> {"none", "allow", "deny"}]
         /\ recordedAt' \in [Calls -> Nat \cup {Never}]
         /\ pc' \in [Calls -> Phases]
<1>1. now \in Nat
  BY ProxyAssumption DEF TypeOK
<1> QED
  BY <1>1 DEF TypeOK, Conclude, Phases

LEMMA SettleType ==
  ASSUME QueueTypeOK, NEW i \in Ids, NEW c \in ApprovalChoices, NEW source \in Sources,
         Settle(i, c, source)
  PROVE  QueueTypeOK'
  BY DEF QueueTypeOK, Settle

LEMMA AnsweredType ==
  ASSUME NEW d \in PolicyDecision, NEW answer
  PROVE  AnsweredDecision(d, answer) \in PolicyDecision
  BY DEF AnsweredDecision, PolicyDecision, ActionType, RuleTier

LEMMA UnattendedType ==
  ASSUME NEW d \in PolicyDecision
  PROVE  /\ Unattended(d) \in PolicyDecision
         /\ Unattended(d).action = "allow" <=> d.action = "allow"
         /\ d.action # "require_approval" => Unattended(d) = d
  BY DEF Unattended, PolicyDecision, ActionType

(* A held call carries a decision. *)
HeldIsDecided == \A c \in Calls : pc[c] = "held" => decision[c] \in PolicyDecision

LEMMA TypeInit == Init => TypeOK /\ HeldIsDecided
<1> SUFFICES ASSUME Init PROVE TypeOK /\ HeldIsDecided
  OBVIOUS
<1>1. QueueTypeOK
  BY DEF Init, QueueInit, QueueTypeOK
<1>2. 0 \in 0..MaxTime
  BY ProxyAssumption
<1> QED
  BY <1>1, <1>2 DEF Init, TypeOK, HeldIsDecided, Phases, Override

LEMMA TypeStep == TypeOK /\ HeldIsDecided /\ [Next]_vars => TypeOK' /\ HeldIsDecided'
<1> SUFFICES ASSUME TypeOK, HeldIsDecided, [Next]_vars PROVE TypeOK' /\ HeldIsDecided'
  OBVIOUS
<1> USE DEF restVars, callVars, queueVars
<1>1. ASSUME NEW c \in Calls, NEW threat \in ThreatDecisions, Dispatch(c, threat)
      PROVE  TypeOK' /\ HeldIsDecided'
  <2> DEFINE d == mergedDecision(req[c], threat)
             ds == LayerDecisions(req[c], threat)
  <2>1. d \in PolicyDecision /\ ds \in SUBSET PolicyDecision
    BY MergedAction
  <2> HIDE DEF d, ds
  <2>2. layers' = [layers EXCEPT ![c] = ds]
    BY <1>1 DEF Dispatch, d, ds
  <2>3. layers' \in [Calls -> SUBSET PolicyDecision]
    BY <2>1, <2>2 DEF TypeOK
  <2>4. overrides' \in SUBSET Override
    BY <1>1 DEF Dispatch, OverridesAfterEvaluate, LiveOverrides, TypeOK
  <2>5. UNCHANGED <<now, lockdown, active, req>>
    BY <1>1 DEF Dispatch
  <2>6. CASE Hold(c, d)
    <3>1. QueueTypeOK'
      BY <2>6, ProxyAssumption DEF Hold, request, TypeOK, QueueTypeOK
    <3>2. /\ decision' \in [Calls -> PolicyDecision \cup {NoDecision}]
          /\ pc' \in [Calls -> Phases]
      BY <2>1, <2>6 DEF Hold, TypeOK, Phases
    <3>3. HeldIsDecided'
      BY <2>1, <2>6 DEF Hold, TypeOK, HeldIsDecided
    <3> QED
      BY <2>3, <2>4, <2>5, <2>6, <3>1, <3>2, <3>3 DEF Hold, TypeOK
  <2>7. CASE Conclude(c, Unattended(d)) /\ UNCHANGED queueVars
    <3>1. QueueTypeOK'
      BY <2>7 DEF TypeOK, QueueTypeOK
    <3>2. HeldIsDecided'
      BY <2>7 DEF Conclude, TypeOK, HeldIsDecided
    <3> QED
      BY <2>1, <2>3, <2>4, <2>5, <2>7, <3>1, <3>2, ConcludeType, UnattendedType DEF TypeOK
  <2> QED
    BY <1>1, <2>6, <2>7 DEF Dispatch, d
<1>2. ASSUME NEW c \in Calls, Resume(c)
      PROVE  TypeOK' /\ HeldIsDecided'
  <2> DEFINE d == AnsweredDecision(decision[c], choice[c])
  <2>1. d \in PolicyDecision
    BY <1>2, AnsweredType DEF Resume, HeldIsDecided
  <2> HIDE DEF d
  <2>2. Conclude(c, d) /\ UNCHANGED <<now, lockdown, active, req, layers, queueVars>>
    BY <1>2 DEF Resume, d
  <2>3. overrides' \in SUBSET Override
    <3>1. CASE UNCHANGED overrides
      BY <3>1 DEF TypeOK
    <3>2. ASSUME NEW ticks \in OverrideTicks,
                 overrides' = overrides \cup
                   {[by |-> c, tool |-> req[c].tool, expiresAt |-> now + ticks]}
          PROVE  overrides' \in SUBSET Override
      <4>1. now + ticks \in Nat /\ req[c].tool \in Tools
        BY ProxyAssumption DEF TypeOK, ToolCall
      <4> QED
        BY <3>2, <4>1 DEF TypeOK, Override
    <3> QED
      BY <1>2, <3>1, <3>2 DEF Resume
  <2>4. HeldIsDecided'
    BY <2>2 DEF Conclude, TypeOK, HeldIsDecided
  <2>5. QueueTypeOK'
    BY <2>2 DEF TypeOK, QueueTypeOK
  <2> QED
    BY <2>1, <2>2, <2>3, <2>4, <2>5, ConcludeType DEF TypeOK
<1>3. ASSUME NEW c \in Calls, NEW outcome \in {"returned", "failed"}, Forwarded(c, outcome)
      PROVE  TypeOK' /\ HeldIsDecided'
  BY <1>3 DEF Forwarded, TypeOK, QueueTypeOK, HeldIsDecided, Phases
<1>4. ASSUME NEW c \in Calls, NEW a \in ApprovalChoices, NEW source \in Sources,
             Settle(c, a, source), UNCHANGED callVars
      PROVE  TypeOK' /\ HeldIsDecided'
  <2>1. QueueTypeOK'
    BY <1>4, SettleType, ProxyAssumption DEF TypeOK
  <2> QED
    BY <1>4, <2>1 DEF TypeOK, HeldIsDecided
<1>5. ASSUME NEW c \in Calls, NEW a \in ApprovalChoices, AnswerOverIpc(c, a)
      PROVE  TypeOK' /\ HeldIsDecided'
  BY <1>4, <1>5 DEF AnswerOverIpc, respond, Sources
<1>6. ASSUME NEW c \in Calls, NEW a \in ApprovalChoices, TapOnTelegram(c, a)
      PROVE  TypeOK' /\ HeldIsDecided'
  BY <1>4, <1>6 DEF TapOnTelegram, respond, Sources
<1>7. ASSUME NEW c \in Calls, TimeOut(c)
      PROVE  TypeOK' /\ HeldIsDecided'
  <2>1. TimeoutChoice(c) \in ApprovalChoices
    BY DEF TimeoutChoice, ApprovalChoices
  <2> QED
    BY <1>4, <1>7, <2>1 DEF TimeOut, expire, Sources
<1>8. ASSUME NEW on \in BOOLEAN, setLockdown(on)
      PROVE  TypeOK' /\ HeldIsDecided'
  BY <1>8 DEF setLockdown, TypeOK, QueueTypeOK, HeldIsDecided
<1>9. CASE listSessionOverrides
  BY <1>9 DEF listSessionOverrides, LiveOverrides, TypeOK, QueueTypeOK, HeldIsDecided
<1>10. ASSUME NEW o \in overrides, revokeSessionOverride(o)
       PROVE  TypeOK' /\ HeldIsDecided'
  BY <1>10 DEF revokeSessionOverride, TypeOK, QueueTypeOK, HeldIsDecided
<1>11. ASSUME NEW channel \in Channels \cup {"none"}, ChatRunChanges(channel)
       PROVE  TypeOK' /\ HeldIsDecided'
  BY <1>11 DEF ChatRunChanges, TypeOK, QueueTypeOK, HeldIsDecided
<1>12. CASE Tick
  <2>1. now' \in 0..MaxTime
    BY <1>12, ProxyAssumption DEF Tick, TypeOK
  <2> QED
    BY <1>12, <2>1 DEF Tick, TypeOK, QueueTypeOK, HeldIsDecided
<1>13. CASE UNCHANGED vars
  BY <1>13 DEF vars, TypeOK, QueueTypeOK, HeldIsDecided
<1> QED
  BY <1>1, <1>2, <1>3, <1>5, <1>6, <1>7, <1>8, <1>9, <1>10, <1>11, <1>12, <1>13
  DEF Next

(* Every value stays in its type, for any number of calls, rules and limits. *)
THEOREM TypeCorrect == Spec => []TypeOK
<1>1. Spec => [](TypeOK /\ HeldIsDecided)
  BY TypeInit, TypeStep, PTL DEF Spec
<1> QED
  BY <1>1, PTL
-----------------------------------------------------------------------------
(* The inductive invariant behind the safety properties.                     *)

(* A queue entry belongs to a held, unanswered call: the queue and the call  *)
(* handler never disagree about who is waiting. *)
QueuedIsHeld == \A c \in Calls : c \in queue => pc[c] = "held" /\ choice[c] = "none"

NewIsFresh == \A c \in Calls : pc[c] = "new" => choice[c] = "none" /\ origin[c] = "none"

HeldIsUndenied ==
  \A c \in Calls : pc[c] = "held" => \A d \in layers[c] : d.action # "deny"

(* An allow answer to a call of the phone came over IPC, and such a call is  *)
(* cleared by an allow answer only.                                          *)
AllowChoices == {"allow_once", "allow_session"}
PhoneAllowIsIpc ==
  \A c \in Calls : origin[c] = "telegram" /\ choice[c] \in AllowChoices => via[c] = "ipc"
PhoneCallNeedsAllow ==
  \A c \in Calls : origin[c] = "telegram" /\ pc[c] \in Cleared => choice[c] \in AllowChoices

(* The audit log has an entry of decided calls only. *)
LoggedIsDecided == \A c \in Calls : pc[c] \in {"new", "held"} => audit[c] = "none"

(* A boundary call that came in was denied by a layer. *)
BoundaryIsDenied ==
  \A c \in Calls : pc[c] # "new" /\ req[c].args \in DestructiveArgs =>
    \E d \in layers[c] : d.action = "deny"

IInv ==
  /\ TypeOK
  /\ HeldIsDecided
  /\ QueuedIsHeld
  /\ NewIsFresh
  /\ HeldIsUndenied
  /\ EveryLayerConsents
  /\ PhoneAllowIsIpc
  /\ PhoneCallNeedsAllow
  /\ LoggedIsDecided
  /\ BoundaryIsDenied

LEMMA IInvInit == Init => IInv
<1> SUFFICES ASSUME Init PROVE IInv
  OBVIOUS
<1>1. TypeOK /\ HeldIsDecided
  BY TypeInit
<1>2. \A c \in Calls : pc[c] = "new"
  BY DEF Init
<1>3. QueuedIsHeld /\ NewIsFresh
  BY ProxyAssumption DEF Init, QueueInit, QueuedIsHeld, NewIsFresh
<1>4. HeldIsUndenied /\ EveryLayerConsents /\ PhoneCallNeedsAllow /\ BoundaryIsDenied
  BY <1>2 DEF HeldIsUndenied, EveryLayerConsents, PhoneCallNeedsAllow, BoundaryIsDenied,
     Cleared
<1>5. PhoneAllowIsIpc
  BY <1>2, <1>3 DEF PhoneAllowIsIpc, NewIsFresh, AllowChoices
<1>6. LoggedIsDecided
  BY DEF Init, LoggedIsDecided
<1> QED
  BY <1>1, <1>3, <1>4, <1>5, <1>6 DEF IInv

(* A call comes in: cleared, held or refused by the merge of its layers. *)
LEMMA DispatchStep ==
  ASSUME IInv, TypeOK', HeldIsDecided', NEW c \in Calls, NEW threat \in ThreatDecisions,
         Dispatch(c, threat)
  PROVE  IInv'
<1> DEFINE d == mergedDecision(req[c], threat)
           ds == LayerDecisions(req[c], threat)
<1>1. /\ d \in PolicyDecision /\ d \in ds /\ ds \in SUBSET PolicyDecision
      /\ d.action = "allow" => \A e \in ds : e.action = "allow"
      /\ d.action = "require_approval" => \A e \in ds : e.action # "deny"
  BY MergedAction
<1>2. req[c] \in ToolCall
  BY ProxyAssumption DEF IInv, TypeOK
<1>3. req[c].args \in DestructiveArgs => \E e \in ds : e.action = "deny"
  BY <1>2, BoundaryLayer
<1>4. /\ pc[c] = "new"
      /\ layers' = [layers EXCEPT ![c] = ds]
      /\ UNCHANGED req
      /\ IF d.action = "require_approval" /\ ApprovalAttached
         THEN Hold(c, d)
         ELSE Conclude(c, Unattended(d)) /\ UNCHANGED queueVars
  BY DEF Dispatch
<1> HIDE DEF d, ds
<1>5. layers \in [Calls -> SUBSET PolicyDecision] /\ pc \in [Calls -> Phases]
  BY DEF IInv, TypeOK
<1>6. layers'[c] = ds /\ \A e \in Calls \ {c} : layers'[e] = layers[e]
  BY <1>4, <1>5
<1>7. BoundaryIsDenied'
  <2>1. \A e \in Calls \ {c} : pc'[e] = pc[e]
    BY <1>4, <1>5 DEF Hold, Conclude
  <2> QED
    BY <1>3, <1>4, <1>6, <2>1 DEF IInv, BoundaryIsDenied
<1>8. LoggedIsDecided'
  <2>1. \A e \in Calls \ {c} : pc'[e] = pc[e] /\ audit'[e] = audit[e]
    BY <1>4, <1>5 DEF Hold, Conclude, IInv, TypeOK
  <2>2. pc'[c] \in {"new", "held"} => audit'[c] = audit[c]
    BY <1>4, <1>5 DEF Hold, Conclude
  <2> QED
    BY <1>4, <2>1, <2>2 DEF IInv, LoggedIsDecided
<1>9. CASE d.action = "require_approval" /\ Hold(c, d)
  <2>1. /\ pc'[c] = "held" /\ \A e \in Calls \ {c} : pc'[e] = pc[e]
        /\ queue' = queue \cup {c}
        /\ \A e \in Calls \ {c} : origin'[e] = origin[e]
        /\ UNCHANGED <<choice, via>>
    BY <1>5, <1>9 DEF Hold, request, IInv, TypeOK, QueueTypeOK
  <2>2. QueuedIsHeld' /\ NewIsFresh'
    BY <1>4, <2>1 DEF IInv, QueuedIsHeld, NewIsFresh
  <2>3. HeldIsUndenied'
    BY <1>1, <1>6, <1>9, <2>1 DEF IInv, HeldIsUndenied
  <2>4. EveryLayerConsents'
    BY <1>6, <2>1 DEF IInv, EveryLayerConsents, Cleared
  <2>5. PhoneAllowIsIpc' /\ PhoneCallNeedsAllow'
    BY <1>4, <2>1 DEF IInv, NewIsFresh, PhoneAllowIsIpc, PhoneCallNeedsAllow, Cleared,
       AllowChoices
  <2> QED
    BY <1>7, <1>8, <2>2, <2>3, <2>4, <2>5 DEF IInv
<1>10. CASE Conclude(c, Unattended(d)) /\ UNCHANGED queueVars
  <2>1. /\ pc'[c] = IF d.action = "allow" THEN "authorized" ELSE "refused"
        /\ \A e \in Calls \ {c} : pc'[e] = pc[e]
        /\ UNCHANGED <<queue, origin, choice, via>>
    BY <1>1, <1>5, <1>10, UnattendedType DEF Conclude, queueVars
  <2>2. QueuedIsHeld' /\ NewIsFresh'
    BY <1>4, <2>1 DEF IInv, QueuedIsHeld, NewIsFresh
  <2>3. HeldIsUndenied'
    BY <1>6, <2>1 DEF IInv, HeldIsUndenied
  <2>4. EveryLayerConsents'
    BY <1>1, <1>6, <2>1 DEF IInv, EveryLayerConsents, Cleared
  <2>5. PhoneAllowIsIpc' /\ PhoneCallNeedsAllow'
    BY <1>4, <2>1 DEF IInv, NewIsFresh, PhoneAllowIsIpc, PhoneCallNeedsAllow
  <2> QED
    BY <1>7, <1>8, <2>2, <2>3, <2>4, <2>5 DEF IInv
<1> QED
  BY <1>4, <1>9, <1>10

(* The answered call goes on: cleared if and only if the answer allows. *)
LEMMA ResumeStep ==
  ASSUME IInv, TypeOK', HeldIsDecided', NEW c \in Calls, Resume(c)
  PROVE  IInv'
<1> DEFINE d == AnsweredDecision(decision[c], choice[c])
<1>1. /\ pc[c] = "held" /\ choice[c] # "none"
      /\ Conclude(c, d)
      /\ UNCHANGED <<req, layers, queue, origin, choice, via>>
  BY DEF Resume, queueVars
<1>2. decision[c] \in PolicyDecision
  BY <1>1 DEF IInv, HeldIsDecided
<1>3. d.action = IF choice[c] \in AllowChoices THEN "allow" ELSE "deny"
  BY <1>2 DEF AnsweredDecision, AllowChoices, PolicyDecision
<1> HIDE DEF d
<1>4. /\ pc'[c] = IF choice[c] \in AllowChoices THEN "authorized" ELSE "refused"
      /\ \A e \in Calls \ {c} : pc'[e] = pc[e]
  BY <1>1, <1>3 DEF Conclude, IInv, TypeOK
<1>5. QueuedIsHeld' /\ NewIsFresh' /\ HeldIsUndenied'
  BY <1>1, <1>4 DEF IInv, QueuedIsHeld, NewIsFresh, HeldIsUndenied
<1>6. EveryLayerConsents'
  <2>1. \A e \in layers[c] : e.action \in {"allow", "require_approval"}
    BY <1>1 DEF IInv, HeldIsUndenied, TypeOK, PolicyDecision, ActionType
  <2> QED
    BY <1>1, <1>4, <2>1 DEF IInv, EveryLayerConsents, Cleared, AllowChoices
<1>7. PhoneAllowIsIpc' /\ PhoneCallNeedsAllow' /\ BoundaryIsDenied'
  BY <1>1, <1>4 DEF IInv, PhoneAllowIsIpc, PhoneCallNeedsAllow, BoundaryIsDenied, Cleared
<1>8. LoggedIsDecided'
  BY <1>1, <1>4 DEF Conclude, IInv, TypeOK, LoggedIsDecided
<1> QED
  BY <1>5, <1>6, <1>7, <1>8 DEF IInv

(* An entry is settled once: by an answer, a tap or its timer. *)
LEMMA SettleStep ==
  ASSUME IInv, TypeOK', HeldIsDecided', NEW c \in Calls, NEW a \in ApprovalChoices,
         NEW source \in Sources,
         Settle(c, a, source), UNCHANGED callVars,
         origin[c] = "telegram" /\ a \in AllowChoices => source = "ipc"
  PROVE  IInv'
<1>1. /\ c \in queue /\ queue' = queue \ {c}
      /\ choice'[c] = a /\ via'[c] = source
      /\ \A e \in Calls \ {c} : choice'[e] = choice[e] /\ via'[e] = via[e]
      /\ UNCHANGED <<origin, pc, req, layers, audit>>
  BY ProxyAssumption DEF Settle, callVars, IInv, TypeOK, QueueTypeOK
<1>2. pc[c] = "held"
  BY <1>1 DEF IInv, QueuedIsHeld
<1>3. QueuedIsHeld' /\ NewIsFresh' /\ HeldIsUndenied' /\ BoundaryIsDenied'
      /\ LoggedIsDecided'
  BY <1>1, <1>2 DEF IInv, QueuedIsHeld, NewIsFresh, HeldIsUndenied, BoundaryIsDenied,
     LoggedIsDecided
<1>4. EveryLayerConsents' /\ PhoneCallNeedsAllow'
  BY <1>1, <1>2 DEF IInv, EveryLayerConsents, PhoneCallNeedsAllow, Cleared
<1>5. PhoneAllowIsIpc'
  BY <1>1 DEF IInv, PhoneAllowIsIpc
<1> QED
  BY <1>3, <1>4, <1>5 DEF IInv

(* Steps that leave the calls and the queue alone. *)
LEMMA OtherStep ==
  ASSUME IInv, TypeOK', HeldIsDecided', UNCHANGED <<pc, req, layers, audit, queueVars>>
  PROVE  IInv'
  BY DEF queueVars, IInv, QueuedIsHeld, NewIsFresh, HeldIsUndenied, EveryLayerConsents,
     PhoneAllowIsIpc, PhoneCallNeedsAllow, LoggedIsDecided, BoundaryIsDenied

LEMMA IInvStep == IInv /\ [Next]_vars => IInv'
<1> SUFFICES ASSUME IInv, [Next]_vars PROVE IInv'
  OBVIOUS
<1>0. TypeOK' /\ HeldIsDecided'
  BY TypeStep DEF IInv
<1>1. ASSUME NEW c \in Calls, NEW threat \in ThreatDecisions, Dispatch(c, threat)
      PROVE  IInv'
  BY <1>0, <1>1, DispatchStep
<1>2. ASSUME NEW c \in Calls, Resume(c) PROVE IInv'
  BY <1>0, <1>2, ResumeStep
<1>3. ASSUME NEW c \in Calls, NEW outcome \in {"returned", "failed"}, Forwarded(c, outcome)
      PROVE  IInv'
  <2>1. /\ pc[c] = "authorized" /\ pc'[c] = outcome
        /\ \A e \in Calls \ {c} : pc'[e] = pc[e]
        /\ UNCHANGED <<req, layers, audit, queue, origin, choice, via>>
    BY <1>3 DEF Forwarded, queueVars, IInv, TypeOK
  <2>2. QueuedIsHeld' /\ NewIsFresh' /\ HeldIsUndenied' /\ BoundaryIsDenied'
        /\ LoggedIsDecided'
    BY <2>1 DEF IInv, QueuedIsHeld, NewIsFresh, HeldIsUndenied, BoundaryIsDenied,
       LoggedIsDecided
  <2>3. EveryLayerConsents' /\ PhoneAllowIsIpc' /\ PhoneCallNeedsAllow'
    BY <2>1 DEF IInv, EveryLayerConsents, PhoneAllowIsIpc, PhoneCallNeedsAllow, Cleared
  <2> QED
    BY <1>0, <2>2, <2>3 DEF IInv
<1>4. ASSUME NEW c \in Calls, NEW a \in ApprovalChoices, AnswerOverIpc(c, a)
      PROVE  IInv'
  BY <1>0, <1>4, SettleStep DEF AnswerOverIpc, respond, Sources
<1>5. ASSUME NEW c \in Calls, NEW a \in ApprovalChoices, TapOnTelegram(c, a)
      PROVE  IInv'
  <2>1. origin[c] = "telegram" => a \notin AllowChoices
    BY <1>5 DEF TapOnTelegram, TapChoices, AllowChoices
  <2> QED
    BY <1>0, <1>5, <2>1, SettleStep DEF TapOnTelegram, respond, Sources
<1>6. ASSUME NEW c \in Calls, TimeOut(c) PROVE IInv'
  <2>1. /\ TimeoutChoice(c) \in ApprovalChoices
        /\ origin[c] = "telegram" => TimeoutChoice(c) \notin AllowChoices
    BY DEF TimeoutChoice, ApprovalChoices, AllowChoices
  <2> QED
    BY <1>0, <1>6, <2>1, SettleStep DEF TimeOut, expire, Sources
<1>7. CASE \E on \in BOOLEAN : setLockdown(on)
  BY <1>0, <1>7, OtherStep DEF setLockdown, restVars
<1>8. CASE listSessionOverrides \/ \E o \in overrides : revokeSessionOverride(o)
  BY <1>0, <1>8, OtherStep DEF listSessionOverrides, revokeSessionOverride, restVars
<1>9. CASE \E channel \in Channels \cup {"none"} : ChatRunChanges(channel)
  BY <1>0, <1>9, OtherStep DEF ChatRunChanges, restVars
<1>10. CASE Tick
  BY <1>0, <1>10, OtherStep DEF Tick, restVars
<1>11. CASE UNCHANGED vars
  BY <1>0, <1>11, OtherStep DEF vars
<1> QED
  BY <1>1, <1>2, <1>3, <1>4, <1>5, <1>6, <1>7, <1>8, <1>9, <1>10, <1>11 DEF Next

LEMMA Invariance == Spec => []IInv
  BY IInvInit, IInvStep, PTL DEF Spec

(* server.ts clears no call a layer denied, and none a layer wanted approved *)
(* without an allow answer, for any rules, limits and number of calls.       *)
THEOREM LayersConsent == Spec => []EveryLayerConsents
<1>1. IInv => EveryLayerConsents
  BY DEF IInv
<1> QED
  BY <1>1, Invariance, PTL

(* Two-channel confirmation: what a run of the phone asks for is cleared by  *)
(* an answer over IPC only, whatever timeout_action says.                    *)
THEOREM PhoneNeedsIpc == Spec => []PhoneNeverApprovesItself
<1>1. IInv => PhoneNeverApprovesItself
  BY DEF IInv, PhoneNeverApprovesItself, PhoneAllowIsIpc, PhoneCallNeedsAllow
<1> QED
  BY <1>1, Invariance, PTL

(* A hard boundary holds against every rule, override, approval and timing.  *)
THEOREM BoundaryHolds == Spec => []NoDestructiveCall
<1>1. IInv => NoDestructiveCall
  <2> SUFFICES ASSUME IInv, NEW c \in Calls, pc[c] \in Cleared
               PROVE  req[c].args \notin DestructiveArgs
    BY DEF NoDestructiveCall
  <2>1. \A d \in layers[c] : d.action # "deny"
    BY DEF IInv, EveryLayerConsents
  <2>2. pc[c] # "new"
    BY DEF Cleared
  <2> QED
    BY <2>1, <2>2 DEF IInv, BoundaryIsDenied
<1> QED
  BY <1>1, Invariance, PTL

(* Answers, taps and timeouts race for a settled approval and a logged       *)
(* decision in vain, for any number of calls.                                *)
THEOREM DecisionsAreFinal == Spec => DecidedOnce
<1> DEFINE Final ==
      \A c \in Calls : /\ choice[c] # "none" => choice'[c] = choice[c] /\ via'[c] = via[c]
                       /\ audit[c] # "none" => audit'[c] = audit[c]
<1>1. ASSUME IInv, NEW c \in Calls, NEW d, pc[c] \in {"new", "held"}, Conclude(c, d)
      PROVE  \A e \in Calls : audit[e] # "none" => audit'[e] = audit[e]
  BY <1>1 DEF Conclude, IInv, TypeOK, LoggedIsDecided
<1>2. ASSUME IInv, NEW c \in Calls, NEW a, NEW source, Settle(c, a, source)
      PROVE  \A e \in Calls :
               choice[e] # "none" => choice'[e] = choice[e] /\ via'[e] = via[e]
  BY <1>2, ProxyAssumption DEF Settle, IInv, TypeOK, QueueTypeOK, QueuedIsHeld
<1>3. ASSUME IInv, Next PROVE Final
  <2>1. ASSUME NEW c \in Calls, NEW threat \in ThreatDecisions, Dispatch(c, threat)
        PROVE  Final
    BY <1>1, <1>3, <2>1 DEF Dispatch, Hold, request, queueVars
  <2>2. ASSUME NEW c \in Calls, Resume(c) PROVE Final
    BY <1>1, <1>3, <2>2 DEF Resume, queueVars
  <2>3. ASSUME NEW c \in Calls, NEW outcome, Forwarded(c, outcome) PROVE Final
    BY <2>3 DEF Forwarded, queueVars
  <2>4. ASSUME NEW c \in Calls, NEW a, AnswerOverIpc(c, a) \/ TapOnTelegram(c, a)
        PROVE  Final
    BY <1>2, <1>3, <2>4 DEF AnswerOverIpc, TapOnTelegram, respond, callVars
  <2>5. ASSUME NEW c \in Calls, TimeOut(c) PROVE Final
    BY <1>2, <1>3, <2>5 DEF TimeOut, expire, callVars
  <2>6. CASE \/ \E on \in BOOLEAN : setLockdown(on)
             \/ listSessionOverrides
             \/ \E o \in overrides : revokeSessionOverride(o)
             \/ \E channel \in Channels \cup {"none"} : ChatRunChanges(channel)
             \/ Tick
    BY <2>6 DEF setLockdown, listSessionOverrides, revokeSessionOverride, ChatRunChanges,
       Tick, restVars, queueVars
  <2> QED
    BY <1>3, <2>1, <2>2, <2>3, <2>4, <2>5, <2>6 DEF Next
<1>4. IInv /\ [Next]_vars => [Final]_vars
  BY <1>3
<1> QED
  BY <1>4, Invariance, PTL DEF Spec, DecidedOnce

(* A call is moved on by its own steps only: it comes in, or it is held and  *)
(* answered, or it is forwarded.                                             *)
LEMMA CallSteps ==
  ASSUME TypeOK, [Next]_vars, NEW c \in Calls,
         pc'[c] # pc[c] \/ recordedAt'[c] # recordedAt[c]
  PROVE  \/ \E threat \in ThreatDecisions : Dispatch(c, threat)
         \/ Resume(c)
         \/ pc[c] = "authorized" /\ UNCHANGED recordedAt
<1>1. /\ pc \in [Calls -> Phases]
      /\ recordedAt \in [Calls -> Nat \cup {Never}]
  BY DEF TypeOK
<1>2. ASSUME NEW e \in Calls, NEW d, Conclude(e, d) PROVE e = c
  BY <1>1, <1>2 DEF Conclude
<1>3. ASSUME NEW e \in Calls, NEW d, Hold(e, d) PROVE e = c
  BY <1>1, <1>3 DEF Hold
<1>4. ASSUME NEW e \in Calls, NEW threat \in ThreatDecisions, Dispatch(e, threat)
      PROVE  e = c
  BY <1>2, <1>3, <1>4 DEF Dispatch
<1>5. ASSUME NEW e \in Calls, Resume(e) PROVE e = c
  BY <1>2, <1>5 DEF Resume
<1>6. ASSUME NEW e \in Calls, NEW outcome, Forwarded(e, outcome)
      PROVE  pc[c] = "authorized" /\ UNCHANGED recordedAt
  BY <1>1, <1>6 DEF Forwarded
<1>7. ASSUME UNCHANGED <<pc, recordedAt>> PROVE FALSE
  BY <1>7
<1> QED
  BY <1>4, <1>5, <1>6, <1>7
     DEF Next, AnswerOverIpc, TapOnTelegram, TimeOut, callVars, setLockdown,
         listSessionOverrides, revokeSessionOverride, ChatRunChanges, Tick, restVars, vars

(* What a call that comes in becomes, by the merge of its layers.            *)
LEMMA DispatchOutcome ==
  ASSUME TypeOK, NEW c \in Calls, NEW threat \in ThreatDecisions, Dispatch(c, threat)
  PROVE  LET d == mergedDecision(req[c], threat)
         IN  /\ pc[c] = "new"
             /\ d.action = "allow" <=> pc'[c] = "authorized"
             /\ d.action = "deny" => pc'[c] = "refused"
             /\ d.action # "allow" => UNCHANGED recordedAt
<1> DEFINE d == mergedDecision(req[c], threat)
<1>1. d \in PolicyDecision
  BY MergedAction
<1>2. /\ pc[c] = "new"
      /\ IF d.action = "require_approval" /\ ApprovalAttached
         THEN Hold(c, d)
         ELSE Conclude(c, Unattended(d))
  BY DEF Dispatch
<1> HIDE DEF d
<1>3. pc \in [Calls -> Phases]
  BY DEF TypeOK
<1>4. CASE d.action = "require_approval" /\ Hold(c, d)
  BY <1>2, <1>3, <1>4 DEF Hold, d
<1>5. CASE Conclude(c, Unattended(d))
  BY <1>1, <1>2, <1>3, <1>5, UnattendedType DEF Conclude, d
<1> QED
  BY <1>2, <1>4, <1>5

(* The panic button refuses every call that comes in while it is pressed.    *)
THEOREM LockdownHolds == Spec => LockdownStopsNewCalls
<1> DEFINE Stops ==
      \A c \in Calls : pc[c] = "new" /\ lockdown /\ pc'[c] # "new" => pc'[c] = "refused"
<1>1. ASSUME TypeOK, [Next]_vars PROVE Stops
  <2> SUFFICES ASSUME NEW c \in Calls, pc[c] = "new", lockdown, pc'[c] # "new"
               PROVE  pc'[c] = "refused"
    OBVIOUS
  <2>1. PICK threat \in ThreatDecisions : Dispatch(c, threat)
    BY <1>1, CallSteps DEF Resume
  <2>2. policyDecision(req[c]) = LockdownDenial
    BY DEF policyDecision, evaluate
  <2>3. policyDecision(req[c]) \in LayerDecisions(req[c], threat)
    BY LayersType, NoDecisionIsNone DEF LayerDecisions
  <2>4. LockdownDenial.action = "deny"
    BY DEF LockdownDenial, Decision
  <2>5. mergedDecision(req[c], threat).action = "deny"
    BY <2>2, <2>3, <2>4, MergedAction DEF PolicyDecision, ActionType
  <2> QED
    BY <1>1, <2>1, <2>5, DispatchOutcome
<1>2. TypeOK /\ [Next]_vars => [Stops]_vars
  BY <1>1
<1> QED
  BY <1>2, TypeCorrect, PTL DEF Spec, LockdownStopsNewCalls

(* A configured per-minute limit is exceeded by held calls only: between the *)
(* check and the count of any other nothing else is counted.                 *)
THEOREM LimitHolds ==
  ASSUME Budget.per_minute # Unset
  PROVE  Spec => OnlyHeldCallsOvershoot
<1> DEFINE Held ==
      \A c \in Calls :
        recordedAt'[c] # recordedAt[c]
          /\ countCallsSince(now - Minute) >= Budget.per_minute
          => pc[c] = "held"
<1>1. ASSUME TypeOK, [Next]_vars PROVE Held
  <2> SUFFICES ASSUME NEW c \in Calls, recordedAt'[c] # recordedAt[c],
                      countCallsSince(now - Minute) >= Budget.per_minute
               PROVE  pc[c] = "held"
    OBVIOUS
  <2>1. ASSUME NEW threat \in ThreatDecisions, Dispatch(c, threat) PROVE FALSE
    <3>1. CountExhausted(Budget, Reading)
      BY DEF CountExhausted, CallLimits, Reading
    <3>2. /\ budgetDecision(req[c]) # NoDecision
          /\ budgetDecision(req[c]).action # "allow"
      BY <3>1, NoDecisionIsNone
         DEF budgetDecision, check, Denial, Decision, PolicyDecision, ActionType,
             EnforcementLevel, RuleTier
    <3>3. budgetDecision(req[c]) \in LayerDecisions(req[c], threat)
      BY <3>2 DEF LayerDecisions
    <3>4. mergedDecision(req[c], threat).action # "allow"
      BY <3>2, <3>3, MergedAction
    <3> QED
      BY <1>1, <2>1, <3>4, DispatchOutcome
  <2> QED
    BY <1>1, <2>1, CallSteps DEF Resume
<1>2. TypeOK /\ [Next]_vars => [Held]_vars
  BY <1>1
<1> QED
  BY <1>2, TypeCorrect, PTL DEF Spec, OnlyHeldCallsOvershoot
-----------------------------------------------------------------------------
(* Session overrides.                                                        *)

(* Of the layers, only the policy engine answers from the session tier.      *)
LEMMA SessionTierIsPolicy ==
  ASSUME NEW call, NEW threat \in ThreatDecisions,
         NEW d \in LayerDecisions(call, threat), d.tier = "session"
  PROVE  call.tool \in GrantedTools
<1>1. budgetDecision(call) # NoDecision => budgetDecision(call).tier = "built_in"
  BY DEF budgetDecision, check, Denial, Decision
<1>2. threat # NoDecision => threat.tier = "built_in"
  BY ProxyAssumption
<1>3. floorDecision(call) # NoDecision => floorDecision(call).tier # "session"
  <2>1. RuleListOK(<< >>) /\ RuleListOK(FloorRules)
    BY ProxyAssumption DEF RuleListOK
  <2>2. evaluate(FALSE, {}, << >>, FloorRules, call).tier # "session"
    BY <2>1, SessionTierNeedsGrant
  <2> QED
    BY <2>2 DEF floorDecision
<1>4. d = policyDecision(call)
  BY <1>1, <1>2, <1>3 DEF LayerDecisions
<1> QED
  BY <1>4, RulesAssumption, SessionTierNeedsGrant DEF policyDecision

(* Every override was granted by an answer over IPC: neither a tap nor the   *)
(* timer can answer allow_session, and an answer once given stays.           *)
SessionIsIpc == \A c \in Calls : choice[c] = "allow_session" => via[c] = "ipc"
OverridesAreGranted ==
  \A o \in overrides : choice[o.by] = "allow_session" /\ via[o.by] = "ipc"
Scope == SessionIsIpc /\ OverridesAreGranted

LEMMA ScopeSettleStep ==
  ASSUME IInv, Scope, NEW c \in Calls, NEW a, NEW source,
         Settle(c, a, source), UNCHANGED callVars,
         a = "allow_session" => source = "ipc"
  PROVE  Scope'
<1>1. /\ choice[c] = "none"
      /\ choice'[c] = a /\ via'[c] = source
      /\ \A e \in Calls \ {c} : choice'[e] = choice[e] /\ via'[e] = via[e]
  BY ProxyAssumption DEF Settle, IInv, TypeOK, QueueTypeOK, QueuedIsHeld
<1>2. \A o \in overrides : o.by \in Calls
  BY DEF IInv, TypeOK, Override
<1>3. UNCHANGED overrides
  BY DEF callVars
<1> QED
  BY <1>1, <1>2, <1>3 DEF Scope, SessionIsIpc, OverridesAreGranted

(* Steps that answer nothing and grant nothing. *)
LEMMA ScopeKept ==
  ASSUME Scope, UNCHANGED <<choice, via>>, overrides' \subseteq overrides
  PROVE  Scope'
  BY DEF Scope, SessionIsIpc, OverridesAreGranted

LEMMA ScopeStep == IInv /\ Scope /\ [Next]_vars => Scope'
<1> SUFFICES ASSUME IInv, Scope, [Next]_vars PROVE Scope'
  OBVIOUS
<1>1. ASSUME NEW c \in Calls, NEW threat \in ThreatDecisions, Dispatch(c, threat)
      PROVE  Scope'
  <2>1. UNCHANGED <<choice, via>>
    BY <1>1 DEF Dispatch, Hold, request, queueVars
  <2>2. overrides' \subseteq overrides
    BY <1>1 DEF Dispatch, OverridesAfterEvaluate, LiveOverrides
  <2> QED
    BY <2>1, <2>2, ScopeKept
<1>2. ASSUME NEW c \in Calls, Resume(c) PROVE Scope'
  <2>1. UNCHANGED <<choice, via>>
    BY <1>2 DEF Resume, queueVars
  <2>2. CASE UNCHANGED overrides
    BY <2>1, <2>2, ScopeKept
  <2>3. ASSUME choice[c] = "allow_session", NEW ticks \in OverrideTicks,
               overrides' = overrides \cup
                 {[by |-> c, tool |-> req[c].tool, expiresAt |-> now + ticks]}
        PROVE  Scope'
    BY <2>1, <2>3 DEF Scope, SessionIsIpc, OverridesAreGranted
  <2> QED
    BY <1>2, <2>2, <2>3 DEF Resume
<1>3. ASSUME NEW c \in Calls, NEW outcome, Forwarded(c, outcome) PROVE Scope'
  BY <1>3, ScopeKept DEF Forwarded, queueVars
<1>4. ASSUME NEW c \in Calls, NEW a \in ApprovalChoices, AnswerOverIpc(c, a)
      PROVE  Scope'
  BY <1>4, ScopeSettleStep DEF AnswerOverIpc, respond
<1>5. ASSUME NEW c \in Calls, NEW a \in ApprovalChoices, TapOnTelegram(c, a)
      PROVE  Scope'
  <2>1. a # "allow_session"
    BY <1>5 DEF TapOnTelegram, TapChoices
  <2> QED
    BY <1>5, <2>1, ScopeSettleStep DEF TapOnTelegram, respond
<1>6. ASSUME NEW c \in Calls, TimeOut(c) PROVE Scope'
  <2>1. TimeoutChoice(c) # "allow_session"
    BY DEF TimeoutChoice
  <2> QED
    BY <1>6, <2>1, ScopeSettleStep DEF TimeOut, expire
<1>7. ASSUME UNCHANGED <<choice, via>>, overrides' \subseteq overrides PROVE Scope'
  BY <1>7, ScopeKept
<1>8. CASE \/ \E on \in BOOLEAN : setLockdown(on)
           \/ listSessionOverrides
           \/ \E o \in overrides : revokeSessionOverride(o)
           \/ \E channel \in Channels \cup {"none"} : ChatRunChanges(channel)
           \/ Tick
           \/ UNCHANGED vars
  BY <1>7, <1>8 DEF setLockdown, listSessionOverrides, LiveOverrides,
     revokeSessionOverride, ChatRunChanges, Tick, restVars, queueVars, vars
<1> QED
  BY <1>1, <1>2, <1>3, <1>4, <1>5, <1>6, <1>8 DEF Next

(* An approval for the session clears its own tool only, only while it       *)
(* lasts, and only if it was given over IPC (engine.ts: the override tier).  *)
THEOREM SessionGrantsAreScoped == Spec => SessionGrantIsScoped
<1> DEFINE Scoped ==
      \A c \in Calls :
        pc[c] = "new" /\ pc'[c] = "authorized" /\ decision'[c].tier = "session" =>
          \E o \in overrides : /\ o.tool = req[c].tool /\ o.expiresAt > now
                               /\ choice[o.by] = "allow_session" /\ via[o.by] = "ipc"
<1>1. Init => Scope
  BY ProxyAssumption DEF Init, QueueInit, Scope, SessionIsIpc, OverridesAreGranted
<1>2. ASSUME IInv, Scope, [Next]_vars PROVE Scoped
  <2> SUFFICES ASSUME NEW c \in Calls, pc[c] = "new", pc'[c] = "authorized",
                      decision'[c].tier = "session"
               PROVE  \E o \in overrides :
                        /\ o.tool = req[c].tool /\ o.expiresAt > now
                        /\ choice[o.by] = "allow_session" /\ via[o.by] = "ipc"
    OBVIOUS
  <2>0. TypeOK
    BY <1>2 DEF IInv
  <2>1. PICK threat \in ThreatDecisions : Dispatch(c, threat)
    BY <1>2, <2>0, CallSteps DEF Resume
  <2>2. /\ mergedDecision(req[c], threat) \in PolicyDecision
        /\ mergedDecision(req[c], threat) \in LayerDecisions(req[c], threat)
    BY MergedAction
  <2>3. mergedDecision(req[c], threat).action = "allow"
    BY <2>0, <2>1, DispatchOutcome
  <2>4. decision'[c] = mergedDecision(req[c], threat)
    <3>1. Conclude(c, mergedDecision(req[c], threat))
      BY <2>1, <2>2, <2>3, UnattendedType DEF Dispatch
    <3> QED
      BY <2>0, <3>1 DEF Conclude, TypeOK
  <2>5. req[c].tool \in GrantedTools
    BY <2>2, <2>4, SessionTierIsPolicy
  <2> QED
    BY <1>2, <2>5 DEF GrantedTools, LiveOverrides, Scope, OverridesAreGranted
<1>3. IInv /\ Scope /\ [Next]_vars => [Scoped]_vars
  BY <1>2
<1>4. Spec => []Scope
  BY <1>1, ScopeStep, Invariance, PTL DEF Spec
<1> QED
  BY <1>3, <1>4, Invariance, PTL DEF Spec, SessionGrantIsScoped

-----------------------------------------------------------------------------
(* The dispatcher implements the abstract gate (ToolGate): every step maps to *)
(* a step of the gate or to a stutter.                                       *)

gateStatus == [c \in Calls |-> GateStatus[pc[c]]]
gateRuling == [c \in Calls |-> Strictest(layers[c])]
gateConsent == [c \in Calls |-> GateConsent[choice[c]]]

(* The merged decision's action is that of the strictest layer. *)
LEMMA MergedIsRuling ==
  ASSUME TypeOK, NEW c \in Calls, NEW threat \in ThreatDecisions
  PROVE  /\ mergedDecision(req[c], threat).action = Strictest(LayerDecisions(req[c], threat))
         /\ mergedDecision(req[c], threat) \in PolicyDecision
<1> DEFINE d == mergedDecision(req[c], threat)
           ds == LayerDecisions(req[c], threat)
<1>1. /\ d \in PolicyDecision /\ d \in ds
      /\ d.action = "allow" => \A e \in ds : e.action = "allow"
      /\ d.action = "require_approval" => \A e \in ds : e.action # "deny"
  BY MergedAction
<1> HIDE DEF d, ds
<1>2. d.action \in {"allow", "require_approval", "deny"}
  BY <1>1 DEF PolicyDecision, ActionType
<1>3. d.action = Strictest(ds)
  BY <1>1, <1>2 DEF Strictest
<1> QED
  BY <1>1, <1>3 DEF d, ds

(* A call comes in: the gate rules on it. *)
LEMMA DispatchRules ==
  ASSUME ApprovalAttached, IInv, NEW c \in Calls, NEW threat \in ThreatDecisions,
         Dispatch(c, threat)
  PROVE  Gate!GateNext
<1> DEFINE d == mergedDecision(req[c], threat)
           ds == LayerDecisions(req[c], threat)
<1>1. d.action = Strictest(ds) /\ d \in PolicyDecision
  BY MergedIsRuling DEF IInv
<1>2. /\ pc[c] = "new"
      /\ layers' = [layers EXCEPT ![c] = ds]
      /\ IF d.action = "require_approval" /\ ApprovalAttached
         THEN Hold(c, d)
         ELSE Conclude(c, Unattended(d)) /\ UNCHANGED queueVars
  BY DEF Dispatch
<1> HIDE DEF d, ds
<1>3. d.action \in {"allow", "require_approval", "deny"}
  BY <1>1 DEF PolicyDecision, ActionType
<1>4. PICK r \in {"allow", "require_approval", "deny"} : r = d.action
  BY <1>3
<1>5. pc \in [Calls -> Phases] /\ layers \in [Calls -> SUBSET PolicyDecision]
  BY DEF IInv, TypeOK
<1>6. UNCHANGED choice
  BY <1>2 DEF Hold, request, queueVars
<1>7. pc' = [pc EXCEPT ![c] = IF d.action = "require_approval" THEN "held"
                             ELSE IF d.action = "allow" THEN "authorized" ELSE "refused"]
  BY <1>1, <1>2, <1>3 DEF Hold, Conclude, Unattended
<1>8. gateStatus' = [gateStatus EXCEPT ![c] = Gate!StatusUnder[d.action]]
  <2>1. GateStatus[pc'[c]] = Gate!StatusUnder[d.action]
    BY <1>3, <1>5, <1>7 DEF GateStatus, Gate!StatusUnder
  <2>2. \A e \in Calls \ {c} : pc'[e] = pc[e]
    BY <1>5, <1>7
  <2> QED
    BY <2>1, <2>2 DEF gateStatus
<1>9. gateRuling' = [gateRuling EXCEPT ![c] = d.action]
  BY <1>1, <1>2, <1>5 DEF gateRuling
<1>10. gateStatus[c] = "idle"
  BY <1>2 DEF gateStatus, GateStatus
<1>11. UNCHANGED gateConsent
  BY <1>6 DEF gateConsent
<1>12. Gate!RuleOn(c, r)
  BY <1>8, <1>9, <1>10, <1>11, <1>4 DEF Gate!RuleOn, gateStatus, gateRuling, gateConsent
<1> QED
  BY <1>12 DEF Gate!GateNext

(* An entry is settled: the gate hears the answer. *)
LEMMA SettleAnswers ==
  ASSUME IInv, NEW c \in Calls, NEW a \in ApprovalChoices, NEW source \in Sources,
         Settle(c, a, source), UNCHANGED callVars
  PROVE  Gate!GateNext
<1>1. /\ c \in queue /\ choice' = [choice EXCEPT ![c] = a]
      /\ UNCHANGED <<pc, layers>>
  BY DEF Settle, callVars
<1>2. pc[c] = "held" /\ choice[c] = "none"
  BY <1>1 DEF IInv, QueuedIsHeld
<1>3. choice \in [Calls -> ApprovalChoices \cup {"none"}]
  BY ProxyAssumption DEF IInv, TypeOK, QueueTypeOK
<1>4. GateConsent[a] \in {"given", "withheld"}
  BY DEF ApprovalChoices, GateConsent
<1>5. gateStatus[c] = "waiting" /\ gateConsent[c] = "none"
  BY <1>2 DEF gateStatus, gateConsent, GateStatus, GateConsent
<1>6. gateConsent' = [gateConsent EXCEPT ![c] = GateConsent[a]]
  BY <1>1, <1>3 DEF gateConsent
<1>7. UNCHANGED <<gateStatus, gateRuling>>
  BY <1>1 DEF gateStatus, gateRuling
<1>8. Gate!Answer(c, GateConsent[a])
  BY <1>5, <1>6, <1>7 DEF Gate!Answer, gateStatus, gateRuling, gateConsent
<1>9. \E answer \in {"given", "withheld"} : Gate!Answer(c, answer)
  BY <1>4, <1>8
<1> QED
  BY <1>9 DEF Gate!GateNext

(* An answered call goes on: the gate proceeds as the consent says. *)
LEMMA ResumeProceeds ==
  ASSUME IInv, NEW c \in Calls, Resume(c)
  PROVE  Gate!GateNext
<1> DEFINE d == AnsweredDecision(decision[c], choice[c])
<1>1. /\ pc[c] = "held" /\ choice[c] # "none"
      /\ Conclude(c, d)
      /\ UNCHANGED <<layers, choice>>
  BY DEF Resume, queueVars
<1>2. d.action = IF choice[c] \in AllowChoices THEN "allow" ELSE "deny"
  BY <1>1 DEF IInv, HeldIsDecided, AnsweredDecision, AllowChoices, PolicyDecision
<1> HIDE DEF d
<1>3. /\ pc \in [Calls -> Phases]
      /\ choice \in [Calls -> ApprovalChoices \cup {"none"}]
  BY ProxyAssumption DEF IInv, TypeOK, QueueTypeOK
<1>4. gateConsent[c] = IF choice[c] \in AllowChoices THEN "given" ELSE "withheld"
  BY <1>1, <1>3 DEF gateConsent, GateConsent, AllowChoices, ApprovalChoices
<1>5. pc' = [pc EXCEPT ![c] = IF choice[c] \in AllowChoices THEN "authorized" ELSE "refused"]
  BY <1>1, <1>2 DEF Conclude
<1>6. gateStatus' =
        [gateStatus EXCEPT ![c] = IF gateConsent[c] = "given" THEN "cleared" ELSE "refused"]
  <2>1. GateStatus[pc'[c]] = IF gateConsent[c] = "given" THEN "cleared" ELSE "refused"
    BY <1>3, <1>4, <1>5 DEF GateStatus
  <2>2. \A e \in Calls \ {c} : pc'[e] = pc[e]
    BY <1>3, <1>5
  <2> QED
    BY <2>1, <2>2 DEF gateStatus
<1>7. gateStatus[c] = "waiting" /\ gateConsent[c] # "none"
  BY <1>1, <1>4 DEF gateStatus, GateStatus
<1>8. UNCHANGED <<gateRuling, gateConsent>>
  BY <1>1 DEF gateRuling, gateConsent
<1>9. Gate!Proceed(c)
  BY <1>6, <1>7, <1>8 DEF Gate!Proceed, gateStatus, gateRuling, gateConsent
<1> QED
  BY <1>9 DEF Gate!GateNext

(* The downstream server replied: the gate is done with the call. *)
LEMMA ForwardedFinishes ==
  ASSUME IInv, NEW c \in Calls, NEW outcome \in {"returned", "failed"},
         Forwarded(c, outcome)
  PROVE  Gate!GateNext
<1>1. /\ pc[c] = "authorized" /\ pc' = [pc EXCEPT ![c] = outcome]
      /\ UNCHANGED <<layers, choice>>
  BY DEF Forwarded, queueVars
<1>2. pc \in [Calls -> Phases]
  BY DEF IInv, TypeOK
<1>3. gateStatus' = [gateStatus EXCEPT ![c] = "finished"]
  <2>1. GateStatus[pc'[c]] = "finished"
    BY <1>1, <1>2 DEF GateStatus
  <2>2. \A e \in Calls \ {c} : pc'[e] = pc[e]
    BY <1>1, <1>2
  <2> QED
    BY <2>1, <2>2 DEF gateStatus
<1>4. gateStatus[c] = "cleared"
  BY <1>1 DEF gateStatus, GateStatus
<1>5. UNCHANGED <<gateRuling, gateConsent>>
  BY <1>1 DEF gateRuling, gateConsent
<1>6. Gate!Finish(c)
  BY <1>3, <1>4, <1>5 DEF Gate!Finish, gateStatus, gateRuling, gateConsent
<1> QED
  BY <1>6 DEF Gate!GateNext

(* Everything else is a stutter of the gate. *)
LEMMA OtherStutters ==
  ASSUME UNCHANGED <<pc, layers, choice>>
  PROVE  UNCHANGED Gate!gateVars
  BY DEF Gate!gateVars

LEMMA GateStep ==
  ASSUME ApprovalAttached, IInv, [Next]_vars
  PROVE  [Gate!GateNext]_Gate!gateVars
<1>1. ASSUME NEW c \in Calls, NEW threat \in ThreatDecisions, Dispatch(c, threat)
      PROVE  Gate!GateNext
  BY <1>1, DispatchRules
<1>2. ASSUME NEW c \in Calls, Resume(c) PROVE Gate!GateNext
  BY <1>2, ResumeProceeds
<1>3. ASSUME NEW c \in Calls, NEW outcome \in {"returned", "failed"}, Forwarded(c, outcome)
      PROVE  Gate!GateNext
  BY <1>3, ForwardedFinishes
<1>4. ASSUME NEW c \in Calls, NEW a \in ApprovalChoices,
             AnswerOverIpc(c, a) \/ TapOnTelegram(c, a)
      PROVE  Gate!GateNext
  BY <1>4, SettleAnswers DEF AnswerOverIpc, TapOnTelegram, respond, Sources
<1>5. ASSUME NEW c \in Calls, TimeOut(c) PROVE Gate!GateNext
  <2>1. TimeoutChoice(c) \in ApprovalChoices
    BY DEF TimeoutChoice, ApprovalChoices
  <2> QED
    BY <1>5, <2>1, SettleAnswers DEF TimeOut, expire, Sources
<1>6. CASE \E on \in BOOLEAN : setLockdown(on)
  BY <1>6, OtherStutters DEF setLockdown, restVars, queueVars
<1>7. CASE listSessionOverrides \/ \E o \in overrides : revokeSessionOverride(o)
  BY <1>7, OtherStutters DEF listSessionOverrides, revokeSessionOverride, restVars, queueVars
<1>8. CASE \E channel \in Channels \cup {"none"} : ChatRunChanges(channel)
  BY <1>8, OtherStutters DEF ChatRunChanges, restVars, queueVars
<1>9. CASE Tick
  BY <1>9, OtherStutters DEF Tick, restVars, queueVars
<1>10. CASE UNCHANGED vars
  BY <1>10, OtherStutters DEF vars, queueVars
<1> QED
  BY <1>1, <1>2, <1>3, <1>4, <1>5, <1>6, <1>7, <1>8, <1>9, <1>10 DEF Next

(* With an approval queue attached, server.ts implements the gate: a call is *)
(* ruled on once, by its strictest layer, and cleared only by that ruling or *)
(* by the one answer it waited for.                                          *)
THEOREM ImplementsGate ==
  ASSUME ApprovalAttached
  PROVE  Spec => GateSpec
<1>1. Init => Gate!GateInit
  BY ProxyAssumption
     DEF Init, QueueInit, Gate!GateInit, GateStatus, GateConsent, Strictest
<1>2. IInv /\ [Next]_vars => [Gate!GateNext]_Gate!gateVars
  BY GateStep
<1> QED
  BY <1>1, <1>2, Invariance, PTL DEF Spec, GateSpec, Gate!GateSpec
===============================================================================
