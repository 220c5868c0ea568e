-------------------------------- MODULE Proxy --------------------------------
(***************************************************************************)
(* The dispatcher (proxy/server.ts) with the parts it decides with: policy *)
(* engine, budget, threat verdict, chat floor, approval queue, audit log   *)
(* and cost tracker, for several tool calls in flight at once.             *)
(*                                                                         *)
(* handleToolCall runs without a break up to `await approval.request(..)`  *)
(* (Dispatch) and from there to its end (Resume); between the two, other   *)
(* calls, answers, operator commands, timers and the clock take steps.  A  *)
(* call allowed at once is authorized in Dispatch.                         *)
(***************************************************************************)
EXTENDS PolicyEngine, BudgetEnforcer, ApprovalQueue, FiniteSets, FiniteSetsExt

CONSTANTS
  Calls,             (* tool calls of the connection, arriving in any order       *)
  Requests,          (* the tool calls a client may send                          *)
  FloorRules,        (* rules of the chat floor preset                            *)
  ThreatDecisions,   (* what threat.checkCall may return (NoDecision included)    *)
  ApprovalAttached,  (* whether the dispatcher was given an approval queue        *)
  Price,             (* declared price of a tool (tool-pricing.ts)                *)
  Tokens,            (* estimated size of a tool's result                         *)
  Budget,            (* the configured limits, one field per limit                *)
  Minute, Hour,      (* ticks in the rolling windows                              *)
  OverrideTicks,     (* durations an allow_session answer may carry, in ticks     *)
  MaxTime            (* bound: the clock stops here                               *)

ASSUME ProxyAssumption ==
  /\ Ids = Calls
  /\ Requests \subseteq ToolCall
  /\ ThreatDecisions \subseteq {d \in PolicyDecision : d.tier = "built_in"} \cup {NoDecision}
  /\ RuleListOK(FloorRules)
  /\ ApprovalAttached \in BOOLEAN
  /\ OverrideTicks \subseteq Nat
  /\ Minute \in Nat /\ Hour \in Nat /\ MaxTime \in Nat

VARIABLES
  now,          (* Date.now(), in ticks                                         *)
  lockdown,     (* PolicyEngine.lockdown                                        *)
  overrides,    (* PolicyEngine.sessionOverrides: [by, tool, expiresAt]         *)
  active,       (* ChatChannelManager.active, "none" for null                   *)
  pc,           (* where each call is in the call handler                       *)
  req,          (* the request each call carries                                *)
  layers,       (* history: what each layer decided as the call came in         *)
  decision,     (* the decision so far                                          *)
  audit,        (* the decision logged for the call, or "none"                  *)
  recordedAt    (* when CostTracker.record counted the call, or Never           *)

vars == <<now, lockdown, overrides, active, pc, req, layers, decision, audit,
          recordedAt, queueVars>>

Phases == {"new", "held", "authorized", "refused", "returned", "failed"}
Cleared == {"authorized", "returned", "failed"}
Never == 0 - 1
Override == [by : Calls, tool : Tools, expiresAt : Nat]

TypeOK ==
  /\ QueueTypeOK
  /\ now \in 0..MaxTime
  /\ lockdown \in BOOLEAN
  /\ overrides \in SUBSET Override
  /\ active \in Channels \cup {"none"}
  /\ pc \in [Calls -> Phases]
  /\ req \in [Calls -> Requests]
  /\ layers \in [Calls -> SUBSET PolicyDecision]
  /\ decision \in [Calls -> PolicyDecision \cup {NoDecision}]
  /\ audit \in [Calls -> {"none", "allow", "deny"}]
  /\ recordedAt \in [Calls -> Nat \cup {Never}]

Init ==
  /\ QueueInit
  /\ now = 0
  /\ lockdown = FALSE
  /\ overrides = {}
  /\ active = "none"
  /\ pc = [c \in Calls |-> "new"]
  /\ req \in [Calls -> Requests]
  /\ layers = [c \in Calls |-> {}]
  /\ decision = [c \in Calls |-> NoDecision]
  /\ audit = [c \in Calls |-> "none"]
  /\ recordedAt = [c \in Calls |-> Never]

-----------------------------------------------------------------------------
(* What the layers read.                                                     *)

Recorded == {c \in Calls : recordedAt[c] # Never}
countCallsSince(t) == Cardinality({c \in Recorded : recordedAt[c] >= t})
Spent == MapThenSumSet(LAMBDA c : Price[req[c].tool], Recorded)
ResultTokens ==
  MapThenSumSet(LAMBDA c : Tokens[req[c].tool], {c \in Calls : pc[c] = "returned"})

(* One agent, one session, one day: the dollar readings coincide. *)
Reading ==
  [per_request |-> 0, per_session |-> Spent, daily |-> Spent, monthly |-> Spent,
   per_minute |-> countCallsSince(now - Minute),
   per_hour |-> countCallsSince(now - Hour),
   per_day |-> Cardinality(Recorded),
   tokens_per_hour |-> ResultTokens, tokens_per_day |-> ResultTokens]

(* Faulty variant: an override still counts at the instant it expires. *)
UnexpiredOverrides == {o \in overrides : o.expiresAt >= now}

(* clearExpiredOverrides(): kept only while it expires strictly later. *)
LiveOverrides == {o \in overrides : o.expiresAt > now}
GrantedTools == {o.tool : o \in LiveOverrides}

policyDecision(call) == evaluate(lockdown, GrantedTools, HostRules, UserRules, call)
budgetDecision(call) == check(Budget, Reading, Price[call.tool])

(* The floor engine has no host rules, no overrides and no lockdown. *)
floorDecision(call) ==
  IF active = "telegram" THEN evaluate(FALSE, {}, << >>, FloorRules, call)
  ELSE NoDecision

LayerDecisions(call, threat) ==
  {policyDecision(call), budgetDecision(call), threat, floorDecision(call)}
    \ {NoDecision}

(* Faulty variant: the chat floor is left out of the merge. *)
mergedWithoutFloor(call, threat) ==
  Merge(Merge(policyDecision(call), budgetDecision(call)), threat)

mergedDecision(call, threat) ==
  Merge(Merge(Merge(policyDecision(call), budgetDecision(call)), threat),
        floorDecision(call))

(* evaluate() drops expired overrides only once lockdown and the hard        *)
(* boundaries have let the call past.                                        *)
OverridesAfterEvaluate(call) ==
  IF lockdown \/ firstMatch(HARD_BOUNDARIES, "built_in", call) # NoDecision
  THEN overrides ELSE LiveOverrides
-----------------------------------------------------------------------------
(* The call handler.                                                         *)

(* The decision is logged; an allowed call is counted in the same breath.    *)
Conclude(c, d) ==
  /\ decision' = [decision EXCEPT ![c] = d]
  /\ audit' = [audit EXCEPT ![c] = IF d.action = "allow" THEN "allow" ELSE "deny"]
  /\ recordedAt' = IF d.action = "allow" THEN [recordedAt EXCEPT ![c] = now]
                   ELSE recordedAt
  /\ pc' = [pc EXCEPT ![c] = IF d.action = "allow" THEN "authorized" ELSE "refused"]

Hold(c, d) ==
  /\ request(c, active)
  /\ decision' = [decision EXCEPT ![c] = d]
  /\ pc' = [pc EXCEPT ![c] = "held"]
  /\ UNCHANGED <<audit, recordedAt>>

(* With nobody to ask, a call that needs approval is denied. *)
Unattended(d) ==
  IF d.action = "require_approval" THEN [d EXCEPT !.action = "deny"] ELSE d

Dispatch(c, threat) ==
  LET call == req[c]
      d == mergedDecision(call, threat)
  IN  /\ pc[c] = "new"
      /\ layers' = [layers EXCEPT ![c] = LayerDecisions(call, threat)]
      /\ overrides' = OverridesAfterEvaluate(call)
      /\ IF d.action = "require_approval" /\ ApprovalAttached
         THEN Hold(c, d)
         ELSE Conclude(c, Unattended(d)) /\ UNCHANGED queueVars
      /\ UNCHANGED <<now, lockdown, active, req>>

(* Faulty variant: the answer is copied into the action. *)
CopiedAnswer(d, answer) == [d EXCEPT !.action = answer]

(* The decision after the await, from the held one and the answer. *)
AnsweredDecision(d, answer) ==
  IF answer = "allow_once" THEN [d EXCEPT !.action = "allow"]
  ELSE IF answer = "allow_session" THEN [d EXCEPT !.action = "allow", !.tier = "session"]
  ELSE [d EXCEPT !.action = "deny"]

Resume(c) ==
  /\ pc[c] = "held" /\ choice[c] # "none"
  /\ Conclude(c, AnsweredDecision(decision[c], choice[c]))
  /\ \/ /\ choice[c] = "allow_session"
        /\ \E ticks \in OverrideTicks :
             overrides' = overrides \cup
               {[by |-> c, tool |-> req[c].tool, expiresAt |-> now + ticks]}
     \/ /\ choice[c] # "allow_session"
        /\ UNCHANGED overrides
  /\ UNCHANGED <<now, lockdown, active, req, layers, queueVars>>

(* downstream.forward settles: the result is metered, or the error returned. *)
Forwarded(c, outcome) ==
  /\ pc[c] = "authorized"
  /\ pc' = [pc EXCEPT ![c] = outcome]
  /\ UNCHANGED <<now, lockdown, overrides, active, req, layers, decision, audit,
                 recordedAt, queueVars>>
-----------------------------------------------------------------------------
(* The queue's other users and its timers.                                   *)

callVars == <<now, lockdown, overrides, active, pc, req, layers, decision, audit,
              recordedAt>>

(* `habena watch`, `approvals` and the dashboard, over the IPC socket. *)
AnswerOverIpc(c, a) == respond(c, a, "ipc") /\ UNCHANGED callVars

TapOnTelegram(c, a) ==
  /\ a \in TapChoices(origin[c])
  /\ respond(c, a, "telegram")
  /\ UNCHANGED callVars

TimeOut(c) == expire(c) /\ UNCHANGED callVars
-----------------------------------------------------------------------------
(* The operator, the chat manager and the clock.                             *)

restVars == <<pc, req, layers, decision, audit, recordedAt, queueVars>>

setLockdown(on) ==
  /\ lockdown' = on
  /\ UNCHANGED <<now, overrides, active, restVars>>

listSessionOverrides ==
  /\ overrides' = LiveOverrides
  /\ UNCHANGED <<now, lockdown, active, restVars>>

revokeSessionOverride(o) ==
  /\ overrides' = overrides \ {o}
  /\ UNCHANGED <<now, lockdown, active, restVars>>

(* Every change of the active run, whatever made the manager change it. *)
ChatRunChanges(channel) ==
  /\ active' = channel
  /\ UNCHANGED <<now, lockdown, overrides, restVars>>

Tick ==
  /\ now < MaxTime
  /\ now' = now + 1
  /\ UNCHANGED <<lockdown, overrides, active, restVars>>

Next ==
  \/ \E c \in Calls :
       \/ \E threat \in ThreatDecisions : Dispatch(c, threat)
       \/ Resume(c)
       \/ \E outcome \in {"returned", "failed"} : Forwarded(c, outcome)
       \/ \E a \in ApprovalChoices : AnswerOverIpc(c, a)
       \/ \E a \in ApprovalChoices : TapOnTelegram(c, a)
       \/ TimeOut(c)
  \/ \E on \in BOOLEAN : setLockdown(on)
  \/ listSessionOverrides
  \/ \E o \in overrides : revokeSessionOverride(o)
  \/ \E channel \in Channels \cup {"none"} : ChatRunChanges(channel)
  \/ Tick

Spec == Init /\ [][Next]_vars

(* Timers fire and a settled promise resumes its waiter; nobody has to       *)
(* answer, no call has to come, no downstream server has to reply.           *)
Fairness == \A c \in Calls : WF_vars(TimeOut(c)) /\ WF_vars(Resume(c))

FairSpec == Spec /\ Fairness
-----------------------------------------------------------------------------
(* A cleared call was denied by no layer, and if any layer wanted approval,  *)
(* an allow answer was given: stricter() never lets one layer's leniency     *)
(* hide another's objection, and no step in between loses it.                *)
EveryLayerConsents ==
  \A c \in Calls : pc[c] \in Cleared =>
    \A d \in layers[c] :
      \/ d.action = "allow"
      \/ d.action = "require_approval" /\ choice[c] \in {"allow_once", "allow_session"}

(* A call held while a Telegram run was active is cleared only by an answer  *)
(* over IPC: not by a tap on the phone, not by letting the timeout pass.     *)
PhoneNeverApprovesItself ==
  \A c \in Calls : pc[c] \in Cleared /\ origin[c] = "telegram" => via[c] = "ipc"

(* A call that matches a hard boundary is never cleared, whatever overrides, *)
(* rules, approvals and lockdown releases precede it.                        *)
NoDestructiveCall ==
  \A c \in Calls : pc[c] \in Cleared => req[c].args \notin DestructiveArgs

(* A call that comes in under lockdown is refused. *)
LockdownStopsNewCalls ==
  [][\A c \in Calls : pc[c] = "new" /\ lockdown /\ pc'[c] # "new" => pc'[c] = "refused"]_vars

(* A settled approval and a logged decision are final, whichever of answers, *)
(* taps and timeouts race for them.                                          *)
DecidedOnce ==
  [][\A c \in Calls : /\ choice[c] # "none" => choice'[c] = choice[c] /\ via'[c] = via[c]
                      /\ audit[c] # "none" => audit'[c] = audit[c]]_vars

(* The call-count limit is exceeded only by calls that were held: one that   *)
(* is checked and counted without a break never is the call too many.        *)
OnlyHeldCallsOvershoot ==
  [][\A c \in Calls :
       recordedAt'[c] # recordedAt[c] /\ countCallsSince(now - Minute) >= Budget.per_minute
         => pc[c] = "held"]_vars

(* A call cleared on the strength of a session override has a live override  *)
(* for its very tool, granted by an allow_session answer over IPC.           *)
SessionGrantIsScoped ==
  [][\A c \in Calls :
       pc[c] = "new" /\ pc'[c] = "authorized" /\ decision'[c].tier = "session" =>
         \E o \in overrides : /\ o.tool = req[c].tool /\ o.expiresAt > now
                              /\ choice[o.by] = "allow_session" /\ via[o.by] = "ipc"]_vars

(* Stated by README.md ("every tool call is denied until you release it")    *)
(* and not so: a call held before lockdown is cleared under it if the answer *)
(* is to allow, because nothing is evaluated again after the await.          *)
NothingClearedUnderLockdown ==
  [][\A c \in Calls : pc[c] # pc'[c] /\ pc'[c] = "authorized" => ~lockdown]_vars

(* Stated by the header of policy/engine.ts (overrides "CANNOT bypass hard   *)
(* boundaries or host-policy") and not so: overrides are looked up before    *)
(* the host's rules, and grant a tool with every argument.                   *)
OverridesRespectHostPolicy ==
  [][\A c \in Calls :
       pc[c] = "new" /\ pc'[c] = "authorized" =>
         LET host == firstMatch(HostRules, "host", req[c])
         IN  host = NoDecision \/ host.action # "deny"]_vars

(* Stated by policy/types.ts (call-count and result-token limits "always     *)
(* hard-deny") and not so with on_exceed: require_approval: a dollar overrun *)
(* returns its own, approvable decision before the counts are read.          *)
ExhaustedCountsHardDeny ==
  [][\A c \in Calls :
       pc[c] = "new" /\ pc'[c] # "new" /\ CountExhausted(Budget, Reading)
         => pc'[c] = "refused"]_vars

(* No held call waits for ever. *)
HeldCallSettles ==
  \A c \in Calls : pc[c] = "held" ~> pc[c] \in {"authorized", "refused"}
-----------------------------------------------------------------------------
(* The abstract gate the dispatcher implements.                              *)

Strictest(ds) ==
  IF ds = {} THEN "none"
  ELSE IF \E d \in ds : d.action = "deny" THEN "deny"
  ELSE IF \E d \in ds : d.action = "require_approval" THEN "require_approval"
  ELSE "allow"

GateStatus ==
  [new |-> "idle", held |-> "waiting", authorized |-> "cleared", refused |-> "refused",
   returned |-> "finished", failed |-> "finished"]

GateConsent ==
  [none |-> "none", allow_once |-> "given", allow_session |-> "given",
   deny |-> "withheld"]

Gate == INSTANCE ToolGate WITH
          status <- [c \in Calls |-> GateStatus[pc[c]]],
          ruling <- [c \in Calls |-> Strictest(layers[c])],
          consent <- [c \in Calls |-> GateConsent[choice[c]]]

(* The dispatcher implements the gate: one ruling by the strictest layer,    *)
(* one answer, and clearance only by the ruling or by the answer.            *)
GateSpec == Gate!GateSpec
=============================================================================
