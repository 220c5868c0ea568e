------------------------------- MODULE Metering -------------------------------
(***************************************************************************)
(* What the budget is checked against, over the life of several processes: *)
(* the tracker's counters (cost/tracker.ts), the audit log and the result  *)
(* meter they are rebuilt from (audit/store.ts, audit/logger.ts), and the  *)
(* calendar.  The process may be killed at any moment and started again;   *)
(* a write to the database may fail.                                       *)
(*                                                                         *)
(* A record of the tracker and a row of the log stand for the call they    *)
(* were made for: agent, price and time are the call's.  The chat manager  *)
(* writes its own rows into the same log, one for each decision on a chat  *)
(* message, under the agent type "chat" and without a cost; hydration and  *)
(* the dashboard do not tell them from calls.                              *)
(***************************************************************************)
EXTENDS BudgetEnforcer, FiniteSets, FiniteSetsExt

CONSTANTS
  Calls,
  Commands,      (* decisions on chat messages, each with a row of its own  *)
  Agent,         (* the agent type of a call or a command                   *)
  Price,         (* the declared price of a call; a command has none        *)
  Budget,        (* the global budget                                       *)
  AgentBudget,   (* agents.yaml: the daily and per-session amounts it sets  *)
  Tokens,        (* the estimated size of the result of a call              *)
  Hour,          (* length of the rolling window in ticks                   *)
  DayStarts, MonthStarts,   (* ticks at which a day, a month begins         *)
  PruneEvery,    (* inserts between two prunings (1000)                     *)
  HydrateLimit,  (* rows hydration reads at most (250,000)                  *)
  FirstTick, LastTick,      (* bound: the stretch of time looked at         *)
  MaxFaults,     (* bound: kills and failed writes or reads                 *)
  None           (* no agent *)

(* What a row of the log may stand for.  An agent may be named "chat" too.  *)
Entries == Calls \cup Commands
ChatAgent == "chat"

ASSUME MeteringAssumption ==
  /\ Price \in [Entries -> Nat] /\ Tokens \in [Calls -> Nat]
  /\ Hour \in Nat /\ PruneEvery \in Nat \ {0} /\ HydrateLimit \in Nat
  /\ IsFiniteSet(Entries) /\ Calls \cap Commands = {}
  /\ \A c \in Calls : Agent[c] # None
  /\ \A m \in Commands : Agent[m] = ChatAgent /\ Price[m] = 0
  /\ DOMAIN Budget = DollarLimits \cup CallLimits \cup TokenLimits
  /\ \A k \in DOMAIN Budget : Budget[k] \in Nat \cup {Unset}
  /\ \A c \in Calls : \A k \in DOMAIN AgentBudget[Agent[c]] :
       AgentBudget[Agent[c]][k] \in Nat \cup {Unset}
  /\ FirstTick \in Nat /\ LastTick \in Nat /\ FirstTick <= LastTick
  /\ MaxFaults \in Nat
  /\ DayStarts \subseteq Nat /\ MonthStarts \subseteq DayStarts
  /\ \E t \in MonthStarts : t <= FirstTick

VARIABLES
  now,
  records,   (* CostTracker.records                                         *)
  metered,   (* CostTracker.tokenRecords                                    *)
  inserts,   (* insertsSincePrune                                           *)
  agent,     (* the one this process serves (HABENA_AGENT), None: no process *)
  session,   (* its calls: its one connection is one instance               *)
  allowed, denied,   (* audit_entries, by decision                          *)
  meter,     (* result_meter                                                *)
  pc,        (* where each call is                                          *)
  at,        (* when it, or the chat message, was decided                   *)
  sizedAt,   (* when its result came back                                   *)
  faults,
  degraded   (* history: a counter was rebuilt without everything logged,   *)
             (* or a meter reading was not written                          *)

memory == <<records, metered, inserts, session>>
database == <<allowed, denied, meter>>
meteringVars ==
  <<now, memory, database, agent, pc, at, sizedAt, faults, degraded>>

up == agent # None

Agents == {Agent[c] : c \in Calls}
Cleared == {c \in Calls : pc[c] \in {"cleared", "returned", "failed"}}
Accepted == Commands \cap allowed

MeteringTypeOK ==
  /\ now \in FirstTick..LastTick
  /\ agent \in Agents \cup {None} /\ degraded \in BOOLEAN
  /\ records \subseteq Cleared \cup Accepted /\ session \subseteq Cleared
  /\ metered \subseteq Cleared
  /\ inserts \in 0..PruneEvery - 1
  /\ allowed \subseteq Entries /\ denied \subseteq Entries
  /\ meter \subseteq Calls \cap allowed
  /\ pc \in [Calls -> {"new", "cleared", "returned", "failed", "refused"}]
  /\ at \in [Entries -> Nat] /\ sizedAt \in [Calls -> Nat]
  /\ faults \in 0..MaxFaults

-----------------------------------------------------------------------------
(* Readings. *)

LatestOf(starts) == Max({t \in starts : t <= now})
Midnight == LatestOf(DayStarts)
MonthStart == LatestOf(MonthStarts)

Of(calls, a) == {c \in calls : Agent[c] = a}
Since(t) == {c \in records : at[c] >= t}

countCallsSince(a, t) == Cardinality(Of(Since(t), a))
Spend(calls) == MapThenSumSet(LAMBDA c : Price[c], calls)
resultTokensSince(a, t) ==
  MapThenSumSet(LAMBDA c : Tokens[c], Of({c \in metered : sizedAt[c] >= t}, a))

(* Minutes are not told apart from ticks; no per-minute limit is set here. *)
Reading(a) ==
  [per_request |-> 0,
   per_session |-> Spend(records \cap session),
   daily |-> Spend(Of(Since(Midnight), a)),
   monthly |-> Spend(Of(Since(MonthStart), a)),
   per_minute |-> 0,
   per_hour |-> countCallsSince(a, now - Hour),
   per_day |-> countCallsSince(a, Midnight),
   tokens_per_hour |-> resultTokensSince(a, now - Hour),
   tokens_per_day |-> resultTokensSince(a, Midnight)]

(* An agent's own amounts win over the global ones. *)
budgetFor(a) ==
  [k \in DOMAIN Budget |->
     IF k \in DOMAIN AgentBudget[a] THEN AgentBudget[a][k] ELSE Budget[k]]

-----------------------------------------------------------------------------
Fault == faults < MaxFaults /\ faults' = faults + 1

(* Faulty variant: only today's records are kept. *)
KeptToday == {c \in Entries : at[c] >= Midnight}

Kept == {c \in Entries : at[c] >= MonthStart}

(* Faulty variant: only today's readings are kept. *)
KeptTokensToday == {c \in Calls : sizedAt[c] >= Midnight}

KeptTokens == {c \in Calls : sizedAt[c] >= MonthStart}

(* Faulty variant: the count of inserts is not reset. *)
PruneOnce(newRecords, newMetered) ==
  /\ records' = newRecords /\ metered' = newMetered
  /\ inserts' = inserts + 1

(* maybePrune(), after an insert into either list. *)
Prune(newRecords, newMetered) ==
  IF inserts + 1 < PruneEvery
  THEN records' = newRecords /\ metered' = newMetered /\ inserts' = inserts + 1
  ELSE /\ records' = {c \in newRecords : c \in Kept' }
       /\ metered' = newMetered \cap KeptTokens'
       /\ inserts' = 0

(* The call is logged, counted and let through in one step; a call denied by *)
(* the budget is logged and not counted.                                     *)
Clears(c) ==
  /\ allowed' = allowed \cup {c}
  /\ pc' = [pc EXCEPT ![c] = "cleared"]
  /\ session' = session \cup {c}
  /\ Prune(records \cup {c}, metered)
  /\ UNCHANGED <<denied, meter>>

Refuses(c) ==
  /\ denied' = denied \cup {c}
  /\ pc' = [pc EXCEPT ![c] = "refused"]
  /\ UNCHANGED <<memory, allowed, meter>>

(* Faulty variant: the failed write is swallowed. *)
LogFailsQuietly(c) ==
  /\ Fault
  /\ pc' = [pc EXCEPT ![c] = "cleared"]
  /\ session' = session \cup {c}
  /\ Prune(records \cup {c}, metered)
  /\ UNCHANGED database

(* The row cannot be written: the handler throws before it counts anything, *)
(* and nothing is forwarded.                                                *)
LogFails(c) ==
  /\ Fault
  /\ pc' = [pc EXCEPT ![c] = "refused"]
  /\ UNCHANGED <<memory, database>>

Dispatch(c) ==
  /\ agent = Agent[c] /\ pc[c] = "new"
  /\ at' = [at EXCEPT ![c] = now]
  /\ UNCHANGED <<now, agent, sizedAt, degraded>>
  /\ \/ /\ UNCHANGED faults
        /\ IF check(budgetFor(agent), Reading(agent), Price[c]) = NoDecision
           THEN Clears(c) ELSE Refuses(c)
     \/ LogFails(c)

(* The result comes back and its size is metered: counted, then written. *)
Returns(c) ==
  /\ up /\ pc[c] = "cleared"
  /\ pc' = [pc EXCEPT ![c] = "returned"]
  /\ sizedAt' = [sizedAt EXCEPT ![c] = IF Tokens[c] = 0 THEN @ ELSE now]
  /\ UNCHANGED <<now, agent, session, allowed, denied, at>>
  /\ \/ Tokens[c] = 0 /\ UNCHANGED <<records, metered, inserts, meter, faults, degraded>>
     \/ /\ Tokens[c] > 0
        /\ Prune(records, metered \cup {c})
        /\ meter' = meter \cup {c}
        /\ UNCHANGED <<faults, degraded>>
     \/ /\ Tokens[c] > 0
        /\ Fault
        /\ metered' = metered \cup {c}
        /\ degraded' = TRUE
        /\ UNCHANGED <<records, inserts, meter>>

ForwardFails(c) ==
  /\ up /\ pc[c] = "cleared"
  /\ pc' = [pc EXCEPT ![c] = "failed"]
  /\ UNCHANGED <<now, memory, database, agent, at, sizedAt, faults, degraded>>

(* The chat manager has taken or rejected a message, flushed it from its     *)
(* queue or failed to send it: a row is written, and nothing is counted.  A  *)
(* row that cannot be written leaves nothing behind here.                    *)
onAudit(m) ==
  /\ up /\ m \notin allowed \cup denied
  /\ at' = [at EXCEPT ![m] = now]
  /\ \/ allowed' = allowed \cup {m} /\ UNCHANGED denied
     \/ denied' = denied \cup {m} /\ UNCHANGED allowed
  /\ UNCHANGED <<now, memory, meter, agent, pc, sizedAt, faults, degraded>>

Tick ==
  /\ now < LastTick
  /\ now' = now + 1
  /\ UNCHANGED <<memory, database, agent, pc, at, sizedAt, faults, degraded>>

Killed ==
  /\ up
  /\ agent' = None
  /\ Fault
  /\ records' = {} /\ metered' = {} /\ session' = {} /\ inserts' = 0
  /\ pc' = [c \in Calls |-> IF pc[c] = "cleared" THEN "failed" ELSE pc[c]]
  /\ UNCHANGED <<now, database, at, sizedAt, degraded>>

(* Faulty variant: the refused calls of the log are counted too. *)
HydratedFromAll(chosen) == chosen = {c \in allowed \cup denied : at[c] >= MonthStart}

(* audit.query: this month's allowed rows, the newest ones up to the limit, *)
(* of calls and of chat messages alike.                                     *)
Hydrated(chosen) ==
  LET rows == {c \in allowed : at[c] >= MonthStart}
  IN  /\ chosen \subseteq rows
      /\ Cardinality(chosen) = Min({Cardinality(rows), HydrateLimit})
      /\ \A c \in chosen, d \in rows \ chosen : at[c] >= at[d]

(* Boot: the counters are rebuilt from the database; where that fails, the  *)
(* proxy goes on with what it has.                                          *)
Start ==
  /\ ~up
  /\ agent' \in Agents
  /\ \E chosen \in SUBSET Entries :
       /\ Hydrated(chosen)
       /\ \/ /\ records' = chosen
             /\ metered' = {c \in meter : sizedAt[c] >= MonthStart}
             /\ degraded' = (degraded \/ Cardinality({c \in allowed : at[c] >= MonthStart})
                                           > HydrateLimit)
             /\ UNCHANGED faults
          \/ /\ Fault
             /\ records' \in {{}, chosen} /\ metered' = {}
             /\ degraded' = TRUE
  /\ UNCHANGED <<now, inserts, session, database, pc, at, sizedAt>>

Init ==
  /\ now = FirstTick /\ agent = None
  /\ records = {} /\ metered = {} /\ inserts = 0 /\ session = {}
  /\ allowed = {} /\ denied = {} /\ meter = {}
  /\ pc = [c \in Calls |-> "new"]
  /\ at = [c \in Entries |-> 0] /\ sizedAt = [c \in Calls |-> 0]
  /\ faults = 0 /\ degraded = FALSE

Next ==
  \/ \E c \in Calls : Dispatch(c) \/ Returns(c) \/ ForwardFails(c)
  \/ \E m \in Commands : onAudit(m)
  \/ Tick
  \/ Killed
  \/ Start

Spec == Init /\ [][Next]_meteringVars

-----------------------------------------------------------------------------
(* Nothing reaches a downstream server that the log does not show as allowed, *)
(* and nothing it shows as refused does, even when a write fails or the       *)
(* process is killed (server.ts: the row is written before the call is        *)
(* counted and forwarded; architecture.md: "Audit logs every decision").      *)
ForwardedIsLogged == Cleared \subseteq allowed /\ Cleared \cap denied = {}

(* However often the process was restarted or the lists pruned, a window     *)
(* that begins in this month counts the calls it would count had neither     *)
(* happened: those let through, and no refused one (architecture.md:         *)
(* "Counters survive restarts").  A failed or cut hydration is excepted, and *)
(* so is an agent named "chat", to which a restart adds the chat messages.   *)
CallCountsSurvive ==
  up /\ ~degraded =>
    \A t \in MonthStart..now, a \in Agents \ {ChatAgent} :
      countCallsSince(a, t) = Cardinality(Of({c \in Cleared : at[c] >= t}, a))

(* Likewise the tokens of every result that came back, meter readings that   *)
(* could not be written excepted too.                                        *)
TokenCountsSurvive ==
  up /\ ~degraded =>
    \A t \in MonthStart..now, a \in Agents :
      resultTokensSince(a, t) =
        MapThenSumSet(LAMBDA c : Tokens[c],
                      Of({c \in Calls : pc[c] = "returned" /\ sizedAt[c] >= t}, a))

SameStretch(starts, c, d) == ~ \E t \in starts : (at[c] < t) # (at[d] < t)
Set(a, limit) == budgetFor(a)[limit] # Unset

(* Restarts do not hand an agent a fresh budget: the calls let through keep  *)
(* the day's and the month's limits, and the rolling hour's in every hour    *)
(* that does not contain the first of a month, where pruning and hydration   *)
(* both forget the hour's earlier part (start.ts:70, tracker.ts:40).         *)
LimitsHoldAcrossRestarts ==
  ~degraded =>
    \A c \in Cleared :
      LET others == Of(Cleared, Agent[c])
          budget == budgetFor(Agent[c])
          hour == {d \in others : at[d] <= at[c] /\ at[d] >= at[c] - Hour}
      IN  /\ Set(Agent[c], "daily") /\ OnExceed = "deny" =>
               Spend({d \in others : SameStretch(DayStarts, c, d)}) <= budget.daily
          /\ Set(Agent[c], "monthly") /\ OnExceed = "deny" =>
               Spend({d \in others : SameStretch(MonthStarts, c, d)}) <= budget.monthly
          /\ Set(Agent[c], "per_hour") /\ (\A d \in hour : SameStretch(MonthStarts, c, d)) =>
               Cardinality(hour) <= budget.per_hour
===============================================================================
