------------------------------ MODULE AuditViews ------------------------------
(***************************************************************************)
(* What the dashboard shows of the audit database (web: lib/audit.ts,      *)
(* lib/agents.ts, lib/dashboard.ts).  It reads the file the proxy writes   *)
(* and computes calls, costs and tokens again, beside the tracker the      *)
(* budget is enforced with.                                                *)
(*                                                                         *)
(* A row of audit_entries is a record with id, time, agent, instance,      *)
(* tool, server, decision, threat (the detector named in its reason, or    *)
(* None) and cost; a row of result_meter has time and tokens.              *)
(***************************************************************************)
EXTENDS Metering

CONSTANT
  TopRows        (* how many agents or tools a breakdown lists (10) *)

ASSUME ViewsAssumption == TopRows \in Nat

With(rows, decision) == {r \in rows : r.decision = decision}
From(rows, t) == {r \in rows : r.time >= t}
TotalCost(rows) == MapThenSumSet(LAMBDA r : r.cost, rows)

(* The agents with most rows, ties in any order. *)
Leading(rows) ==
  LET agents == {r.agent : r \in rows}
      count == [a \in agents |-> Cardinality({r \in rows : r.agent = a})]
  IN  CHOOSE top \in SUBSET agents :
        /\ Cardinality(top) = Min({TopRows, Cardinality(agents)})
        /\ \A a \in top, b \in agents \ top : count[a] >= count[b]

recentDecisions(rows, limit) ==
  {r \in rows : Cardinality({s \in rows : s.id > r.id}) < limit}

isThreat(r) == r.threat # None

(* An empty field of the filter lets everything through. *)
matchesFilters(r, f) ==
  /\ f.agent \in {None, r.agent}
  /\ f.decision \in {None, r.decision}
  /\ f.server \in {None, r.server}
  /\ f.threatsOnly => isThreat(r)

summary(rows) ==
  [total |-> Cardinality(rows),
   allowed |-> Cardinality(With(rows, "allow")),
   denied |-> Cardinality(With(rows, "deny")),
   approvalPending |-> Cardinality(With(rows, "require_approval")),
   threats |-> Cardinality({r \in rows : isThreat(r)}),
   byAgent |-> [a \in Leading(rows) |-> Cardinality({r \in rows : r.agent = a})]]

agentActivity(rows) ==
  [a \in {r.agent : r \in rows} |->
     LET own == {r \in rows : r.agent = a}
     IN  [total |-> Cardinality(own),
          allow |-> Cardinality(With(own, "allow")),
          deny |-> Cardinality(With(own, "deny")),
          approval |-> Cardinality(With(own, "require_approval")),
          instancesSeen |-> Cardinality({r.instance : r \in own}),
          lastSeen |-> Max({r.time : r \in own})]]

(* Registered agents, seen or not, and the agents only the log knows. *)
mergeAgents(registry, activity) ==
  [a \in registry \cup DOMAIN activity |->
     [status |-> CASE a \notin registry -> "observed"
                   [] a \in registry \cap DOMAIN activity -> "registered"
                   [] OTHER -> "idle",
      total |-> IF a \in DOMAIN activity THEN activity[a].total ELSE 0]]

(* Groups of (server, tool, detector) over the newest rows with a finding. *)
threatSummary(rows, midnight, limit) ==
  LET events == recentDecisions({r \in rows : isThreat(r)}, limit)
      keys == {<<r.server, r.tool, r.threat>> : r \in events}
      In(k) == {r \in events : <<r.server, r.tool, r.threat>> = k}
  IN  [totalEvents |-> Cardinality(events),
       eventsToday |-> Cardinality(From(events, midnight)),
       groups |-> [k \in keys |->
         [count |-> Cardinality(In(k)),
          firstSeen |-> Min({r.time : r \in In(k)}),
          lastSeen |-> Max({r.time : r \in In(k)}),
          denied |-> Cardinality(With(In(k), "deny")),
          allowed |-> Cardinality(With(In(k), "allow")),
          escalated |-> Cardinality(In(k) \ (With(In(k), "deny") \cup With(In(k), "allow")))]]]

(* The 24 hours up to the current one, by index; the rest of the hour in    *)
(* which the day began is read and not shown.                               *)
hourly(rows, t, hour) ==
  LET index(s) == s \div hour
  IN  [i \in 0..23 |->
         {r \in From(With(rows, "allow"), t - 24 * hour) : index(r.time) = index(t) - (23 - i)}]

(* Faulty variant: refused calls are counted too. *)
spendOfAllRows(rows, readings, t, midnight, hour) ==
  LET today == From(rows, midnight)
  IN  [callsToday |-> Cardinality(today),
       costToday |-> TotalCost(today),
       callsLastHour |-> Cardinality(From(rows, t - hour)),
       resultTokensToday |-> MapThenSumSet(LAMBDA m : m.tokens, From(readings, midnight)),
       byAgent |-> [a \in Leading(today) |->
         LET own == {r \in today : r.agent = a}
         IN  [calls |-> Cardinality(own), cost |-> TotalCost(own)]]]

(* From allowed rows only. *)
spendSummary(rows, readings, t, midnight, hour) ==
  LET permitted == With(rows, "allow")
      today == From(permitted, midnight)
  IN  [callsToday |-> Cardinality(today),
       costToday |-> TotalCost(today),
       callsLastHour |-> Cardinality(From(permitted, t - hour)),
       resultTokensToday |-> MapThenSumSet(LAMBDA m : m.tokens, From(readings, midnight)),
       byAgent |-> [a \in Leading(today) |->
         LET own == {r \in today : r.agent = a}
         IN  [calls |-> Cardinality(own), cost |-> TotalCost(own)]]]

-----------------------------------------------------------------------------
(* The database as the page reads it now.  A row is known by its call, or   *)
(* by the command it was written for.                                       *)
AuditRows ==
  {[id |-> c, time |-> at[c], agent |-> Agent[c], cost |-> Price[c],
    decision |-> IF c \in allowed THEN "allow" ELSE "deny"] : c \in allowed \cup denied}

MeterRows == {[id |-> c, time |-> sizedAt[c], tokens |-> Tokens[c]] : c \in meter}

OtherAgents == Agents \ {ChatAgent}
InTotal(reading(_)) == MapThenSumSet(reading, OtherAgents)
ChatRows(t) == {c \in allowed : Agent[c] = ChatAgent /\ at[c] >= t}

(* The spend page and the budget enforcer speak of the same calls, though    *)
(* one reads the database and the other counters that are pruned, lost with  *)
(* the process and rebuilt: an agent's calls and costs of the day, and the   *)
(* day's tokens and costs.  What the page counts beyond them are the rows of *)
(* the type "chat" and nothing else.  Its rolling hour may also exceed the   *)
(* enforcer's in the hour after the first of a month, whose earlier part the *)
(* counters forget ("Activity + declared-pricing spend, from allowed audit   *)
(* entries only", lib/audit.ts).  Counters that could not be rebuilt, and    *)
(* readings not written, are excepted.                                       *)
SpendPageAgrees ==
  up /\ ~degraded =>
    LET page == spendSummary(AuditRows, MeterRows, now, Midnight, Hour)
        hour == InTotal(LAMBDA a : Reading(a).per_hour) + Cardinality(ChatRows(now - Hour))
    IN  /\ \A a \in DOMAIN page.byAgent \ {ChatAgent} :
             /\ page.byAgent[a].calls = Reading(a).per_day
             /\ page.byAgent[a].cost = Reading(a).daily
        /\ page.callsToday = InTotal(LAMBDA a : Reading(a).per_day)
                               + Cardinality(ChatRows(Midnight))
        /\ page.costToday = MapThenSumSet(LAMBDA a : Reading(a).daily, Agents)
        /\ page.resultTokensToday = MapThenSumSet(LAMBDA a : Reading(a).tokens_per_day, Agents)
        /\ page.callsLastHour >= hour
        /\ now - Hour >= MonthStart => page.callsLastHour = hour
===============================================================================
