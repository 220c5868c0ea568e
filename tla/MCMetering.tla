------------------------------ MODULE MCMetering ------------------------------
(* Two calls of each of two agents and a chat message, over the turn of a    *)
(* month and two days of it.  One call is let through in an hour.  One agent *)
(* has a daily amount, which the first of its calls uses up, as its result   *)
(* does the day's tokens; two calls of the other exceed the month's amount.  *)
(* The hour's limit binds about midnight, the day's within it.               *)
EXTENDS AuditViews, TLC

CONSTANTS c3, c4

OfOther == Calls \cap {c3, c4}
MCAgent ==
  [c \in Entries |-> CASE c \in OfOther -> "other" [] c \in Commands -> ChatAgent [] OTHER -> "main"]
MCPrice ==
  [c \in Entries |-> CASE c \in OfOther -> 2 [] c \in Commands -> 0 [] OTHER -> 1]
MCTokens == [c \in Calls |-> IF c \in OfOther THEN 1 ELSE 2]
MCBudget ==
  [per_request |-> Unset, per_session |-> Unset, daily |-> Unset, monthly |-> 2,
   per_minute |-> Unset, per_hour |-> 1, per_day |-> Unset,
   tokens_per_hour |-> Unset, tokens_per_day |-> 2]
MCAgentBudget == [main |-> [daily |-> 1], other |-> [k \in {} |-> Unset]]

(* The calls of an agent are alike. *)
MCSymmetry ==
  Permutations(OfOther) \cup Permutations(Calls \ OfOther) \cup Permutations(Commands)
-----------------------------------------------------------------------------
(* Three rows of a log, as the dashboard's other pages read them. *)
Shapes ==
  [time : {1, 2}, agent : {"main", "other"}, instance : {"i"}, tool : {"exec"},
   server : {"fs"}, decision : {"allow", "deny"}, threat : {None, "rug_pull"}, cost : {1}]
Log(f) == {[id |-> n] @@ f[n] : n \in DOMAIN f}

(* What the pages show of one log adds up: every decision is counted once    *)
(* for its agent, whether the agent is registered or not, no decision is     *)
(* ever pending, and the threats page accounts for every flagged call of the *)
(* summary, unless there are more than it reads.                             *)
ASSUME PagesAddUp ==
  \A f \in [1..3 -> Shapes] :
    LET rows == Log(f)
        sum == summary(rows)
        agents == mergeAgents({"main", "idle"}, agentActivity(rows))
        threats == threatSummary(rows, 2, 2)
        GroupTotal(field) == MapThenSumSet(LAMBDA k : threats.groups[k][field], DOMAIN threats.groups)
    IN  /\ sum.total = sum.allowed + sum.denied /\ sum.approvalPending = 0
        /\ sum.total = MapThenSumSet(LAMBDA a : agents[a].total, DOMAIN agents)
        /\ sum.total = MapThenSumSet(LAMBDA a : sum.byAgent[a], DOMAIN sum.byAgent)
        /\ agents["idle"].status = "idle" /\ agents["main"].status # "observed"
        /\ threats.totalEvents = Min({sum.threats, 2})
        /\ GroupTotal("count") = threats.totalEvents
        /\ GroupTotal("denied") + GroupTotal("allowed") = threats.totalEvents
        /\ threats.eventsToday <= threats.totalEvents
        /\ recentDecisions({r \in rows : isThreat(r)}, 2)
             \subseteq {r \in rows : matchesFilters(r, [agent |-> None, decision |-> None,
                                                       server |-> "fs", threatsOnly |-> TRUE])}

(* A call is in the bar of its hour, and the bars hold a day's calls but for *)
(* the beginning of the first hour.                                          *)
ASSUME BarsHoldTheDay ==
  \A t \in 48..51, n \in 20..51 :
    LET row == [time |-> n, decision |-> "allow"]
        bars == hourly({row}, t, 2)
        current == t - (t % 2)
    IN  {i \in 0..23 : bars[i] # {}} =
          IF n \in current - 46..current + 1 THEN {23 - (current - (n - (n % 2))) \div 2} ELSE {}
===============================================================================
