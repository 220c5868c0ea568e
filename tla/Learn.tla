-------------------------------- MODULE Learn --------------------------------
(***************************************************************************)
(* `habena learn`: rules proposed from the audit log (learn/analyzer.ts).  *)
(* A row is a record with id, time, agent, tool, decision and tier.  Rates *)
(* are compared without division.                                          *)
(***************************************************************************)
EXTENDS PolicyEngine, FiniteSets, FiniteSetsExt, SequencesExt

CONSTANT AnyAgent   (* no --agent given *)

(* One bucket for each agent and tool, those with most rows first, ties in  *)
(* the order of the log.                                                    *)
observe(rows, since, agent) ==
  LET window == {r \in rows : r.time >= since /\ agent \in {AnyAgent, r.agent}}
      Bucket(a, t) ==
        LET own == {r \in window : r.agent = a /\ r.tool = t}
            Count(decision) == Cardinality({r \in own : r.decision = decision})
        IN  [agent |-> a, tool |-> t, total |-> Cardinality(own),
             allowed |-> Count("allow"), denied |-> Count("deny"),
             builtIn |-> \E r \in own : r.tier = "built_in",
             first |-> Min({r.id : r \in own})]
      buckets == {Bucket(r.agent, r.tool) : r \in window}
  IN  SetToSortSeq(buckets, LAMBDA b, c :
        b.total > c.total \/ (b.total = c.total /\ b.first < c.first))

(* What is proposed for a bucket, if anything: nothing where a built-in tier *)
(* took part in a denial, a denial where nothing else was seen, permission  *)
(* for what was allowed often and never denied, else approval.              *)
Proposal(o, minAllow) ==
  IF o.builtIn /\ o.denied > 0 THEN "none"
  ELSE IF o.denied > 0 /\ 10 * o.denied >= 8 * o.total /\ o.allowed = 0 THEN "deny"
  ELSE IF 100 * o.allowed >= 95 * o.total /\ o.total >= minAllow /\ o.denied = 0 THEN "allow"
  ELSE IF o.total >= 3 THEN "require_approval" ELSE "none"

(* The rule names the tool and not the agent. *)
propose(observations, minAllow) ==
  LET proposed == SelectSeq(observations, LAMBDA o : Proposal(o, minAllow) # "none")
  IN  [k \in DOMAIN proposed |->
         RuleOf([tool |-> {proposed[k].tool}], Proposal(proposed[k], minAllow),
                "soft_mandatory", NoCondition)]

learnCommand(rows, today, days, agent, minAllow) ==
  IF days <= 0 THEN <<>> ELSE propose(observe(rows, today - days, agent), minAllow)
=============================================================================
