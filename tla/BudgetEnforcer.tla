--------------------------- MODULE BudgetEnforcer ---------------------------
(***************************************************************************)
(* The budget check (cost/budget.ts).  A meter reading is a record with    *)
(* one field per limit; a budget gives each limit a number or Unset.       *)
(***************************************************************************)
EXTENDS Decisions

CONSTANTS
  Unset,      (* a limit the configuration does not set               *)
  OnExceed    (* budget.on_exceed: "warn", "require_approval", "deny" *)

ASSUME OnExceedAssumption == OnExceed \in {"warn", "require_approval", "deny"}

DollarLimits == {"per_request", "per_session", "daily", "monthly"}
CallLimits == {"per_minute", "per_hour", "per_day"}
TokenLimits == {"tokens_per_hour", "tokens_per_day"}

Denial == Decision("deny", "hard_mandatory", "built_in")

(* A dollar limit bites when the proposed cost would carry the reading past  *)
(* it; a call or token limit bites when the reading has reached it.          *)
DollarOverrun(budget, reading, cost) ==
  \E k \in DollarLimits : budget[k] # Unset /\ reading[k] + cost > budget[k]

(* Faulty variant: the limit itself still passes. *)
CountExceeded(budget, reading) ==
  \E k \in CallLimits \cup TokenLimits : budget[k] # Unset /\ reading[k] > budget[k]

CountExhausted(budget, reading) ==
  \E k \in CallLimits \cup TokenLimits : budget[k] # Unset /\ reading[k] >= budget[k]

(* Every dollar overrun resolves to the same decision, and when that is not  *)
(* "warn" it returns before the counts are looked at.                        *)
check(budget, reading, cost) ==
  IF DollarOverrun(budget, reading, cost) /\ OnExceed = "deny" THEN Denial
  ELSE IF DollarOverrun(budget, reading, cost) /\ OnExceed = "require_approval"
       THEN Decision("require_approval", "soft_mandatory", "built_in")
  ELSE IF CountExhausted(budget, reading) THEN Denial
  ELSE NoDecision
=============================================================================
