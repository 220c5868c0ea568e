------------------------------ MODULE ToolGate ------------------------------
(***************************************************************************)
(* What the proxy promises for every tool call, with no engine, queue or   *)
(* timer: a call is ruled on once, by the strictest of its layers.  A call *)
(* ruled "allow" is cleared, one ruled "deny" is refused for good, and one *)
(* ruled "require_approval" waits until consent is given or withheld, once *)
(* and for good.  Only a cleared call ever reaches a downstream server.    *)
(***************************************************************************)
CONSTANT Calls

VARIABLES
  status,   (* idle, waiting, cleared, refused, finished      *)
  ruling,   (* the action of the strictest layer, once ruled  *)
  consent   (* none, given, withheld                          *)

gateVars == <<status, ruling, consent>>

GateInit ==
  /\ status = [c \in Calls |-> "idle"]
  /\ ruling = [c \in Calls |-> "none"]
  /\ consent = [c \in Calls |-> "none"]

StatusUnder == [allow |-> "cleared", require_approval |-> "waiting", deny |-> "refused"]

RuleOn(c, r) ==
  /\ status[c] = "idle"
  /\ ruling' = [ruling EXCEPT ![c] = r]
  /\ status' = [status EXCEPT ![c] = StatusUnder[r]]
  /\ UNCHANGED consent

Answer(c, a) ==
  /\ status[c] = "waiting" /\ consent[c] = "none"
  /\ consent' = [consent EXCEPT ![c] = a]
  /\ UNCHANGED <<status, ruling>>

Proceed(c) ==
  /\ status[c] = "waiting" /\ consent[c] # "none"
  /\ status' = [status EXCEPT ![c] =
                  IF consent[c] = "given" THEN "cleared" ELSE "refused"]
  /\ UNCHANGED <<ruling, consent>>

Finish(c) ==
  /\ status[c] = "cleared"
  /\ status' = [status EXCEPT ![c] = "finished"]
  /\ UNCHANGED <<ruling, consent>>

GateNext ==
  \E c \in Calls :
    \/ \E r \in {"allow", "require_approval", "deny"} : RuleOn(c, r)
    \/ \E a \in {"given", "withheld"} : Answer(c, a)
    \/ Proceed(c)
    \/ Finish(c)

GateSpec == GateInit /\ [][GateNext]_gateVars
=============================================================================
