-------------------------------- MODULE Doctor --------------------------------
(***************************************************************************)
(* `habena doctor` (doctor/*, cli/commands/doctor.ts): seven checks, each  *)
(* a verdict on the machine it runs on, their selection, the automatic     *)
(* repair and the exit code.                                               *)
(*                                                                         *)
(* A machine is a record of what the checks look at: socket, what answers  *)
(* at the proxy's socket; queue, the ages in minutes of the approvals that *)
(* wait; database, servers, assistant; node, the state of the runtime and  *)
(* its native module, and rebuild, the state a rebuild leaves; skew and    *)
(* online, for the clock.                                                  *)
(***************************************************************************)
EXTENDS Naturals, Sequences, SequencesExt, FiniteSetsExt

ALL_CHECKS ==
  <<"proxy-reachable", "audit-db-writable", "downstream-reachable", "approval-queue-draining",
    "openclaw-pointed-at-us", "node-version", "clock-skew">>

(* Socket: "missing", a "file", "refused", "silent" (it connects and says    *)
(* nothing), "foreign" (says something else than hello), or "proxy".         *)
proxyReachableCheck(m) == IF m.socket = "proxy" THEN "pass" ELSE "fail"

(* Node: "old", "mismatch" (the native module was built for another          *)
(* version), "broken" (it does not load for another reason) or "works".      *)
Loads(m) == m.node \in {"works", "old"}

(* The database: "absent", "empty" (no table), "locked" (it cannot be        *)
(* written) or "writable"; nothing of it opens without the native module.    *)
auditDbWritableCheck(m) ==
  IF m.database = "absent" THEN "warn"
  ELSE IF ~Loads(m) THEN "fail"
  ELSE [empty |-> "warn", locked |-> "fail", writable |-> "pass"][m.database]

(* Servers: the states the configured ones come up in.  With a configuration *)
(* that does not parse the check throws, which counts as a failure.          *)
downstreamReachableCheck(m) ==
  IF "unparsed" \in m.servers THEN "fail"
  ELSE IF m.servers = {} THEN "warn"
  ELSE IF m.servers \cap {"dead", "auth_failed"} # {} THEN "fail" ELSE "pass"

WARN_AGE == 10
FAIL_AGE == 30

(* What arrived in 750 ms is judged then; the timer that would report that   *)
(* nothing came is set for a second later, when the check has ended.  Only a *)
(* proxy replays its queue.                                                  *)
approvalQueueDrainingCheck(m) ==
  LET replayed == IF m.socket = "proxy" THEN m.queue ELSE {}
      oldest == Max(replayed \cup {0})
  IN  CASE m.socket = "missing"           -> "pass"
        [] m.socket \in {"file", "refused"} -> "warn"
        [] m.socket \in {"silent", "foreign", "proxy"} ->
             IF oldest >= FAIL_AGE THEN "fail" ELSE IF oldest >= WARN_AGE THEN "warn" ELSE "pass"

(* The assistant's file: "absent", "torn", "unlinked" (no entry of ours),    *)
(* "strange" (an entry that does not mention us), "moved" (its script is     *)
(* gone) or "linked".                                                        *)
openclawPointedAtUsCheck(m) ==
  CASE m.assistant \in {"absent", "linked"}         -> "pass"
    [] m.assistant = "strange"                      -> "warn"
    [] m.assistant \in {"torn", "unlinked", "moved"} -> "fail"

nodeVersionCheck(m) == IF m.node = "works" THEN "pass" ELSE "fail"
autoFixable(m) == m.node = "mismatch"
autoFix(m) == nodeVersionCheck([m EXCEPT !.node = m.rebuild])

WARN_SEC == 5
FAIL_SEC == 60

(* Skew: the seconds the clock is off; online, whether a date was to be had. *)
clockSkewCheck(m) ==
  CASE ~m.online -> "warn"
    [] m.online  -> IF m.skew < WARN_SEC THEN "pass" ELSE IF m.skew < FAIL_SEC THEN "warn" ELSE "fail"

run(check, m) ==
  CASE check = "proxy-reachable"         -> proxyReachableCheck(m)
    [] check = "audit-db-writable"       -> auditDbWritableCheck(m)
    [] check = "downstream-reachable"    -> downstreamReachableCheck(m)
    [] check = "approval-queue-draining" -> approvalQueueDrainingCheck(m)
    [] check = "openclaw-pointed-at-us"  -> openclawPointedAtUsCheck(m)
    [] check = "node-version"            -> nodeVersionCheck(m)
    [] check = "clock-skew"              -> clockSkewCheck(m)

(* The checks run one after the other; a repair, which only node-version     *)
(* has, comes with its check.                                                *)
runDoctor(m, only, skip, fix) ==
  LET selected == SelectSeq(ALL_CHECKS, LAMBDA c : IF only # {} THEN c \in only ELSE c \notin skip)
      Fixes(c) == fix /\ c = "node-version" /\ autoFixable(m)
  IN  [k \in DOMAIN selected |->
         [name |-> selected[k],
          status |-> IF Fixes(selected[k]) THEN autoFix(m) ELSE run(selected[k], m)]]

doctorCommand(results) == IF \E k \in DOMAIN results : results[k].status = "fail" THEN 1 ELSE 0

-----------------------------------------------------------------------------
Machines ==
  [socket : {"missing", "file", "refused", "silent", "foreign", "proxy"},
   queue : {{}, {4}, {2, 12}, {31}},
   database : {"absent", "empty", "locked", "writable"},
   servers : {{}, {"unparsed"}, {"alive"}, {"alive", "dead"}, {"alive", "auth_failed"}},
   assistant : {"absent", "torn", "unlinked", "strange", "moved", "linked"},
   node : {"old", "mismatch", "broken", "works"}, rebuild : {"broken", "works"},
   skew : {4, 60}, online : BOOLEAN]

Report(m) == runDoctor(m, {}, {}, FALSE)
IsClean(results) == \A k \in DOMAIN results : results[k].status = "pass"

(* Sabotage of what a check looks at shows in the report of all checks       *)
(* ("After an intentional sabotage of each check's invariant, `doctor` flags *)
(* it", docs/specs/2026-04-15-phase9-doctor-and-audit.md).                   *)
ASSUME SabotageIsFlagged ==
  \A m \in Machines :
    \/ /\ m.socket = "proxy" /\ m.database = "writable" /\ m.servers = {"alive"} /\ m.node = "works"
       /\ m.assistant \in {"absent", "linked"} /\ m.online /\ m.skew < WARN_SEC
       /\ \A age \in m.queue : age < WARN_AGE
    \/ ~IsClean(Report(m))

(* A proxy that hangs has no approvals waiting, to the check of the queue:   *)
(* its warning "IPC connected but no replay frames received" is never given. *)
ASSUME HungProxyHasNoQueue ==
  \A m \in Machines : m.socket = "silent" => approvalQueueDrainingCheck(m) = "pass"

(* Under the default timeout of five minutes no approval grows old enough    *)
(* for the check, which is there to warn "BEFORE the agent gets a surprising *)
(* deny" (approval-queue-draining.ts).                                       *)
ASSUME DefaultTimeoutIsNeverStale ==
  \A m \in Machines :
    m.socket = "proxy" /\ (\A age \in m.queue : age <= 5) => approvalQueueDrainingCheck(m) = "pass"

(* A repair that works leaves the failure of the database, which was looked  *)
(* at before it: `doctor --fix` exits with an error, a second run does not.  *)
ASSUME RepairComesTooLate ==
  \E m \in Machines :
    /\ doctorCommand(runDoctor(m, {}, {}, TRUE)) = 1
    /\ doctorCommand(Report([m EXCEPT !.node = m.rebuild])) = 0

(* A name that is no check's selects none: the command succeeds anywhere.    *)
ASSUME MisspelledOnlyPasses ==
  \A m \in Machines : doctorCommand(runDoctor(m, {"proxy"}, {}, FALSE)) = 0
===============================================================================
