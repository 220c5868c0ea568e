----------------------------- MODULE ChatManager -----------------------------
(***************************************************************************)
(* The chat channel manager (chat/manager.ts) with its limiter             *)
(* (chat/ratelimit.ts), the Telegram binding's view of it                  *)
(* (chat/telegram-binding.ts) and the bridge it owns.  A bridge event is   *)
(* handled by the manager in the same turn, so each step below is one      *)
(* socket event, timer or inbound message with everything it causes.       *)
(*                                                                         *)
(* The texts and the replay ring of the chat are left out.                 *)
(***************************************************************************)
EXTENDS OpenClawBridge

CONSTANTS
  From,         (* the channel each message comes from: "web" or "telegram"  *)
  QueueDepth,   (* messages that may wait behind the active run              *)
  Limit         (* telegram messages per rolling window                      *)

ASSUME ManagerAssumption ==
  /\ From \in [Messages -> {"web", "telegram"}]
  /\ QueueDepth \in Nat /\ Limit \in Nat

VARIABLES
  active,             (* the channel of the run in progress, or "none"           *)
  waiting,            (* the queue                                               *)
  fate,               (* history: what subscribers were told of each message     *)
  stamps,             (* telegram messages in the limiter's window               *)
  tripped,            (* the telegram limiter is disarmed                        *)
  telegramRunActive,  (* the binding forwards the next reply to the phone        *)
  phone               (* history: runs whose reply went to the phone             *)

limiter == <<stamps, tripped>>
managerVars == <<active, waiting, fate, limiter, telegramRunActive, phone>>
vars == <<bridgeVars, managerVars>>

Fates == {"new", "rejected", "waiting", "running", "done", "cut"}

ChatTypeOK ==
  /\ BridgeTypeOK
  /\ active \in {"none", "web", "telegram"}
  /\ waiting \in Seq(Messages) /\ Len(waiting) <= QueueDepth
  /\ fate \in [Messages -> Fates]
  /\ stamps \in 0..Limit
  /\ tripped \in BOOLEAN
  /\ telegramRunActive \in BOOLEAN
  /\ phone \in SUBSET Messages

Init ==
  /\ BridgeInit
  /\ active = "none"
  /\ waiting = << >>
  /\ fate = [m \in Messages |-> "new"]
  /\ stamps = 0 /\ tripped = FALSE
  /\ telegramRunActive = FALSE
  /\ phone = {}
-----------------------------------------------------------------------------
(* Faulty variant: the binding goes on forwarding to the phone. *)
drainKeepingBinding(q, fated, awaited) ==
  /\ waiting' = IF q = << >> THEN q ELSE Tail(q)
  /\ active' = IF q = << >> THEN "none" ELSE From[Head(q)]
  /\ telegramRunActive' = (telegramRunActive \/ (q # << >> /\ From[Head(q)] = "telegram"))
  /\ IF q = << >>
     THEN fate' = fated /\ pendingSend' = awaited /\ UNCHANGED <<uplink, carrier>>
     ELSE fate' = [fated EXCEPT ![Head(q)] = "running"] /\ send(Head(q))

(* drain() on queue q once every message has the fate in `fated`: the first  *)
(* of q is sent and becomes the active run; without one, the bridge still    *)
(* awaits the reply to `awaited`.                                            *)
drain(q, fated, awaited) ==
  /\ waiting' = IF q = << >> THEN q ELSE Tail(q)
  /\ active' = IF q = << >> THEN "none" ELSE From[Head(q)]
  /\ telegramRunActive' = (q # << >> /\ From[Head(q)] = "telegram")
  /\ IF q = << >>
     THEN fate' = fated /\ pendingSend' = awaited /\ UNCHANGED <<uplink, carrier>>
     ELSE fate' = [fated EXCEPT ![Head(q)] = "running"] /\ send(Head(q))
-----------------------------------------------------------------------------
(* handleInbound.                                                            *)

Limited(m) == From[m] = "telegram"
tryAcquire(m) == ~Limited(m) \/ (~tripped /\ stamps < Limit)

(* Faulty variant: one message more than the depth. *)
FullBeyond == Len(waiting) > QueueDepth /\ active # "none"

Full == Len(waiting) >= QueueDepth /\ active # "none"

Reject(m) ==
  /\ fate' = [fate EXCEPT ![m] = "rejected"]
  /\ UNCHANGED <<bridgeVars, active, waiting, telegramRunActive, phone>>

RejectOffline(m) ==
  /\ fate[m] = "new" /\ ~up
  /\ Reject(m)
  /\ UNCHANGED limiter

(* The message too many disarms the channel. *)
RejectRateLimited(m) ==
  /\ fate[m] = "new" /\ up /\ ~tryAcquire(m)
  /\ Reject(m)
  /\ tripped' = TRUE
  /\ UNCHANGED stamps

Stamp(m) == stamps' = (IF Limited(m) THEN stamps + 1 ELSE stamps) /\ UNCHANGED tripped

(* A message turned away as busy has used up its place in the window. *)
RejectBusy(m) ==
  /\ fate[m] = "new" /\ up /\ tryAcquire(m) /\ Full
  /\ Reject(m)
  /\ Stamp(m)

(* Faulty variant: an accepted message is sent whatever is running. *)
AcceptAndSend(m) ==
  /\ fate[m] = "new" /\ up /\ tryAcquire(m) /\ ~Full
  /\ Stamp(m)
  /\ drain(Append(waiting, m), [fate EXCEPT ![m] = "waiting"], pendingSend)
  /\ UNCHANGED <<stopped, up, ws, reconnectTimer, opened, activeRun, downlink, gateway,
                 phone>>

Accept(m) ==
  /\ fate[m] = "new" /\ up /\ tryAcquire(m) /\ ~Full
  /\ Stamp(m)
  /\ IF active = "none"
     THEN drain(Append(waiting, m), [fate EXCEPT ![m] = "waiting"], pendingSend)
     ELSE /\ waiting' = Append(waiting, m)
          /\ fate' = [fate EXCEPT ![m] = "waiting"]
          /\ UNCHANGED <<active, telegramRunActive, pendingSend, uplink, carrier>>
  /\ UNCHANGED <<stopped, up, ws, reconnectTimer, opened, activeRun, downlink, gateway,
                 phone>>

(* An old stamp leaves the window. *)
WindowSlides ==
  /\ stamps > 0
  /\ stamps' = stamps - 1
  /\ UNCHANGED <<bridgeVars, active, waiting, fate, tripped, telegramRunActive, phone>>

rearm ==
  /\ stamps' = 0 /\ tripped' = FALSE
  /\ UNCHANGED <<bridgeVars, active, waiting, fate, telegramRunActive, phone>>
-----------------------------------------------------------------------------
(* Bridge events.                                                            *)

(* Faulty variant: the run in progress is rejected with the queue. *)
OfflineRejectingRun ==
  /\ active' = "none"
  /\ waiting' = << >>
  /\ telegramRunActive' = FALSE
  /\ fate' = [m \in Messages |->
                IF fate[m] \in {"waiting", "running"} THEN "rejected" ELSE fate[m]]
  /\ UNCHANGED <<limiter, phone>>

(* connection down: no active run, what waited is rejected. *)
Offline ==
  /\ active' = "none"
  /\ waiting' = << >>
  /\ telegramRunActive' = FALSE
  /\ fate' = [m \in Messages |->
                CASE fate[m] = "waiting" -> "rejected"
                  [] fate[m] = "running" -> "cut"
                  [] OTHER -> fate[m]]
  /\ UNCHANGED <<limiter, phone>>

NoticeDown == IF up THEN Offline ELSE UNCHANGED managerVars

ConnectionStep ==
  \/ start /\ UNCHANGED managerVars
  \/ Reconnect /\ UNCHANGED managerVars
  \/ /\ HandshakeCompletes
     /\ telegramRunActive' = FALSE
     /\ UNCHANGED <<active, waiting, fate, limiter, phone>>
  \/ HandshakeRefused /\ UNCHANGED managerVars
  \/ HandshakeFails /\ UNCHANGED managerVars
  \/ SocketCloses /\ NoticeDown
  \/ stop /\ NoticeDown

GatewayStep ==
  /\ \/ \E m \in Messages, accepted \in BOOLEAN : GatewayAnswers(m, accepted)
     \/ \E m \in Messages, kind \in {"final", "error"} : RunEnds(m, kind)
     \/ AmbientRunEnds
  /\ UNCHANGED managerVars

(* run_state finished or error: the run is over, the next one starts. *)
RunOver(awaited) ==
  drain(waiting, [m \in Messages |-> IF fate[m] = "running" THEN "done" ELSE fate[m]],
        awaited)

NextFrame == Head(downlink)
Receive == downlink # << >> /\ downlink' = Tail(downlink)
socketVars == <<stopped, up, ws, reconnectTimer, opened, gateway>>

ReceiveAck ==
  /\ Receive
  /\ NextFrame.kind = "ack" /\ NextFrame.run = pendingSend
  /\ pendingSend' = NoRun
  /\ activeRun' = NextFrame.run
  /\ UNCHANGED <<socketVars, uplink, carrier, managerVars>>

(* Faulty variant: the reply ceases to be awaited after the error is emitted, *)
(* and with it the reply to the message the error let go.                     *)
ReceiveNackLate ==
  /\ Receive
  /\ NextFrame.kind = "nack" /\ NextFrame.run = pendingSend
  /\ waiting' = IF waiting = << >> THEN waiting ELSE Tail(waiting)
  /\ active' = IF waiting = << >> THEN "none" ELSE From[Head(waiting)]
  /\ telegramRunActive' = (active' = "telegram")
  /\ fate' = [m \in Messages |->
                IF m = NextFrame.run THEN "done"
                ELSE IF waiting # << >> /\ m = Head(waiting) THEN "running" ELSE fate[m]]
  /\ pendingSend' = NoRun
  /\ uplink' = IF waiting = << >> THEN uplink ELSE uplink \cup {Head(waiting)}
  /\ carrier' = IF waiting = << >> THEN carrier ELSE [carrier EXCEPT ![Head(waiting)] = ws]
  /\ UNCHANGED <<socketVars, activeRun, limiter, phone>>

(* The reply is no longer awaited when the error is emitted, so that of a    *)
(* message the error lets go is awaited in its place.                        *)
ReceiveNack ==
  /\ Receive
  /\ NextFrame.kind = "nack" /\ NextFrame.run = pendingSend
  /\ RunOver(NoRun)
  /\ UNCHANGED <<socketVars, activeRun, limiter, phone>>

(* Faulty variant: the first closing event on the bus ends the run. *)
OursIfAny(frame) == activeRun # NoRun

Ours(frame) == frame.run = activeRun

(* final emits the reply, then the end of the run; error only the latter. *)
ReceiveEvent ==
  /\ Receive
  /\ NextFrame.kind \in {"final", "error"} /\ Ours(NextFrame)
  /\ phone' = IF NextFrame.kind = "final" /\ telegramRunActive /\ NextFrame.run \in Messages
              THEN phone \cup {NextFrame.run} ELSE phone
  /\ RunOver(pendingSend)
  /\ UNCHANGED <<socketVars, activeRun, limiter>>

IgnoreEvent ==
  /\ Receive
  /\ NextFrame.kind \in {"final", "error"} /\ ~Ours(NextFrame)
  /\ UNCHANGED <<socketVars, correlation, uplink, carrier, managerVars>>
-----------------------------------------------------------------------------
Next ==
  \/ \E m \in Messages :
       \/ RejectOffline(m)
       \/ RejectRateLimited(m)
       \/ RejectBusy(m)
       \/ Accept(m)
  \/ WindowSlides
  \/ rearm
  \/ ConnectionStep
  \/ GatewayStep
  \/ ReceiveAck
  \/ ReceiveNack
  \/ ReceiveEvent
  \/ IgnoreEvent

Spec == Init /\ [][Next]_vars

(* Timers and sockets deliver; of the gateway it is assumed that it answers  *)
(* what it received and that its runs end.                                   *)
Fairness ==
  /\ WF_vars(\E m \in Messages, accepted \in BOOLEAN :
               GatewayAnswers(m, accepted) /\ UNCHANGED managerVars)
  /\ \A m \in Messages :
       WF_vars(\E kind \in {"final", "error"} : RunEnds(m, kind) /\ UNCHANGED managerVars)
  /\ WF_vars(ReceiveAck \/ ReceiveNack \/ ReceiveEvent \/ IgnoreEvent)

FairSpec == Spec /\ Fairness
-----------------------------------------------------------------------------
(* The bridge is never stranded: while it is meant to be connected it has    *)
(* either a socket to hear from or a reconnect scheduled, and never both.    *)
NeverStranded == opened > 0 /\ ~stopped => (ws # 0 <=> ~reconnectTimer)

(* The gateway never runs two of the messages sent on the current connection. *)
OneRunAtATime ==
  \A m, n \in Messages :
    /\ gateway[m] = "running" /\ gateway[n] = "running"
    /\ ws # 0 /\ carrier[m] = ws /\ carrier[n] = ws
    => m = n

(* As long as the connection it was sent on lasts, a run is under its own    *)
(* channel's regime: the proxy's floor reads `active`.                       *)
RunKeepsItsChannel ==
  \A m \in Messages :
    ws # 0 /\ carrier[m] = ws /\ gateway[m] = "running" => active = From[m]

(* What a sender is told of a message is so: one reported as rejected was    *)
(* not and will not be run, the sender may repeat it; one reported as over   *)
(* got its own closing event or refusal, not another run's on the same bus.  *)
FateIsTrue ==
  \A m \in Messages :
    /\ fate[m] = "rejected" => gateway[m] = "none" /\ m \notin uplink
    /\ fate[m] = "done" => gateway[m] \in {"ended", "refused"}

(* Only replies to messages from the phone go to the phone. *)
ReplyReachesAsker == \A m \in phone : From[m] = "telegram"

(* Every accepted message is answered, rejected or reported cut off.         *)
AcceptedIsSettled ==
  \A m \in Messages :
    fate[m] \in {"waiting", "running"} ~> fate[m] \in {"rejected", "done", "cut"}

(* Stated by README.md (the floor "holds any run that started from a         *)
(* Telegram message") and not so once the connection drops: the run goes on  *)
(* at the gateway while `active` is cleared.                                 *)
FloorHoldsTelegramRuns ==
  \A m \in Messages :
    gateway[m] = "running" /\ From[m] = "telegram" /\ ~stopped => active = "telegram"
=============================================================================
