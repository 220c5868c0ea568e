------------------------------ MODULE ChatProofs ------------------------------
(***************************************************************************)
(* Proofs about the chat channel manager and its bridge, for any messages, *)
(* channels, queue depth and limit, and any number of connections.         *)
(***************************************************************************)
EXTENDS ChatManager, SequenceTheorems, TLAPS

(* The inductive invariant. *)

(* A socket or a timer, never both, and neither without start(); nothing is  *)
(* on the wire before the handshake.                                         *)
LineIsSound ==
  /\ NeverStranded
  /\ stopped \/ opened = 0 => ws = 0 /\ ~reconnectTimer
  /\ up => ws # 0
  /\ ~up => uplink = {} /\ downlink = << >>

(* The manager has a run only while the bridge is up: one message, sent on   *)
(* the current socket, whose channel is the active one.                      *)
RunIsCarried ==
  /\ \A m \in Messages :
       fate[m] = "running" => up /\ carrier[m] = ws /\ active = From[m]
  /\ \A m, n \in Messages : fate[m] = "running" /\ fate[n] = "running" => m = n
  /\ ~up => active = "none"
  /\ active = "none" => waiting = << >>
  /\ telegramRunActive => active = "telegram"

(* What waits is told so, and is in the queue once. *)
WaitingIsTold ==
  /\ \A k \in DOMAIN waiting : fate[waiting[k]] = "waiting"
  /\ \A j, k \in DOMAIN waiting : waiting[j] = waiting[k] => j = k

(* What a fate says of where its message has been. *)
FateIsCarried ==
  \A m \in Messages :
    /\ carrier[m] <= opened
    /\ fate[m] \in {"new", "waiting", "rejected"} => carrier[m] = 0
    /\ carrier[m] = 0 => gateway[m] = "none"
    /\ ws # 0 /\ carrier[m] = ws => fate[m] \in {"running", "done"}
    /\ gateway[m] = "running" => fate[m] \in {"running", "cut"}
    /\ fate[m] = "done" => gateway[m] \in {"ended", "refused"}

(* What is on its way to the gateway is the run whose reply is awaited. *)
UplinkIsAwaited ==
  \A m \in uplink : fate[m] = "running" /\ pendingSend = m /\ gateway[m] = "none"

(* What a frame from the gateway, in place k, says of its run. *)
FrameIsTrue(f) ==
  /\ f.kind = "ack" =>
       fate[f.run] = "running" /\ pendingSend = f.run /\ gateway[f.run] \in {"running", "ended"}
  /\ f.kind = "nack" =>
       fate[f.run] = "running" /\ pendingSend = f.run /\ gateway[f.run] = "refused"
  /\ f.kind \in {"final", "error"} =>
       gateway[f.run] = "ended" /\ fate[f.run] \in {"running", "cut"}

(* A run's frames are its reply and then its closing event, each once. *)
FramesAreTrue ==
  /\ \A k \in DOMAIN downlink : downlink[k].run \in Messages => FrameIsTrue(downlink[k])
  /\ \A j, k \in DOMAIN downlink :
       j < k /\ downlink[j].run = downlink[k].run /\ downlink[j].run \in Messages
       => downlink[j].kind = "ack" /\ downlink[k].kind \in {"final", "error"}

(* The run whose events are translated was sent on the current socket, and   *)
(* its reply is no longer awaited.                                           *)
ActiveRunIsOurs ==
  ws # 0 /\ activeRun # NoRun => carrier[activeRun] = ws /\ activeRun # pendingSend

IInv ==
  /\ ChatTypeOK
  /\ LineIsSound /\ RunIsCarried /\ WaitingIsTold /\ FateIsCarried
  /\ UplinkIsAwaited /\ FramesAreTrue /\ ActiveRunIsOurs
  /\ ReplyReachesAsker

-----------------------------------------------------------------------------
(* Sequences as they are used here. *)

LEMMA TailFacts ==
  ASSUME NEW S, NEW s \in Seq(S), s # << >>
  PROVE  /\ Head(s) \in S /\ Head(s) = s[1] /\ 1 \in DOMAIN s
         /\ Tail(s) \in Seq(S) /\ Len(Tail(s)) = Len(s) - 1
         /\ \A k \in DOMAIN Tail(s) : k + 1 \in DOMAIN s /\ Tail(s)[k] = s[k + 1] /\ k \in Nat \ {0}
<1>1. /\ Head(s) \in S /\ Tail(s) \in Seq(S) /\ Len(Tail(s)) = Len(s) - 1
      /\ \A k \in 1..Len(Tail(s)) : Tail(s)[k] = s[k + 1]
  BY HeadTailProperties
<1>2. /\ Len(s) \in Nat \ {0} /\ DOMAIN s = 1..Len(s) /\ DOMAIN Tail(s) = 1..Len(Tail(s))
  BY <1>1, EmptySeq, LenProperties
<1> QED
  BY <1>1, <1>2

LEMMA AppendFacts ==
  ASSUME NEW S, NEW s \in Seq(S), NEW e \in S
  PROVE  /\ Append(s, e) \in Seq(S) /\ Append(s, e) # << >> /\ Len(Append(s, e)) = Len(s) + 1
         /\ DOMAIN s = 1..Len(s) /\ Len(s) \in Nat
         /\ DOMAIN Append(s, e) = 1..(Len(s) + 1)
         /\ \A k \in DOMAIN s : Append(s, e)[k] = s[k]
         /\ Append(s, e)[Len(s) + 1] = e
<1>1. /\ Append(s, e) \in Seq(S) /\ Append(s, e) # << >> /\ Len(Append(s, e)) = Len(s) + 1
      /\ \A k \in 1..Len(s) : Append(s, e)[k] = s[k]
      /\ Append(s, e)[Len(s) + 1] = e
  BY AppendProperties
<1>2. /\ Len(s) \in Nat /\ DOMAIN s = 1..Len(s)
      /\ DOMAIN Append(s, e) = 1..Len(Append(s, e))
  BY <1>1, LenProperties
<1> QED
  BY <1>1, <1>2

(* A channel is not "none". *)
LEMMA ChannelIsReal ==
  \A m \in Messages : From[m] \in {"web", "telegram"}
  BY ManagerAssumption

-----------------------------------------------------------------------------
(* drain() as it is called: on a queue of messages that were never sent,     *)
(* once no run is left and nothing is on its way to the gateway; what comes  *)
(* from it still closes runs that were cut.                                  *)
DrainIsDue(q, fated, awaited) ==
  /\ up /\ drain(q, fated, awaited)
  /\ UNCHANGED <<stopped, up, ws, reconnectTimer, opened, activeRun, gateway>>
  /\ q \in Seq(Messages) /\ (q = << >> \/ Len(q) - 1 <= QueueDepth)
  /\ fated \in [Messages -> Fates]
  /\ awaited \in Messages \cup {NoRun} /\ (activeRun # NoRun => awaited # activeRun)
  /\ uplink = {} /\ downlink' \in Seq(Frame)
  /\ \A k \in DOMAIN q : fated[q[k]] = "waiting"
  /\ \A j, k \in DOMAIN q : q[j] = q[k] => j = k
  /\ \A m \in Messages :
       /\ fated[m] # "running"
       /\ fated[m] \in {"new", "waiting", "rejected"} => carrier[m] = 0
       /\ carrier[m] = ws => fated[m] = "done"
       /\ gateway[m] = "running" => fated[m] = "cut"
       /\ fated[m] = "done" => gateway[m] \in {"ended", "refused"}
  /\ \A k \in DOMAIN downlink' :
       downlink'[k].run \in Messages =>
         /\ downlink'[k].kind \in {"final", "error"}
         /\ gateway[downlink'[k].run] = "ended" /\ fated[downlink'[k].run] = "cut"
  /\ \A j, k \in DOMAIN downlink' :
       j < k /\ downlink'[j].run = downlink'[k].run => downlink'[j].run \notin Messages
  /\ stamps' \in 0..Limit /\ tripped' \in BOOLEAN
  /\ phone' \in SUBSET Messages /\ ReplyReachesAsker'

LEMMA DrainKeeps ==
  ASSUME IInv, NEW q, NEW fated, NEW awaited, DrainIsDue(q, fated, awaited)
  PROVE  IInv'
<1> USE DEF IInv, ChatTypeOK, BridgeTypeOK, DrainIsDue
<1>1. ws # 0 /\ ws = opened /\ ws \in 0..MaxSockets /\ ws' = ws
  BY DEF LineIsSound
<1>2. waiting' = (IF q = << >> THEN q ELSE Tail(q))
  BY DEF drain
<1>3. LineIsSound'
  BY DEF LineIsSound, NeverStranded
<1>4. CASE q = << >>
  <2>1. /\ waiting' = << >> /\ active' = "none" /\ telegramRunActive' = FALSE
        /\ fate' = fated /\ pendingSend' = awaited /\ UNCHANGED <<uplink, carrier>>
    BY <1>4 DEF drain
  <2>2. ChatTypeOK'
    <3>1. waiting' \in Seq(Messages) /\ Len(waiting') <= QueueDepth
      BY <2>1, EmptySeq, ManagerAssumption
    <3> QED
      BY <2>1, <3>1
  <2>3. RunIsCarried'
    BY <2>1, ChannelIsReal DEF RunIsCarried
  <2>4. WaitingIsTold'
    BY <2>1 DEF WaitingIsTold
  <2>5. FateIsCarried'
    BY <2>1, <1>1 DEF FateIsCarried
  <2>6. UplinkIsAwaited'
    BY <2>1 DEF UplinkIsAwaited
  <2>7. FramesAreTrue'
    BY <2>1 DEF FramesAreTrue, FrameIsTrue
  <2>8. ActiveRunIsOurs'
    BY <2>1 DEF ActiveRunIsOurs
  <2> QED
    BY <1>3, <2>2, <2>3, <2>4, <2>5, <2>6, <2>7, <2>8
<1>5. CASE q # << >>
  <2> DEFINE h == Head(q)
  <2>1. /\ h \in Messages /\ h = q[1] /\ 1 \in DOMAIN q
        /\ Tail(q) \in Seq(Messages) /\ Len(Tail(q)) = Len(q) - 1
        /\ \A k \in DOMAIN Tail(q) : k + 1 \in DOMAIN q /\ Tail(q)[k] = q[k + 1] /\ k \in Nat \ {0}
    BY <1>5, TailFacts
  <2>2. /\ waiting' = Tail(q) /\ active' = From[h]
        /\ telegramRunActive' = (From[h] = "telegram")
        /\ fate' = [fated EXCEPT ![h] = "running"]
        /\ pendingSend' = h /\ uplink' = uplink \cup {h}
        /\ carrier' = [carrier EXCEPT ![h] = ws]
    BY <1>5 DEF drain, send
  <2> HIDE DEF h
  <2>3. fated[h] = "waiting" /\ carrier[h] = 0 /\ gateway[h] = "none"
    BY <2>1 DEF FateIsCarried
  <2>4. /\ fate'[h] = "running" /\ carrier'[h] = ws
        /\ \A m \in Messages \ {h} : fate'[m] = fated[m] /\ carrier'[m] = carrier[m]
    BY <2>1, <2>2
  <2>5. ChatTypeOK'
    <3>1. fate' \in [Messages -> Fates] /\ carrier' \in [Messages -> 0..MaxSockets]
      BY <1>1, <2>2 DEF Fates
    <3>2. Len(waiting') <= QueueDepth /\ waiting' \in Seq(Messages)
      BY <1>5, <2>1, <2>2
    <3>3. active' \in {"none", "web", "telegram"} /\ telegramRunActive' \in BOOLEAN
      BY <2>1, <2>2, ChannelIsReal
    <3> QED
      BY <2>1, <2>2, <3>1, <3>2, <3>3
  <2>6. RunIsCarried'
    <3>1. \A m \in Messages : fate'[m] = "running" => m = h
      BY <2>4
    <3>2. up' /\ carrier'[h] = ws' /\ active' = From[h]
      BY <1>1, <2>2, <2>4
    <3>3. active' # "none" /\ (telegramRunActive' => active' = "telegram")
      BY <2>1, <2>2, ChannelIsReal
    <3> QED
      BY <3>1, <3>2, <3>3 DEF RunIsCarried
  <2>7. WaitingIsTold'
    <3>1. ASSUME NEW k \in DOMAIN Tail(q) PROVE Tail(q)[k] \in Messages \ {h} /\ fate'[Tail(q)[k]] = "waiting"
      <4>1. Tail(q)[k] = q[k + 1] /\ k + 1 # 1 /\ k + 1 \in DOMAIN q
        BY <2>1
      <4>2. q[k + 1] # h /\ q[k + 1] \in Messages
        BY <2>1, <4>1, LenProperties
      <4> QED
        BY <4>1, <4>2, <2>4
    <3>2. \A j, k \in DOMAIN Tail(q) : Tail(q)[j] = Tail(q)[k] => j = k
      BY <2>1
    <3> QED
      BY <2>2, <3>1, <3>2 DEF WaitingIsTold
  <2>8. FateIsCarried'
    BY <1>1, <2>1, <2>3, <2>4 DEF FateIsCarried
  <2>9. UplinkIsAwaited'
    BY <2>1, <2>2, <2>3, <2>4 DEF UplinkIsAwaited
  <2>10. FramesAreTrue'
    <3>1. \A k \in DOMAIN downlink' : downlink'[k].run \in Messages => downlink'[k].run # h
      BY <2>3
    <3> QED
      BY <3>1, <2>4 DEF FramesAreTrue, FrameIsTrue
  <2>11. ActiveRunIsOurs'
    BY <1>1, <2>1, <2>2, <2>3, <2>4 DEF ActiveRunIsOurs
  <2> QED
    BY <1>3, <2>5, <2>6, <2>7, <2>8, <2>9, <2>10, <2>11
<1> QED
  BY <1>4, <1>5

-----------------------------------------------------------------------------
(* Inbound messages and the limiter. *)

LEMMA RejectKeeps ==
  ASSUME IInv, NEW m \in Messages, fate[m] = "new", Reject(m),
         stamps' \in 0..Limit, tripped' \in BOOLEAN
  PROVE  IInv'
<1> USE DEF IInv, ChatTypeOK, BridgeTypeOK
<1>1. /\ fate' = [fate EXCEPT ![m] = "rejected"]
      /\ UNCHANGED <<stopped, up, ws, reconnectTimer, opened, pendingSend, activeRun,
                     uplink, downlink, gateway, carrier>>
      /\ UNCHANGED <<active, waiting, telegramRunActive, phone>>
  BY DEF Reject, bridgeVars, correlation, wire
<1>2. /\ fate' \in [Messages -> Fates] /\ fate'[m] = "rejected"
      /\ \A n \in Messages \ {m} : fate'[n] = fate[n]
  BY <1>1 DEF Fates
<1>3. ChatTypeOK'
  BY <1>1, <1>2
<1>4. LineIsSound' /\ ActiveRunIsOurs' /\ ReplyReachesAsker'
  BY <1>1 DEF LineIsSound, NeverStranded, ActiveRunIsOurs, ReplyReachesAsker
<1>5. RunIsCarried'
  BY <1>1, <1>2 DEF RunIsCarried
<1>6. WaitingIsTold'
  <2>1. \A k \in DOMAIN waiting : waiting[k] \in Messages
    BY LenProperties
  <2> QED
    BY <2>1, <1>1, <1>2 DEF WaitingIsTold
<1>7. FateIsCarried'
  BY <1>1, <1>2 DEF FateIsCarried
<1>8. UplinkIsAwaited'
  BY <1>1, <1>2 DEF UplinkIsAwaited
<1>9. FramesAreTrue'
  BY <1>1, <1>2 DEF FramesAreTrue, FrameIsTrue
<1> QED
  BY <1>3, <1>4, <1>5, <1>6, <1>7, <1>8, <1>9

(* The limiter's own steps. *)
LEMMA LimiterKeeps ==
  ASSUME IInv, WindowSlides \/ rearm
  PROVE  IInv'
<1> USE DEF IInv, ChatTypeOK, BridgeTypeOK
<1>1. /\ UNCHANGED <<stopped, up, ws, reconnectTimer, opened, pendingSend, activeRun,
                     uplink, downlink, gateway, carrier>>
      /\ UNCHANGED <<active, waiting, fate, telegramRunActive, phone>>
  BY DEF WindowSlides, rearm, bridgeVars, correlation, wire
<1>2. stamps' \in 0..Limit /\ tripped' \in BOOLEAN
  <2>1. CASE WindowSlides
    BY <2>1, ManagerAssumption DEF WindowSlides
  <2>2. CASE rearm
    <3>1. stamps' = 0 /\ tripped' = FALSE
      BY <2>2 DEF rearm
    <3>2. 0 \in 0..Limit
      BY ManagerAssumption
    <3> QED
      BY <3>1, <3>2, Zenon
  <2> QED
    BY <2>1, <2>2
<1> QED
  BY <1>1, <1>2 DEF LineIsSound, NeverStranded, RunIsCarried, WaitingIsTold, FateIsCarried,
                    UplinkIsAwaited, FramesAreTrue, FrameIsTrue, ActiveRunIsOurs, ReplyReachesAsker

LEMMA AcceptKeeps ==
  ASSUME IInv, NEW m \in Messages, Accept(m)
  PROVE  IInv'
<1> USE DEF IInv, ChatTypeOK, BridgeTypeOK
<1> DEFINE q == Append(waiting, m)
           fated == [fate EXCEPT ![m] = "waiting"]
<1>1. /\ fate[m] = "new" /\ up
      /\ IF active = "none" THEN drain(q, fated, pendingSend)
         ELSE /\ waiting' = q /\ fate' = fated
              /\ UNCHANGED <<active, telegramRunActive, pendingSend, uplink, carrier>>
      /\ UNCHANGED <<stopped, up, ws, reconnectTimer, opened, activeRun, downlink, gateway, phone>>
  BY DEF Accept
<1>2. stamps' \in 0..Limit /\ tripped' \in BOOLEAN
  BY ManagerAssumption DEF Accept, Stamp, tryAcquire
<1>3. /\ fated \in [Messages -> Fates] /\ fated[m] = "waiting"
      /\ \A n \in Messages \ {m} : fated[n] = fate[n]
  BY DEF Fates
<1>4. /\ q \in Seq(Messages) /\ q # << >> /\ Len(q) = Len(waiting) + 1 /\ Len(waiting) \in Nat
      /\ DOMAIN waiting = 1..Len(waiting) /\ DOMAIN q = 1..(Len(waiting) + 1)
      /\ \A k \in DOMAIN waiting : q[k] = waiting[k] /\ waiting[k] \in Messages
      /\ q[Len(waiting) + 1] = m
  BY AppendFacts, LenProperties
<1>5. \A k \in DOMAIN waiting : waiting[k] # m
  BY <1>1 DEF WaitingIsTold
<1> HIDE DEF q, fated
<1>6. /\ \A k \in DOMAIN q : fated[q[k]] = "waiting"
      /\ \A j, k \in DOMAIN q : q[j] = q[k] => j = k
  <2>1. \A k \in DOMAIN q : k \in DOMAIN waiting \/ k = Len(waiting) + 1
    BY <1>4
  <2>2. \A k \in DOMAIN waiting : fated[q[k]] = "waiting"
    BY <1>3, <1>4, <1>5 DEF WaitingIsTold
  <2>3. \A j, k \in DOMAIN waiting : q[j] = q[k] => j = k
    BY <1>4 DEF WaitingIsTold
  <2>4. \A k \in DOMAIN waiting : q[k] # q[Len(waiting) + 1]
    BY <1>4, <1>5
  <2>5. \A k \in DOMAIN q : fated[q[k]] = "waiting"
    BY <1>3, <1>4, <2>1, <2>2
  <2> QED
    BY <2>1, <2>3, <2>4, <2>5
<1>7. ws # 0 /\ carrier[m] = 0 /\ gateway[m] = "none"
  BY <1>1 DEF LineIsSound, FateIsCarried
<1>8. CASE active = "none"
  <2>1. waiting = << >> /\ \A n \in Messages : fate[n] # "running"
    BY <1>8, ChannelIsReal DEF RunIsCarried
  <2>2. Len(q) - 1 <= QueueDepth
    BY <1>4
  <2>3. uplink = {}
    BY <2>1 DEF UplinkIsAwaited
  <2>4. \A n \in Messages :
          /\ fated[n] # "running"
          /\ fated[n] \in {"new", "waiting", "rejected"} => carrier[n] = 0
          /\ carrier[n] = ws => fated[n] = "done"
          /\ gateway[n] = "running" => fated[n] = "cut"
          /\ fated[n] = "done" => gateway[n] \in {"ended", "refused"}
    BY <2>1, <1>3, <1>7 DEF FateIsCarried
  <2>5. ASSUME NEW k \in DOMAIN downlink, downlink[k].run \in Messages
        PROVE  /\ downlink[k].kind \in {"final", "error"}
               /\ gateway[downlink[k].run] = "ended" /\ fated[downlink[k].run] = "cut"
    <3>1. downlink[k] \in Frame
      BY LenProperties
    <3>2. FrameIsTrue(downlink[k])
      BY <2>5 DEF FramesAreTrue
    <3> QED
      BY <2>1, <2>5, <3>1, <3>2, <1>3, <1>7 DEF FrameIsTrue, Frame
  <2>6. \A j, k \in DOMAIN downlink :
          j < k /\ downlink[j].run = downlink[k].run => downlink[j].run \notin Messages
    BY <2>5 DEF FramesAreTrue
  <2>7. activeRun # NoRun => pendingSend # activeRun
    BY <1>7 DEF ActiveRunIsOurs
  <2>8. ReplyReachesAsker'
    BY <1>1 DEF ReplyReachesAsker
  <2>9. downlink' = downlink /\ gateway' = gateway /\ phone' = phone
    BY <1>1
  <2>10. drain(q, fated, pendingSend)
    BY <1>1, <1>8
  <2>11. DrainIsDue(q, fated, pendingSend)
    BY <1>1, <1>2, <1>3, <1>4, <1>6, <2>2, <2>3, <2>4, <2>5, <2>6, <2>7, <2>8, <2>9, <2>10
       DEF DrainIsDue
  <2> HIDE DEF IInv
  <2> QED
    BY <2>11, DrainKeeps
<1>9. CASE active # "none"
  <2>1. /\ waiting' = q /\ fate' = fated
        /\ UNCHANGED <<active, telegramRunActive, pendingSend, uplink, carrier>>
    BY <1>1, <1>9
  <2>2. Len(waiting') <= QueueDepth
    BY <1>4, <1>9, <2>1, ManagerAssumption DEF Accept, Full
  <2>3. ChatTypeOK'
    BY <1>1, <1>2, <1>3, <1>4, <2>1, <2>2
  <2>4. LineIsSound' /\ ActiveRunIsOurs' /\ ReplyReachesAsker'
    BY <1>1, <2>1 DEF LineIsSound, NeverStranded, ActiveRunIsOurs, ReplyReachesAsker
  <2>5. RunIsCarried'
    BY <1>1, <1>3, <1>9, <2>1 DEF RunIsCarried
  <2>6. WaitingIsTold'
    BY <1>6, <2>1 DEF WaitingIsTold
  <2>7. FateIsCarried'
    BY <1>1, <1>3, <1>7, <2>1 DEF FateIsCarried
  <2>8. UplinkIsAwaited'
    BY <1>1, <1>3, <2>1 DEF UplinkIsAwaited
  <2>9. FramesAreTrue'
    BY <1>1, <1>3, <2>1 DEF FramesAreTrue, FrameIsTrue
  <2> QED
    BY <2>3, <2>4, <2>5, <2>6, <2>7, <2>8, <2>9
<1> QED
  BY <1>8, <1>9

-----------------------------------------------------------------------------
(* The connection. *)

(* A new socket: nothing was sent on it yet. *)
LEMMA ConnectKeeps ==
  ASSUME IInv, ws = 0, connect, up' = FALSE, reconnectTimer' = FALSE, stopped' = FALSE,
         UNCHANGED wire, UNCHANGED managerVars
  PROVE  IInv'
<1> USE DEF IInv, ChatTypeOK, BridgeTypeOK
<1>1. /\ opened' = opened + 1 /\ ws' = opened + 1 /\ opened' \in 0..MaxSockets /\ opened' > opened
      /\ pendingSend' = NoRun /\ activeRun' = NoRun /\ ~up
      /\ UNCHANGED <<uplink, downlink, gateway, carrier>>
      /\ UNCHANGED <<active, waiting, fate, stamps, tripped, telegramRunActive, phone>>
  BY BridgeAssumption DEF connect, wire, managerVars, limiter, LineIsSound
<1>2. /\ active = "none" /\ \A m \in Messages : fate[m] # "running"
      /\ uplink = {} /\ downlink = << >>
  BY <1>1 DEF RunIsCarried, LineIsSound
<1>3. ChatTypeOK'
  BY <1>1
<1>4. LineIsSound'
  BY <1>1, <1>2 DEF LineIsSound, NeverStranded
<1>5. RunIsCarried' /\ WaitingIsTold' /\ ReplyReachesAsker'
  BY <1>1, <1>2 DEF RunIsCarried, WaitingIsTold, ReplyReachesAsker
<1>6. FateIsCarried'
  BY <1>1 DEF FateIsCarried
<1>7. UplinkIsAwaited' /\ FramesAreTrue' /\ ActiveRunIsOurs'
  BY <1>1, <1>2 DEF UplinkIsAwaited, FramesAreTrue, ActiveRunIsOurs
<1> QED
  BY <1>3, <1>4, <1>5, <1>6, <1>7

(* A handshake ends one way or the other: no run depends on it. *)
LEMMA HandshakeKeeps ==
  ASSUME IInv, ws # 0, ~up,
         \/ up' = TRUE /\ ws' = ws /\ UNCHANGED <<stopped, reconnectTimer>>
         \/ /\ up' = FALSE /\ ws' = 0
            /\ stopped' \in BOOLEAN /\ reconnectTimer' = ~stopped',
         UNCHANGED <<opened, correlation, wire>>,
         UNCHANGED <<active, waiting, fate, limiter, phone>>,
         telegramRunActive' \in {FALSE, telegramRunActive}
  PROVE  IInv'
<1> USE DEF IInv, ChatTypeOK, BridgeTypeOK
<1>1. /\ UNCHANGED <<opened, pendingSend, activeRun, uplink, downlink, gateway, carrier>>
      /\ UNCHANGED <<active, waiting, fate, stamps, tripped, phone>>
      /\ ws' \in {0, ws} /\ up' \in BOOLEAN /\ reconnectTimer' \in BOOLEAN /\ stopped' \in BOOLEAN
  BY DEF correlation, wire, limiter
<1>2. /\ active = "none" /\ \A m \in Messages : fate[m] # "running"
      /\ uplink = {} /\ downlink = << >> /\ opened # 0
  BY DEF RunIsCarried, LineIsSound
<1>3. ChatTypeOK'
  BY <1>1
<1>4. LineIsSound'
  BY <1>1, <1>2 DEF LineIsSound, NeverStranded
<1>5. RunIsCarried' /\ WaitingIsTold' /\ ReplyReachesAsker'
  <2>1. ~telegramRunActive /\ telegramRunActive' = FALSE
    BY <1>2 DEF RunIsCarried
  <2>2. RunIsCarried'
    BY <1>1, <1>2, <2>1 DEF RunIsCarried
  <2> QED
    BY <1>1, <2>2 DEF WaitingIsTold, ReplyReachesAsker
<1>6. FateIsCarried'
  BY <1>1 DEF FateIsCarried
<1>7. UplinkIsAwaited' /\ FramesAreTrue' /\ ActiveRunIsOurs'
  BY <1>1, <1>2 DEF UplinkIsAwaited, FramesAreTrue, ActiveRunIsOurs
<1> QED
  BY <1>3, <1>4, <1>5, <1>6, <1>7

(* The socket goes: the run is cut, what waited is rejected. *)
LEMMA LossKeeps ==
  ASSUME IInv, LoseSocket, NoticeDown, opened # 0,
         stopped' \in BOOLEAN, reconnectTimer' = ~stopped',
         pendingSend' \in {NoRun, pendingSend}, activeRun' \in {NoRun, activeRun}
  PROVE  IInv'
<1> USE DEF IInv, ChatTypeOK, BridgeTypeOK
<1>1. /\ ws' = 0 /\ up' = FALSE /\ downlink' = << >> /\ uplink' = {} /\ UNCHANGED <<opened, carrier>>
      /\ \E received \in SUBSET uplink :
           gateway' = [m \in Messages |-> IF m \in received THEN "running" ELSE gateway[m]]
  BY DEF LoseSocket
<1>2. /\ active' = "none" /\ waiting' = << >> /\ telegramRunActive' = FALSE
      /\ fate' \in [Messages -> Fates]
      /\ \A m \in Messages : \/ fate'[m] = fate[m] /\ fate[m] # "running"
                             \/ fate[m] = "waiting" /\ fate'[m] = "rejected"
                             \/ fate[m] = "running" /\ fate'[m] = "cut"
      /\ UNCHANGED <<stamps, tripped, phone>>
  <2>1. CASE up
    BY <2>1 DEF NoticeDown, Offline, limiter, Fates
  <2>2. CASE ~up
    <3>1. UNCHANGED <<active, waiting, fate, stamps, tripped, telegramRunActive, phone>>
      BY <2>2 DEF NoticeDown, managerVars, limiter
    <3> QED
      BY <2>2, <3>1 DEF RunIsCarried
  <2> QED
    BY <2>1, <2>2
<1>3. /\ gateway' \in [Messages -> {"none", "running", "refused", "ended"}]
      /\ \A m \in Messages : \/ gateway'[m] = gateway[m]
                             \/ /\ m \in uplink /\ fate[m] = "running" /\ carrier[m] # 0
                                /\ gateway'[m] = "running"
  <2>1. \A m \in uplink : fate[m] = "running" /\ carrier[m] # 0
    BY DEF UplinkIsAwaited, RunIsCarried, LineIsSound
  <2> QED
    BY <1>1, <2>1
<1>4. ChatTypeOK'
  <2>1. waiting' \in Seq(Messages) /\ Len(waiting') <= QueueDepth /\ downlink' \in Seq(Frame)
    BY <1>1, <1>2, EmptySeq, ManagerAssumption
  <2>2. /\ {stopped', up', reconnectTimer'} \subseteq BOOLEAN
        /\ pendingSend' \in Messages \cup {NoRun} /\ activeRun' \in Messages \cup {NoRun}
        /\ opened' \in 0..MaxSockets /\ ws' \in {0, opened'}
        /\ uplink' \in SUBSET Messages /\ carrier' \in [Messages -> 0..MaxSockets]
    BY <1>1
  <2>3. /\ telegramRunActive' \in BOOLEAN /\ active' \in {"none", "web", "telegram"}
        /\ stamps' \in 0..Limit /\ tripped' \in BOOLEAN /\ phone' \in SUBSET Messages
    BY <1>2
  <2> QED
    BY <1>2, <1>3, <2>1, <2>2, <2>3
<1>5. LineIsSound' /\ UplinkIsAwaited' /\ FramesAreTrue' /\ ActiveRunIsOurs'
  <2>1. LineIsSound'
    BY <1>1 DEF LineIsSound, NeverStranded
  <2> QED
    BY <1>1, <2>1 DEF UplinkIsAwaited, FramesAreTrue, ActiveRunIsOurs
<1>6. RunIsCarried' /\ WaitingIsTold' /\ ReplyReachesAsker'
  <2>1. \A m \in Messages : fate'[m] # "running"
    BY <1>2
  <2>2. RunIsCarried'
    BY <1>2, <2>1 DEF RunIsCarried
  <2> QED
    BY <1>2, <2>2 DEF WaitingIsTold, ReplyReachesAsker
<1>7. FateIsCarried'
  BY <1>1, <1>2, <1>3 DEF FateIsCarried
<1> QED
  BY <1>4, <1>5, <1>6, <1>7

LEMMA ConnectionKeeps ==
  ASSUME IInv, ConnectionStep
  PROVE  IInv'
<1>1. /\ stopped \/ opened = 0 => ws = 0 /\ ~reconnectTimer
      /\ opened # 0 /\ ~stopped => (ws # 0 <=> ~reconnectTimer)
      /\ opened \in Nat
      /\ {stopped, reconnectTimer, up} \subseteq BOOLEAN /\ (up => ws # 0)
  BY DEF IInv, LineIsSound, NeverStranded, ChatTypeOK, BridgeTypeOK
<1>2. CASE start /\ UNCHANGED managerVars
  BY <1>1, <1>2, ConnectKeeps DEF start
<1>3. CASE Reconnect /\ UNCHANGED managerVars
  <2>1. ws = 0 /\ stopped' = FALSE /\ up' = FALSE /\ reconnectTimer' = FALSE
    BY <1>1, <1>3 DEF Reconnect
  <2> QED
    BY <1>3, <2>1, ConnectKeeps DEF Reconnect
<1>4. CASE /\ HandshakeCompletes /\ telegramRunActive' = FALSE
           /\ UNCHANGED <<active, waiting, fate, limiter, phone>>
  BY <1>4, HandshakeKeeps DEF HandshakeCompletes
<1>5. CASE (HandshakeRefused \/ HandshakeFails) /\ UNCHANGED managerVars
  <2>1. /\ ws # 0 /\ ~up /\ ws' = 0 /\ up' = up
        /\ stopped' \in BOOLEAN /\ reconnectTimer' = ~stopped'
        /\ UNCHANGED <<opened, correlation, wire>>
    BY <1>1, <1>5 DEF HandshakeRefused, HandshakeFails, scheduleReconnect
  <2>2. UNCHANGED <<active, waiting, fate, limiter, telegramRunActive, phone>>
    BY <1>5 DEF managerVars
  <2>3. up' = FALSE
    BY <1>1, <2>1
  <2> QED
    BY <2>1, <2>2, <2>3, HandshakeKeeps
<1>6. CASE SocketCloses /\ NoticeDown
  <2>1. /\ LoseSocket /\ opened # 0 /\ stopped' \in BOOLEAN /\ reconnectTimer' = ~stopped'
        /\ UNCHANGED correlation
    BY <1>1, <1>6 DEF SocketCloses, scheduleReconnect
  <2> QED
    BY <1>6, <2>1, LossKeeps DEF correlation
<1>7. CASE stop /\ NoticeDown
  <2>1. opened # 0 /\ stopped' = TRUE /\ reconnectTimer' = FALSE /\ LoseSocket
    BY <1>1, <1>7 DEF stop
  <2> QED
    BY <1>7, <2>1, LossKeeps DEF stop
<1> QED
  BY <1>2, <1>3, <1>4, <1>5, <1>6, <1>7 DEF ConnectionStep

-----------------------------------------------------------------------------
(* The gateway. *)

(* One more frame on the wire. *)
LEMMA FrameAppended ==
  ASSUME downlink \in Seq(Frame), NEW f \in Frame,
         \A k \in DOMAIN downlink : downlink[k].run \in Messages => FrameIsTrue(downlink[k])',
         f.run \in Messages => FrameIsTrue(f)',
         FramesAreTrue,
         \A k \in DOMAIN downlink :
           downlink[k].run = f.run /\ f.run \in Messages =>
             downlink[k].kind = "ack" /\ f.kind \in {"final", "error"},
         downlink' = Append(downlink, f)
  PROVE  FramesAreTrue' /\ downlink' \in Seq(Frame)
<1> DEFINE n == Len(downlink)
<1>1. /\ downlink' \in Seq(Frame) /\ DOMAIN downlink = 1..n /\ n \in Nat
      /\ DOMAIN downlink' = 1..(n + 1)
      /\ \A k \in DOMAIN downlink : downlink'[k] = downlink[k]
      /\ downlink'[n + 1] = f
  BY AppendFacts
<1> HIDE DEF n
<1>2. \A k \in DOMAIN downlink' : k \in DOMAIN downlink \/ k = n + 1
  BY <1>1
<1>3. ASSUME NEW k \in DOMAIN downlink', downlink'[k].run \in Messages
      PROVE  FrameIsTrue(downlink[k])'
  <2>1. CASE k \in DOMAIN downlink
    <3>1. downlink'[k] = downlink[k]
      BY <1>1, <2>1
    <3> QED
      BY <2>1, <3>1, <1>3 DEF FrameIsTrue
  <2>2. CASE k = n + 1
    <3>1. downlink'[k] = f
      BY <1>1, <2>2
    <3> QED
      BY <3>1, <1>3 DEF FrameIsTrue
  <2> QED
    BY <2>1, <2>2, <1>2
<1>4. ASSUME NEW j \in DOMAIN downlink', NEW k \in DOMAIN downlink', j < k,
             downlink'[j].run = downlink'[k].run, downlink'[j].run \in Messages
      PROVE  downlink'[j].kind = "ack" /\ downlink'[k].kind \in {"final", "error"}
  <2>1. j \in DOMAIN downlink /\ downlink'[j] = downlink[j]
    BY <1>1, <1>4
  <2>2. CASE k \in DOMAIN downlink
    BY <1>1, <1>4, <2>1, <2>2 DEF FramesAreTrue
  <2>3. CASE k = n + 1
    BY <1>1, <1>4, <2>1, <2>3
  <2> QED
    BY <2>2, <2>3, <1>2
<1> QED
  BY <1>1, <1>3, <1>4 DEF FramesAreTrue

LEMMA AnswerKeeps ==
  ASSUME IInv, NEW m \in Messages, NEW accepted \in BOOLEAN,
         GatewayAnswers(m, accepted), UNCHANGED managerVars
  PROVE  IInv'
<1> USE DEF IInv, ChatTypeOK, BridgeTypeOK
<1> DEFINE f == [kind |-> IF accepted THEN "ack" ELSE "nack", run |-> m]
           got == IF accepted THEN "running" ELSE "refused"
<1>1. /\ m \in uplink /\ uplink' = uplink \ {m}
      /\ gateway' = [gateway EXCEPT ![m] = got]
      /\ downlink' = Append(downlink, f)
      /\ UNCHANGED <<stopped, up, ws, reconnectTimer, opened, pendingSend, activeRun, carrier>>
      /\ UNCHANGED <<active, waiting, fate, stamps, tripped, telegramRunActive, phone>>
  BY DEF GatewayAnswers, GatewayFrame, correlation, managerVars, limiter
<1>2. /\ fate[m] = "running" /\ pendingSend = m /\ gateway[m] = "none" /\ up
      /\ carrier[m] = ws /\ ws # 0
  BY <1>1 DEF UplinkIsAwaited, RunIsCarried, LineIsSound
<1>3. f \in Frame /\ f.run = m /\ f.kind = (IF accepted THEN "ack" ELSE "nack")
  BY DEF Frame
<1>4. /\ gateway' \in [Messages -> {"none", "running", "refused", "ended"}]
      /\ gateway'[m] = got /\ \A n \in Messages \ {m} : gateway'[n] = gateway[n]
  BY <1>1
<1>5. \A k \in DOMAIN downlink : downlink[k].run # m
  <2> SUFFICES ASSUME NEW k \in DOMAIN downlink, downlink[k].run = m PROVE FALSE
    OBVIOUS
  <2>1. downlink[k] \in Frame
    BY LenProperties
  <2>2. FrameIsTrue(downlink[k])
    BY DEF FramesAreTrue
  <2> QED
    BY <1>2, <2>1, <2>2 DEF FrameIsTrue, Frame
<1> HIDE DEF f
<1>6. FramesAreTrue' /\ downlink' \in Seq(Frame)
  <2>1. \A k \in DOMAIN downlink : downlink[k].run \in Messages => FrameIsTrue(downlink[k])'
    <3> SUFFICES ASSUME NEW k \in DOMAIN downlink, downlink[k].run \in Messages
                 PROVE  FrameIsTrue(downlink[k])'
      OBVIOUS
    <3>1. FrameIsTrue(downlink[k]) /\ downlink[k] \in Frame
      BY LenProperties DEF FramesAreTrue
    <3>2. /\ fate' = fate /\ pendingSend' = pendingSend
          /\ gateway'[downlink[k].run] = gateway[downlink[k].run]
      BY <1>1, <1>4, <1>5
    <3>3. DOMAIN downlink' = 1..(Len(downlink) + 1) /\ k \in 1..Len(downlink)
            /\ downlink'[k] = downlink[k]
      BY <1>1, <1>3, AppendFacts
    <3> QED
      BY <3>1, <3>2, <3>3 DEF FrameIsTrue
  <2>2. f.run \in Messages => FrameIsTrue(f)'
    <3>1. /\ f.kind = "ack" => gateway'[m] = "running"
          /\ f.kind = "nack" => gateway'[m] = "refused"
          /\ f.kind \in {"ack", "nack"}
      BY <1>3, <1>4
    <3> QED
      BY <1>1, <1>2, <1>3, <3>1 DEF FrameIsTrue
  <2> QED
    BY <1>1, <1>3, <1>5, <2>1, <2>2, FrameAppended
<1>7. ChatTypeOK'
  BY <1>1, <1>4, <1>6
<1>8. LineIsSound'
  BY <1>1, <1>2 DEF LineIsSound, NeverStranded
<1>9. RunIsCarried' /\ WaitingIsTold' /\ ReplyReachesAsker' /\ ActiveRunIsOurs'
  BY <1>1 DEF RunIsCarried, WaitingIsTold, ReplyReachesAsker, ActiveRunIsOurs
<1>10. FateIsCarried'
  <2>1. ASSUME NEW n \in Messages, n # m
        PROVE  /\ carrier'[n] <= opened'
               /\ fate'[n] \in {"new", "waiting", "rejected"} => carrier'[n] = 0
               /\ carrier'[n] = 0 => gateway'[n] = "none"
               /\ ws' # 0 /\ carrier'[n] = ws' => fate'[n] \in {"running", "done"}
               /\ gateway'[n] = "running" => fate'[n] \in {"running", "cut"}
               /\ fate'[n] = "done" => gateway'[n] \in {"ended", "refused"}
    BY <1>1, <1>4, <2>1 DEF FateIsCarried
  <2>2. /\ carrier'[m] <= opened' /\ carrier'[m] # 0 /\ fate'[m] = "running"
    BY <1>1, <1>2 DEF FateIsCarried
  <2> QED
    BY <2>1, <2>2 DEF FateIsCarried
<1>11. UplinkIsAwaited'
  BY <1>1, <1>4 DEF UplinkIsAwaited
<1> QED
  BY <1>6, <1>7, <1>8, <1>9, <1>10, <1>11

LEMMA RunEndsKeeps ==
  ASSUME IInv, NEW m \in Messages, NEW kind \in {"final", "error"},
         RunEnds(m, kind), UNCHANGED managerVars
  PROVE  IInv'
<1> USE DEF IInv, ChatTypeOK, BridgeTypeOK
<1> DEFINE f == [kind |-> kind, run |-> m]
<1>1. /\ gateway[m] = "running"
      /\ gateway' = [gateway EXCEPT ![m] = "ended"]
      /\ downlink' = IF up THEN Append(downlink, f) ELSE downlink
      /\ UNCHANGED <<stopped, up, ws, reconnectTimer, opened, pendingSend, activeRun,
                     uplink, carrier>>
      /\ UNCHANGED <<active, waiting, fate, stamps, tripped, telegramRunActive, phone>>
  BY DEF RunEnds, GatewayFrame, correlation, managerVars, limiter
<1>2. fate[m] \in {"running", "cut"} /\ m \notin uplink /\ carrier[m] # 0
  BY <1>1 DEF FateIsCarried, UplinkIsAwaited
<1>3. f \in Frame /\ f.run = m /\ f.kind = kind
  BY DEF Frame
<1>4. /\ gateway' \in [Messages -> {"none", "running", "refused", "ended"}]
      /\ gateway'[m] = "ended" /\ \A n \in Messages \ {m} : gateway'[n] = gateway[n]
  BY <1>1
<1>5. ASSUME NEW k \in DOMAIN downlink, downlink[k].run = m
      PROVE  downlink[k].kind = "ack"
  <2>1. downlink[k] \in Frame /\ FrameIsTrue(downlink[k])
    BY <1>5, LenProperties DEF FramesAreTrue
  <2> QED
    BY <1>1, <1>5, <2>1 DEF FrameIsTrue, Frame
<1> HIDE DEF f
<1>6. FramesAreTrue' /\ downlink' \in Seq(Frame)
  <2>1. CASE up
    <3>1. \A k \in DOMAIN downlink : downlink[k].run \in Messages => FrameIsTrue(downlink[k])'
      <4> SUFFICES ASSUME NEW k \in DOMAIN downlink, downlink[k].run \in Messages
                   PROVE  FrameIsTrue(downlink[k])'
        OBVIOUS
      <4>1. FrameIsTrue(downlink[k]) /\ downlink[k] \in Frame
        BY LenProperties DEF FramesAreTrue
      <4>2. k \in 1..Len(downlink) /\ downlink'[k] = downlink[k]
        BY <1>1, <1>3, <2>1, AppendFacts
      <4>3. fate' = fate /\ pendingSend' = pendingSend
        BY <1>1
      <4>4. CASE downlink[k].run = m
        BY <1>1, <1>4, <4>1, <4>2, <4>3, <4>4 DEF FrameIsTrue
      <4>5. CASE downlink[k].run # m
        BY <1>4, <4>1, <4>2, <4>3, <4>5 DEF FrameIsTrue
      <4> QED
        BY <4>4, <4>5
    <3>2. f.run \in Messages => FrameIsTrue(f)'
      BY <1>1, <1>2, <1>3, <1>4 DEF FrameIsTrue
    <3> QED
      BY <1>1, <1>3, <1>5, <2>1, <3>1, <3>2, FrameAppended
  <2>2. CASE ~up
    BY <1>1, <2>2 DEF LineIsSound, FramesAreTrue
  <2> QED
    BY <2>1, <2>2
<1>7. ChatTypeOK'
  BY <1>1, <1>4, <1>6
<1>8. LineIsSound'
  BY <1>1 DEF LineIsSound, NeverStranded
<1>9. RunIsCarried' /\ WaitingIsTold' /\ ReplyReachesAsker' /\ ActiveRunIsOurs'
  BY <1>1 DEF RunIsCarried, WaitingIsTold, ReplyReachesAsker, ActiveRunIsOurs
<1>10. FateIsCarried'
  BY <1>1, <1>2, <1>4 DEF FateIsCarried
<1>11. UplinkIsAwaited'
  BY <1>1, <1>2, <1>4 DEF UplinkIsAwaited
<1> QED
  BY <1>6, <1>7, <1>8, <1>9, <1>10, <1>11

LEMMA AmbientKeeps ==
  ASSUME IInv, AmbientRunEnds, UNCHANGED managerVars
  PROVE  IInv'
<1> USE DEF IInv, ChatTypeOK, BridgeTypeOK
<1> DEFINE f == [kind |-> "final", run |-> Ambient]
<1>1. /\ up /\ downlink' = Append(downlink, f)
      /\ UNCHANGED <<stopped, up, ws, reconnectTimer, opened, pendingSend, activeRun,
                     uplink, carrier, gateway>>
      /\ UNCHANGED <<active, waiting, fate, stamps, tripped, telegramRunActive, phone>>
  BY DEF AmbientRunEnds, GatewayFrame, correlation, managerVars, limiter
<1>2. f \in Frame /\ f.run = Ambient /\ Ambient \notin Messages
  BY BridgeAssumption DEF Frame
<1> HIDE DEF f
<1>3. \A k \in DOMAIN downlink : downlink[k].run \in Messages => FrameIsTrue(downlink[k])'
  <2> SUFFICES ASSUME NEW k \in DOMAIN downlink, downlink[k].run \in Messages
               PROVE  FrameIsTrue(downlink[k])'
    OBVIOUS
  <2>1. FrameIsTrue(downlink[k]) /\ downlink[k] \in Frame
    BY LenProperties DEF FramesAreTrue
  <2>2. k \in 1..Len(downlink) /\ downlink'[k] = downlink[k]
    BY <1>1, <1>2, AppendFacts
  <2> QED
    BY <1>1, <2>1, <2>2 DEF FrameIsTrue
<1>4. FramesAreTrue' /\ downlink' \in Seq(Frame)
  BY <1>1, <1>2, <1>3, FrameAppended
<1>5. LineIsSound'
  BY <1>1 DEF LineIsSound, NeverStranded
<1> QED
  BY <1>1, <1>4, <1>5 DEF RunIsCarried, WaitingIsTold, FateIsCarried, UplinkIsAwaited,
                         ActiveRunIsOurs, ReplyReachesAsker

-----------------------------------------------------------------------------
(* Frames read by the bridge. *)

(* What is known of the frame read, and of those behind it. *)
FrameIsRead ==
  /\ up /\ ws # 0 /\ NextFrame \in Frame /\ downlink' \in Seq(Frame)
  /\ NextFrame.run \in Messages => FrameIsTrue(NextFrame)
  /\ \A k \in DOMAIN downlink' :
       /\ downlink'[k] \in Frame
       /\ downlink'[k].run \in Messages =>
            \E f \in Frame : f = downlink'[k] /\ FrameIsTrue(f)
       /\ downlink'[k].run = NextFrame.run /\ NextFrame.run \in Messages =>
            NextFrame.kind = "ack" /\ downlink'[k].kind \in {"final", "error"}
  /\ \A j, k \in DOMAIN downlink' :
       j < k /\ downlink'[j].run = downlink'[k].run /\ downlink'[j].run \in Messages =>
         downlink'[j].kind = "ack" /\ downlink'[k].kind \in {"final", "error"}

LEMMA ReceiveReads ==
  ASSUME IInv, Receive
  PROVE  FrameIsRead
<1> USE DEF IInv, ChatTypeOK, BridgeTypeOK
<1>1. /\ NextFrame \in Frame /\ NextFrame = downlink[1] /\ 1 \in DOMAIN downlink
      /\ downlink' \in Seq(Frame)
      /\ \A k \in DOMAIN downlink' :
           k + 1 \in DOMAIN downlink /\ downlink'[k] = downlink[k + 1] /\ k \in Nat \ {0}
  BY TailFacts DEF Receive, NextFrame
<1>2. up /\ ws # 0
  BY DEF Receive, LineIsSound
<1>3. NextFrame.run \in Messages => FrameIsTrue(NextFrame)
  BY <1>1 DEF FramesAreTrue
<1>4. ASSUME NEW k \in DOMAIN downlink'
      PROVE  /\ downlink'[k] \in Frame
             /\ downlink'[k].run \in Messages =>
                  \E f \in Frame : f = downlink'[k] /\ FrameIsTrue(f)
             /\ downlink'[k].run = NextFrame.run /\ NextFrame.run \in Messages =>
                  NextFrame.kind = "ack" /\ downlink'[k].kind \in {"final", "error"}
  <2>1. downlink'[k] = downlink[k + 1] /\ k + 1 \in DOMAIN downlink /\ 1 < k + 1
    BY <1>1
  <2>2. downlink[k + 1] \in Frame
    BY <2>1, LenProperties
  <2>3. downlink[k + 1].run \in Messages => FrameIsTrue(downlink[k + 1])
    BY <2>1 DEF FramesAreTrue
  <2>4. downlink[1].run = downlink[k + 1].run /\ downlink[1].run \in Messages =>
          downlink[1].kind = "ack" /\ downlink[k + 1].kind \in {"final", "error"}
    BY <1>1, <2>1 DEF FramesAreTrue
  <2>5. downlink'[k].run \in Messages => \E f \in Frame : f = downlink'[k] /\ FrameIsTrue(f)
    BY <2>1, <2>2, <2>3
  <2> QED
    BY <1>1, <2>1, <2>2, <2>4, <2>5
<1>5. ASSUME NEW j \in DOMAIN downlink', NEW k \in DOMAIN downlink', j < k,
             downlink'[j].run = downlink'[k].run, downlink'[j].run \in Messages
      PROVE  downlink'[j].kind = "ack" /\ downlink'[k].kind \in {"final", "error"}
  <2>1. /\ downlink'[j] = downlink[j + 1] /\ downlink'[k] = downlink[k + 1]
        /\ j + 1 \in DOMAIN downlink /\ k + 1 \in DOMAIN downlink /\ j + 1 < k + 1
    BY <1>1, <1>5
  <2> QED
    BY <1>5, <2>1 DEF FramesAreTrue
<1> QED
  BY <1>1, <1>2, <1>3, <1>4, <1>5 DEF FrameIsRead

LEMMA ReceiveAckKeeps ==
  ASSUME IInv, ReceiveAck
  PROVE  IInv'
<1> USE DEF IInv, ChatTypeOK, BridgeTypeOK
<1> DEFINE r == NextFrame.run
<1>1. FrameIsRead
  BY ReceiveReads DEF ReceiveAck
<1>2. /\ NextFrame.kind = "ack" /\ r = pendingSend /\ pendingSend' = NoRun /\ activeRun' = r
      /\ UNCHANGED <<stopped, up, ws, reconnectTimer, opened, gateway, uplink, carrier>>
      /\ UNCHANGED <<active, waiting, fate, stamps, tripped, telegramRunActive, phone>>
  BY DEF ReceiveAck, socketVars, managerVars, limiter
<1>3. r \in Messages /\ r # NoRun
  BY <1>1, <1>2, BridgeAssumption DEF FrameIsRead, Frame
<1>4. fate[r] = "running" /\ gateway[r] \in {"running", "ended"} /\ carrier[r] = ws
  BY <1>1, <1>2, <1>3 DEF FrameIsRead, FrameIsTrue, RunIsCarried
<1>5. uplink = {}
  BY <1>2, <1>4 DEF UplinkIsAwaited
<1> HIDE DEF r
<1>6. FramesAreTrue'
  <2>1. ASSUME NEW k \in DOMAIN downlink', downlink'[k].run \in Messages
        PROVE  FrameIsTrue(downlink[k])'
    <3>1. PICK f \in Frame : f = downlink'[k] /\ FrameIsTrue(f)
      BY <1>1, <2>1 DEF FrameIsRead
    <3>2. f.kind \in {"ack", "nack"} => f.run = r
      BY <1>2, <3>1 DEF FrameIsTrue
    <3>3. downlink'[k].kind \in {"final", "error"}
      BY <1>1, <1>3, <3>1, <3>2 DEF FrameIsRead, Frame, r
    <3> QED
      BY <1>2, <3>1, <3>3 DEF FrameIsTrue
  <2> QED
    BY <1>1, <2>1 DEF FramesAreTrue, FrameIsRead
<1>7. ChatTypeOK'
  BY <1>1, <1>2, <1>3 DEF FrameIsRead
<1>8. LineIsSound'
  BY <1>1, <1>2 DEF LineIsSound, NeverStranded, FrameIsRead
<1>9. RunIsCarried' /\ WaitingIsTold' /\ FateIsCarried' /\ ReplyReachesAsker'
  BY <1>2 DEF RunIsCarried, WaitingIsTold, FateIsCarried, ReplyReachesAsker
<1>10. UplinkIsAwaited' /\ ActiveRunIsOurs'
  BY <1>2, <1>3, <1>4, <1>5 DEF UplinkIsAwaited, ActiveRunIsOurs
<1> QED
  BY <1>6, <1>7, <1>8, <1>9, <1>10

LEMMA IgnoreKeeps ==
  ASSUME IInv, IgnoreEvent
  PROVE  IInv'
<1> USE DEF IInv, ChatTypeOK, BridgeTypeOK
<1>1. FrameIsRead
  BY ReceiveReads DEF IgnoreEvent
<1>2. /\ UNCHANGED <<stopped, up, ws, reconnectTimer, opened, gateway, pendingSend, activeRun,
                     uplink, carrier>>
      /\ UNCHANGED <<active, waiting, fate, stamps, tripped, telegramRunActive, phone>>
  BY DEF IgnoreEvent, socketVars, correlation, managerVars, limiter
<1>3. FramesAreTrue'
  <2>1. ASSUME NEW k \in DOMAIN downlink', downlink'[k].run \in Messages
        PROVE  FrameIsTrue(downlink[k])'
    <3>1. PICK f \in Frame : f = downlink'[k] /\ FrameIsTrue(f)
      BY <1>1, <2>1 DEF FrameIsRead
    <3> QED
      BY <1>2, <3>1 DEF FrameIsTrue
  <2> QED
    BY <1>1, <2>1 DEF FramesAreTrue, FrameIsRead
<1>4. ChatTypeOK' /\ LineIsSound'
  BY <1>1, <1>2 DEF FrameIsRead, LineIsSound, NeverStranded
<1> QED
  BY <1>2, <1>3, <1>4 DEF RunIsCarried, WaitingIsTold, FateIsCarried, UplinkIsAwaited,
                         ActiveRunIsOurs, ReplyReachesAsker

(* The run r is over, and what is left on the wire closes other runs. *)
RunIsOver(r, awaited) ==
  /\ FrameIsRead /\ r \in Messages /\ fate[r] = "running" /\ gateway[r] \in {"ended", "refused"}
  /\ RunOver(awaited) /\ uplink = {}
  /\ \A k \in DOMAIN downlink' :
       downlink'[k].run \in Messages =>
         downlink'[k].kind \in {"final", "error"} /\ downlink'[k].run # r
  /\ awaited \in Messages \cup {NoRun} /\ (activeRun # NoRun => awaited # activeRun)
  /\ UNCHANGED <<stopped, up, ws, reconnectTimer, opened, gateway, activeRun, stamps, tripped>>
  /\ phone' \in SUBSET Messages /\ ReplyReachesAsker'

LEMMA RunOverKeeps ==
  ASSUME IInv, NEW r, NEW awaited, RunIsOver(r, awaited)
  PROVE  IInv'
<1> USE DEF IInv, ChatTypeOK, BridgeTypeOK
<1> DEFINE fated == [m \in Messages |-> IF fate[m] = "running" THEN "done" ELSE fate[m]]
<1>1. drain(waiting, fated, awaited)
  BY DEF RunIsOver, RunOver
<1>2. /\ fated \in [Messages -> Fates] /\ fated[r] = "done"
      /\ \A n \in Messages : IF n = r THEN fate[n] = "running"
                             ELSE fated[n] = fate[n] /\ fate[n] # "running"
  BY DEF RunIsOver, Fates, RunIsCarried
<1> HIDE DEF fated
<1>3. /\ \A k \in DOMAIN waiting : fated[waiting[k]] = "waiting"
      /\ \A j, k \in DOMAIN waiting : waiting[j] = waiting[k] => j = k
  <2>1. \A k \in DOMAIN waiting : waiting[k] \in Messages
    BY LenProperties
  <2> QED
    BY <1>2, <2>1 DEF WaitingIsTold
<1>4. ws # 0 /\ gateway[r] \in {"ended", "refused"}
  BY DEF RunIsOver, FrameIsRead
<1>5. \A n \in Messages :
        /\ fated[n] # "running"
        /\ fated[n] \in {"new", "waiting", "rejected"} => carrier[n] = 0
        /\ carrier[n] = ws => fated[n] = "done"
        /\ gateway[n] = "running" => fated[n] = "cut"
        /\ fated[n] = "done" => gateway[n] \in {"ended", "refused"}
  BY <1>2, <1>4 DEF FateIsCarried
<1>6. ASSUME NEW k \in DOMAIN downlink', downlink'[k].run \in Messages
      PROVE  /\ downlink'[k].kind \in {"final", "error"}
             /\ gateway'[downlink'[k].run] = "ended" /\ fated[downlink'[k].run] = "cut"
  <2>1. PICK f \in Frame : f = downlink'[k] /\ FrameIsTrue(f)
    BY <1>6 DEF RunIsOver, FrameIsRead
  <2>2. f.kind \in {"final", "error"} /\ f.run # r /\ gateway' = gateway
    BY <1>6, <2>1 DEF RunIsOver
  <2> QED
    BY <1>2, <1>6, <2>1, <2>2 DEF FrameIsTrue
<1>7. \A j, k \in DOMAIN downlink' :
        j < k /\ downlink'[j].run = downlink'[k].run => downlink'[j].run \notin Messages
  BY <1>6 DEF RunIsOver, FrameIsRead
<1>8. waiting \in Seq(Messages) /\ (waiting = << >> \/ Len(waiting) - 1 <= QueueDepth)
  <2>1. Len(waiting) \in Nat /\ Len(waiting) <= QueueDepth /\ QueueDepth \in Nat
    BY LenProperties, ManagerAssumption
  <2> QED
    BY <2>1
<1>9. /\ up /\ awaited \in Messages \cup {NoRun} /\ (activeRun # NoRun => awaited # activeRun)
      /\ uplink = {} /\ downlink' \in Seq(Frame)
      /\ UNCHANGED <<stopped, up, ws, reconnectTimer, opened, activeRun, gateway>>
      /\ stamps' \in 0..Limit /\ tripped' \in BOOLEAN
      /\ phone' \in SUBSET Messages /\ ReplyReachesAsker'
  BY DEF RunIsOver, FrameIsRead
<1>10. \A k \in DOMAIN downlink' :
         downlink'[k].run \in Messages =>
           /\ downlink'[k].kind \in {"final", "error"}
           /\ gateway[downlink'[k].run] = "ended" /\ fated[downlink'[k].run] = "cut"
  BY <1>6, <1>9
<1>11. DrainIsDue(waiting, fated, awaited)
  BY <1>1, <1>2, <1>3, <1>5, <1>7, <1>8, <1>9, <1>10 DEF DrainIsDue
<1> HIDE DEF IInv
<1> QED
  BY <1>11, DrainKeeps

LEMMA ReceiveNackKeeps ==
  ASSUME IInv, ReceiveNack
  PROVE  IInv'
<1> USE DEF IInv, ChatTypeOK, BridgeTypeOK
<1> DEFINE r == NextFrame.run
<1>1. FrameIsRead
  BY ReceiveReads DEF ReceiveNack
<1>2. /\ NextFrame.kind = "nack" /\ r = pendingSend /\ RunOver(NoRun)
      /\ UNCHANGED <<stopped, up, ws, reconnectTimer, opened, gateway, activeRun, stamps, tripped, phone>>
  BY DEF ReceiveNack, socketVars, limiter
<1>3. r \in Messages
  BY <1>1, <1>2, BridgeAssumption DEF FrameIsRead, Frame
<1>4. fate[r] = "running" /\ gateway[r] = "refused"
  BY <1>1, <1>2, <1>3 DEF FrameIsRead, FrameIsTrue
<1>5. uplink = {}
  BY <1>2, <1>4 DEF UplinkIsAwaited
<1> HIDE DEF r
<1>6. ASSUME NEW k \in DOMAIN downlink', downlink'[k].run \in Messages
      PROVE  downlink'[k].kind \in {"final", "error"} /\ downlink'[k].run # r
  <2>1. downlink'[k].run # r
    BY <1>1, <1>2, <1>3 DEF FrameIsRead, r
  <2>2. PICK f \in Frame : f = downlink'[k] /\ FrameIsTrue(f)
    BY <1>1, <1>6 DEF FrameIsRead
  <2>3. f.kind \notin {"ack", "nack"}
    BY <1>2, <2>1, <2>2 DEF FrameIsTrue
  <2> QED
    BY <2>1, <2>2, <2>3 DEF Frame
<1>7. ReplyReachesAsker' /\ phone' \in SUBSET Messages
  BY <1>2 DEF ReplyReachesAsker
<1>8. RunIsOver(r, NoRun)
  BY <1>1, <1>2, <1>3, <1>4, <1>5, <1>6, <1>7 DEF RunIsOver
<1> HIDE DEF IInv
<1> QED
  BY <1>8, RunOverKeeps

LEMMA ReceiveEventKeeps ==
  ASSUME IInv, ReceiveEvent
  PROVE  IInv'
<1> USE DEF IInv, ChatTypeOK, BridgeTypeOK
<1> DEFINE r == NextFrame.run
<1>1. FrameIsRead
  BY ReceiveReads DEF ReceiveEvent
<1>2. /\ NextFrame.kind \in {"final", "error"} /\ r = activeRun /\ RunOver(pendingSend)
      /\ UNCHANGED <<stopped, up, ws, reconnectTimer, opened, gateway, activeRun, stamps, tripped>>
      /\ IF telegramRunActive THEN phone' \in {phone, phone \cup {r}} ELSE phone' = phone
  BY DEF ReceiveEvent, Ours, socketVars, limiter
<1>3. r \in Messages /\ r # NoRun
  BY <1>1, <1>2, BridgeAssumption DEF FrameIsRead, Frame
<1>4. /\ fate[r] = "running" /\ gateway[r] = "ended" /\ pendingSend # r
      /\ \A m \in Messages : fate[m] = "running" => m = r
  <2>1. gateway[r] = "ended" /\ fate[r] \in {"running", "cut"} /\ ws # 0
    BY <1>1, <1>2, <1>3 DEF FrameIsRead, FrameIsTrue
  <2>2. carrier[r] = ws /\ pendingSend # r
    BY <1>2, <1>3, <2>1 DEF ActiveRunIsOurs
  <2>3. fate[r] = "running"
    BY <1>3, <2>1, <2>2 DEF FateIsCarried
  <2> QED
    BY <1>3, <2>1, <2>2, <2>3 DEF RunIsCarried
<1>5. uplink = {}
  BY <1>4 DEF UplinkIsAwaited
<1> HIDE DEF r
<1>6. ASSUME NEW k \in DOMAIN downlink', downlink'[k].run \in Messages
      PROVE  downlink'[k].kind \in {"final", "error"} /\ downlink'[k].run # r
  <2>1. downlink'[k].run # r
    BY <1>1, <1>2, <1>3 DEF FrameIsRead, r
  <2>2. PICK f \in Frame : f = downlink'[k] /\ FrameIsTrue(f)
    BY <1>1, <1>6 DEF FrameIsRead
  <2>3. f.kind \notin {"ack", "nack"}
    BY <1>4, <1>6, <2>1, <2>2 DEF FrameIsTrue
  <2> QED
    BY <2>1, <2>2, <2>3 DEF Frame
<1>7. ReplyReachesAsker' /\ phone' \in SUBSET Messages
  <2>1. telegramRunActive => From[r] = "telegram"
    BY <1>3, <1>4 DEF RunIsCarried
  <2> QED
    BY <1>2, <1>3, <2>1 DEF ReplyReachesAsker
<1>8. RunIsOver(r, pendingSend)
  <2>1. activeRun # NoRun => pendingSend # activeRun
    BY <1>2, <1>4
  <2> QED
    BY <1>1, <1>2, <1>3, <1>4, <1>5, <1>6, <1>7, <2>1 DEF RunIsOver
<1> HIDE DEF IInv
<1> QED
  BY <1>8, RunOverKeeps

-----------------------------------------------------------------------------
(* Every step, and what follows. *)

LEMMA InitEstablishes == Init => IInv
<1> SUFFICES ASSUME Init PROVE IInv
  OBVIOUS
<1> USE DEF Init, BridgeInit
<1>1. << >> \in Seq(Messages) /\ << >> \in Seq(Frame) /\ Len(<< >>) = 0 /\ DOMAIN << >> = {}
  BY EmptySeq, LenProperties
<1>2. BridgeTypeOK
  <2>1. /\ opened \in 0..MaxSockets /\ ws \in {0, opened}
        /\ carrier \in [Messages -> 0..MaxSockets]
    BY BridgeAssumption
  <2>2. gateway \in [Messages -> {"none", "running", "refused", "ended"}]
    OBVIOUS
  <2> QED
    BY <1>1, <2>1, <2>2 DEF BridgeTypeOK
<1>3. ChatTypeOK
  <2>1. stamps \in 0..Limit /\ Len(waiting) <= QueueDepth
    BY <1>1, ManagerAssumption
  <2>2. fate \in [Messages -> Fates]
    BY DEF Fates
  <2> QED
    BY <1>1, <1>2, <2>1, <2>2 DEF ChatTypeOK
<1> QED
  BY <1>1, <1>3 DEF IInv, LineIsSound, NeverStranded, RunIsCarried, WaitingIsTold, FateIsCarried,
     UplinkIsAwaited, FramesAreTrue, ActiveRunIsOurs, ReplyReachesAsker

LEMMA InboundKeeps ==
  ASSUME IInv, NEW m \in Messages,
         RejectOffline(m) \/ RejectRateLimited(m) \/ RejectBusy(m) \/ Accept(m)
  PROVE  IInv'
<1>1. stamps \in 0..Limit /\ tripped \in BOOLEAN /\ Limit \in Nat
  BY ManagerAssumption DEF IInv, ChatTypeOK
<1>2. CASE RejectOffline(m)
  BY <1>1, <1>2, RejectKeeps DEF RejectOffline, limiter
<1>3. CASE RejectRateLimited(m)
  <2>1. stamps' \in 0..Limit /\ tripped' \in BOOLEAN
    BY <1>1, <1>3 DEF RejectRateLimited
  <2> QED
    BY <1>3, <2>1, RejectKeeps DEF RejectRateLimited
<1>4. CASE RejectBusy(m)
  <2>1. stamps' \in 0..Limit /\ tripped' \in BOOLEAN
    BY <1>1, <1>4 DEF RejectBusy, Stamp, tryAcquire
  <2> QED
    BY <1>4, <2>1, RejectKeeps DEF RejectBusy
<1>5. CASE Accept(m)
  BY <1>5, AcceptKeeps
<1> QED
  BY <1>2, <1>3, <1>4, <1>5

LEMMA StepKeeps == IInv /\ [Next]_vars => IInv'
<1> SUFFICES ASSUME IInv, [Next]_vars PROVE IInv'
  OBVIOUS
<1>1. CASE \E m \in Messages :
             RejectOffline(m) \/ RejectRateLimited(m) \/ RejectBusy(m) \/ Accept(m)
  BY <1>1, InboundKeeps
<1>2. CASE WindowSlides \/ rearm
  BY <1>2, LimiterKeeps
<1>3. CASE ConnectionStep
  BY <1>3, ConnectionKeeps
<1>4. CASE GatewayStep
  BY <1>4, AnswerKeeps, RunEndsKeeps, AmbientKeeps DEF GatewayStep
<1>5. CASE ReceiveAck \/ ReceiveNack \/ ReceiveEvent \/ IgnoreEvent
  BY <1>5, ReceiveAckKeeps, ReceiveNackKeeps, ReceiveEventKeeps, IgnoreKeeps
<1>6. CASE UNCHANGED vars
  <2>1. /\ UNCHANGED <<stopped, up, ws, reconnectTimer, opened, pendingSend, activeRun, uplink,
                       downlink, gateway, carrier>>
        /\ UNCHANGED <<active, waiting, fate, stamps, tripped, telegramRunActive, phone>>
    BY <1>6 DEF vars, bridgeVars, correlation, wire, managerVars, limiter
  <2>2. ChatTypeOK'
    BY <2>1 DEF IInv, ChatTypeOK, BridgeTypeOK
  <2>3. FramesAreTrue'
    BY <2>1 DEF IInv, FramesAreTrue, FrameIsTrue
  <2> QED
    BY <2>1, <2>2, <2>3 DEF IInv, LineIsSound, NeverStranded, RunIsCarried, WaitingIsTold,
       FateIsCarried, UplinkIsAwaited, ActiveRunIsOurs, ReplyReachesAsker
<1> QED
  BY <1>1, <1>2, <1>3, <1>4, <1>5, <1>6 DEF Next

LEMMA InvariantHolds == Spec => []IInv
  BY InitEstablishes, StepKeeps, PTL DEF Spec

(* The state of the bridge and of the manager is well typed; the queue never *)
(* grows past its depth, nor the limiter's window past its limit.            *)
THEOREM ChatIsTyped == Spec => []ChatTypeOK
<1>1. IInv => ChatTypeOK
  BY DEF IInv
<1> QED
  BY <1>1, InvariantHolds, PTL

(* The bridge is never without both a socket and a scheduled reconnect while *)
(* it is meant to be connected, and never has both.                          *)
THEOREM BridgeIsNeverStranded == Spec => []NeverStranded
<1>1. IInv => NeverStranded
  BY DEF IInv, LineIsSound
<1> QED
  BY <1>1, InvariantHolds, PTL

(* On one connection the gateway never runs two messages, whatever is        *)
(* queued, refused or closed on the way.                                     *)
THEOREM RunsAreSerialised == Spec => []OneRunAtATime
<1>1. IInv => OneRunAtATime
  BY DEF IInv, ChatTypeOK, FateIsCarried, RunIsCarried, OneRunAtATime
<1> QED
  BY <1>1, InvariantHolds, PTL

(* A run is under its own channel's regime as long as the connection it was  *)
(* sent on lasts.                                                            *)
THEOREM RegimeFollowsRun == Spec => []RunKeepsItsChannel
<1>1. IInv => RunKeepsItsChannel
  BY DEF IInv, ChatTypeOK, FateIsCarried, RunIsCarried, RunKeepsItsChannel
<1> QED
  BY <1>1, InvariantHolds, PTL

(* What a sender is told of a message is so: what is reported as rejected    *)
(* never reached the gateway, what is reported as over ended there.          *)
THEOREM SendersAreToldTheTruth == Spec => []FateIsTrue
<1>1. IInv => FateIsTrue
  BY DEF IInv, FateIsCarried, UplinkIsAwaited, FateIsTrue
<1> QED
  BY <1>1, InvariantHolds, PTL

(* Only replies to messages from the phone go to the phone. *)
THEOREM PhoneHearsItsOwn == Spec => []ReplyReachesAsker
<1>1. IInv => ReplyReachesAsker
  BY DEF IInv
<1> QED
  BY <1>1, InvariantHolds, PTL
===============================================================================
