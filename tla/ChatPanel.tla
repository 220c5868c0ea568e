------------------------------ MODULE ChatPanel ------------------------------
(***************************************************************************)
(* The dashboard's chat panel (web: components/chat/ChatPanel.tsx) over    *)
(* the event stream it subscribes to (api/chat/stream, lib/chat-ipc.ts,    *)
(* ipc/server.ts): history and status are fetched once while events are    *)
(* arriving, the stream breaks and is opened again, and approvals are      *)
(* polled for while a run is active.  The chat manager is the part of it a *)
(* subscriber sees: what it emits, and whether a run is active.            *)
(***************************************************************************)
EXTENDS Surfaces

CONSTANTS
  HistorySize,   (* events the manager keeps (200) and the     *)
                 (* panel fetches (100)                        *)
  MaxEvents      (* bound: events emitted                      *)

ASSUME PanelAssumption == HistorySize \in Nat /\ MaxEvents \in Nat

VARIABLES
  bridgeUp,    (* the bridge to the agent is connected                     *)
  active,      (* a run is active                                          *)
  waiting,     (* messages queued behind it                                *)
  ring,        (* the last events emitted                                  *)
  emitted,     (* their number so far                                      *)
  subscribed,  (* the panel's stream is subscribed to the manager          *)
  wire,        (* events written to the stream and not yet received        *)
  messages,    (* the bubbles on the screen                                *)
  running, offline,                (* what the panel believes              *)
  liveEventSeen, liveStatusSeen,   (* the guards of the two fetches        *)
  seed,        (* the fetches of history and then status, and the answer   *)
  gap          (* history: a status event passed while the panel was not   *)
               (* subscribed and no longer to read the status              *)

managerVars == <<bridgeUp, active, waiting, ring, emitted>>
streamVars == <<subscribed, wire>>
viewVars == <<messages, running, offline, liveEventSeen, liveStatusSeen, seed>>
panelVars == <<managerVars, streamVars, viewVars, gap>>

(* Conversation events, and status events by the state they announce; an    *)
(* "error" is an idle status with a detail to show.                         *)
Says == {"user", "delta", "final", "rejected"}
Statuses == {"idle", "error", "running", "offline"}
Event == [kind : Says \cup Statuses, n : 1..MaxEvents]

(* A bubble bears the number of the event that gave it its text. *)
Bubble == [kind : {"user", "assistant", "rejected", "error"}, n : 1..MaxEvents, streaming : BOOLEAN]

Stages == {"history", "events", "status", "state", "seeded", "unknown"}
At(stage) == [stage |-> stage, events |-> <<>>, running |-> FALSE, bridgeUp |-> FALSE]

PanelTypeOK ==
  /\ bridgeUp \in BOOLEAN /\ active \in BOOLEAN /\ waiting \in 0..1
  /\ ring \in Seq(Event) /\ wire \in Seq(Event) /\ emitted \in 0..MaxEvents
  /\ subscribed \in BOOLEAN
  /\ messages \in Seq(Bubble)
  /\ {running, offline, liveEventSeen, liveStatusSeen, gap} \subseteq BOOLEAN
  /\ seed \in [stage : Stages, events : Seq(Event), running : BOOLEAN, bridgeUp : BOOLEAN]

PanelInit ==
  /\ bridgeUp = TRUE /\ active = FALSE /\ waiting = 0 /\ ring = <<>> /\ emitted = 0
  /\ subscribed = FALSE /\ wire = <<>>
  /\ messages = <<>> /\ running = FALSE /\ offline = FALSE
  /\ liveEventSeen = FALSE /\ liveStatusSeen = FALSE
  /\ seed = At("history")
  /\ gap = FALSE

-----------------------------------------------------------------------------
(* What the manager emits *)

IsStatus(ev) == ev.kind \in Statuses

(* A status event that is not delivered now will not be made up for. *)
StatusIsPast == liveStatusSeen \/ seed.stage \in {"state", "seeded", "unknown"}

emit(kinds) ==
  LET events == [k \in DOMAIN kinds |-> [kind |-> kinds[k], n |-> emitted + k]]
      kept == ring \o events
  IN  /\ emitted' = emitted + Len(kinds) /\ emitted' <= MaxEvents
      /\ ring' = SubSeq(kept, IF Len(kept) > HistorySize THEN Len(kept) - HistorySize + 1 ELSE 1, Len(kept))
      /\ wire' = IF subscribed THEN wire \o events ELSE wire
      /\ gap' = IF \E k \in DOMAIN events : IsStatus(events[k]) THEN ~subscribed /\ StatusIsPast ELSE gap
      /\ UNCHANGED <<subscribed, viewVars>>

handleInbound ==
  \/ /\ bridgeUp /\ active /\ waiting = 0
     /\ waiting' = 1
     /\ emit(<<"user">>)
     /\ UNCHANGED <<bridgeUp, active>>
  \/ /\ bridgeUp /\ ~active
     /\ active' = TRUE
     /\ emit(<<"user", "running">>)
     /\ UNCHANGED <<bridgeUp, waiting>>
  \/ emit(<<"rejected">>) /\ UNCHANGED <<bridgeUp, active, waiting>>

(* The next message is taken from the queue, if there is one. *)
drain(kinds) ==
  /\ active' = (waiting > 0) /\ waiting' = 0
  /\ emit(IF waiting > 0 THEN Append(kinds, "running") ELSE kinds)

onRunEvent ==
  /\ active
  /\ \/ \E kind \in {"delta", "final"} : emit(<<kind>>) /\ UNCHANGED <<active, waiting>>
     \/ \E kind \in {"idle", "error"} : drain(<<kind>>)
     \/ drain(<<"rejected", "offline">>)     (* the send was refused *)
  /\ UNCHANGED bridgeUp

onConnection ==
  /\ bridgeUp' = ~bridgeUp
  /\ IF bridgeUp
       THEN /\ active' = FALSE /\ waiting' = 0
            /\ emit(IF waiting > 0 THEN <<"rejected", "offline">> ELSE <<"offline">>)
       ELSE emit(<<"idle">>) /\ UNCHANGED <<active, waiting>>

ManagerNext == proxy = "up" /\ (handleInbound \/ onRunEvent \/ onConnection)

-----------------------------------------------------------------------------
(* The stream *)

(* The browser opens the stream, and again some time after it broke: the    *)
(* route subscribes on a connection of its own.                             *)
chatSubscribe ==
  /\ ~subscribed /\ Reached = "ours"
  /\ subscribed' = TRUE
  /\ UNCHANGED <<managerVars, wire, viewVars, gap>>

(* Its connection breaks, with what was on it. *)
StreamBreaks ==
  /\ subscribed /\ faults < MaxFaults
  /\ subscribed' = FALSE /\ wire' = <<>>
  /\ gap' = (gap \/ (StatusIsPast /\ \E k \in DOMAIN wire : IsStatus(wire[k])))
  /\ faults' = faults + 1
  /\ UNCHANGED <<managerVars, viewVars>>

-----------------------------------------------------------------------------
(* The view *)

(* Folds one event into the bubbles: a delta extends the reply that is being *)
(* streamed, a final text replaces it.                                       *)
applyEvent(prev, ev) ==
  LET replying == prev # <<>> /\ Last(prev).streaming
      before == IF replying THEN Front(prev) ELSE prev
  IN  CASE ev.kind = "delta" -> Append(before, [kind |-> "assistant", n |-> ev.n, streaming |-> TRUE])
        [] ev.kind = "final" -> Append(before, [kind |-> "assistant", n |-> ev.n, streaming |-> FALSE])
        [] ev.kind \in {"user", "rejected", "error"} ->
             Append(prev, [kind |-> ev.kind, n |-> ev.n, streaming |-> FALSE])
        [] OTHER -> prev

(* Faulty variant: the polls under way are left to arrive. *)
setRunningOnly(on) ==
  /\ running' = on
  /\ cards' = IF running /\ ~on THEN {} ELSE cards
  /\ UNCHANGED polls

(* When a run ends its cards are dropped and the polls under way cancelled. *)
setRunning(on) ==
  /\ running' = on
  /\ IF running /\ ~on
       THEN cards' = {} /\ polls' = [s \in PollSlots |-> Idle]
       ELSE UNCHANGED pageVars

onmessage ==
  /\ wire # <<>>
  /\ wire' = Tail(wire)
  /\ messages' = applyEvent(messages, Head(wire))
  /\ IF IsStatus(Head(wire))
       THEN /\ liveStatusSeen' = TRUE
            /\ offline' = (Head(wire).kind = "offline")
            /\ setRunning(Head(wire).kind = "running")
            /\ UNCHANGED liveEventSeen
       ELSE liveEventSeen' = TRUE /\ UNCHANGED <<running, offline, liveStatusSeen, pageVars>>
  /\ UNCHANGED <<managerVars, subscribed, seed, gap>>

(* The routes of history and status read the manager; without it, history is *)
(* empty.                                                                    *)
chatHistory ==
  /\ seed.stage = "history"
  /\ seed' = [At("events") EXCEPT !.events = IF Reached = "ours" THEN ring ELSE <<>>]
  /\ UNCHANGED <<managerVars, streamVars, messages, running, offline, liveEventSeen, liveStatusSeen, pageVars, gap>>

chatStatus ==
  /\ seed.stage = "status" /\ Reached = "ours"
  /\ seed' = [At("state") EXCEPT !.running = active, !.bridgeUp = bridgeUp]
  /\ UNCHANGED <<managerVars, streamVars, messages, running, offline, liveEventSeen, liveStatusSeen, pageVars, gap>>

(* Faulty variant: the history replaces what the stream has brought. *)
HistoryOverwrites ==
  /\ seed.stage = "events"
  /\ messages' = FoldLeft(applyEvent, <<>>, seed.events)
  /\ seed' = At("status")
  /\ UNCHANGED <<managerVars, streamVars, running, offline, liveEventSeen, liveStatusSeen, pageVars, gap>>

(* History is shown unless the stream got here first. *)
HistoryArrives ==
  /\ seed.stage = "events"
  /\ messages' = IF liveEventSeen THEN messages ELSE FoldLeft(applyEvent, <<>>, seed.events)
  /\ seed' = At("status")
  /\ UNCHANGED <<managerVars, streamVars, running, offline, liveEventSeen, liveStatusSeen, pageVars, gap>>

(* Faulty variant: the status fetched replaces a later one of the stream. *)
StatusOverwrites ==
  /\ seed.stage = "state"
  /\ offline' = ~seed.bridgeUp /\ setRunning(seed.running)
  /\ seed' = At("seeded")
  /\ UNCHANGED <<managerVars, streamVars, messages, liveEventSeen, liveStatusSeen, gap>>

(* So with the status; a request that failed reads as offline and idle. *)
StatusArrives ==
  /\ seed.stage \in {"status", "state"}
  /\ IF liveStatusSeen
       THEN UNCHANGED <<offline, running, pageVars>>
       ELSE offline' = ~seed.bridgeUp /\ setRunning(seed.running)
  /\ seed' = At(IF seed.stage = "state" THEN "seeded" ELSE "unknown")
  /\ UNCHANGED <<managerVars, streamVars, messages, liveEventSeen, liveStatusSeen, gap>>

PanelNext ==
  \/ StreamBreaks /\ UNCHANGED pageVars
  \/ /\ \/ (ManagerNext \/ chatSubscribe) /\ UNCHANGED pageVars
        \/ onmessage \/ chatHistory \/ chatStatus \/ HistoryArrives \/ StatusArrives
     /\ UNCHANGED faults

-----------------------------------------------------------------------------
Lasting == {b.n : b \in {messages[k] : k \in {j \in DOMAIN messages : ~messages[j].streaming /\ messages[j].kind # "error"}}}

(* What was said and is on the screen stays there: messages, whole replies   *)
(* and refusals are removed neither by later deltas nor by a history that    *)
(* arrives late ("a late-resolving seed must no-op rather than clobber       *)
(* streamed deltas", ChatPanel.tsx).  The notice of a failed run is left     *)
(* out: it does not set the guard of the history, which may remove it.       *)
SaidStays == [][Lasting \subseteq Lasting']_messages

(* Once a status has been read or received, none is on its way, and none     *)
(* passed while the panel was not subscribed, the panel knows whether a run  *)
(* is active and does not offer to send while the bridge is down, in         *)
(* whatever order the stream and the fetched status arrived (ChatPanel.tsx,  *)
(* liveStatusSeenRef).                                                       *)
PanelFollowsRun ==
  /\ ~gap /\ (liveStatusSeen \/ seed.stage = "seeded")
  /\ \A k \in DOMAIN wire : ~IsStatus(wire[k])
  => running = active /\ (~offline => bridgeUp)
=============================================================================
