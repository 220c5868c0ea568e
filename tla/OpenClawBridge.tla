---------------------------- MODULE OpenClawBridge ----------------------------
(***************************************************************************)
(* The bridge to the assistant's gateway (chat/openclaw-bridge.ts): one    *)
(* current socket, a reconnect timer, and the correlation of chat.send     *)
(* with its reply and of the reply's run with the events on the wire.      *)
(*                                                                         *)
(* Handlers of a socket act only while it is current (`isCurrent`): every  *)
(* step that gives a socket up also bumps the generation, so a socket is   *)
(* current iff it is `ws`.  The gateway is external: it is modelled from   *)
(* the frames the bridge sends and expects, with `res` before the run's    *)
(* events and one closing event for each run.                              *)
(***************************************************************************)
EXTENDS Naturals, Sequences

CONSTANTS
  Messages,     (* chat messages; a message also names its run       *)
  Ambient,      (* a run of somebody else on the broadcast bus       *)
  NoRun,        (* undefined                                         *)
  MaxSockets,   (* bound: connections opened                         *)
  MaxFrames     (* bound: frames from the gateway in flight          *)

ASSUME BridgeAssumption ==
  /\ Ambient \notin Messages /\ NoRun \notin Messages /\ Ambient # NoRun
  /\ MaxSockets \in Nat /\ MaxFrames \in Nat

VARIABLES
  stopped,         (* stop() was called, or the gateway refused the token    *)
  up,              (* the handshake of the current socket is complete        *)
  ws,              (* the current socket, 0 for undefined                    *)
  reconnectTimer,  (* a reconnect is scheduled                               *)
  opened,          (* sockets opened so far                                  *)
  pendingSend,     (* the chat.send whose reply is awaited                   *)
  activeRun,       (* the run the bridge translates events of                *)
  uplink,          (* chat.send frames on the current socket, not yet read   *)
  downlink,        (* frames from the gateway on the current socket          *)
  gateway,         (* what the gateway did with each message                 *)
  carrier          (* the socket each message was sent on, 0 for none        *)

correlation == <<pendingSend, activeRun>>
wire == <<uplink, downlink, gateway, carrier>>
bridgeVars == <<stopped, up, ws, reconnectTimer, opened, correlation, wire>>

Frame == [kind : {"ack", "nack", "final", "error"}, run : Messages \cup {Ambient}]

BridgeTypeOK ==
  /\ stopped \in BOOLEAN /\ up \in BOOLEAN /\ reconnectTimer \in BOOLEAN
  /\ opened \in 0..MaxSockets
  /\ ws \in {0, opened}
  /\ pendingSend \in Messages \cup {NoRun}
  /\ activeRun \in Messages \cup {NoRun}
  /\ uplink \in SUBSET Messages
  /\ downlink \in Seq(Frame)
  /\ gateway \in [Messages -> {"none", "running", "refused", "ended"}]
  /\ carrier \in [Messages -> 0..MaxSockets]

BridgeInit ==
  /\ stopped = FALSE /\ up = FALSE /\ reconnectTimer = FALSE
  /\ opened = 0
  /\ ws = 0
  /\ pendingSend = NoRun
  /\ activeRun = NoRun
  /\ uplink = {}
  /\ downlink = << >>
  /\ gateway = [m \in Messages |-> "none"]
  /\ carrier = [m \in Messages |-> 0]
-----------------------------------------------------------------------------
(* The connection.                                                           *)

connect ==
  /\ opened < MaxSockets
  /\ opened' = opened + 1
  /\ ws' = opened + 1
  /\ pendingSend' = NoRun
  /\ activeRun' = NoRun

(* What was written before the socket went may still reach the gateway.      *)
LoseSocket ==
  /\ ws' = 0
  /\ up' = FALSE
  /\ downlink' = << >>
  /\ uplink' = {}
  /\ \E received \in SUBSET uplink :
       gateway' = [m \in Messages |-> IF m \in received THEN "running" ELSE gateway[m]]
  /\ UNCHANGED <<opened, carrier>>

(* Faulty variant: a reconnect is scheduled once, for the first socket only. *)
scheduleFirstReconnect ==
  reconnectTimer' = (~stopped /\ (reconnectTimer \/ opened = 1))

scheduleReconnect == reconnectTimer' = (~stopped \/ reconnectTimer)

(* Called at boot, and legal again once the bridge is stopped. *)
start ==
  /\ opened = 0 \/ stopped
  /\ stopped' = FALSE
  /\ reconnectTimer' = FALSE
  /\ up' = FALSE
  /\ connect
  /\ UNCHANGED wire

Reconnect ==
  /\ reconnectTimer
  /\ reconnectTimer' = FALSE
  /\ connect
  /\ UNCHANGED <<stopped, up, wire>>

HandshakeCompletes ==
  /\ ws # 0 /\ ~up
  /\ up' = TRUE
  /\ UNCHANGED <<stopped, ws, reconnectTimer, opened, correlation, wire>>

(* A refused token is a configuration problem: no retry. *)
HandshakeRefused ==
  /\ ws # 0 /\ ~up
  /\ stopped' = TRUE
  /\ ws' = 0
  /\ UNCHANGED <<up, reconnectTimer, opened, correlation, wire>>

(* failConnect: the handshake times out or is answered with something else. *)
HandshakeFails ==
  /\ ws # 0 /\ ~up
  /\ ws' = 0
  /\ scheduleReconnect
  /\ UNCHANGED <<stopped, up, opened, correlation, wire>>

(* onDown; whoever listens hears of it only if the bridge was up. *)
SocketCloses ==
  /\ ws # 0
  /\ LoseSocket
  /\ scheduleReconnect
  /\ UNCHANGED <<stopped, correlation>>

stop ==
  /\ opened > 0 /\ ~stopped
  /\ stopped' = TRUE
  /\ reconnectTimer' = FALSE
  /\ LoseSocket
  /\ pendingSend' = NoRun
  /\ activeRun' = NoRun
-----------------------------------------------------------------------------
(* chat.send and the gateway.                                                *)

(* Only called while up: drain() follows isUp() or a frame in one turn.      *)
send(m) ==
  /\ pendingSend' = m
  /\ uplink' = uplink \cup {m}
  /\ carrier' = [carrier EXCEPT ![m] = ws]

GatewayFrame(kind, run) == Append(downlink, [kind |-> kind, run |-> run])

GatewayAnswers(m, accepted) ==
  /\ m \in uplink
  /\ uplink' = uplink \ {m}
  /\ gateway' = [gateway EXCEPT ![m] = IF accepted THEN "running" ELSE "refused"]
  /\ downlink' = GatewayFrame(IF accepted THEN "ack" ELSE "nack", m)
  /\ UNCHANGED <<stopped, up, ws, reconnectTimer, opened, correlation, carrier>>

(* A run ends whether or not the socket it was started on still exists; the  *)
(* event goes to whoever is connected.                                       *)
RunEnds(m, kind) ==
  /\ gateway[m] = "running"
  /\ gateway' = [gateway EXCEPT ![m] = "ended"]
  /\ downlink' = IF up THEN GatewayFrame(kind, m) ELSE downlink
  /\ UNCHANGED <<stopped, up, ws, reconnectTimer, opened, correlation, uplink, carrier>>

AmbientRunEnds ==
  /\ up /\ Len(downlink) < MaxFrames
  /\ downlink' = GatewayFrame("final", Ambient)
  /\ UNCHANGED <<stopped, up, ws, reconnectTimer, opened, correlation, uplink,
                 gateway, carrier>>
=============================================================================
