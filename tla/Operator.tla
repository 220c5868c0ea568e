------------------------------- MODULE Operator -------------------------------
(***************************************************************************)
(* What the person beside the proxy does: sets it up, answers approvals    *)
(* and follows the chat.  A behaviour has one desk, the tools in use in    *)
(* it; a browser shows one page.                                           *)
(***************************************************************************)
EXTENDS ChatPanel, Setup

CONSTANTS
  Desks   (* bound: the combinations looked at: tools in use, of "watch",  *)
          (* "forward", "respond", "approvals" and "chat" (the pages),     *)
          (* "socket" (servers start and stop) and "setup"; the approvals  *)
          (* that are requested, the answers sent once, and the polls that *)
          (* may overlap                                                   *)

ASSUME DesksAssumption ==
  \A d \in Desks :
    /\ d.ids \subseteq Ids /\ d.asks \subseteq Asks /\ d.polls \subseteq PollSlots /\ d.events <= MaxEvents
    /\ ~({"approvals", "chat"} \subseteq d.tools)

VARIABLES desk

vars == <<desk, surfaceVars, panelVars, setupVars>>

OperatorTypeOK == desk \in Desks /\ SurfacesTypeOK /\ PanelTypeOK /\ SetupTypeOK

Init == desk \in Desks /\ SurfacesInit /\ PanelInit /\ SetupInit

(* What the panel and setup do not notice. *)
Apart == UNCHANGED <<desk, panelVars, setupVars>>
Elsewhere == UNCHANGED <<watchVars, forwardVars, pageVars, faults>>

Has(tool) == tool \in desk.tools
Pages == Has("approvals") \/ Has("chat")

Server ==
  /\ \/ \E i \in desk.ids : onApprovalRequest(i) \/ onApprovalResolved(i)
     \/ \E n \in desk.asks : handleRespond(n) \/ OtherRefuses(n)
     \/ \E a \in typed : handleTyped(a)
     \/ \E f \in Followers : Has(f) /\ (handleConnection(f) \/ cleanup(f))
     \/ Has("socket") /\ SocketNext
  /\ Elsewhere /\ Apart

Answering ==
  /\ \E n \in desk.asks :
       \/ TimesOut(n) /\ Elsewhere
       \/ onResolve(n)
       \/ Has("respond") /\ approvalsRespondCommand(n)
       \/ Pages /\ act(n)
  /\ Apart

Following == (watchCommand \/ approvalsForwardCommand) /\ Apart

Ticks(s) == (Has("approvals") \/ (Has("chat") /\ running)) /\ PollStarts(s) /\ Apart
Listing(s) == (listPending(s) \/ PollArrives(s)) /\ Apart

Polling == \E s \in desk.polls : Ticks(s) \/ Listing(s) \/ (PollIsLost(s) /\ Apart)

Chatting ==
  Has("chat") /\ PanelNext /\ emitted' <= desk.events /\ UNCHANGED <<desk, serverVars, watchVars, forwardVars, setupVars>>

SettingUp == Has("setup") /\ SetupNext /\ UNCHANGED <<desk, surfaceVars, panelVars>>

Next == Server \/ Answering \/ Following \/ Polling \/ Chatting \/ SettingUp

Spec == Init /\ [][Next]_vars

(* The page's timer ticks, and each request for the list is answered or     *)
(* times out.                                                               *)
FairSpec == Spec /\ \A s \in PollSlots : WF_vars(Ticks(s)) /\ WF_vars(Listing(s))

(* The chat page shows no card when it sees no run: a poll that was under    *)
(* way when the run ended does not bring one back (ChatPanel.tsx, "a stale   *)
(* card here could invite a click on a dead approval").                      *)
CardsNeedRun == Has("chat") /\ ~running => cards = {}
=============================================================================
