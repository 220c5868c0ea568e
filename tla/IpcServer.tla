------------------------------ MODULE IpcServer ------------------------------
(***************************************************************************)
(* The unix socket of the proxy (ipc/server.ts) with the approval queue    *)
(* behind it: the socket file, which a second proxy of the same user takes *)
(* over, the clients that follow approval events over one connection       *)
(* (`habena watch`, `habena approvals forward`), and the requests that ask *)
(* one thing on a connection of their own (ipc/client.ts, the dashboard's  *)
(* approval-ipc.ts).                                                       *)
(***************************************************************************)
EXTENDS ApprovalQueue, Sequences, SequencesExt

CONSTANTS
  Answers,      (* the choices operators make, of ApprovalChoices           *)
  Askers,       (* who sends one-shot answers: "page", "cli"                *)
  Followers,    (* who follows events: "watch", "forward"                   *)
  Asks          (* bound: the one-shot answers sent, by number              *)

ASSUME IpcAssumption ==
  /\ Answers \subseteq ApprovalChoices
  /\ Askers = {"page", "cli"} /\ Followers = {"watch", "forward"}
  /\ Asks \subseteq Nat \ {0}

VARIABLES
  proxy,        (* "up", "closing": no longer listening, or "down"          *)
  path,         (* whose server the socket file leads to: "ours", "other",  *)
                (* or "none", no file                                       *)
  rival,        (* a second proxy: "unborn", "up" or "gone"                 *)
  ask,          (* the one-shot answers: who asked what, what is on its     *)
                (* connection (wire), and what the asker was told           *)
  settledBy,    (* history: the one-shot answer that settled an id, if one  *)
  follow,       (* whose server a follower is connected to; "gone": it left *)
  inbox,        (* approval_request messages written to a follower          *)
  typed         (* answers of followers on their way: id and choice         *)

socketVars == <<proxy, path, rival>>
followVars == <<follow, inbox, typed>>
serverVars == <<queueVars, socketVars, ask, settledBy, followVars>>

AskOK ==
  [by : Askers, id : Ids, choice : Answers, at : {"ours", "other", "none"},
   wire : {"request", "ok", "refused", "empty"},
   told : {"waiting", "ok", "refused", "failed"}]
Unused == [told |-> "unused"]

IpcTypeOK ==
  /\ QueueTypeOK
  /\ proxy \in {"up", "closing", "down"}
  /\ path \in {"ours", "other", "none"} /\ rival \in {"unborn", "up", "gone"}
  /\ ask \in [Asks -> AskOK \cup {Unused}]
  /\ settledBy \in [Ids -> Asks \cup {0}]
  /\ follow \in [Followers -> {"off", "ours", "other", "gone"}]
  /\ inbox \in [Followers -> Seq(Ids)]
  /\ typed \subseteq [id : Ids, choice : Answers]

IpcInit ==
  /\ QueueInit
  /\ proxy = "up" /\ path = "ours" /\ rival = "unborn"
  /\ ask = [n \in Asks |-> Unused]
  /\ settledBy = [i \in Ids |-> 0]
  /\ follow = [f \in Followers |-> "off"] /\ inbox = [f \in Followers |-> <<>>]
  /\ typed = {}

Reachable == path = "other" \/ (path = "ours" /\ proxy = "up")

(* Whom a new connection reaches. *)
Reached == IF Reachable THEN path ELSE "none"

-----------------------------------------------------------------------------
(* The queue's events *)

broadcast(i) ==
  inbox' = [f \in Followers |-> IF follow[f] = "ours" THEN Append(inbox[f], i) ELSE inbox[f]]

(* A call is held: its request is broadcast unless the server has stopped. *)
onApprovalRequest(i) ==
  /\ proxy # "down" /\ i \notin queue /\ choice[i] = "none"
  /\ request(i, "none")
  /\ broadcast(i)
  /\ UNCHANGED <<socketVars, ask, settledBy, follow, typed>>

(* It is settled by its timer, or by a tap on the phone until the channels  *)
(* are stopped.  No client modelled here acts on approval_resolved.         *)
onApprovalResolved(i) ==
  /\ proxy # "down"
  /\ \/ expire(i)
     \/ proxy = "up" /\ \E c \in TapChoices(origin[i]) : respond(i, c, "telegram")
  /\ UNCHANGED <<socketVars, ask, settledBy, followVars>>

-----------------------------------------------------------------------------
(* Connections *)

(* Faulty variant: a new client is told of later approvals only. *)
handleConnectionSilently(f) ==
  /\ follow[f] = "off" /\ Reachable
  /\ follow' = [follow EXCEPT ![f] = path]
  /\ UNCHANGED <<queueVars, socketVars, ask, settledBy, inbox, typed>>

(* A new client is sent what is pending, in one turn with its admission to  *)
(* the broadcasts.  The other proxy has nothing pending.                    *)
handleConnection(f) ==
  /\ follow[f] = "off" /\ Reachable
  /\ follow' = [follow EXCEPT ![f] = path]
  /\ \E pending \in SetToSeqs(IF path = "ours" THEN queue ELSE {}) :
       inbox' = [inbox EXCEPT ![f] = pending]
  /\ UNCHANGED <<queueVars, socketVars, ask, settledBy, typed>>

(* The operator ends the client; what it sent is still read. *)
cleanup(f) ==
  /\ follow[f] \in {"ours", "other"}
  /\ follow' = [follow EXCEPT ![f] = "gone"]
  /\ inbox' = [inbox EXCEPT ![f] = <<>>]
  /\ UNCHANGED <<queueVars, socketVars, ask, settledBy, typed>>

(* A one-shot answer is sent, or fails at once if nobody listens. *)
AskOnce(n, w, i, c) ==
  /\ ask[n] = Unused /\ \A m \in Asks : m < n => ask[m] # Unused
  /\ ask' = [ask EXCEPT ![n] =
       [by |-> w, id |-> i, choice |-> c, at |-> Reached,
        wire |-> IF Reachable THEN "request" ELSE "empty",
        told |-> IF Reachable THEN "waiting" ELSE "failed"]]
  /\ UNCHANGED <<queueVars, socketVars, settledBy, followVars>>

(* The acknowledgement, dropped if the asker has closed its connection. *)
Acked(n, ok) ==
  ask' = [ask EXCEPT ![n].wire =
            IF ask[n].told # "waiting" THEN "empty" ELSE IF ok THEN "ok" ELSE "refused"]

(* Faulty variant: success is acknowledged whether or not the id is known. *)
handleRespondUnchecked(n) ==
  LET q == ask[n]
  IN  /\ q # Unused /\ q.wire = "request" /\ q.at = "ours" /\ proxy = "up"
      /\ IF q.id \in queue
           THEN respond(q.id, q.choice, "ipc") /\ settledBy' = [settledBy EXCEPT ![q.id] = n]
           ELSE UNCHANGED <<queueVars, settledBy>>
      /\ Acked(n, TRUE)
      /\ UNCHANGED <<socketVars, followVars>>

(* Handling of "respond": the id is looked up first, so that the client is  *)
(* told whether its answer settled anything.                                *)
handleRespond(n) ==
  LET q == ask[n]
  IN  /\ q # Unused /\ q.wire = "request" /\ q.at = "ours" /\ proxy = "up"
      /\ \/ /\ respond(q.id, q.choice, "ipc")
            /\ settledBy' = [settledBy EXCEPT ![q.id] = n]
            /\ Acked(n, TRUE)
         \/ /\ q.id \notin queue
            /\ Acked(n, FALSE)
            /\ UNCHANGED <<queueVars, settledBy>>
      /\ UNCHANGED <<socketVars, followVars>>

(* An answer typed into a follower; its acknowledgement is not read. *)
handleTyped(a) ==
  /\ a \in typed /\ proxy = "up"
  /\ typed' = typed \ {a}
  /\ respond(a.id, a.choice, "ipc") \/ (a.id \notin queue /\ UNCHANGED queueVars)
  /\ UNCHANGED <<socketVars, ask, settledBy, follow, inbox>>

(* The other proxy knows none of our ids. *)
OtherRefuses(n) ==
  /\ ask[n] # Unused /\ ask[n].wire = "request" /\ ask[n].at = "other" /\ rival = "up"
  /\ Acked(n, FALSE)
  /\ UNCHANGED <<queueVars, socketVars, settledBy, followVars>>

(* The asker gives up waiting (2 s in the dashboard, 3 s in the command);   *)
(* what it wrote may still be read.                                         *)
TimesOut(n) ==
  /\ ask[n].told = "waiting"
  /\ ask' = [ask EXCEPT ![n].told = "failed",
                        ![n].wire = IF ask[n].wire = "request" THEN "request" ELSE "empty"]
  /\ UNCHANGED <<queueVars, socketVars, settledBy, followVars>>

-----------------------------------------------------------------------------
(* The life of the server and of its socket file *)

(* Every socket to the server at `where` is destroyed with what is on it. *)
destroy(where) ==
  /\ ask' = [n \in Asks |->
       IF ask[n] # Unused /\ ask[n].at = where THEN [ask[n] EXCEPT !.wire = "empty"] ELSE ask[n]]
  /\ follow' = [f \in Followers |-> IF follow[f] = where THEN "gone" ELSE follow[f]]
  /\ inbox' = [f \in Followers |-> IF follow[f] = where THEN <<>> ELSE inbox[f]]

(* stop(), until the server has closed; then it unlinks whatever the path   *)
(* leads to, and the queue is shut down with the process.                   *)
stop ==
  /\ proxy = "up"
  /\ proxy' = "closing"
  /\ destroy("ours") /\ typed' = {}
  /\ UNCHANGED <<queueVars, path, rival, settledBy>>

Exits ==
  /\ proxy = "closing"
  /\ proxy' = "down" /\ path' = "none"
  /\ shutdown
  /\ UNCHANGED <<rival, ask, settledBy, followVars>>

(* Killed: the socket file stays. *)
Killed ==
  /\ proxy # "down"
  /\ proxy' = "down"
  /\ shutdown
  /\ destroy("ours") /\ typed' = {}
  /\ UNCHANGED <<path, rival, settledBy>>

(* start() of a second proxy unlinks a socket file that is in use; its      *)
(* stop() unlinks the file again.                                           *)
RivalStarts ==
  /\ rival = "unborn"
  /\ rival' = "up" /\ path' = "other"
  /\ UNCHANGED <<queueVars, proxy, ask, settledBy, followVars>>

RivalStops ==
  /\ rival = "up"
  /\ rival' = "gone" /\ path' = "none"
  /\ destroy("other")
  /\ UNCHANGED <<queueVars, proxy, settledBy, typed>>

SocketNext == stop \/ Exits \/ Killed \/ RivalStarts \/ RivalStops

ServerNext ==
  \/ \E i \in Ids : onApprovalRequest(i) \/ onApprovalResolved(i)
  \/ \E n \in Asks : handleRespond(n) \/ OtherRefuses(n)
  \/ \E a \in typed : handleTyped(a)
  \/ SocketNext
=============================================================================
