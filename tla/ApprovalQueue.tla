---------------------------- MODULE ApprovalQueue ----------------------------
(***************************************************************************)
(* The in-memory approval queue (approval/queue.ts).  Each id is one       *)
(* request; the promise of an id is settled when `choice` leaves "none".   *)
(* Timers are not timed: a timeout may fire at any moment an entry is      *)
(* queued, which covers every race of an answer with its deadline.         *)
(***************************************************************************)
EXTENDS Naturals

CONSTANTS
  Ids,            (* approval ids                                     *)
  Channels,       (* chat.channels: a subset of "web", "telegram"     *)
  TimeoutAction   (* approval.timeout_action: "allow" or "deny"       *)

ASSUME ApprovalAssumption ==
  /\ Channels \subseteq {"web", "telegram"}
  /\ TimeoutAction \in {"allow", "deny"}

VARIABLES
  queue,    (* ids with an entry in the map                            *)
  origin,   (* request.origin: the chat channel of the run, or "none"  *)
  choice,   (* the choice the entry was resolved with                  *)
  via       (* who resolved it                                         *)

queueVars == <<queue, origin, choice, via>>

ApprovalChoices == {"allow_once", "allow_session", "deny"}
Sources == {"ipc", "telegram", "timeout"}

QueueTypeOK ==
  /\ queue \in SUBSET Ids
  /\ origin \in [Ids -> Channels \cup {"none"}]
  /\ choice \in [Ids -> ApprovalChoices \cup {"none"}]
  /\ via \in [Ids -> Sources \cup {"none"}]

QueueInit ==
  /\ queue = {}
  /\ origin = [i \in Ids |-> "none"]
  /\ choice = [i \in Ids |-> "none"]
  /\ via = [i \in Ids |-> "none"]

(* request(): a fresh entry with its timer. *)
request(i, from) ==
  /\ queue' = queue \cup {i}
  /\ origin' = [origin EXCEPT ![i] = from]
  /\ UNCHANGED <<choice, via>>

(* Faulty variant: an id that is no longer queued is settled again. *)
SettleAgain(i, c, source) ==
  /\ queue' = queue \ {i}
  /\ choice' = [choice EXCEPT ![i] = c]
  /\ via' = [via EXCEPT ![i] = source]
  /\ UNCHANGED origin

Settle(i, c, source) ==
  /\ i \in queue
  /\ queue' = queue \ {i}
  /\ choice' = [choice EXCEPT ![i] = c]
  /\ via' = [via EXCEPT ![i] = source]
  /\ UNCHANGED origin

(* respond(): an id that is no longer queued is ignored. *)
respond(i, c, source) == Settle(i, c, source)

(* Faulty variant: the configured timeout action, whoever started the run. *)
TimeoutChoiceAnyOrigin(i) == IF TimeoutAction = "allow" THEN "allow_once" ELSE "deny"

(* A Telegram-originated request is denied on timeout whatever the setting. *)
TimeoutChoice(i) ==
  IF origin[i] # "telegram" /\ TimeoutAction = "allow" THEN "allow_once" ELSE "deny"

(* Faulty variant: the entry is dropped and its promise never settled. *)
expireSilently(i) ==
  /\ i \in queue
  /\ queue' = queue \ {i}
  /\ UNCHANGED <<origin, choice, via>>

expire(i) == Settle(i, TimeoutChoice(i), "timeout")

(* shutdown(): timers cleared, promises left unsettled. *)
shutdown == queue' = {} /\ UNCHANGED <<origin, choice, via>>

(* What the Telegram channel lets a tap do: a prompt of Telegram origin can   *)
(* only be denied from the phone.                                             *)
TapChoices(from) == IF from = "telegram" THEN {"deny"} ELSE {"allow_once", "deny"}

(* The queue as its users see it: entries come with the origin of the active  *)
(* run, and each is settled at most once, over IPC, by a tap or by its timer. *)
QueueNext ==
  \/ \E i \in Ids :
       \/ \E from \in Channels \cup {"none"} : request(i, from)
       \/ \E c \in ApprovalChoices : respond(i, c, "ipc")
       \/ \E c \in TapChoices(origin[i]) : respond(i, c, "telegram")
       \/ expire(i)
  \/ shutdown

QueueSpec == QueueInit /\ [][QueueNext]_queueVars
=============================================================================
