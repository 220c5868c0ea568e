--------------------------- MODULE TelegramChannel ---------------------------
(***************************************************************************)
(* The Telegram approval channel (approval/channels/telegram.ts) on top of *)
(* the approval queue.  Every call of the Bot API is a request in flight:  *)
(* it arrives or not, its reply comes back or not, and two edits of one    *)
(* message may be applied in either order.  A token belongs to exactly one *)
(* approval, so `prompts` and `tokenByApprovalId` are one set of ids.      *)
(***************************************************************************)
EXTENDS ApprovalQueue, Sequences

CONSTANT MaxTaps   (* bound: button taps the phone may send *)

ASSUME TelegramAssumption == MaxTaps \in Nat

VARIABLES
  running,   (* between start() and stop()                                    *)
  sent,      (* handleRequest's sendMessage, per approval                     *)
  prompts,   (* approvals whose prompt is tracked: a tap on it can still act  *)
  armed,     (* approvals whose "expiring soon" timer is set                  *)
  screen,    (* what the message on the phone shows                           *)
  edits,     (* editMessageText requests in flight                            *)
  updates,   (* taps Telegram holds for the next getUpdates                   *)
  polling,   (* a getUpdates is in flight                                     *)
  batch,     (* taps fetched and not yet handled                              *)
  acking,    (* the tap whose answerCallbackQuery the poll loop awaits        *)
  taps,      (* taps sent so far                                              *)
  late       (* history: approvals settled while their prompt was being sent  *)

channelVars ==
  <<running, sent, prompts, armed, screen, edits, updates, polling, batch, acking,
  taps, late>>
vars == <<queueVars, channelVars>>

Sending == {"idle", "unsent", "sending", "arrived", "returned", "failed"}
Texts == {"absent", "prompt", "warning", "allowed", "denied", "elsewhere"}
Issuers == {"poll", "resolver", "timer"}
Edit == [id : Ids, text : Texts, by : Issuers]
Tap == [id : Ids, choice : {"allow_once", "deny"}, owner : BOOLEAN]
NoTap == [id |-> "none"]

TelegramTypeOK ==
  /\ QueueTypeOK
  /\ running \in BOOLEAN
  /\ sent \in [Ids -> Sending]
  /\ prompts \in SUBSET Ids
  /\ armed \in SUBSET prompts
  /\ screen \in [Ids -> Texts]
  /\ edits \in SUBSET Edit
  /\ updates \in Seq(Tap) /\ batch \in Seq(Tap)
  /\ polling \in BOOLEAN
  /\ acking \in Tap \cup {NoTap}
  /\ taps \in 0..MaxTaps
  /\ late \in SUBSET Ids

Init ==
  /\ QueueInit
  /\ running = TRUE
  /\ sent = [i \in Ids |-> "idle"]
  /\ prompts = {}
  /\ armed = {}
  /\ screen = [i \in Ids |-> "absent"]
  /\ edits = {}
  /\ updates = << >> /\ batch = << >>
  /\ polling = FALSE
  /\ acking = NoTap
  /\ taps = 0
  /\ late = {}
-----------------------------------------------------------------------------
(* Delivery: handleRequest.                                                  *)

(* queue.request() emits approval_request; a running channel starts sending. *)
Ask(i, from) ==
  /\ sent[i] = "idle"
  /\ request(i, from)
  /\ sent' = [sent EXCEPT ![i] = IF running THEN "sending" ELSE "unsent"]
  /\ UNCHANGED <<running, prompts, armed, screen, edits, updates, polling, batch,
                 acking, taps, late>>

MessageArrives(i) ==
  /\ sent[i] = "sending"
  /\ sent' = [sent EXCEPT ![i] = "arrived"]
  /\ screen' = [screen EXCEPT ![i] = "prompt"]
  /\ UNCHANGED <<queueVars, running, prompts, armed, edits, updates, polling, batch,
                 acking, taps, late>>

(* sendMessage resolves: only now is the prompt tracked and its warning set, *)
(* whether or not the approval is still queued.                              *)
SendReturns(i) ==
  /\ sent[i] = "arrived"
  /\ sent' = [sent EXCEPT ![i] = "returned"]
  /\ prompts' = prompts \cup {i}
  /\ armed' = armed \cup {i}
  /\ late' = IF i \in queue THEN late ELSE late \cup {i}
  /\ UNCHANGED <<queueVars, running, screen, edits, updates, polling, batch, acking,
                 taps>>

(* The request is lost on its way, or only its reply is. *)
SendFails(i) ==
  /\ sent[i] \in {"sending", "arrived"}
  /\ sent' = [sent EXCEPT ![i] = "failed"]
  /\ UNCHANGED <<queueVars, running, prompts, armed, screen, edits, updates, polling,
                 batch, acking, taps, late>>
-----------------------------------------------------------------------------
(* Resolution.                                                               *)

(* Faulty variant: the warning timer outlives its prompt. *)
consumeKeepingTimer(i) == prompts' = prompts \ {i} /\ UNCHANGED armed

(* consume(): both indexes and the warning timer. *)
consume(i) == prompts' = prompts \ {i} /\ armed' = armed \ {i}

(* Faulty variant: the message is edited and the token kept. *)
resolvedElsewhereKeepingToken(i) ==
  /\ UNCHANGED <<prompts, armed>>
  /\ edits' = IF running /\ i \in prompts
              THEN edits \cup {[id |-> i, text |-> "elsewhere", by |-> "resolver"]}
              ELSE edits

(* The approval_resolved listener: a prompt not tracked is not ours to edit. *)
handleResolvedElsewhere(i) ==
  IF running /\ i \in prompts
  THEN /\ consume(i)
       /\ edits' = edits \cup {[id |-> i, text |-> "elsewhere", by |-> "resolver"]}
  ELSE UNCHANGED <<prompts, armed, edits>>

AnswerOverIpc(i, c) ==
  /\ respond(i, c, "ipc")
  /\ handleResolvedElsewhere(i)
  /\ UNCHANGED <<running, sent, screen, updates, polling, batch, acking, taps, late>>

TimeOut(i) ==
  /\ expire(i)
  /\ handleResolvedElsewhere(i)
  /\ UNCHANGED <<running, sent, screen, updates, polling, batch, acking, taps, late>>

(* The "expiring soon" edit keeps the buttons. *)
WarningFires(i) ==
  /\ i \in armed
  /\ armed' = armed \ {i}
  /\ edits' = edits \cup {[id |-> i, text |-> "warning", by |-> "timer"]}
  /\ UNCHANGED <<queueVars, running, sent, prompts, screen, updates, polling, batch,
                 acking, taps, late>>
-----------------------------------------------------------------------------
(* Taps and the poll loop.                                                   *)

(* Any button of a message that was ever shown, with a stale or a forged     *)
(* keyboard: callback data is all the channel sees.                          *)
TapButton(t) ==
  /\ taps < MaxTaps
  /\ screen[t.id] # "absent"
  /\ taps' = taps + 1
  /\ updates' = Append(updates, t)
  /\ UNCHANGED <<queueVars, running, sent, prompts, armed, screen, edits, polling,
                 batch, acking, late>>

PollIdle == acking = NoTap /\ ~ \E e \in edits : e.by = "poll"

(* The loop polls again once the batch is handled, until stop(). *)
getUpdates ==
  /\ running /\ ~polling /\ PollIdle /\ batch = << >>
  /\ polling' = TRUE
  /\ UNCHANGED <<queueVars, running, sent, prompts, armed, screen, edits, updates,
                 batch, acking, taps, late>>

(* Taps come back, stop() or not; an empty or failed poll is polled again,   *)
(* which leaves the channel where it is.                                     *)
PollReturns ==
  /\ polling /\ updates # << >>
  /\ polling' = FALSE
  /\ batch' = updates
  /\ updates' = << >>
  /\ UNCHANGED <<queueVars, running, sent, prompts, armed, screen, edits, acking,
                 taps, late>>

(* Faulty variant: an allow is accepted whatever the origin of the prompt. *)
IgnoredAnyOrigin(t) == ~t.owner \/ t.id \notin prompts

(* A tap that resolves nothing: not the owner's, on a consumed or unknown    *)
(* token, or an allow of a prompt the phone itself asked for.                *)
Ignored(t) ==
  \/ ~t.owner
  \/ t.id \notin prompts
  \/ origin[t.id] = "telegram" /\ t.choice # "deny"

IgnoreTap ==
  /\ PollIdle /\ batch # << >> /\ Ignored(Head(batch))
  /\ batch' = Tail(batch)
  /\ UNCHANGED <<queueVars, running, sent, prompts, armed, screen, edits, updates,
                 polling, acking, taps, late>>

(* respond() on an id that is no longer queued changes nothing, and the      *)
(* channel does not learn of it.                                             *)
RespondToQueue(t) ==
  IF t.id \in queue THEN respond(t.id, t.choice, "telegram") ELSE UNCHANGED queueVars

(* The token is consumed, then the queue answered: the listener it calls     *)
(* finds no prompt.  The edit waits for the acknowledgement.                 *)
HandleTap ==
  LET t == Head(batch)
  IN  /\ PollIdle /\ batch # << >> /\ ~Ignored(t)
      /\ consume(t.id)
      /\ RespondToQueue(t)
      /\ acking' = t
      /\ batch' = Tail(batch)
      /\ UNCHANGED <<running, sent, screen, edits, updates, polling, taps, late>>

Acknowledged ==
  /\ acking # NoTap
  /\ acking' = NoTap
  /\ edits' = edits \cup
       {[id |-> acking.id, by |-> "poll",
         text |-> IF acking.choice = "allow_once" THEN "allowed" ELSE "denied"]}
  /\ UNCHANGED <<queueVars, running, sent, prompts, armed, screen, updates, polling,
                 batch, taps, late>>

(* An edit in flight is applied, or fails and is forgotten. *)
EditSettles(e, applied) ==
  /\ edits' = edits \ {e}
  /\ screen' = IF applied THEN [screen EXCEPT ![e.id] = e.text] ELSE screen
  /\ UNCHANGED <<queueVars, running, sent, prompts, armed, updates, polling, batch,
                 acking, taps, late>>

(* stop(): listeners off, warnings cleared; the batch in hand is finished. *)
stop ==
  /\ running
  /\ running' = FALSE
  /\ armed' = {}
  /\ UNCHANGED <<queueVars, sent, prompts, screen, edits, updates, polling, batch,
                 acking, taps, late>>

(* The process is going down: queue.shutdown() follows stop(). *)
ShutDownQueue ==
  /\ ~running
  /\ shutdown
  /\ UNCHANGED channelVars
-----------------------------------------------------------------------------
Next ==
  \/ \E i \in Ids :
       \/ \E from \in Channels \cup {"none"} : Ask(i, from)
       \/ MessageArrives(i)
       \/ SendReturns(i)
       \/ SendFails(i)
       \/ \E c \in ApprovalChoices : AnswerOverIpc(i, c)
       \/ TimeOut(i)
       \/ WarningFires(i)
  \/ \E t \in Tap : TapButton(t)
  \/ getUpdates
  \/ PollReturns
  \/ IgnoreTap
  \/ HandleTap
  \/ Acknowledged
  \/ \E e \in edits, applied \in BOOLEAN : EditSettles(e, applied)
  \/ stop
  \/ ShutDownQueue

(* The queue's timers fire; nothing is assumed of Telegram or of the owner. *)
Spec == Init /\ [][Next]_vars
FairSpec == Spec /\ \A i \in Ids : WF_vars(TimeOut(i))
-----------------------------------------------------------------------------
(* What the phone shows of an answer is what the queue recorded: no prompt   *)
(* the owner tapped himself is reported as resolved elsewhere, on the screen *)
(* or by an edit under way, "Allowed once" means this tap allowed the call,  *)
(* and a tracked prompt stands for an approval that still waits.  The last   *)
(* two except prompts whose message was on the way when their approval was   *)
(* settled, and taps already fetched when stop() took the listener away.     *)
ScreenTellsTheAnswer ==
  /\ \A i \in Ids :
       screen[i] = "elsewhere" \/ (\E e \in edits : e.id = i /\ e.text = "elsewhere")
         => via[i] # "telegram"
  /\ running =>
       /\ prompts \subseteq queue \cup late
       /\ \A i \in Ids \ late :
            /\ screen[i] = "allowed" => choice[i] = "allow_once" /\ via[i] = "telegram"
            /\ screen[i] = "denied" => choice[i] = "deny" /\ via[i] = "telegram"

(* Taps, stale, doubled or forged, do to the queue only what one settling    *)
(* answer by an allowed choice does.                                         *)
ImplementsQueue == QueueSpec

(* A tracked prompt does not stay actionable for ever, whatever Telegram and *)
(* the owner do: the queue's timer ends it.                                  *)
PromptIsConsumed ==
  \A i \in Ids : i \in prompts /\ i \notin late /\ running ~> i \notin prompts \/ ~running

(* Stated by docs/approval-channels.md (an approval answered on another      *)
(* surface or timed out consumes the prompt; a tap on it is then a harmless  *)
(* no-op) and not so for a prompt whose sendMessage returns after the        *)
(* approval was settled: it is tracked, and a tap turns it to "Allowed".     *)
AllowedMeansAllowed ==
  \A i \in Ids : screen[i] = "allowed" => choice[i] = "allow_once"
==============================================================================
