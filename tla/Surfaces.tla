------------------------------- MODULE Surfaces -------------------------------
(***************************************************************************)
(* Where a person answers approvals: the prompts of `habena watch`         *)
(* (cli/commands/watch.ts), `habena approvals respond` and `forward`       *)
(* (cli/commands/approvals.ts), and the cards a page of the dashboard      *)
(* polls for (web: approvals/page.tsx, approval-card.tsx, api/approvals).  *)
(***************************************************************************)
EXTENDS IpcServer

CONSTANTS
  None,          (* no prompt                                              *)
  PollSlots,     (* the polls of the page that may be in flight at once    *)
  MaxFailures,   (* webhook failures in a row that end `forward` (5)       *)
  MaxFaults      (* bound: requests of the browser and streams lost        *)

ASSUME SurfacesAssumption == None \notin Ids /\ MaxFailures \in Nat \ {0} /\ MaxFaults \in Nat

VARIABLES
  backlog,     (* watch: requests behind the one on the screen             *)
  asking,      (* watch: the request on the screen                         *)
  posting,     (* forward: POSTs to the webhook under way                  *)
  posted,      (* forward: history, requests whose POST returned           *)
  failures,    (* forward: consecutiveFailures                             *)
  cards,       (* the approvals the page shows                             *)
  polls,       (* its requests for the list, by slot                       *)
  faults

watchVars == <<backlog, asking>>
forwardVars == <<posting, posted, failures>>
pageVars == <<cards, polls>>
surfaceVars == <<serverVars, watchVars, forwardVars, pageVars, faults>>

Poll == [stage : {"idle", "asked", "answered"}, list : SUBSET Ids]
Idle == [stage |-> "idle", list |-> {}]

SurfacesTypeOK ==
  /\ IpcTypeOK
  /\ backlog \in Seq(Ids) /\ asking \in Ids \cup {None}
  /\ posting \subseteq Ids /\ posted \subseteq Ids /\ failures \in 0..MaxFailures
  /\ cards \subseteq Ids /\ polls \in [PollSlots -> Poll]
  /\ faults \in 0..MaxFaults

SurfacesInit ==
  /\ IpcInit
  /\ backlog = <<>> /\ asking = None
  /\ posting = {} /\ posted = {} /\ failures = 0
  /\ cards = {} /\ polls = [s \in PollSlots |-> Idle]
  /\ faults = 0

-----------------------------------------------------------------------------
(* habena watch *)

(* A request is prompted for at once, or queued behind the one on the screen. *)
WatchReads ==
  /\ inbox["watch"] # <<>>
  /\ inbox' = [inbox EXCEPT !["watch"] = Tail(@)]
  /\ IF asking = None
       THEN asking' = Head(inbox["watch"]) /\ UNCHANGED backlog
       ELSE backlog' = Append(backlog, Head(inbox["watch"])) /\ UNCHANGED asking
  /\ UNCHANGED <<queueVars, socketVars, ask, settledBy, follow, typed, forwardVars, pageVars, faults>>

(* The answer is sent, whatever became of the request meanwhile, and the    *)
(* next prompt comes up.                                                    *)
processNext ==
  /\ follow["watch"] # "gone" /\ asking # None
  /\ \E c \in Answers : typed' = typed \cup {[id |-> asking, choice |-> c]}
  /\ IF backlog = <<>>
       THEN asking' = None /\ UNCHANGED backlog
       ELSE asking' = Head(backlog) /\ backlog' = Tail(backlog)
  /\ UNCHANGED <<queueVars, socketVars, ask, settledBy, follow, inbox, forwardVars, pageVars, faults>>

WatchExits ==
  /\ follow["watch"] = "gone" /\ asking # None
  /\ asking' = None /\ backlog' = <<>>
  /\ UNCHANGED <<serverVars, forwardVars, pageVars, faults>>

watchCommand == WatchReads \/ processNext \/ WatchExits

-----------------------------------------------------------------------------
(* habena approvals forward *)

(* Each request is posted as it is read, beside the posts under way. *)
ForwardReads ==
  /\ inbox["forward"] # <<>>
  /\ inbox' = [inbox EXCEPT !["forward"] = Tail(@)]
  /\ posting' = posting \cup {Head(inbox["forward"])}
  /\ UNCHANGED <<queueVars, socketVars, ask, settledBy, follow, typed, posted, failures, watchVars, pageVars, faults>>

(* After MaxFailures failures in a row the command gives up. *)
PostReturns(i) ==
  /\ i \in posting /\ follow["forward"] # "gone"
  /\ posting' = posting \ {i} /\ posted' = posted \cup {i}
  /\ \/ failures' = 0 /\ UNCHANGED serverVars
     \/ /\ failures' = failures + 1
        /\ IF failures' = MaxFailures THEN cleanup("forward") ELSE UNCHANGED serverVars
  /\ UNCHANGED <<watchVars, pageVars, faults>>

approvalsForwardCommand == ForwardReads \/ \E i \in posting : PostReturns(i)

-----------------------------------------------------------------------------
(* habena approvals respond: any id the operator has seen listed *)
approvalsRespondCommand(n) ==
  /\ \E i \in Ids, c \in Answers :
       (i \in queue \/ choice[i] # "none") /\ AskOnce(n, "cli", i, c)
  /\ UNCHANGED <<watchVars, forwardVars, pageVars, faults>>

-----------------------------------------------------------------------------
(* The cards of the dashboard *)

(* A timer starts a poll every second, whether or not the last one is back. *)
PollStarts(s) ==
  /\ polls[s] = Idle
  /\ polls' = [polls EXCEPT ![s].stage = "asked"]
  /\ UNCHANGED <<serverVars, watchVars, forwardVars, cards, faults>>

(* The list is read from whatever proxy the socket leads to; an error or a  *)
(* timeout reads as an empty list.                                          *)
listPending(s) ==
  /\ polls[s].stage = "asked"
  /\ \E list \in {IF Reached = "ours" THEN queue ELSE {}, {}} :
       polls' = [polls EXCEPT ![s] = [stage |-> "answered", list |-> list]]
  /\ UNCHANGED <<serverVars, watchVars, forwardVars, cards, faults>>

(* Faulty variant: the answer is added to what is shown. *)
PollMerges(s) ==
  /\ polls[s].stage = "answered"
  /\ cards' = cards \cup polls[s].list
  /\ polls' = [polls EXCEPT ![s] = Idle]
  /\ UNCHANGED <<serverVars, watchVars, forwardVars, faults>>

(* Answers replace what is shown, in the order in which they arrive. *)
PollArrives(s) ==
  /\ polls[s].stage = "answered"
  /\ cards' = polls[s].list
  /\ polls' = [polls EXCEPT ![s] = Idle]
  /\ UNCHANGED <<serverVars, watchVars, forwardVars, faults>>

PollIsLost(s) ==
  /\ polls[s] # Idle /\ faults < MaxFaults
  /\ polls' = [polls EXCEPT ![s] = Idle]
  /\ faults' = faults + 1
  /\ UNCHANGED <<serverVars, watchVars, forwardVars, cards>>

(* A card's buttons are disabled while an answer of it is under way. *)
busy(i) == \E m \in Asks :
  ask[m] # Unused /\ ask[m].by = "page" /\ ask[m].id = i /\ ask[m].told = "waiting"

act(n) ==
  /\ \E i \in cards, c \in Answers : ~busy(i) /\ AskOnce(n, "page", i, c)
  /\ UNCHANGED <<watchVars, forwardVars, pageVars, faults>>

(* The asker learns the outcome; the page drops the card on success and     *)
(* offers another try otherwise.                                            *)
onResolve(n) ==
  /\ ask[n].told = "waiting" /\ ask[n].wire \in {"ok", "refused"}
  /\ ask' = [ask EXCEPT ![n].told = ask[n].wire, ![n].wire = "empty"]
  /\ cards' = IF ask[n].by = "page" /\ ask[n].wire = "ok" THEN cards \ {ask[n].id} ELSE cards
  /\ UNCHANGED <<queueVars, socketVars, settledBy, followVars, watchVars, forwardVars, polls, faults>>

-----------------------------------------------------------------------------
(* Whoever answers once is told the truth: success if and only if that       *)
(* answer, and not another one or the timer, settled the approval with the   *)
(* choice made, and a refusal by this proxy only if the approval is settled  *)
(* or gone (ipc/server.ts, handleClientMessage; the "explicit respond_ack"   *)
(* of approvals.ts).  A timeout the terminal prints under the same words as  *)
(* a refusal, "Server rejected respond: timeout": it is kept apart here      *)
(* (told = "failed") and says nothing about the answer.                      *)
AckIsTruthful ==
  \A n \in Asks :
    LET q == ask[n]
    IN  /\ q.told = "ok" =>
             settledBy[q.id] = n /\ choice[q.id] = q.choice /\ via[q.id] = "ipc"
        /\ q.told = "refused" => settledBy[q.id] # n /\ (q.at = "ours" => q.id \notin queue)

Occurrences(i, s) == Cardinality({k \in DOMAIN s : s[k] = i})

(* As long as `watch` is connected to the proxy, each approval that is       *)
(* waiting is before the operator exactly once: unread, in the backlog, on   *)
(* the screen, or answered with the answer under way; and `forward` has read,*)
(* is posting or has posted it.  Whether it was requested before the client  *)
(* connected or after makes no difference (ipc/server.ts, handleConnection). *)
FollowersMissNothing ==
  \A i \in queue :
    /\ follow["watch"] = "ours" =>
         Occurrences(i, inbox["watch"] \o backlog)
           + (IF asking = i THEN 1 ELSE 0)
           + Cardinality({a \in typed : a.id = i}) = 1
    /\ follow["forward"] = "ours" =>
         Occurrences(i, inbox["forward"]) + Cardinality({i} \cap (posting \cup posted)) = 1

(* A card of an approval that was settled leaves the page for good, though   *)
(* a poll that was under way may show it once more after the answer: "Drop   *)
(* immediately for snappy feedback; the poll keeps it gone" (page.tsx).      *)
ResolvedCardGoes == \A i \in Ids : (choice[i] # "none") ~> [](i \notin cards)
=============================================================================
