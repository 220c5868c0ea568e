---------------------------- MODULE TelegramProofs ----------------------------
(***************************************************************************)
(* Proofs about the Telegram approval channel, for any number of approvals *)
(* and of taps.                                                            *)
(***************************************************************************)
EXTENDS TelegramChannel, SequenceTheorems, TLAPS

(* The inductive invariant. *)

(* What the message of i shows, or will once an edit under way is applied. *)
Shows(i, text) == screen[i] = text \/ \E e \in edits : e.id = i /\ e.text = text

(* A tap on i with that choice was handled, and will be shown. *)
Handled(i, c) == acking \in Tap /\ acking.id = i /\ acking.choice = c

(* An approval is asked for once, and undecided as long as it waits. *)
QueuedIsUndecided ==
  \A i \in Ids :
    /\ i \in queue \/ sent[i] = "idle" => choice[i] = "none" /\ via[i] = "none"
    /\ i \in queue => sent[i] # "idle"

ElsewhereIsSettled ==
  \A i \in Ids : Shows(i, "elsewhere") => /\ i \notin queue /\ sent[i] # "idle"
                                          /\ via[i] # "telegram"

TrackedStillWaits == running => prompts \subseteq queue \cup late

AnswerIsRecorded ==
  running =>
    \A i \in Ids \ late :
      /\ Shows(i, "allowed") \/ Handled(i, "allow_once") =>
           choice[i] = "allow_once" /\ via[i] = "telegram"
      /\ Shows(i, "denied") \/ Handled(i, "deny") =>
           choice[i] = "deny" /\ via[i] = "telegram"

IInv ==
  /\ TelegramTypeOK
  /\ QueuedIsUndecided /\ ElsewhereIsSettled /\ TrackedStillWaits /\ AnswerIsRecorded

-----------------------------------------------------------------------------
(* The parts of the state the inductive invariant speaks of. *)
told == <<queue, choice, via, sent, prompts, screen, edits, acking, late, running>>

(* What the taps on their way do not touch, they cannot spoil. *)
LEMMA ToldKeeps ==
  ASSUME IInv, UNCHANGED told, TelegramTypeOK'
  PROVE  IInv'
BY DEF told, IInv, QueuedIsUndecided, ElsewhereIsSettled, TrackedStillWaits, AnswerIsRecorded,
       Shows, Handled

LEMMA AskKeeps ==
  ASSUME IInv, NEW i \in Ids, NEW from \in Channels \cup {"none"}, Ask(i, from)
  PROVE  IInv'
<1> USE DEF IInv, TelegramTypeOK, QueueTypeOK
<1>1. /\ sent[i] = "idle" /\ queue' = queue \cup {i} /\ origin' = [origin EXCEPT ![i] = from]
      /\ sent' \in [Ids -> Sending] /\ sent'[i] # "idle"
      /\ \A n \in Ids \ {i} : sent'[n] = sent[n]
      /\ UNCHANGED <<choice, via, running, prompts, armed, screen, edits, updates, polling,
                     batch, acking, taps, late>>
  BY DEF Ask, request, Sending
<1>2. TelegramTypeOK'
  BY <1>1
<1>3. QueuedIsUndecided' /\ TrackedStillWaits' /\ AnswerIsRecorded'
  BY <1>1 DEF QueuedIsUndecided, TrackedStillWaits, AnswerIsRecorded, Shows, Handled
<1>4. ElsewhereIsSettled'
  BY <1>1 DEF ElsewhereIsSettled, Shows
<1> QED
  BY <1>2, <1>3, <1>4

LEMMA ArrivalKeeps ==
  ASSUME IInv, NEW i \in Ids, MessageArrives(i)
  PROVE  IInv'
<1> USE DEF IInv, TelegramTypeOK, QueueTypeOK
<1>1. /\ sent[i] = "sending" /\ sent'[i] = "arrived" /\ sent' \in [Ids -> Sending]
      /\ screen'[i] = "prompt" /\ screen' \in [Ids -> Texts]
      /\ \A n \in Ids \ {i} : sent'[n] = sent[n] /\ screen'[n] = screen[n]
      /\ UNCHANGED <<queue, origin, choice, via, running, prompts, armed, edits, updates, polling,
                     batch, acking, taps, late>>
  BY DEF MessageArrives, queueVars, Sending, Texts
<1>2. TelegramTypeOK'
  BY <1>1
<1>3. QueuedIsUndecided' /\ TrackedStillWaits' /\ AnswerIsRecorded'
  BY <1>1 DEF QueuedIsUndecided, TrackedStillWaits, AnswerIsRecorded, Shows, Handled
<1>4. ElsewhereIsSettled'
  BY <1>1 DEF ElsewhereIsSettled, Shows
<1> QED
  BY <1>2, <1>3, <1>4

(* sendMessage resolves or fails. *)
LEMMA SentKeeps ==
  ASSUME IInv, NEW i \in Ids, SendReturns(i) \/ SendFails(i)
  PROVE  IInv'
<1> USE DEF IInv, TelegramTypeOK, QueueTypeOK
<1>1. /\ sent[i] # "idle" /\ sent'[i] # "idle" /\ sent' \in [Ids -> Sending]
      /\ \A n \in Ids \ {i} : sent'[n] = sent[n]
      /\ UNCHANGED <<queue, origin, choice, via, running, screen, edits, updates, polling, batch,
                     acking, taps>>
  <2>1. CASE SendReturns(i)
    BY <2>1 DEF SendReturns, queueVars, Sending
  <2>2. CASE SendFails(i)
    BY <2>2 DEF SendFails, queueVars, Sending
  <2> QED
    BY <2>1, <2>2
<1>2. /\ late \subseteq late' /\ late' \in SUBSET Ids /\ prompts' \in SUBSET Ids
      /\ armed' \in SUBSET prompts' /\ prompts' \subseteq prompts \cup queue \cup late'
      /\ prompts \subseteq prompts'
  BY DEF SendReturns, SendFails
<1>3. TelegramTypeOK'
  BY <1>1, <1>2
<1>4. QueuedIsUndecided'
  BY <1>1 DEF QueuedIsUndecided
<1>5. TrackedStillWaits'
  BY <1>1, <1>2 DEF TrackedStillWaits
<1>6. AnswerIsRecorded'
  BY <1>1, <1>2 DEF AnswerIsRecorded, Shows, Handled
<1>7. ElsewhereIsSettled'
  BY <1>1 DEF ElsewhereIsSettled, Shows
<1> QED
  BY <1>3, <1>4, <1>5, <1>6, <1>7

(* An answer that is not a tap: over IPC or by the timer. *)
LEMMA SettledElsewhereKeeps ==
  ASSUME IInv, NEW i \in Ids, NEW c \in ApprovalChoices, NEW source \in {"ipc", "timeout"},
         Settle(i, c, source), handleResolvedElsewhere(i),
         UNCHANGED <<running, sent, screen, updates, polling, batch, acking, taps, late>>
  PROVE  IInv'
<1> USE DEF IInv, TelegramTypeOK, QueueTypeOK
<1>1. /\ i \in queue /\ queue' = queue \ {i} /\ origin' = origin
      /\ choice' \in [Ids -> ApprovalChoices \cup {"none"}] /\ via' \in [Ids -> Sources \cup {"none"}]
      /\ choice'[i] = c /\ via'[i] = source
      /\ \A n \in Ids \ {i} : choice'[n] = choice[n] /\ via'[n] = via[n]
  BY DEF Settle, Sources
<1>2. sent[i] # "idle" /\ choice[i] = "none" /\ via[i] = "none"
  BY <1>1 DEF QueuedIsUndecided
<1>3. /\ prompts' \in SUBSET prompts /\ armed' \in SUBSET prompts'
      /\ running => i \notin prompts'
  BY DEF handleResolvedElsewhere, consume
<1>4. edits' = edits \/ edits' = edits \cup {[id |-> i, text |-> "elsewhere", by |-> "resolver"]}
  BY DEF handleResolvedElsewhere
<1>5. [id |-> i, text |-> "elsewhere", by |-> "resolver"] \in Edit
  BY DEF Edit, Texts, Issuers
<1>6. TelegramTypeOK'
  BY <1>1, <1>3, <1>4, <1>5
<1>7. QueuedIsUndecided'
  BY <1>1, <1>2 DEF QueuedIsUndecided
<1>8. TrackedStillWaits'
  BY <1>1, <1>3 DEF TrackedStillWaits
<1>9. \A n \in Ids, text \in Texts : Shows(n, text)' => Shows(n, text) \/ (n = i /\ text = "elsewhere")
  BY <1>4 DEF Shows
<1>10. ElsewhereIsSettled'
  BY <1>1, <1>2, <1>9 DEF ElsewhereIsSettled, Texts
<1>11. AnswerIsRecorded'
  <2> SUFFICES ASSUME running, NEW n \in Ids \ late
               PROVE  /\ Shows(n, "allowed")' \/ Handled(n, "allow_once") =>
                           choice'[n] = "allow_once" /\ via'[n] = "telegram"
                      /\ Shows(n, "denied")' \/ Handled(n, "deny") =>
                           choice'[n] = "deny" /\ via'[n] = "telegram"
    BY DEF AnswerIsRecorded, Handled
  <2>1. /\ Shows(n, "allowed")' => Shows(n, "allowed")
        /\ Shows(n, "denied")' => Shows(n, "denied")
    BY <1>9 DEF Texts
  <2>2. CASE n = i
    BY <1>2, <2>1, <2>2 DEF AnswerIsRecorded
  <2>3. CASE n # i
    BY <1>1, <2>1, <2>3 DEF AnswerIsRecorded
  <2> QED
    BY <2>2, <2>3
<1> QED
  BY <1>6, <1>7, <1>8, <1>10, <1>11

LEMMA WarningKeeps ==
  ASSUME IInv, NEW i \in Ids, WarningFires(i)
  PROVE  IInv'
<1> USE DEF IInv, TelegramTypeOK, QueueTypeOK
<1>1. /\ armed' = armed \ {i}
      /\ edits' = edits \cup {[id |-> i, text |-> "warning", by |-> "timer"]}
      /\ UNCHANGED <<queue, origin, choice, via, running, sent, prompts, screen, updates, polling,
                     batch, acking, taps, late>>
  BY DEF WarningFires, queueVars
<1>2. [id |-> i, text |-> "warning", by |-> "timer"] \in Edit
  BY DEF Edit, Texts, Issuers
<1>3. TelegramTypeOK'
  BY <1>1, <1>2
<1>4. \A n \in Ids, text \in {"elsewhere", "allowed", "denied"} : Shows(n, text)' => Shows(n, text)
  BY <1>1 DEF Shows
<1>5. QueuedIsUndecided' /\ TrackedStillWaits'
  BY <1>1 DEF QueuedIsUndecided, TrackedStillWaits
<1>6. ElsewhereIsSettled' /\ AnswerIsRecorded'
  BY <1>1, <1>4 DEF ElsewhereIsSettled, AnswerIsRecorded, Handled
<1> QED
  BY <1>3, <1>5, <1>6

-----------------------------------------------------------------------------
(* Taps and the poll loop. *)

(* The first tap of a batch is a tap. *)
LEMMA BatchHead ==
  ASSUME batch \in Seq(Tap), batch # << >>
  PROVE  /\ Head(batch) \in Tap /\ Tail(batch) \in Seq(Tap)
         /\ Head(batch).id \in Ids /\ Head(batch).choice \in {"allow_once", "deny"}
<1>1. Head(batch) \in Tap /\ Tail(batch) \in Seq(Tap)
  BY HeadTailProperties
<1> QED
  BY <1>1 DEF Tap

LEMMA PollKeeps ==
  ASSUME IInv, (\E t \in Tap : TapButton(t)) \/ getUpdates \/ PollReturns \/ IgnoreTap
  PROVE  IInv'
<1> USE DEF IInv, TelegramTypeOK, QueueTypeOK
<1>1. /\ UNCHANGED <<queue, origin, choice, via, running, sent, prompts, armed, screen, edits, acking, late>>
      /\ updates' \in Seq(Tap) /\ batch' \in Seq(Tap) /\ polling' \in BOOLEAN /\ taps' \in 0..MaxTaps
  <2>1. ASSUME NEW t \in Tap, TapButton(t)
        PROVE  /\ UNCHANGED <<queue, origin, choice, via, running, sent, prompts, armed, screen,
                              edits, acking, late, batch, polling>>
               /\ updates' \in Seq(Tap) /\ taps' \in 0..MaxTaps
    <3>1. updates' \in Seq(Tap)
      BY <2>1, AppendProperties DEF TapButton
    <3> QED
      BY <2>1, <3>1, TelegramAssumption DEF TapButton, queueVars
  <2>2. CASE getUpdates
    BY <2>2 DEF getUpdates, queueVars
  <2>3. CASE PollReturns
    BY <2>3, EmptySeq DEF PollReturns, queueVars
  <2>4. CASE IgnoreTap
    BY <2>4, BatchHead DEF IgnoreTap, queueVars
  <2> QED
    BY <2>1, <2>2, <2>3, <2>4
<1>2. TelegramTypeOK'
  BY <1>1
<1>3. UNCHANGED told
  BY <1>1 DEF told
<1> HIDE DEF IInv, TelegramTypeOK, QueueTypeOK
<1> QED
  BY <1>2, <1>3, ToldKeeps

(* A tap that acts finds its approval waiting, unless it was settled while   *)
(* its message was on the way.                                               *)
LEMMA HandleTapKeeps ==
  ASSUME IInv, HandleTap
  PROVE  IInv'
<1> USE DEF IInv, TelegramTypeOK, QueueTypeOK
<1> DEFINE t == Head(batch)
           i == t.id
<1>1. t \in Tap /\ i \in Ids /\ t.choice \in {"allow_once", "deny"} /\ Tail(batch) \in Seq(Tap)
  BY BatchHead DEF HandleTap
<1>2. /\ i \in prompts /\ prompts' = prompts \ {i} /\ armed' = armed \ {i}
      /\ acking' = t /\ batch' = Tail(batch) /\ RespondToQueue(t)
      /\ acking = NoTap
      /\ UNCHANGED <<running, sent, screen, edits, updates, polling, taps, late>>
  BY DEF HandleTap, Ignored, consume, PollIdle
<1>3. IF i \in queue
      THEN /\ queue' = queue \ {i} /\ choice'[i] = t.choice /\ via'[i] = "telegram"
           /\ choice' \in [Ids -> ApprovalChoices \cup {"none"}]
           /\ via' \in [Ids -> Sources \cup {"none"}]
           /\ \A n \in Ids \ {i} : choice'[n] = choice[n] /\ via'[n] = via[n]
      ELSE UNCHANGED <<queue, choice, via>>
  <2>1. CASE i \in queue
    <3>1. /\ queue' = queue \ {i} /\ choice' = [choice EXCEPT ![i] = t.choice]
          /\ via' = [via EXCEPT ![i] = "telegram"]
      BY <1>2, <2>1 DEF RespondToQueue, respond, Settle
    <3>2. t.choice \in ApprovalChoices /\ "telegram" \in Sources
      BY <1>1 DEF ApprovalChoices, Sources
    <3> HIDE DEF t
    <3> QED
      BY <1>1, <2>1, <3>1, <3>2
  <2>2. CASE i \notin queue
    BY <1>2, <2>2 DEF RespondToQueue, queueVars
  <2> QED
    BY <2>1, <2>2
<1>4. origin' = origin
  BY <1>2 DEF RespondToQueue, respond, Settle, queueVars
<1> HIDE DEF t
<1>5. TelegramTypeOK'
  BY <1>1, <1>2, <1>3, <1>4
<1>6. QueuedIsUndecided'
  BY <1>1, <1>2, <1>3 DEF QueuedIsUndecided
<1>7. ElsewhereIsSettled'
  BY <1>1, <1>2, <1>3 DEF ElsewhereIsSettled, Shows
<1>8. TrackedStillWaits'
  BY <1>1, <1>2, <1>3 DEF TrackedStillWaits
<1>9. AnswerIsRecorded'
  <2> SUFFICES ASSUME running, NEW n \in Ids \ late
               PROVE  /\ Shows(n, "allowed") \/ Handled(n, "allow_once")' =>
                           choice'[n] = "allow_once" /\ via'[n] = "telegram"
                      /\ Shows(n, "denied") \/ Handled(n, "deny")' =>
                           choice'[n] = "deny" /\ via'[n] = "telegram"
    BY <1>2 DEF AnswerIsRecorded, Shows
  <2>1. CASE n = i
    <3>1. i \in queue
      BY <1>2, <2>1 DEF TrackedStillWaits
    <3>2. ~Shows(i, "allowed") /\ ~Shows(i, "denied")
      BY <1>1, <2>1, <3>1 DEF AnswerIsRecorded, QueuedIsUndecided
    <3> QED
      BY <1>2, <1>3, <2>1, <3>1, <3>2 DEF Handled
  <2>2. CASE n # i
    BY <1>2, <1>3, <2>2 DEF AnswerIsRecorded, Handled
  <2> QED
    BY <2>1, <2>2
<1> QED
  BY <1>5, <1>6, <1>7, <1>8, <1>9

LEMMA AcknowledgedKeeps ==
  ASSUME IInv, Acknowledged
  PROVE  IInv'
<1> USE DEF IInv, TelegramTypeOK, QueueTypeOK
<1> DEFINE text == IF acking.choice = "allow_once" THEN "allowed" ELSE "denied"
           e == [id |-> acking.id, by |-> "poll", text |-> text]
<1>1. /\ acking \in Tap /\ acking' = NoTap /\ edits' = edits \cup {e}
      /\ UNCHANGED <<queue, origin, choice, via, running, sent, prompts, armed, screen, updates,
                     polling, batch, taps, late>>
  BY DEF Acknowledged, queueVars
<1>2. acking.id \in Ids /\ acking.choice \in {"allow_once", "deny"}
  BY <1>1 DEF Tap
<1>3. e \in Edit /\ e.id = acking.id /\ e.text = text
  BY <1>2 DEF Edit, Texts, Issuers
<1>4. TelegramTypeOK'
  BY <1>1, <1>3
<1>5. /\ \A n \in Ids : Shows(n, "elsewhere")' => Shows(n, "elsewhere")
      /\ \A n \in Ids : Shows(n, "allowed")' => Shows(n, "allowed") \/ Handled(n, "allow_once")
      /\ \A n \in Ids : Shows(n, "denied")' => Shows(n, "denied") \/ Handled(n, "deny")
  <2> HIDE DEF e
  <2> QED
    BY <1>1, <1>2, <1>3 DEF Shows, Handled
<1>6. \A n \in Ids, c \in {"allow_once", "deny"} : ~Handled(n, c)'
  BY <1>1 DEF Handled, NoTap, Tap
<1>7. QueuedIsUndecided' /\ TrackedStillWaits'
  BY <1>1 DEF QueuedIsUndecided, TrackedStillWaits
<1>8. ElsewhereIsSettled'
  BY <1>1, <1>5 DEF ElsewhereIsSettled
<1>9. AnswerIsRecorded'
  BY <1>1, <1>5, <1>6 DEF AnswerIsRecorded
<1> QED
  BY <1>4, <1>7, <1>8, <1>9

LEMMA EditKeeps ==
  ASSUME IInv, NEW e \in edits, NEW applied \in BOOLEAN, EditSettles(e, applied)
  PROVE  IInv'
<1> USE DEF IInv, TelegramTypeOK, QueueTypeOK
<1>1. /\ edits' = edits \ {e} /\ e \in Edit /\ e.id \in Ids /\ e.text \in Texts
      /\ screen' \in [Ids -> Texts]
      /\ \A n \in Ids : screen'[n] = screen[n] \/ (n = e.id /\ screen'[n] = e.text)
      /\ UNCHANGED <<queue, origin, choice, via, running, sent, prompts, armed, updates, polling,
                     batch, acking, taps, late>>
  BY DEF EditSettles, queueVars, Edit
<1>2. TelegramTypeOK'
  BY <1>1
<1>3. \A n \in Ids, text \in Texts : Shows(n, text)' => Shows(n, text)
  BY <1>1 DEF Shows
<1>4. QueuedIsUndecided' /\ TrackedStillWaits'
  BY <1>1 DEF QueuedIsUndecided, TrackedStillWaits
<1>5. ElsewhereIsSettled' /\ AnswerIsRecorded'
  BY <1>1, <1>3 DEF ElsewhereIsSettled, AnswerIsRecorded, Handled, Texts
<1> QED
  BY <1>2, <1>4, <1>5

(* stop() and the queue's shutdown. *)
LEMMA StopKeeps ==
  ASSUME IInv, stop \/ ShutDownQueue
  PROVE  IInv'
<1> USE DEF IInv, TelegramTypeOK, QueueTypeOK
<1>1. /\ running' = FALSE /\ queue' \in {queue, {}} /\ armed' \in {{}, armed}
      /\ UNCHANGED <<origin, choice, via, sent, prompts, screen, edits, updates, polling, batch,
                     acking, taps, late>>
  BY DEF stop, ShutDownQueue, shutdown, queueVars, channelVars
<1>2. TelegramTypeOK'
  BY <1>1
<1>3. QueuedIsUndecided'
  BY <1>1 DEF QueuedIsUndecided
<1>4. ElsewhereIsSettled'
  BY <1>1 DEF ElsewhereIsSettled, Shows
<1> QED
  BY <1>1, <1>2, <1>3, <1>4 DEF TrackedStillWaits, AnswerIsRecorded

-----------------------------------------------------------------------------
(* Every step, and what follows. *)

LEMMA InitEstablishes == Init => IInv
<1> SUFFICES ASSUME Init PROVE IInv
  OBVIOUS
<1> USE DEF Init, QueueInit
<1>1. << >> \in Seq(Tap)
  BY EmptySeq
<1>2. QueueTypeOK
  BY DEF QueueTypeOK
<1>3. TelegramTypeOK
  <2>1. sent \in [Ids -> Sending] /\ screen \in [Ids -> Texts] /\ taps \in 0..MaxTaps
    BY TelegramAssumption DEF Sending, Texts
  <2> QED
    BY <1>1, <1>2, <2>1 DEF TelegramTypeOK
<1>4. \A i \in Ids, c \in {"allow_once", "deny"} : ~Handled(i, c)
  BY DEF Handled, NoTap, Tap
<1> QED
  BY <1>3, <1>4 DEF IInv, QueuedIsUndecided, ElsewhereIsSettled, TrackedStillWaits,
                    AnswerIsRecorded, Shows

LEMMA StepKeeps == IInv /\ [Next]_vars => IInv'
<1> SUFFICES ASSUME IInv, [Next]_vars PROVE IInv'
  OBVIOUS
<1>1. ASSUME NEW i \in Ids, NEW from \in Channels \cup {"none"}, Ask(i, from) PROVE IInv'
  BY <1>1, AskKeeps
<1>2. ASSUME NEW i \in Ids, MessageArrives(i) PROVE IInv'
  BY <1>2, ArrivalKeeps
<1>3. ASSUME NEW i \in Ids, SendReturns(i) \/ SendFails(i) PROVE IInv'
  BY <1>3, SentKeeps
<1>4. ASSUME NEW i \in Ids, NEW c \in ApprovalChoices, AnswerOverIpc(i, c) PROVE IInv'
  BY <1>4, SettledElsewhereKeeps DEF AnswerOverIpc, respond
<1>5. ASSUME NEW i \in Ids, TimeOut(i) PROVE IInv'
  <2>1. TimeoutChoice(i) \in ApprovalChoices
    BY DEF TimeoutChoice, ApprovalChoices
  <2> QED
    BY <1>5, <2>1, SettledElsewhereKeeps DEF TimeOut, expire
<1>6. ASSUME NEW i \in Ids, WarningFires(i) PROVE IInv'
  BY <1>6, WarningKeeps
<1>7. CASE (\E t \in Tap : TapButton(t)) \/ getUpdates \/ PollReturns \/ IgnoreTap
  BY <1>7, PollKeeps
<1>8. CASE HandleTap
  BY <1>8, HandleTapKeeps
<1>9. CASE Acknowledged
  BY <1>9, AcknowledgedKeeps
<1>10. CASE \E e \in edits, applied \in BOOLEAN : EditSettles(e, applied)
  BY <1>10, EditKeeps
<1>11. CASE stop \/ ShutDownQueue
  BY <1>11, StopKeeps
<1>12. CASE UNCHANGED vars
  <2>1. UNCHANGED told
    BY <1>12 DEF vars, queueVars, channelVars, told
  <2>2. TelegramTypeOK'
    BY <1>12 DEF IInv, TelegramTypeOK, QueueTypeOK, vars, queueVars, channelVars
  <2> QED
    BY <2>1, <2>2, ToldKeeps
<1> QED
  BY <1>1, <1>2, <1>3, <1>4, <1>5, <1>6, <1>7, <1>8, <1>9, <1>10, <1>11, <1>12 DEF Next

LEMMA InvariantHolds == Spec => []IInv
  BY InitEstablishes, StepKeeps, PTL DEF Spec

(* The channel's state is well typed: a warning timer is armed only for a    *)
(* prompt that is tracked.                                                   *)
THEOREM TelegramIsTyped == Spec => []TelegramTypeOK
<1>1. IInv => TelegramTypeOK
  BY DEF IInv
<1> QED
  BY <1>1, InvariantHolds, PTL

(* What the phone shows of an answer is what the queue recorded, in whatever *)
(* order Telegram delivers messages, replies, taps and edits.                *)
THEOREM ScreenIsTruthful == Spec => []ScreenTellsTheAnswer
<1>1. IInv => ScreenTellsTheAnswer
  BY DEF IInv, ElsewhereIsSettled, TrackedStillWaits, AnswerIsRecorded, Shows, ScreenTellsTheAnswer
<1> QED
  BY <1>1, InvariantHolds, PTL

-----------------------------------------------------------------------------
(* The refinement of the approval queue. *)

(* A step of the channel is a step of the queue, or leaves it alone. *)
LEMMA StepRefines == IInv /\ [Next]_vars => [QueueNext]_queueVars
<1> SUFFICES ASSUME IInv, [Next]_vars PROVE [QueueNext]_queueVars
  OBVIOUS
<1>1. ASSUME NEW i \in Ids, NEW from \in Channels \cup {"none"}, Ask(i, from) PROVE QueueNext
  BY <1>1 DEF Ask, QueueNext
<1>2. ASSUME NEW i \in Ids, NEW c \in ApprovalChoices, AnswerOverIpc(i, c) PROVE QueueNext
  BY <1>2 DEF AnswerOverIpc, QueueNext
<1>3. ASSUME NEW i \in Ids, TimeOut(i) PROVE QueueNext
  BY <1>3 DEF TimeOut, QueueNext
<1>4. CASE HandleTap
  <2> DEFINE t == Head(batch)
  <2>1. t.id \in Ids /\ t.choice \in {"allow_once", "deny"}
    BY <1>4, BatchHead DEF HandleTap, IInv, TelegramTypeOK
  <2>2. RespondToQueue(t) /\ (origin[t.id] = "telegram" => t.choice = "deny")
    BY <1>4 DEF HandleTap, Ignored
  <2>3. t.choice \in TapChoices(origin[t.id])
    BY <2>1, <2>2 DEF TapChoices
  <2> QED
    BY <2>1, <2>2, <2>3 DEF RespondToQueue, QueueNext
<1>5. CASE ShutDownQueue
  BY <1>5 DEF ShutDownQueue, QueueNext
<1>6. ASSUME NEW i \in Ids,
             MessageArrives(i) \/ SendReturns(i) \/ SendFails(i) \/ WarningFires(i)
      PROVE  UNCHANGED queueVars
  BY <1>6 DEF MessageArrives, SendReturns, SendFails, WarningFires
<1>7. CASE \/ \E t \in Tap : TapButton(t)
           \/ getUpdates \/ PollReturns \/ IgnoreTap \/ Acknowledged \/ stop
           \/ \E e \in edits, applied \in BOOLEAN : EditSettles(e, applied)
  BY <1>7 DEF TapButton, getUpdates, PollReturns, IgnoreTap, Acknowledged, stop, EditSettles
<1>8. CASE UNCHANGED vars
  BY <1>8 DEF vars
<1> QED
  BY <1>1, <1>2, <1>3, <1>4, <1>5, <1>6, <1>7, <1>8 DEF Next

(* Taps, stale, doubled or forged, do to the queue only what one settling    *)
(* answer by an allowed choice does: the channel implements the queue as its *)
(* users see it.                                                             *)
THEOREM ChannelImplementsQueue == Spec => ImplementsQueue
<1>1. Init => QueueInit
  BY DEF Init
<1>2. IInv /\ [Next]_vars => [QueueNext]_queueVars
  BY StepRefines
<1> QED
  BY <1>1, <1>2, InvariantHolds, PTL DEF Spec, ImplementsQueue, QueueSpec
===============================================================================
