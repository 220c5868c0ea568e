---------------------------- MODULE OperatorProofs ----------------------------
(***************************************************************************)
(* Proofs about what the person beside the proxy sees: the answers and     *)
(* their acknowledgements, the followers of events, the pages, and setup.  *)
(* The parts of the state are apart, and so are their invariants.          *)
(***************************************************************************)
EXTENDS Operator, Numbers, SequenceTheorems, FiniteSetTheorems, TLAPS

(* Setup.  Every server an install is about to take from the assistant, or   *)
(* has taken, is in a backup: what it computed from the file covers what the *)
(* file still holds.                                                         *)
InBackups(n) == \E k \in DOMAIN backups : n \in backups[k].servers

(* An entry's name and prefix tell it from the others. *)
Keyed(entries) ==
  \A e, f \in entries : e.name = f.name /\ e.prefixed = f.prefixed => e = f

JobIsSound(j) ==
  /\ Keyed(j.config)
  /\ j.todo \in {<<>>, <<"config">>, <<"assistant", "config">>, <<"backup", "assistant", "config">>}
  /\ j.todo \in {<<"assistant", "config">>, <<"backup", "assistant", "config">>} =>
       assistant.servers \subseteq j.servers
  /\ j.todo = <<"assistant", "config">> => \A n \in j.servers : InBackups(n)
  /\ j.todo = <<"backup", "assistant", "config">> =>
       \A n \in j.servers : n \in assistant.servers \/ InBackups(n)

SetupInv ==
  /\ SetupTypeOK
  /\ \A t \in Terminals : JobIsSound(job[t])
  /\ \A n \in migrated : InBackups(n)

-----------------------------------------------------------------------------
(* The surfaces.  Their types, and that `forward` leaves at the last failure. *)
SurfacesInv ==
  /\ desk \in Desks /\ SurfacesTypeOK /\ IsFiniteSet(queue)
  /\ follow["forward"] # "gone" => failures < MaxFailures

(* An id that was never asked for, as long as it still can be. *)
Fresh(i) == i \notin queue /\ choice[i] = "none" /\ proxy # "down"

(* The answers.  Only ids that were asked for are answered or shown; a       *)
(* one-shot answer settles at most once, and its acknowledgement on the wire *)
(* is already true.                                                          *)
AskIsTrue(n) ==
  LET q == ask[n]
  IN  /\ q = Unused \/ q.wire = "request" => \A i \in Ids : settledBy[i] # n
      /\ q # Unused =>
           /\ ~Fresh(q.id)
           /\ q.wire = "request" => q.told \in {"waiting", "failed"}
           /\ q.wire = "ok" \/ q.told = "ok" =>
                settledBy[q.id] = n /\ choice[q.id] = q.choice /\ via[q.id] = "ipc"
           /\ q.wire = "refused" \/ q.told = "refused" =>
                settledBy[q.id] # n /\ (q.at = "ours" => q.id \notin queue)

AnswersInv ==
  /\ \A i \in Ids : /\ i \in queue => choice[i] = "none"
                    /\ settledBy[i] # 0 => choice[i] # "none"
                    /\ Fresh(i) => i \notin cards /\ \A s \in PollSlots : i \notin polls[s].list
  /\ \A n \in Asks : AskIsTrue(n)

-----------------------------------------------------------------------------
(* The followers. *)
Never(i, s) == \A k \in DOMAIN s : s[k] # i
Once(i, s) == \E k \in DOMAIN s : s[k] = i /\ \A j \in DOMAIN s : s[j] = i => j = k

TypedOf(i) == {a \in typed : a.id = i}

(* A request is before the operator of `watch` at one place of four. *)
Before(i) ==
  \/ Once(i, inbox["watch"]) /\ Never(i, backlog) /\ asking # i /\ TypedOf(i) = {}
  \/ Never(i, inbox["watch"]) /\ Once(i, backlog) /\ asking # i /\ TypedOf(i) = {}
  \/ Never(i, inbox["watch"]) /\ Never(i, backlog) /\ asking = i /\ TypedOf(i) = {}
  \/ /\ Never(i, inbox["watch"]) /\ Never(i, backlog) /\ asking # i
     /\ \E c \in Answers : TypedOf(i) = {[id |-> i, choice |-> c]}

Forwarded(i) ==
  \/ Once(i, inbox["forward"]) /\ i \notin posting \cup posted
  \/ Never(i, inbox["forward"]) /\ i \in posting \cup posted

Nowhere(i) ==
  /\ Never(i, inbox["watch"]) /\ Never(i, backlog) /\ asking # i /\ TypedOf(i) = {}
  /\ Never(i, inbox["forward"]) /\ i \notin posting \cup posted

FollowersInv ==
  /\ \A i \in Ids : Fresh(i) => Nowhere(i)
  /\ follow["watch"] \in {"off", "other"} =>
       inbox["watch"] = <<>> /\ backlog = <<>> /\ asking = None /\ typed = {}
  /\ follow["forward"] \in {"off", "other"} =>
       inbox["forward"] = <<>> /\ posting = {} /\ posted = {}
  /\ \A i \in queue : /\ follow["watch"] = "ours" => Before(i)
                      /\ follow["forward"] = "ours" => Forwarded(i)

-----------------------------------------------------------------------------
(* The cards of the chat page: none, and no poll that could bring one, while *)
(* no run is seen.                                                           *)
CardsInv ==
  Has("chat") /\ ~running => cards = {} /\ \A s \in PollSlots : polls[s] = Idle

-----------------------------------------------------------------------------
(* The panel.  The last status on the wire tells of the run that is; without *)
(* one on the wire, so does what was received, or else what was read.        *)
Tells(kind) == (kind = "running" <=> active) /\ (kind # "offline" => bridgeUp)

NoStatusAfter(k) == \A l \in DOMAIN wire : l > k => ~IsStatus(wire[l])

WireTypeOK ==
  /\ bridgeUp \in BOOLEAN /\ active \in BOOLEAN /\ waiting \in 0..1
  /\ emitted \in 0..MaxEvents /\ subscribed \in BOOLEAN /\ wire \in Seq(Event)
  /\ {running, offline, liveEventSeen, liveStatusSeen, gap} \subseteq BOOLEAN
  /\ {seed.running, seed.bridgeUp} \subseteq BOOLEAN

PanelInv ==
  /\ WireTypeOK
  /\ ~bridgeUp => ~active
  /\ ~subscribed => wire = <<>>
  /\ \A k \in DOMAIN wire : IsStatus(wire[k]) /\ NoStatusAfter(k) => Tells(wire[k].kind)
  /\ ~gap /\ NoStatusAfter(0) =>
       /\ liveStatusSeen \/ seed.stage = "seeded" => running = active /\ (~offline => bridgeUp)
       /\ ~liveStatusSeen /\ seed.stage = "state" => seed.running = active /\ seed.bridgeUp = bridgeUp

-----------------------------------------------------------------------------
(* Setup. *)

LEMMA MergeIsKeyed ==
  ASSUME NEW entries \in SUBSET Entry, Keyed(entries), NEW servers \in SUBSET Names
  PROVE  /\ mergeIntoAgentGuardConfig(entries, servers) \in SUBSET Entry
         /\ Keyed(mergeIntoAgentGuardConfig(entries, servers))
<1> DEFINE moved == {[name |-> n, prefixed |-> Named(entries, n), by |-> "assistant"] : n \in servers}
           kept == {f \in entries : \A e \in moved : f.name # e.name \/ f.prefixed # e.prefixed}
<1>1. mergeIntoAgentGuardConfig(entries, servers) = kept \cup moved
  BY DEF mergeIntoAgentGuardConfig
<1>2. moved \in SUBSET Entry
  <2>1. \A n \in servers : Named(entries, n) \in BOOLEAN /\ n \in Names
    BY DEF Named
  <2> QED
    BY <2>1 DEF Entry
<1>3. \A e, f \in moved : e.name = f.name => e = f
  OBVIOUS
<1>4. \A e \in kept, f \in moved : e.name # f.name \/ e.prefixed # f.prefixed
  OBVIOUS
<1>5. kept \subseteq entries
  OBVIOUS
<1> HIDE DEF moved, kept
<1> QED
  BY <1>1, <1>2, <1>3, <1>4, <1>5 DEF Keyed

LEMMA PutIsKeyed ==
  ASSUME NEW entries \in SUBSET Entry, Keyed(entries), NEW e \in Entry
  PROVE  Put(entries, e) \in SUBSET Entry /\ Keyed(Put(entries, e))
  BY DEF Put, Keyed

(* What a command has still to do. *)
LEMMA TodoFacts ==
  /\ \A x : Len(<<x>>) = 1 /\ Head(<<x>>) = x /\ <<x>> # <<>>
  /\ \A x, y : Len(<<x, y>>) = 2 /\ Head(<<x, y>>) = x /\ Tail(<<x, y>>) = <<y>> /\ <<x, y>> # <<>>
  /\ \A x, y, z : /\ Len(<<x, y, z>>) = 3 /\ Head(<<x, y, z>>) = x
                  /\ Tail(<<x, y, z>>) = <<y, z>> /\ <<x, y, z>> # <<>>
  /\ Len(<<>>) = 0
  /\ <<>> \in Seq(Steps) /\ <<"config">> \in Seq(Steps) /\ <<"assistant", "config">> \in Seq(Steps)
  /\ <<"backup", "assistant", "config">> \in Seq(Steps)
  BY DEF Steps

(* A command begins from the files as they are. *)
LEMMA BeginsKeeps ==
  ASSUME SetupInv, NEW t \in Terminals, NEW todo, NEW servers \in SUBSET Names,
         NEW entries \in SUBSET Entry, Keyed(entries), Begins(t, todo, servers, entries),
         \/ todo = <<"config">>
         \/ todo = <<"backup", "assistant", "config">> /\ servers = assistant.servers
  PROVE  SetupInv'
<1> DEFINE j == [todo |-> todo, servers |-> servers, config |-> entries]
<1>1. /\ job' = [job EXCEPT ![t] = j]
      /\ UNCHANGED <<assistant, config, backups, migrated, kills>>
  BY DEF Begins
<1>2. j \in [todo : Seq(Steps), servers : SUBSET Names, config : SUBSET Entry]
  BY TodoFacts
<1>3. j.todo = todo /\ j.servers = servers /\ j.config = entries
  OBVIOUS
<1> HIDE DEF j
<1>4. job' \in [Terminals -> [todo : Seq(Steps), servers : SUBSET Names, config : SUBSET Entry]]
      /\ job'[t] = j /\ \A u \in Terminals \ {t} : job'[u] = job[u]
  BY <1>1, <1>2 DEF SetupInv, SetupTypeOK
<1>5. SetupTypeOK'
  BY <1>1, <1>4 DEF SetupInv, SetupTypeOK
<1>6. JobIsSound(job[t])'
  <2>1. <<"config">> # <<"assistant", "config">> /\ <<"config">> # <<"backup", "assistant", "config">>
        /\ <<"backup", "assistant", "config">> # <<"assistant", "config">>
    BY TodoFacts
  <2> QED
    BY <1>1, <1>3, <1>4, <2>1 DEF JobIsSound, InBackups
<1>7. \A u \in Terminals \ {t} : JobIsSound(job[u])'
  BY <1>1, <1>4 DEF SetupInv, JobIsSound, InBackups
<1> QED
  BY <1>1, <1>5, <1>6, <1>7 DEF SetupInv, InBackups

(* The first write of an install: the backup. *)
LEMMA BackupKeeps ==
  ASSUME SetupInv, NEW t \in Terminals, Writes(t), Head(job[t].todo) = "backup"
  PROVE  SetupInv'
<1> DEFINE j == job[t]
           next == [j EXCEPT !.todo = Tail(@)]
<1>1. /\ j \in [todo : Seq(Steps), servers : SUBSET Names, config : SUBSET Entry] /\ JobIsSound(j)
      /\ backups \in Seq(File) /\ assistant \in File /\ MaxBackups \in Nat
  BY SetupAssumption DEF SetupInv, SetupTypeOK
<1>2. j.todo = <<"backup", "assistant", "config">>
  BY <1>1, TodoFacts DEF JobIsSound, Writes
<1>3. /\ job' = [job EXCEPT ![t] = next]
      /\ Len(backups) < MaxBackups /\ backups' = Append(backups, assistant)
      /\ UNCHANGED <<assistant, config, migrated, kills>>
  BY <1>2, TodoFacts DEF Writes, backupConfig
<1>4. /\ next \in [todo : Seq(Steps), servers : SUBSET Names, config : SUBSET Entry]
      /\ next.todo = <<"assistant", "config">> /\ next.servers = j.servers /\ next.config = j.config
  <2>1. Tail(j.todo) = <<"assistant", "config">>
    BY <1>2, TodoFacts
  <2> QED
    BY <1>1, <2>1, TodoFacts
<1> HIDE DEF next
<1>5. /\ job' \in [Terminals -> [todo : Seq(Steps), servers : SUBSET Names, config : SUBSET Entry]]
      /\ job'[t] = next /\ \A u \in Terminals \ {t} : job'[u] = job[u]
  BY <1>3, <1>4 DEF SetupInv, SetupTypeOK
<1>6. /\ backups' \in Seq(File) /\ Len(backups') <= MaxBackups
      /\ \A k \in DOMAIN backups : k \in DOMAIN backups' /\ backups'[k] = backups[k]
      /\ Len(backups) + 1 \in DOMAIN backups' /\ backups'[Len(backups) + 1] = assistant
  <2>1. /\ backups' \in Seq(File) /\ Len(backups') = Len(backups) + 1 /\ Len(backups) \in Nat
        /\ \A k \in 1..Len(backups) : backups'[k] = backups[k]
        /\ backups'[Len(backups) + 1] = assistant
    BY <1>1, <1>3, AppendProperties
  <2>2. DOMAIN backups = 1..Len(backups) /\ DOMAIN backups' = 1..(Len(backups) + 1)
    BY <1>1, <2>1, LenProperties
  <2> QED
    BY <1>1, <1>3, <2>1, <2>2
<1>7. \A n : InBackups(n) \/ n \in assistant.servers => InBackups(n)'
  BY <1>6 DEF InBackups
<1>8. SetupTypeOK'
  BY <1>3, <1>5, <1>6 DEF SetupInv, SetupTypeOK
<1>9. JobIsSound(job[t])'
  <2>1. job'[t].todo = <<"assistant", "config">> /\ job'[t].servers = j.servers /\ job'[t].config = j.config
    BY <1>4, <1>5
  <2>2. Keyed(j.config) /\ assistant.servers \subseteq j.servers
    BY <1>1, <1>2 DEF JobIsSound
  <2>3. \A n \in j.servers : InBackups(n)'
    BY <1>1, <1>2, <1>7 DEF JobIsSound
  <2>4. <<"backup", "assistant", "config">> # <<"assistant", "config">>
    BY TodoFacts
  <2> HIDE DEF j
  <2> QED
    BY <1>3, <2>1, <2>2, <2>3, <2>4 DEF JobIsSound
<1>10. \A u \in Terminals \ {t} : JobIsSound(job[u])'
  <2> SUFFICES ASSUME NEW u \in Terminals \ {t} PROVE JobIsSound(job[u])'
    OBVIOUS
  <2>1. JobIsSound(job[u]) /\ job'[u] = job[u] /\ assistant' = assistant
    BY <1>3, <1>5 DEF SetupInv
  <2> QED
    BY <1>7, <2>1 DEF JobIsSound
<1> QED
  BY <1>3, <1>7, <1>8, <1>9, <1>10 DEF SetupInv

(* The assistant's file is written, or torn: its servers are in a backup. *)
LEMMA TakingKeeps ==
  ASSUME SetupInv, NEW t \in Terminals, job[t].todo = <<"assistant", "config">>,
         assistant' \in File, assistant'.servers = {},
         migrated' = migrated \cup job[t].servers, UNCHANGED <<config, backups>>,
         kills' \in 0..MaxKills,
         NEW next, job' = [job EXCEPT ![t] = next],
         \/ next = NoJob
         \/ next = [job[t] EXCEPT !.todo = <<"config">>]
  PROVE  SetupInv'
<1> DEFINE j == job[t]
<1>1. /\ j \in [todo : Seq(Steps), servers : SUBSET Names, config : SUBSET Entry] /\ JobIsSound(j)
      /\ Keyed({})
  BY DEF SetupInv, SetupTypeOK, Keyed
<1>2. /\ next \in [todo : Seq(Steps), servers : SUBSET Names, config : SUBSET Entry]
      /\ next.todo \in {<<>>, <<"config">>} /\ Keyed(next.config)
  <2>1. CASE next = NoJob
    BY <1>1, <2>1, TodoFacts DEF NoJob
  <2>2. CASE next = [j EXCEPT !.todo = <<"config">>]
    BY <1>1, <2>2, TodoFacts DEF JobIsSound
  <2> QED
    BY <2>1, <2>2
<1>3. /\ job' \in [Terminals -> [todo : Seq(Steps), servers : SUBSET Names, config : SUBSET Entry]]
      /\ job'[t] = next /\ \A u \in Terminals \ {t} : job'[u] = job[u]
  BY <1>2 DEF SetupInv, SetupTypeOK
<1>4. \A n \in j.servers : InBackups(n)
  BY <1>1 DEF JobIsSound
<1>5. \A n \in assistant.servers : InBackups(n)
  BY <1>1, <1>4 DEF JobIsSound
<1>6. \A n : InBackups(n)' = InBackups(n)
  BY DEF InBackups
<1>7. SetupTypeOK'
  BY <1>1, <1>3 DEF SetupInv, SetupTypeOK
<1>8. JobIsSound(job[t])'
  <2>1. /\ <<"config">> # <<"assistant", "config">> /\ <<"config">> # <<"backup", "assistant", "config">>
        /\ <<>> # <<"assistant", "config">> /\ <<>> # <<"backup", "assistant", "config">>
    BY TodoFacts
  <2>2. job'[t].todo \in {<<>>, <<"config">>} /\ Keyed(job'[t].config)
    BY <1>2, <1>3
  <2> QED
    BY <2>1, <2>2 DEF JobIsSound
<1>9. ASSUME NEW u \in Terminals \ {t} PROVE JobIsSound(job[u])'
  <2>1. JobIsSound(job[u]) /\ job'[u] = job[u]
    BY <1>3 DEF SetupInv
  <2> QED
    BY <1>5, <1>6, <2>1 DEF JobIsSound
<1>10. \A n \in migrated' : InBackups(n)'
  BY <1>4, <1>6 DEF SetupInv
<1> QED
  BY <1>7, <1>8, <1>9, <1>10 DEF SetupInv

(* A command is over, with or without having written config.yaml. *)
LEMMA OverKeeps ==
  ASSUME SetupInv, NEW t \in Terminals, job' = [job EXCEPT ![t] = NoJob],
         config' = config \/ config' \subseteq job[t].config,
         UNCHANGED <<assistant, backups, migrated>>, kills' \in 0..MaxKills
  PROVE  SetupInv'
<1>1. /\ job[t] \in [todo : Seq(Steps), servers : SUBSET Names, config : SUBSET Entry]
      /\ JobIsSound(job[t])
  BY DEF SetupInv, SetupTypeOK
<1>2. /\ NoJob \in [todo : Seq(Steps), servers : SUBSET Names, config : SUBSET Entry]
      /\ NoJob.todo = <<>> /\ Keyed(NoJob.config)
  BY TodoFacts DEF NoJob, Keyed
<1>3. /\ job' \in [Terminals -> [todo : Seq(Steps), servers : SUBSET Names, config : SUBSET Entry]]
      /\ job'[t] = NoJob /\ \A u \in Terminals \ {t} : job'[u] = job[u]
  BY <1>2 DEF SetupInv, SetupTypeOK
<1>4. config' \subseteq Entry /\ Keyed(config')
  <2>1. config \subseteq Entry /\ Keyed(config)
    BY DEF SetupInv, SetupTypeOK, Keyed
  <2>2. job[t].config \subseteq Entry /\ Keyed(job[t].config)
    BY <1>1 DEF JobIsSound
  <2> QED
    BY <2>1, <2>2 DEF Keyed
<1>5. SetupTypeOK'
  BY <1>3, <1>4 DEF SetupInv, SetupTypeOK, Keyed
<1>6. \A n : InBackups(n)' = InBackups(n)
  BY DEF InBackups
<1>7. JobIsSound(job[t])'
  <2>1. <<>> # <<"assistant", "config">> /\ <<>> # <<"backup", "assistant", "config">>
    BY TodoFacts
  <2>2. job'[t].todo = <<>> /\ Keyed(job'[t].config)
    BY <1>2, <1>3
  <2> QED
    BY <2>1, <2>2 DEF JobIsSound
<1>8. ASSUME NEW u \in Terminals \ {t} PROVE JobIsSound(job[u])'
  <2>1. JobIsSound(job[u]) /\ job'[u] = job[u]
    BY <1>3 DEF SetupInv
  <2> QED
    BY <1>6, <2>1 DEF JobIsSound
<1> QED
  BY <1>5, <1>6, <1>7, <1>8 DEF SetupInv

LEMMA WritesKeeps ==
  ASSUME SetupInv, NEW t \in Terminals, Writes(t)
  PROVE  SetupInv'
<1> DEFINE j == job[t]
<1>1. JobIsSound(j) /\ j.todo # <<>> /\ kills' = kills /\ kills \in 0..MaxKills
      /\ j \in [todo : Seq(Steps), servers : SUBSET Names, config : SUBSET Entry]
  BY DEF SetupInv, SetupTypeOK, Writes
<1>2. CASE j.todo = <<"config">>
  <2>1. Head(j.todo) = "config" /\ Len(j.todo) = 1
    BY <1>2, TodoFacts
  <2>2. /\ job' = [job EXCEPT ![t] = NoJob] /\ config' = j.config
        /\ UNCHANGED <<assistant, backups, migrated>>
    BY <2>1 DEF Writes
  <2> QED
    BY <1>1, <2>2, OverKeeps
<1>3. CASE j.todo = <<"assistant", "config">>
  <2>1. Head(j.todo) = "assistant" /\ Len(j.todo) = 2 /\ Tail(j.todo) = <<"config">>
    BY <1>3, TodoFacts
  <2>2. /\ job' = [job EXCEPT ![t] = [j EXCEPT !.todo = <<"config">>]]
        /\ assistant' = Installed /\ migrated' = migrated \cup j.servers
        /\ UNCHANGED <<config, backups>>
    <3>1. j.todo # <<>> /\ Head(j.todo) = "assistant" /\ Len(j.todo) # 1
      BY <2>1, <1>1
    <3>2. job' = [job EXCEPT ![t] = [j EXCEPT !.todo = Tail(j.todo)]]
      BY <3>1 DEF Writes
    <3>3. assistant' = Installed /\ migrated' = migrated \cup j.servers /\ UNCHANGED <<config, backups>>
      BY <3>1 DEF Writes
    <3> QED
      BY <2>1, <3>2, <3>3
  <2>3. assistant' \in File /\ assistant'.servers = {}
    BY <2>2 DEF Installed, File
  <2> QED
    BY <1>1, <1>3, <2>2, <2>3, TakingKeeps
<1>4. CASE j.todo = <<"backup", "assistant", "config">>
  BY <1>4, TodoFacts, BackupKeeps
<1> QED
  BY <1>1, <1>2, <1>3, <1>4 DEF JobIsSound

LEMMA IsKilledKeeps ==
  ASSUME SetupInv, NEW t \in Terminals, IsKilled(t)
  PROVE  SetupInv'
<1>1. /\ JobIsSound(job[t]) /\ job[t].todo # <<>> /\ job' = [job EXCEPT ![t] = NoJob]
      /\ kills' \in 0..MaxKills
  BY SetupAssumption DEF SetupInv, SetupTypeOK, IsKilled
<1>2. CASE UNCHANGED <<assistant, config, backups, migrated>>
  BY <1>1, <1>2, OverKeeps
<1>3. CASE /\ Head(job[t].todo) = "assistant" /\ assistant' = Torn
           /\ migrated' = migrated \cup job[t].servers /\ UNCHANGED <<config, backups>>
  <2>1. job[t].todo = <<"assistant", "config">>
    BY <1>1, <1>3, TodoFacts DEF JobIsSound
  <2>2. assistant' \in File /\ assistant'.servers = {}
    BY <1>3 DEF Torn, File
  <2> QED
    BY <1>1, <1>3, <2>1, <2>2, TakingKeeps
<1>4. CASE /\ Head(job[t].todo) = "config" /\ (\E left \in SUBSET job[t].config : config' = left)
           /\ UNCHANGED <<assistant, backups, migrated>>
  BY <1>1, <1>4, OverKeeps
<1> QED
  BY <1>2, <1>3, <1>4 DEF IsKilled

(* What happens to the assistant's file while no command runs. *)
LEMMA QuietKeeps ==
  ASSUME SetupInv, uninstallOpenclaw \/ AssistantGains
  PROVE  SetupInv'
<1>1. /\ \A t \in Terminals : job[t] = NoJob
      /\ UNCHANGED <<config, backups, job, migrated, kills>>
  BY DEF uninstallOpenclaw, AssistantGains
<1>2. assistant' \in File
  <2>1. CASE uninstallOpenclaw
    <3>1. backups \in Seq(File) /\ backups # <<>>
      BY <2>1 DEF uninstallOpenclaw, SetupInv, SetupTypeOK
    <3>2. Len(backups) \in DOMAIN backups /\ \A k \in DOMAIN backups : backups[k] \in File
      <4>1. DOMAIN backups = 1..Len(backups) /\ Len(backups) \in Nat /\ Len(backups) # 0
        BY <3>1, LenProperties, EmptySeq
      <4> QED
        BY <3>1, <4>1, LenProperties
    <3> QED
      BY <2>1, <3>2 DEF uninstallOpenclaw, findLatestBackup, Last
  <2>2. CASE AssistantGains
    BY <2>2 DEF AssistantGains, SetupInv, SetupTypeOK, File
  <2> QED
    BY <2>1, <2>2
<1>3. SetupTypeOK'
  BY <1>1, <1>2 DEF SetupInv, SetupTypeOK
<1>4. NoJob.todo = <<>> /\ Keyed(NoJob.config)
  BY DEF NoJob, Keyed
<1>5. \A t \in Terminals : JobIsSound(job[t])'
  <2>1. <<>> # <<"assistant", "config">> /\ <<>> # <<"backup", "assistant", "config">>
    BY TodoFacts
  <2> QED
    BY <1>1, <1>4, <2>1 DEF JobIsSound
<1> QED
  BY <1>1, <1>3, <1>5 DEF SetupInv, InBackups

LEMMA SetupStepKeeps ==
  ASSUME SetupInv, SetupNext
  PROVE  SetupInv'
<1>1. assistant \in File /\ assistant.servers \in SUBSET Names /\ config \in SUBSET Entry /\ Keyed(config)
  BY DEF SetupInv, SetupTypeOK, File, Keyed
<1>2. ASSUME NEW t \in Terminals, installOpenclaw(t) PROVE SetupInv'
  <2>1. /\ mergeIntoAgentGuardConfig(config, assistant.servers) \in SUBSET Entry
        /\ Keyed(mergeIntoAgentGuardConfig(config, assistant.servers))
    BY <1>1, MergeIsKeyed
  <2> QED
    BY <1>1, <1>2, <2>1, BeginsKeeps DEF installOpenclaw
<1>3. ASSUME NEW t \in Terminals, addDownstreamServer(t) PROVE SetupInv'
  <2>1. PICK n \in Names : Begins(t, <<"config">>, {},
                                  Put(config, [name |-> n, prefixed |-> FALSE, by |-> "operator"]))
    BY <1>3 DEF addDownstreamServer
  <2>2. [name |-> n, prefixed |-> FALSE, by |-> "operator"] \in Entry
    BY DEF Entry
  <2> DEFINE put == Put(config, [name |-> n, prefixed |-> FALSE, by |-> "operator"])
  <2>3. put \in SUBSET Entry /\ Keyed(put)
    BY <1>1, <2>2, PutIsKeyed
  <2> HIDE DEF put
  <2>4. Begins(t, <<"config">>, {}, put)
    BY <2>1 DEF put
  <2> QED
    BY <2>3, <2>4, BeginsKeeps
<1>4. ASSUME NEW t \in Terminals, removeDownstreamServer(t) PROVE SetupInv'
  <2>1. PICK e \in config : Begins(t, <<"config">>, {}, config \ {e})
    BY <1>4 DEF removeDownstreamServer
  <2>2. config \ {e} \in SUBSET Entry /\ Keyed(config \ {e})
    BY <1>1 DEF Keyed
  <2> QED
    BY <2>1, <2>2, BeginsKeeps
<1> QED
  BY <1>2, <1>3, <1>4, WritesKeeps, IsKilledKeeps, QuietKeeps DEF SetupNext

LEMMA SetupInitEstablishes ==
  ASSUME SetupInit
  PROVE  SetupInv
<1> USE DEF SetupInit
<1>1. <<>> \in Seq(File) /\ Len(<<>>) = 0
  BY EmptySeq
<1>2. /\ NoJob \in [todo : Seq(Steps), servers : SUBSET Names, config : SUBSET Entry]
      /\ NoJob.todo = <<>> /\ Keyed(NoJob.config)
  BY TodoFacts DEF NoJob, Keyed
<1>3. SetupTypeOK
  <2>1. Len(backups) <= MaxBackups /\ kills \in 0..MaxKills
    BY <1>1, SetupAssumption
  <2>2. assistant \in File
    BY DEF File
  <2> QED
    BY <1>1, <1>2, <2>1, <2>2 DEF SetupTypeOK
<1>4. \A t \in Terminals : JobIsSound(job[t])
  <2>1. <<>> # <<"assistant", "config">> /\ <<>> # <<"backup", "assistant", "config">>
    BY TodoFacts
  <2> QED
    BY <1>2, <2>1 DEF JobIsSound
<1> QED
  BY <1>3, <1>4 DEF SetupInv

LEMMA SetupHolds == Spec => []SetupInv
<1>1. Init => SetupInv
  BY SetupInitEstablishes DEF Init
<1>2. SetupInv /\ [Next]_vars => SetupInv'
  <2>1. SetupInv /\ UNCHANGED setupVars => SetupInv'
    BY DEF SetupInv, SetupTypeOK, JobIsSound, InBackups, setupVars
  <2>2. [Next]_vars => SetupNext \/ UNCHANGED setupVars
    BY DEF Next, vars, Server, Answering, Following, Polling, Ticks, Listing, Chatting, SettingUp, Apart
  <2> QED
    BY <2>1, <2>2, SetupStepKeeps
<1> QED
  BY <1>1, <1>2, PTL DEF Spec

(* A server an install took from the assistant is never lost, whatever the   *)
(* order of the commands' writes and wherever one was killed.                *)
THEOREM NoServerIsLost == Spec => []ServersSurvive
<1>1. SetupInv => ServersSurvive
  BY DEF SetupInv, ServersSurvive, InBackups
<1> QED
  BY <1>1, SetupHolds, PTL

-----------------------------------------------------------------------------
(* The types of the surfaces. *)

LEMMA DeskFacts ==
  ASSUME desk \in Desks
  PROVE  desk.ids \subseteq Ids /\ desk.asks \subseteq Asks /\ desk.polls \subseteq PollSlots
  BY DesksAssumption

LEMMA SettleTypes ==
  ASSUME QueueTypeOK, IsFiniteSet(queue), NEW i \in Ids, NEW c \in ApprovalChoices,
         NEW source \in Sources, Settle(i, c, source)
  PROVE  /\ QueueTypeOK' /\ IsFiniteSet(queue')
         /\ i \in queue /\ queue' = queue \ {i}
         /\ choice'[i] = c /\ via'[i] = source
         /\ \A n \in Ids \ {i} : choice'[n] = choice[n] /\ via'[n] = via[n]
<1>1. /\ i \in queue /\ queue' = queue \ {i} /\ choice' = [choice EXCEPT ![i] = c]
      /\ via' = [via EXCEPT ![i] = source] /\ origin' = origin
  BY DEF Settle
<1>2. IsFiniteSet(queue')
  BY <1>1, FS_RemoveElement
<1> QED
  BY <1>1, <1>2 DEF QueueTypeOK

(* An answer is of a type, and stays so when its acknowledgement is written. *)
LEMMA AnswerTypes ==
  ASSUME ask \in [Asks -> AskOK \cup {Unused}], NEW n \in Asks, ask[n] # Unused
  PROVE  /\ ask[n] \in AskOK /\ ask[n].id \in Ids /\ ask[n].choice \in Answers
         /\ \A wire_ \in {"request", "ok", "refused", "empty"}, told_ \in {"waiting", "ok", "refused", "failed"} :
              [ask[n] EXCEPT !.wire = wire_, !.told = told_] \in AskOK
         /\ \A wire_ \in {"request", "ok", "refused", "empty"} :
              [ask[n] EXCEPT !.wire = wire_] \in AskOK
  BY DEF AskOK

LEMMA UnusedIsNone ==
  \A q \in AskOK : q # Unused /\ q.told # "unused"
  BY DEF AskOK, Unused

LEMMA AckedTypes ==
  ASSUME ask \in [Asks -> AskOK \cup {Unused}], NEW n \in Asks, ask[n] # Unused,
         NEW ok \in BOOLEAN, Acked(n, ok)
  PROVE  /\ ask' \in [Asks -> AskOK \cup {Unused}]
         /\ \A m \in Asks \ {n} : ask'[m] = ask[m]
         /\ ask'[n] \in AskOK /\ ask'[n].id = ask[n].id /\ ask'[n].choice = ask[n].choice
         /\ ask'[n].at = ask[n].at /\ ask'[n].told = ask[n].told /\ ask'[n].by = ask[n].by
         /\ ask'[n].wire = (IF ask[n].told # "waiting" THEN "empty" ELSE IF ok THEN "ok" ELSE "refused")
<1> DEFINE w == IF ask[n].told # "waiting" THEN "empty" ELSE IF ok THEN "ok" ELSE "refused"
<1>1. ask' = [ask EXCEPT ![n] = [ask[n] EXCEPT !.wire = w]]
  BY DEF Acked
<1>2. ask[n] \in AskOK /\ w \in {"request", "ok", "refused", "empty"}
  BY AnswerTypes
<1> HIDE DEF w
<1>3. ask'[n] = [ask[n] EXCEPT !.wire = w]
  BY <1>1
<1>4. [ask[n] EXCEPT !.wire = w] \in AskOK
  BY <1>2, AnswerTypes
<1>5. ask' \in [Asks -> AskOK \cup {Unused}] /\ \A m \in Asks \ {n} : ask'[m] = ask[m]
  BY <1>1, <1>4
<1>6. /\ ask'[n].wire = w /\ ask'[n].id = ask[n].id /\ ask'[n].choice = ask[n].choice
      /\ ask'[n].at = ask[n].at /\ ask'[n].told = ask[n].told /\ ask'[n].by = ask[n].by
  BY <1>2, <1>3 DEF AskOK
<1> QED
  BY <1>3, <1>4, <1>5, <1>6 DEF w

LEMMA AskOnceTypes ==
  ASSUME ask \in [Asks -> AskOK \cup {Unused}], path \in {"ours", "other", "none"},
         NEW n \in Asks, NEW w \in Askers, NEW i \in Ids, NEW c \in Answers, AskOnce(n, w, i, c)
  PROVE  /\ ask' \in [Asks -> AskOK \cup {Unused}] /\ ask[n] = Unused
         /\ \A m \in Asks \ {n} : ask'[m] = ask[m]
         /\ ask'[n] \in AskOK /\ ask'[n].id = i /\ ask'[n].wire \in {"request", "empty"}
         /\ ask'[n].told = (IF ask'[n].wire = "request" THEN "waiting" ELSE "failed")
<1> DEFINE q == [by |-> w, id |-> i, choice |-> c, at |-> Reached,
                 wire |-> IF Reachable THEN "request" ELSE "empty",
                 told |-> IF Reachable THEN "waiting" ELSE "failed"]
<1>1. ask' = [ask EXCEPT ![n] = q] /\ ask[n] = Unused
  BY DEF AskOnce
<1>2. q \in AskOK
  <2>1. Reached \in {"ours", "other", "none"}
    BY DEF Reached, Reachable
  <2> QED
    BY <2>1 DEF AskOK
<1>3. /\ q.id = i /\ q.wire \in {"request", "empty"}
      /\ q.told = (IF q.wire = "request" THEN "waiting" ELSE "failed")
  OBVIOUS
<1> HIDE DEF q
<1> QED
  BY <1>1, <1>2, <1>3

(* The asker gives up, or learns the outcome: what it was told, and what is *)
(* left on its connection.                                                  *)
LEMMA ToldTypes ==
  ASSUME ask \in [Asks -> AskOK \cup {Unused}], NEW n \in Asks, TimesOut(n) \/ onResolve(n)
  PROVE  /\ ask' \in [Asks -> AskOK \cup {Unused}] /\ ask[n] \in AskOK
         /\ \A m \in Asks \ {n} : ask'[m] = ask[m]
         /\ ask'[n] \in AskOK /\ ask'[n].id = ask[n].id /\ ask'[n].choice = ask[n].choice
         /\ ask'[n].at = ask[n].at /\ ask[n].told = "waiting"
         /\ \/ /\ ask'[n].told = "failed"
               /\ ask'[n].wire = IF ask[n].wire = "request" THEN "request" ELSE "empty"
            \/ /\ ask[n].wire \in {"ok", "refused"}
               /\ ask'[n].told = ask[n].wire /\ ask'[n].wire = "empty"
<1>1. ask[n] \in AskOK /\ ask[n].told = "waiting"
  BY DEF Unused, TimesOut, onResolve
<1>2. ASSUME NEW t \in {"waiting", "ok", "refused", "failed"}, NEW v \in {"request", "ok", "refused", "empty"},
             ask' = [ask EXCEPT ![n].told = t, ![n].wire = v]
      PROVE  /\ ask' \in [Asks -> AskOK \cup {Unused}] /\ \A m \in Asks \ {n} : ask'[m] = ask[m]
             /\ ask'[n] \in AskOK /\ ask'[n].id = ask[n].id /\ ask'[n].choice = ask[n].choice
             /\ ask'[n].at = ask[n].at /\ ask'[n].told = t /\ ask'[n].wire = v
  <2>1. ask'[n] = [ask[n] EXCEPT !.told = t, !.wire = v] /\ \A m \in Asks \ {n} : ask'[m] = ask[m]
    BY <1>2
  <2>2. [ask[n] EXCEPT !.told = t, !.wire = v] \in AskOK
    BY <1>1 DEF AskOK
  <2>3. /\ ask'[n].id = ask[n].id /\ ask'[n].choice = ask[n].choice
        /\ ask'[n].at = ask[n].at /\ ask'[n].told = t /\ ask'[n].wire = v
    BY <1>1, <2>1 DEF AskOK
  <2>4. ask' \in [Asks -> AskOK \cup {Unused}]
    <3>1. ask' = [m \in Asks |-> IF m = n THEN [ask[n] EXCEPT !.told = t, !.wire = v] ELSE ask[m]]
      BY <1>2
    <3> QED
      BY <2>2, <3>1
  <2> QED
    BY <2>1, <2>2, <2>3, <2>4
<1>3. CASE TimesOut(n)
  <2> DEFINE v == IF ask[n].wire = "request" THEN "request" ELSE "empty"
  <2>1. ask' = [ask EXCEPT ![n].told = "failed", ![n].wire = v]
    BY <1>3 DEF TimesOut
  <2> QED
    BY <1>1, <1>2, <2>1
<1>4. CASE onResolve(n)
  <2>1. ask' = [ask EXCEPT ![n].told = ask[n].wire, ![n].wire = "empty"] /\ ask[n].wire \in {"ok", "refused"}
    BY <1>4 DEF onResolve
  <2> QED
    BY <1>1, <1>2, <2>1
<1> QED
  BY <1>3, <1>4

(* A server's connections are destroyed with what is on them. *)
LEMMA DestroyTypes ==
  ASSUME ask \in [Asks -> AskOK \cup {Unused}], NEW where, destroy(where),
         follow \in [Followers -> {"off", "ours", "other", "gone"}], inbox \in [Followers -> Seq(Ids)]
  PROVE  /\ ask' \in [Asks -> AskOK \cup {Unused}]
         /\ \A n \in Asks :
              \/ ask'[n] = ask[n]
              \/ /\ ask[n] \in AskOK /\ ask'[n] \in AskOK
                 /\ ask'[n].id = ask[n].id /\ ask'[n].choice = ask[n].choice /\ ask'[n].at = ask[n].at
                 /\ ask'[n].told = ask[n].told /\ ask'[n].wire = "empty"
         /\ follow' \in [Followers -> {"off", "ours", "other", "gone"}]
         /\ inbox' \in [Followers -> Seq(Ids)]
         /\ \A f \in Followers : IF follow[f] = where THEN follow'[f] = "gone" /\ inbox'[f] = <<>>
                                 ELSE follow'[f] = follow[f] /\ inbox'[f] = inbox[f]
<1>1. \A n \in Asks : ask'[n] = ask[n] \/ (ask[n] # Unused /\ ask'[n] = [ask[n] EXCEPT !.wire = "empty"])
  BY DEF destroy
<1>2. ASSUME NEW n \in Asks, ask[n] # Unused, ask'[n] = [ask[n] EXCEPT !.wire = "empty"]
      PROVE  /\ ask[n] \in AskOK /\ ask'[n] \in AskOK
             /\ ask'[n].id = ask[n].id /\ ask'[n].choice = ask[n].choice /\ ask'[n].at = ask[n].at
             /\ ask'[n].told = ask[n].told /\ ask'[n].wire = "empty"
  <2>1. ask[n] \in AskOK /\ ask'[n] \in AskOK
    BY <1>2, AnswerTypes
  <2> QED
    BY <1>2, <2>1 DEF AskOK
<1>3. DOMAIN ask' = Asks /\ ask' = [n \in Asks |-> ask'[n]]
  BY DEF destroy
<1>4. ask' \in [Asks -> AskOK \cup {Unused}]
  <2>1. \A n \in Asks : ask'[n] \in AskOK \cup {Unused}
    BY <1>1, <1>2
  <2> QED
    BY <1>3, <2>1
<1>5. /\ follow' \in [Followers -> {"off", "ours", "other", "gone"}]
      /\ inbox' \in [Followers -> Seq(Ids)]
      /\ \A f \in Followers : IF follow[f] = where THEN follow'[f] = "gone" /\ inbox'[f] = <<>>
                              ELSE follow'[f] = follow[f] /\ inbox'[f] = inbox[f]
  BY EmptySeq DEF destroy
<1> QED
  BY <1>1, <1>2, <1>4, <1>5

(* What a new client is sent: each pending request once. *)
LEMMA PendingTypes ==
  ASSUME NEW S \in SUBSET Ids, IsFiniteSet(S), NEW pending \in SetToSeqs(S)
  PROVE  pending \in Seq(Ids) /\ \A i : IF i \in S THEN Once(i, pending) ELSE Never(i, pending)
<1> DEFINE n == Cardinality(S)
<1>1. n \in Nat /\ IsFiniteSet(1..n) /\ Cardinality(1..n) = n
  BY FS_CardinalityType, FS_Interval
<1>2. /\ pending \in [1..n -> S] /\ \A j, k \in 1..n : j # k => pending[j] # pending[k]
  BY DEF SetToSeqs
<1>3. pending \in Injection(1..n, S)
  BY <1>2 DEF Injection, IsInjective
<1>4. pending \in Surjection(1..n, S)
  BY <1>1, <1>3, FS_Injection
<1>5. \A i \in S : \E k \in 1..n : pending[k] = i
  BY <1>4 DEF Surjection
<1>6. pending \in Seq(Ids) /\ DOMAIN pending = 1..n
  BY <1>1, <1>2, SeqDef
<1> QED
  BY <1>2, <1>5, <1>6 DEF Once, Never

(* The server's own steps leave the rest alone, and a follower that left     *)
(* does not come back.                                                       *)
LEMMA ServerTypes ==
  ASSUME SurfacesInv, Server
  PROVE  SurfacesInv'
<1> USE DEF SurfacesInv, SurfacesTypeOK, IpcTypeOK
<1>1. /\ UNCHANGED <<backlog, asking, posting, posted, failures, cards, polls, faults, desk>>
      /\ desk.ids \subseteq Ids /\ desk.asks \subseteq Asks
  BY DeskFacts DEF Server, Elsewhere, Apart, watchVars, forwardVars, pageVars
<1>2. SUFFICES /\ IpcTypeOK' /\ IsFiniteSet(queue')
               /\ follow["forward"] = "gone" => follow'["forward"] = "gone"
  BY <1>1
<1>3. "forward" \in Followers /\ "telegram" \in Sources /\ "ipc" \in Sources /\ "timeout" \in Sources
  BY IpcAssumption DEF Sources
<1>4. ASSUME NEW i \in Ids, onApprovalRequest(i)
      PROVE  IpcTypeOK' /\ IsFiniteSet(queue') /\ follow' = follow
  <2>1. /\ queue' = queue \cup {i} /\ origin' = [origin EXCEPT ![i] = "none"]
        /\ inbox' = [f \in Followers |-> IF follow[f] = "ours" THEN Append(inbox[f], i) ELSE inbox[f]]
        /\ UNCHANGED <<choice, via, proxy, path, rival, ask, settledBy, follow, typed>>
    BY <1>4 DEF onApprovalRequest, request, broadcast, socketVars
  <2>2. IsFiniteSet(queue')
    BY <2>1, FS_AddElement
  <2>3. inbox' \in [Followers -> Seq(Ids)]
    BY <2>1, AppendProperties
  <2> QED
    BY <2>1, <2>2, <2>3 DEF QueueTypeOK
<1>5. ASSUME NEW i \in Ids, NEW c \in ApprovalChoices, NEW source \in Sources, Settle(i, c, source)
      PROVE  QueueTypeOK' /\ IsFiniteSet(queue')
  BY <1>5, SettleTypes
<1>6. ASSUME NEW i \in Ids, onApprovalResolved(i)
      PROVE  IpcTypeOK' /\ IsFiniteSet(queue') /\ follow' = follow
  <2>1. UNCHANGED <<proxy, path, rival, ask, settledBy, follow, inbox, typed>>
    BY <1>6 DEF onApprovalResolved, socketVars, followVars
  <2>2. QueueTypeOK' /\ IsFiniteSet(queue')
    <3>1. TimeoutChoice(i) \in ApprovalChoices /\ TapChoices(origin[i]) \subseteq ApprovalChoices
      BY DEF TimeoutChoice, TapChoices, ApprovalChoices
    <3> QED
      BY <1>3, <1>5, <1>6, <3>1 DEF onApprovalResolved, expire, respond
  <2> QED
    BY <2>1, <2>2
<1>7. ASSUME NEW n \in Asks, handleRespond(n)
      PROVE  IpcTypeOK' /\ IsFiniteSet(queue') /\ follow' = follow
  <2>1. ask[n] # Unused /\ UNCHANGED <<proxy, path, rival, follow, inbox, typed>>
    BY <1>7 DEF handleRespond, socketVars, followVars
  <2>2. ask' \in [Asks -> AskOK \cup {Unused}]
    BY <1>7, <2>1, AckedTypes DEF handleRespond
  <2>3. ask[n].id \in Ids /\ ask[n].choice \in ApprovalChoices
    BY <2>1, AnswerTypes, IpcAssumption
  <2>4. QueueTypeOK' /\ IsFiniteSet(queue') /\ settledBy' \in [Ids -> Asks \cup {0}]
    <3>1. CASE respond(ask[n].id, ask[n].choice, "ipc") /\ settledBy' = [settledBy EXCEPT ![ask[n].id] = n]
      BY <1>3, <1>5, <2>3, <3>1 DEF respond
    <3>2. CASE UNCHANGED <<queueVars, settledBy>>
      BY <3>2 DEF queueVars, QueueTypeOK
    <3> QED
      BY <1>7, <3>1, <3>2 DEF handleRespond
  <2> QED
    BY <2>1, <2>2, <2>4
<1>8. ASSUME NEW n \in Asks, OtherRefuses(n)
      PROVE  IpcTypeOK' /\ IsFiniteSet(queue') /\ follow' = follow
  <2>1. /\ ask[n] # Unused /\ Acked(n, FALSE)
        /\ UNCHANGED <<queue, origin, choice, via, proxy, path, rival, settledBy, follow, inbox, typed>>
    BY <1>8 DEF OtherRefuses, socketVars, followVars, queueVars
  <2>2. ask' \in [Asks -> AskOK \cup {Unused}]
    BY <2>1, AckedTypes
  <2> QED
    BY <2>1, <2>2 DEF QueueTypeOK
<1>9. ASSUME NEW a \in typed, handleTyped(a)
      PROVE  IpcTypeOK' /\ IsFiniteSet(queue') /\ follow' = follow
  <2>1. /\ a.id \in Ids /\ a.choice \in ApprovalChoices /\ typed' = typed \ {a}
        /\ UNCHANGED <<proxy, path, rival, ask, settledBy, follow, inbox>>
    BY <1>9, IpcAssumption DEF handleTyped, socketVars
  <2>2. QueueTypeOK' /\ IsFiniteSet(queue')
    <3>1. CASE respond(a.id, a.choice, "ipc")
      BY <1>3, <1>5, <2>1, <3>1 DEF respond
    <3>2. CASE UNCHANGED queueVars
      BY <3>2 DEF queueVars, QueueTypeOK
    <3> QED
      BY <1>9, <3>1, <3>2 DEF handleTyped
  <2> QED
    BY <2>1, <2>2
<1>10. ASSUME NEW f \in Followers, handleConnection(f)
       PROVE  /\ IpcTypeOK' /\ IsFiniteSet(queue')
              /\ follow["forward"] = "gone" => follow'["forward"] = "gone"
  <2>1. /\ follow[f] = "off" /\ Reachable /\ follow' = [follow EXCEPT ![f] = path]
        /\ UNCHANGED <<queue, origin, choice, via, proxy, path, rival, ask, settledBy, typed>>
    BY <1>10 DEF handleConnection, socketVars, queueVars
  <2>2. PICK pending \in SetToSeqs(IF path = "ours" THEN queue ELSE {}) :
          inbox' = [inbox EXCEPT ![f] = pending]
    BY <1>10 DEF handleConnection
  <2>3. pending \in Seq(Ids)
    <3>1. /\ (IF path = "ours" THEN queue ELSE {}) \in SUBSET Ids
          /\ IsFiniteSet(IF path = "ours" THEN queue ELSE {})
      BY FS_EmptySet DEF QueueTypeOK
    <3> QED
      BY <3>1, PendingTypes
  <2>4. follow' \in [Followers -> {"off", "ours", "other", "gone"}]
    BY <2>1 DEF Reachable
  <2> QED
    BY <1>3, <2>1, <2>2, <2>3, <2>4 DEF QueueTypeOK
<1>11. ASSUME NEW f \in Followers, cleanup(f)
       PROVE  /\ IpcTypeOK' /\ IsFiniteSet(queue')
              /\ follow["forward"] = "gone" => follow'["forward"] = "gone"
  BY <1>3, <1>11, EmptySeq DEF cleanup, socketVars, queueVars, QueueTypeOK
<1>12. ASSUME SocketNext
       PROVE  /\ IpcTypeOK' /\ IsFiniteSet(queue')
              /\ follow["forward"] = "gone" => follow'["forward"] = "gone"
  <2>1. /\ proxy' \in {"up", "closing", "down"} /\ path' \in {"ours", "other", "none"}
        /\ rival' \in {"unborn", "up", "gone"} /\ settledBy' = settledBy
        /\ typed' \in {typed, {}} /\ queue' \in {queue, {}} /\ UNCHANGED <<origin, choice, via>>
        /\ destroy("ours") \/ destroy("other") \/ UNCHANGED <<ask, follow, inbox>>
    BY <1>12 DEF SocketNext, stop, Exits, Killed, RivalStarts, RivalStops, shutdown, followVars, queueVars
  <2>2. /\ ask' \in [Asks -> AskOK \cup {Unused}]
        /\ follow' \in [Followers -> {"off", "ours", "other", "gone"}] /\ inbox' \in [Followers -> Seq(Ids)]
        /\ follow["forward"] = "gone" => follow'["forward"] = "gone"
    BY <1>3, <2>1, DestroyTypes
  <2>3. IsFiniteSet(queue')
    BY <2>1, FS_EmptySet
  <2> QED
    BY <2>1, <2>2, <2>3 DEF QueueTypeOK
<1> HIDE DEF SurfacesInv, SurfacesTypeOK, IpcTypeOK
<1> QED
  BY <1>1, <1>4, <1>6, <1>7, <1>8, <1>9, <1>10, <1>11, <1>12 DEF Server

(* The asker sends an answer, gives up or learns the outcome. *)
LEMMA AnsweringTypes ==
  ASSUME SurfacesInv, Answering
  PROVE  SurfacesInv'
<1> USE DEF SurfacesInv, SurfacesTypeOK, IpcTypeOK
<1>1. /\ desk.asks \subseteq Asks /\ desk' = desk /\ "cli" \in Askers /\ "page" \in Askers
  BY DeskFacts, IpcAssumption DEF Answering, Apart
<1>2. SUFFICES /\ ask' \in [Asks -> AskOK \cup {Unused}] /\ cards' \in SUBSET cards
               /\ UNCHANGED <<queue, origin, choice, via, proxy, path, rival, settledBy, follow, inbox, typed>>
               /\ UNCHANGED <<backlog, asking, posting, posted, failures, polls, faults>>
  BY <1>1 DEF QueueTypeOK
<1>3. ASSUME NEW n \in Asks, TimesOut(n) \/ onResolve(n)
      PROVE  ask' \in [Asks -> AskOK \cup {Unused}]
  BY <1>3, ToldTypes
<1>4. ASSUME NEW n \in Asks, NEW w \in {"cli", "page"}, NEW i \in Ids, NEW c \in Answers, AskOnce(n, w, i, c)
      PROVE  ask' \in [Asks -> AskOK \cup {Unused}]
  BY <1>1, <1>4, AskOnceTypes
<1>5. CASE \E n \in desk.asks : TimesOut(n) /\ Elsewhere
  BY <1>1, <1>3, <1>5 DEF TimesOut, Elsewhere, watchVars, forwardVars, pageVars, queueVars, socketVars, followVars
<1>6. CASE \E n \in desk.asks : onResolve(n)
  BY <1>1, <1>3, <1>6 DEF onResolve, watchVars, forwardVars, queueVars, socketVars, followVars
<1>7. CASE \E n \in desk.asks : approvalsRespondCommand(n)
  <2>1. PICK n \in desk.asks, i \in Ids, c \in Answers : AskOnce(n, "cli", i, c)
    BY <1>7 DEF approvalsRespondCommand
  <2> QED
    BY <1>1, <1>4, <1>7, <2>1
       DEF approvalsRespondCommand, AskOnce, watchVars, forwardVars, pageVars, queueVars, socketVars, followVars
<1>8. CASE \E n \in desk.asks : act(n)
  <2>1. PICK n \in desk.asks, i \in cards, c \in Answers : AskOnce(n, "page", i, c)
    BY <1>8 DEF act
  <2> QED
    BY <1>1, <1>4, <1>8, <2>1 DEF act, AskOnce, watchVars, forwardVars, pageVars, queueVars, socketVars, followVars
<1> QED
  BY <1>5, <1>6, <1>7, <1>8 DEF Answering

LEMMA FollowingTypes ==
  ASSUME SurfacesInv, Following
  PROVE  SurfacesInv'
<1> USE DEF SurfacesInv, SurfacesTypeOK, IpcTypeOK
<1>1. /\ "watch" \in Followers /\ "forward" \in Followers /\ desk' = desk
      /\ MaxFailures \in Nat \ {0} /\ None \notin Ids /\ IsFiniteSet(queue)
  BY IpcAssumption, SurfacesAssumption DEF Following, Apart
<1>2. ASSUME NEW s \in Seq(Ids), s # <<>>
      PROVE  Head(s) \in Ids /\ Tail(s) \in Seq(Ids)
  BY <1>2, HeadTailProperties
<1>3. CASE WatchReads
  <2>1. Head(inbox["watch"]) \in Ids /\ inbox' \in [Followers -> Seq(Ids)]
    BY <1>1, <1>2, <1>3 DEF WatchReads
  <2>2. backlog' \in Seq(Ids) /\ asking' \in Ids \cup {None}
    <3>1. Append(backlog, Head(inbox["watch"])) \in Seq(Ids)
      BY <2>1, AppendProperties
    <3> QED
      BY <1>3, <2>1, <3>1 DEF WatchReads
  <2> QED
    BY <1>1, <1>3, <2>1, <2>2 DEF WatchReads, forwardVars, pageVars, queueVars, socketVars, QueueTypeOK
<1>4. CASE processNext
  <2>1. /\ asking \in Ids /\ asking' \in Ids \cup {None} /\ backlog' \in Seq(Ids)
    BY <1>1, <1>2, <1>4 DEF processNext
  <2>2. typed' \subseteq [id : Ids, choice : Answers]
    BY <1>4, <2>1 DEF processNext
  <2> QED
    BY <1>1, <1>4, <2>1, <2>2
       DEF processNext, forwardVars, pageVars, queueVars, socketVars, QueueTypeOK
<1>5. CASE WatchExits
  BY <1>1, <1>5, EmptySeq
     DEF WatchExits, serverVars, forwardVars, pageVars, queueVars, socketVars, followVars, QueueTypeOK
<1>6. CASE ForwardReads
  BY <1>1, <1>2, <1>6
     DEF ForwardReads, watchVars, pageVars, queueVars, socketVars, QueueTypeOK
<1>7. ASSUME NEW i \in posting, PostReturns(i)
      PROVE  SurfacesInv'
  <2>1. /\ posting' \subseteq Ids /\ posted' \subseteq Ids /\ follow["forward"] # "gone"
        /\ UNCHANGED <<backlog, asking, cards, polls, faults, desk>>
        /\ failures \in Nat /\ failures < MaxFailures
    BY <1>1, <1>7 DEF PostReturns, watchVars, pageVars, Following, Apart
  <2>2. CASE UNCHANGED serverVars /\ failures' \in 0..MaxFailures /\ failures' # MaxFailures
    BY <1>1, <2>1, <2>2 DEF serverVars, queueVars, socketVars, followVars, QueueTypeOK
  <2>3. CASE cleanup("forward") /\ failures' = MaxFailures
    <3>1. /\ follow' = [follow EXCEPT !["forward"] = "gone"] /\ inbox' = [inbox EXCEPT !["forward"] = <<>>]
          /\ UNCHANGED <<queue, origin, choice, via, proxy, path, rival, ask, settledBy, typed>>
      BY <2>3 DEF cleanup, queueVars, socketVars
    <3>2. /\ inbox' \in [Followers -> Seq(Ids)] /\ follow'["forward"] = "gone"
          /\ follow' \in [Followers -> {"off", "ours", "other", "gone"}]
      BY <1>1, <3>1, EmptySeq
    <3> QED
      BY <1>1, <2>1, <2>3, <3>1, <3>2 DEF QueueTypeOK
  <2>4. failures' \in 0..MaxFailures
    BY <1>1, <1>7, <2>1 DEF PostReturns
  <2> QED
    BY <1>7, <2>2, <2>3, <2>4 DEF PostReturns
<1> QED
  BY <1>3, <1>4, <1>5, <1>6, <1>7 DEF Following, watchCommand, approvalsForwardCommand

(* The page polls, and follows the chat. *)
LEMMA PagesTypes ==
  ASSUME SurfacesInv, Polling \/ Chatting
  PROVE  SurfacesInv'
<1> USE DEF SurfacesInv, SurfacesTypeOK
<1>1. /\ UNCHANGED <<queue, origin, choice, via, proxy, path, rival, ask, settledBy, follow, inbox, typed>>
      /\ UNCHANGED <<backlog, asking, posting, posted, failures, desk>>
  BY DEF Polling, Ticks, Listing, PollStarts, listPending, PollArrives, PollIsLost, Chatting, Apart,
         serverVars, queueVars, socketVars, followVars, watchVars, forwardVars
<1>2. IpcTypeOK'
  BY <1>1 DEF IpcTypeOK, QueueTypeOK
<1>3. SUFFICES cards' \subseteq Ids /\ polls' \in [PollSlots -> Poll] /\ faults' \in 0..MaxFaults
  BY <1>1, <1>2
<1>4. Idle \in Poll /\ queue \subseteq Ids /\ desk.polls \subseteq PollSlots /\ faults \in 0..MaxFaults /\ MaxFaults \in Nat
  BY DeskFacts, SurfacesAssumption DEF Idle, Poll, IpcTypeOK, QueueTypeOK
<1>5. ASSUME NEW s \in PollSlots, PollStarts(s)
      PROVE  cards' = cards /\ polls' \in [PollSlots -> Poll] /\ faults' = faults
  BY <1>5 DEF PollStarts, Poll
<1>6. ASSUME NEW s \in PollSlots, listPending(s)
      PROVE  cards' = cards /\ polls' \in [PollSlots -> Poll] /\ faults' = faults
  BY <1>4, <1>6 DEF listPending, Poll
<1>7. ASSUME NEW s \in PollSlots, PollArrives(s)
      PROVE  cards' \subseteq Ids /\ polls' \in [PollSlots -> Poll] /\ faults' = faults
  BY <1>4, <1>7 DEF PollArrives, Poll
<1>8. ASSUME NEW s \in PollSlots, PollIsLost(s)
      PROVE  cards' = cards /\ polls' \in [PollSlots -> Poll] /\ faults' \in 0..MaxFaults
  BY <1>4, <1>8 DEF PollIsLost
<1>9. CASE Polling
  BY <1>4, <1>5, <1>6, <1>7, <1>8, <1>9 DEF Polling, Ticks, Listing
<1>10. CASE Chatting
  <2>1. ASSUME NEW on, setRunning(on)
        PROVE  cards' \subseteq Ids /\ polls' \in [PollSlots -> Poll]
    BY <1>4, <2>1 DEF setRunning, pageVars
  <2>2. CASE StreamBreaks /\ UNCHANGED pageVars
    BY <1>4, <2>2 DEF StreamBreaks, pageVars
  <2>3. CASE UNCHANGED pageVars /\ UNCHANGED faults
    BY <1>4, <2>3 DEF pageVars
  <2>4. CASE onmessage /\ UNCHANGED faults
    BY <1>4, <2>1, <2>4 DEF onmessage, pageVars
  <2>5. CASE StatusArrives /\ UNCHANGED faults
    BY <1>4, <2>1, <2>5 DEF StatusArrives, pageVars
  <2>6. CASE (chatHistory \/ chatStatus \/ HistoryArrives) /\ UNCHANGED faults
    BY <1>4, <2>6 DEF chatHistory, chatStatus, HistoryArrives, pageVars
  <2> QED
    BY <1>10, <2>2, <2>3, <2>4, <2>5, <2>6 DEF Chatting, PanelNext
<1> QED
  BY <1>9, <1>10

LEMMA SurfacesInitEstablishes ==
  ASSUME Init
  PROVE  SurfacesInv
<1> USE DEF Init, SurfacesInit, IpcInit, QueueInit
<1>1. <<>> \in Seq(Ids) /\ MaxFailures \in Nat \ {0} /\ MaxFaults \in Nat
  BY EmptySeq, SurfacesAssumption
<1>2. QueueTypeOK /\ IsFiniteSet(queue)
  BY FS_EmptySet DEF QueueTypeOK
<1>3. IpcTypeOK
  BY <1>1, <1>2 DEF IpcTypeOK
<1>4. SurfacesTypeOK
  BY <1>1, <1>3 DEF SurfacesTypeOK, Poll, Idle
<1> QED
  BY <1>1, <1>2, <1>4 DEF SurfacesInv

LEMMA SurfacesStepKeeps ==
  ASSUME SurfacesInv, [Next]_vars
  PROVE  SurfacesInv'
<1>1. CASE UNCHANGED <<desk, surfaceVars>>
  BY <1>1 DEF SurfacesInv, SurfacesTypeOK, IpcTypeOK, QueueTypeOK, surfaceVars, serverVars, queueVars,
              socketVars, followVars, watchVars, forwardVars, pageVars
<1> QED
  BY <1>1, ServerTypes, AnsweringTypes, FollowingTypes, PagesTypes DEF Next, SettingUp, vars

LEMMA SurfacesHold == Spec => []SurfacesInv
  BY SurfacesInitEstablishes, SurfacesStepKeeps, PTL DEF Spec

-----------------------------------------------------------------------------
(* The answers. *)

(* What is left of an answer when its asker learns the outcome or gives up, *)
(* or its connection is destroyed: nothing new is on it.                    *)
Eased(n) ==
  \/ ask'[n] = ask[n]
  \/ /\ ask[n] \in AskOK /\ ask'[n] \in AskOK
     /\ ask'[n].id = ask[n].id /\ ask'[n].choice = ask[n].choice /\ ask'[n].at = ask[n].at
     /\ ask'[n].wire \in {ask[n].wire, "empty"}
     /\ \/ ask'[n].told \in {ask[n].told, "failed"}
        \/ ask[n].wire \in {"ok", "refused"} /\ ask'[n].told = ask[n].wire /\ ask'[n].wire = "empty"

(* The page shows nothing that was never asked for. *)
ShownIsKnown == \A i \in Ids : Fresh(i) => i \notin cards /\ \A s \in PollSlots : i \notin polls[s].list

LEMMA EasingKeeps ==
  ASSUME SurfacesInv, AnswersInv, queue' \subseteq queue, UNCHANGED <<choice, via, settledBy>>,
         \A i \in Ids : Fresh(i)' => Fresh(i), ShownIsKnown', \A n \in Asks : Eased(n)
  PROVE  AnswersInv'
<1>1. \A i \in Ids : /\ i \in queue' => choice'[i] = "none"
                     /\ settledBy'[i] # 0 => choice'[i] # "none"
  BY DEF AnswersInv
<1>2. ASSUME NEW n \in Asks PROVE AskIsTrue(n)'
  <2>1. AskIsTrue(n) /\ Eased(n) /\ (ask[n] # Unused => ask[n].id \in Ids)
    BY AnswerTypes DEF AnswersInv, SurfacesInv, SurfacesTypeOK, IpcTypeOK
  <2>2. CASE ask'[n] = ask[n]
    BY <2>1, <2>2 DEF AskIsTrue
  <2>3. CASE ask'[n] # ask[n]
    <3>1. ask[n] # Unused /\ ask'[n] # Unused
      BY <2>1, <2>3, UnusedIsNone DEF Eased
    <3>2. /\ ask'[n].id = ask[n].id /\ ask'[n].choice = ask[n].choice /\ ask'[n].at = ask[n].at
          /\ ask'[n].wire \in {ask[n].wire, "empty"}
          /\ \/ ask'[n].told \in {ask[n].told, "failed"}
             \/ ask[n].wire \in {"ok", "refused"} /\ ask'[n].told = ask[n].wire /\ ask'[n].wire = "empty"
      BY <2>1, <2>3 DEF Eased
    <3>3. ask'[n].wire = "request" => ask[n].wire = "request" /\ ask'[n].told \in {"waiting", "failed"}
      BY <2>1, <3>1, <3>2 DEF AskIsTrue
    <3>4. ask'[n].wire = "ok" \/ ask'[n].told = "ok" => ask[n].wire = "ok" \/ ask[n].told = "ok"
      BY <3>2
    <3>5. ask'[n].wire = "refused" \/ ask'[n].told = "refused" => ask[n].wire = "refused" \/ ask[n].told = "refused"
      BY <3>2
    <3> QED
      BY <2>1, <3>1, <3>2, <3>3, <3>4, <3>5 DEF AskIsTrue
  <2> QED
    BY <2>2, <2>3
<1> QED
  BY <1>1, <1>2 DEF AnswersInv, ShownIsKnown

(* A held call is asked for: nobody has answered that id. *)
LEMMA RequestKeepsAnswers ==
  ASSUME SurfacesInv, AnswersInv, NEW i \in Ids, onApprovalRequest(i), UNCHANGED <<cards, polls>>
  PROVE  AnswersInv'
<1>1. /\ Fresh(i) /\ queue' = queue \cup {i} /\ UNCHANGED <<choice, via, settledBy, ask, proxy>>
  BY DEF onApprovalRequest, request, Fresh, socketVars
<1>2. \A j \in Ids : Fresh(j)' => Fresh(j)
  BY <1>1 DEF Fresh
<1>3. \A j \in Ids : /\ j \in queue' => choice'[j] = "none"
                     /\ settledBy'[j] # 0 => choice'[j] # "none"
                     /\ Fresh(j)' => j \notin cards' /\ \A s \in PollSlots : j \notin polls'[s].list
  BY <1>1, <1>2 DEF AnswersInv, Fresh
<1>4. ASSUME NEW n \in Asks PROVE AskIsTrue(n)'
  <2>1. AskIsTrue(n) /\ (ask[n] # Unused => ask[n].id \in Ids)
    BY AnswerTypes DEF AnswersInv, SurfacesInv, SurfacesTypeOK, IpcTypeOK
  <2>2. ask[n] # Unused => ask[n].id # i
    BY <1>1, <2>1 DEF AskIsTrue
  <2> QED
    BY <1>1, <1>2, <2>1, <2>2 DEF AskIsTrue
<1> QED
  BY <1>3, <1>4 DEF AnswersInv

(* An approval is settled by somebody other than who answers once. *)
LEMMA SettlingKeepsAnswers ==
  ASSUME SurfacesInv, AnswersInv, NEW i \in Ids, NEW c \in ApprovalChoices, NEW source \in Sources,
         Settle(i, c, source), UNCHANGED <<settledBy, ask, proxy, cards, polls>>
  PROVE  AnswersInv'
<1>1. /\ i \in queue /\ queue' = queue \ {i} /\ choice'[i] = c /\ c # "none"
      /\ \A n \in Ids \ {i} : choice'[n] = choice[n] /\ via'[n] = via[n]
  BY SettleTypes DEF SurfacesInv, SurfacesTypeOK, IpcTypeOK, ApprovalChoices
<1>2. choice[i] = "none" /\ settledBy[i] = 0
  BY <1>1 DEF AnswersInv
<1>3. \A j \in Ids : Fresh(j)' => Fresh(j)
  BY <1>1 DEF Fresh
<1>4. \A j \in Ids : /\ j \in queue' => choice'[j] = "none"
                     /\ settledBy'[j] # 0 => choice'[j] # "none"
                     /\ Fresh(j)' => j \notin cards' /\ \A s \in PollSlots : j \notin polls'[s].list
  BY <1>1, <1>2, <1>3 DEF AnswersInv
<1>5. ASSUME NEW n \in Asks PROVE AskIsTrue(n)'
  <2>1. AskIsTrue(n) /\ (ask[n] # Unused => ask[n].id \in Ids) /\ n # 0
    BY AnswerTypes, IpcAssumption DEF AnswersInv, SurfacesInv, SurfacesTypeOK, IpcTypeOK
  <2>2. ask[n] # Unused /\ (ask[n].wire = "ok" \/ ask[n].told = "ok") => ask[n].id # i
    BY <1>2, <2>1 DEF AskIsTrue
  <2> QED
    BY <1>1, <1>3, <2>1, <2>2 DEF AskIsTrue
<1> QED
  BY <1>4, <1>5 DEF AnswersInv

(* The answer of one who answers once is handled. *)
LEMMA HandlingKeepsAnswers ==
  ASSUME SurfacesInv, AnswersInv, NEW n \in Asks, handleRespond(n), UNCHANGED <<cards, polls>>
  PROVE  AnswersInv'
<1> DEFINE i == ask[n].id
<1> USE DEF SurfacesInv, SurfacesTypeOK, IpcTypeOK
<1>1. /\ ask[n] # Unused /\ ask[n].wire = "request" /\ proxy' = proxy
      /\ i \in Ids /\ ask[n].choice \in ApprovalChoices /\ ask[n].choice # "none" /\ n # 0
  BY AnswerTypes, IpcAssumption DEF handleRespond, socketVars, ApprovalChoices
<1>2. /\ AskIsTrue(n) /\ \A j \in Ids : settledBy[j] # n
      /\ ask[n].told \in {"waiting", "failed"} /\ ~Fresh(i)
  BY <1>1 DEF AnswersInv, AskIsTrue
<1>3. ASSUME NEW ok \in BOOLEAN, Acked(n, ok)
      PROVE  /\ \A m \in Asks \ {n} : ask'[m] = ask[m]
             /\ ask'[n] # Unused /\ ask'[n].id = i /\ ask'[n].choice = ask[n].choice
             /\ ask'[n].told \in {"waiting", "failed"}
             /\ ask'[n].wire \in {IF ok THEN "ok" ELSE "refused", "empty"}
  BY <1>1, <1>2, <1>3, AckedTypes, UnusedIsNone
<1>4. CASE respond(i, ask[n].choice, "ipc") /\ settledBy' = [settledBy EXCEPT ![i] = n] /\ Acked(n, TRUE)
  <2>1. /\ i \in queue /\ queue' = queue \ {i} /\ choice'[i] = ask[n].choice /\ via'[i] = "ipc"
        /\ \A j \in Ids \ {i} : choice'[j] = choice[j] /\ via'[j] = via[j]
    BY <1>1, <1>4, SettleTypes DEF respond, Sources
  <2>2. settledBy'[i] = n /\ (\A j \in Ids \ {i} : settledBy'[j] = settledBy[j]) /\ settledBy[i] = 0
    BY <1>1, <1>4, <2>1 DEF AnswersInv
  <2>3. \A j \in Ids : Fresh(j)' => Fresh(j)
    BY <1>1, <2>1 DEF Fresh
  <2>4. \A j \in Ids : /\ j \in queue' => choice'[j] = "none"
                       /\ settledBy'[j] # 0 => choice'[j] # "none"
                       /\ Fresh(j)' => j \notin cards' /\ \A s \in PollSlots : j \notin polls'[s].list
    BY <1>1, <2>1, <2>2, <2>3 DEF AnswersInv
  <2>5. AskIsTrue(n)'
    BY <1>1, <1>2, <1>3, <1>4, <2>1, <2>2, <2>3 DEF AskIsTrue
  <2>6. ASSUME NEW m \in Asks \ {n} PROVE AskIsTrue(m)'
    <3>1. AskIsTrue(m) /\ (ask[m] # Unused => ask[m].id \in Ids) /\ m # 0 /\ ask'[m] = ask[m]
      BY <1>3, <1>4, AnswerTypes, IpcAssumption DEF AnswersInv
    <3>2. ask[m] # Unused /\ (ask[m].wire = "ok" \/ ask[m].told = "ok") => ask[m].id # i
      BY <2>2, <3>1 DEF AskIsTrue
    <3> HIDE DEF i
    <3> QED
      BY <2>1, <2>2, <2>3, <3>1, <3>2 DEF AskIsTrue
  <2> QED
    BY <2>4, <2>5, <2>6 DEF AnswersInv
<1>5. CASE i \notin queue /\ Acked(n, FALSE) /\ UNCHANGED <<queueVars, settledBy>>
  <2>1. UNCHANGED <<queue, choice, via, settledBy, proxy>> /\ i \notin queue
    BY <1>1, <1>5 DEF queueVars
  <2>2. AskIsTrue(n)'
    BY <1>1, <1>2, <1>3, <1>5, <2>1 DEF AskIsTrue, Fresh
  <2>3. ASSUME NEW m \in Asks \ {n} PROVE AskIsTrue(m)'
    <3>1. AskIsTrue(m) /\ ask'[m] = ask[m]
      BY <1>3, <1>5 DEF AnswersInv
    <3> QED
      BY <2>1, <3>1 DEF AskIsTrue, Fresh
  <2> QED
    BY <2>1, <2>2, <2>3 DEF AnswersInv, Fresh
<1> QED
  BY <1>1, <1>4, <1>5 DEF handleRespond

(* The other proxy refuses what it cannot have settled. *)
LEMMA RefusalKeepsAnswers ==
  ASSUME SurfacesInv, AnswersInv, NEW n \in Asks, OtherRefuses(n), UNCHANGED <<cards, polls>>
  PROVE  AnswersInv'
<1>1. /\ ask[n] # Unused /\ ask[n].wire = "request" /\ ask[n].at = "other" /\ Acked(n, FALSE)
      /\ UNCHANGED <<queue, choice, via, settledBy, proxy>>
  BY DEF OtherRefuses, queueVars, socketVars
<1>2. /\ AskIsTrue(n) /\ ask[n].id \in Ids
      /\ ask[n].told \in {"waiting", "failed"} /\ \A j \in Ids : settledBy[j] # n
  BY <1>1, AnswerTypes DEF AnswersInv, AskIsTrue, SurfacesInv, SurfacesTypeOK, IpcTypeOK
<1>3. /\ \A m \in Asks \ {n} : ask'[m] = ask[m]
      /\ ask'[n] # Unused /\ ask'[n].id = ask[n].id /\ ask'[n].at = "other" /\ ask'[n].choice = ask[n].choice
      /\ ask'[n].told = ask[n].told /\ ask'[n].wire \in {"refused", "empty"}
  BY <1>1, <1>2, AckedTypes, UnusedIsNone DEF SurfacesInv, SurfacesTypeOK, IpcTypeOK
<1>4. AskIsTrue(n)'
  BY <1>1, <1>2, <1>3 DEF AskIsTrue, Fresh
<1>5. \A m \in Asks \ {n} : AskIsTrue(m)'
  BY <1>1, <1>3 DEF AnswersInv, AskIsTrue, Fresh
<1> QED
  BY <1>1, <1>4, <1>5 DEF AnswersInv, Fresh

(* An answer is sent for an approval that was seen. *)
LEMMA SendingKeepsAnswers ==
  ASSUME SurfacesInv, AnswersInv, NEW n \in Asks, NEW w \in {"cli", "page"}, NEW i \in Ids, NEW c \in Answers,
         ~Fresh(i), AskOnce(n, w, i, c), UNCHANGED <<cards, polls>>
  PROVE  AnswersInv'
<1>1. /\ UNCHANGED <<queue, choice, via, settledBy, proxy>> /\ ask[n] = Unused
      /\ \A m \in Asks \ {n} : ask'[m] = ask[m]
      /\ ask'[n] # Unused /\ ask'[n].id = i /\ ask'[n].wire \in {"request", "empty"}
      /\ ask'[n].told = (IF ask'[n].wire = "request" THEN "waiting" ELSE "failed")
  BY AskOnceTypes, UnusedIsNone, IpcAssumption
     DEF AskOnce, queueVars, socketVars, SurfacesInv, SurfacesTypeOK, IpcTypeOK
<1>2. AskIsTrue(n)'
  BY <1>1 DEF AnswersInv, AskIsTrue, Fresh
<1>3. \A m \in Asks \ {n} : AskIsTrue(m)'
  BY <1>1 DEF AnswersInv, AskIsTrue, Fresh
<1> QED
  BY <1>1, <1>2, <1>3 DEF AnswersInv, Fresh

LEMMA ServerKeepsAnswers ==
  ASSUME SurfacesInv, AnswersInv, Server
  PROVE  AnswersInv'
<1> USE DEF SurfacesInv, SurfacesTypeOK, IpcTypeOK
<1>1. /\ UNCHANGED <<cards, polls>> /\ desk.ids \subseteq Ids /\ desk.asks \subseteq Asks
      /\ Sources = {"ipc", "telegram", "timeout"} /\ ApprovalChoices = {"allow_once", "allow_session", "deny"}
  BY DeskFacts DEF Server, Elsewhere, pageVars, Sources, ApprovalChoices
<1>2. ASSUME NEW i \in Ids, onApprovalResolved(i) PROVE AnswersInv'
  <2>1. UNCHANGED <<settledBy, ask, proxy>>
    BY <1>2 DEF onApprovalResolved, socketVars
  <2>2. PICK c \in ApprovalChoices, source \in Sources : Settle(i, c, source)
    BY <1>1, <1>2 DEF onApprovalResolved, expire, respond, TimeoutChoice, TapChoices
  <2> QED
    BY <1>1, <2>1, <2>2, SettlingKeepsAnswers
<1>3. ASSUME NEW a \in typed, handleTyped(a) PROVE AnswersInv'
  <2>1. a.id \in Ids /\ a.choice \in ApprovalChoices /\ UNCHANGED <<settledBy, ask, proxy>>
    BY <1>3, IpcAssumption DEF handleTyped, socketVars
  <2>2. CASE respond(a.id, a.choice, "ipc")
    BY <1>1, <2>1, <2>2, SettlingKeepsAnswers DEF respond
  <2>3. CASE UNCHANGED queueVars
    <3>1. /\ queue' \subseteq queue /\ UNCHANGED <<choice, via, settledBy, cards, polls>>
          /\ \A i \in Ids : Fresh(i)' => Fresh(i)
      BY <1>1, <2>1, <2>3 DEF queueVars, Fresh
    <3>2. ShownIsKnown' /\ \A n \in Asks : Eased(n)
      BY <2>1, <3>1 DEF AnswersInv, ShownIsKnown, Eased
    <3> QED
      BY <3>1, <3>2, EasingKeeps
  <2> QED
    BY <1>3, <2>2, <2>3 DEF handleTyped
<1>4. ASSUME UNCHANGED <<queueVars, socketVars, ask, settledBy>> PROVE AnswersInv'
  <2>1. UNCHANGED <<queue, choice, via, proxy, ask, settledBy, cards, polls>>
    BY <1>1, <1>4 DEF queueVars, socketVars
  <2> QED
    BY <2>1 DEF AnswersInv, AskIsTrue, Fresh
<1>5. ASSUME SocketNext PROVE AnswersInv'
  <2>1. /\ queue' \in {queue, {}} /\ UNCHANGED <<choice, via, settledBy>>
        /\ destroy("ours") \/ destroy("other") \/ UNCHANGED ask
        /\ proxy = "down" => proxy' = "down"
    BY <1>5 DEF SocketNext, stop, Exits, Killed, RivalStarts, RivalStops, shutdown, followVars, queueVars
  <2>2. /\ queue' \subseteq queue /\ \A i \in Ids : Fresh(i)' => Fresh(i)
    <3>1. queue' # queue => proxy' = "down"
      BY <1>5 DEF SocketNext, stop, Exits, Killed, RivalStarts, RivalStops, queueVars
    <3> QED
      BY <2>1, <3>1 DEF Fresh
  <2>3. \A n \in Asks : Eased(n)
    BY <2>1, DestroyTypes DEF Eased
  <2>4. ShownIsKnown'
    BY <1>1, <2>2 DEF AnswersInv, ShownIsKnown
  <2> QED
    BY <2>1, <2>2, <2>3, <2>4, EasingKeeps
<1> HIDE DEF SurfacesInv, SurfacesTypeOK, IpcTypeOK
<1>6. \A f \in Followers : handleConnection(f) \/ cleanup(f) => UNCHANGED <<queueVars, socketVars, ask, settledBy>>
  BY DEF handleConnection, cleanup
<1> QED
  BY <1>1, <1>2, <1>3, <1>4, <1>5, <1>6, RequestKeepsAnswers, HandlingKeepsAnswers, RefusalKeepsAnswers DEF Server

LEMMA AnsweringKeepsAnswers ==
  ASSUME SurfacesInv, AnswersInv, Answering
  PROVE  AnswersInv'
<1>1. desk.asks \subseteq Asks
  BY DeskFacts DEF SurfacesInv
<1>2. ASSUME NEW n \in Asks, TimesOut(n) \/ onResolve(n), cards' \subseteq cards, polls' = polls PROVE AnswersInv'
  <2>1. UNCHANGED <<queue, choice, via, settledBy, proxy>>
    BY <1>2 DEF TimesOut, onResolve, queueVars, socketVars
  <2>2. ShownIsKnown' /\ queue' \subseteq queue /\ \A i \in Ids : Fresh(i)' => Fresh(i)
    BY <1>2, <2>1 DEF AnswersInv, ShownIsKnown, Fresh
  <2>3. \A m \in Asks : Eased(m)
    BY <1>2, ToldTypes DEF Eased, SurfacesInv, SurfacesTypeOK, IpcTypeOK
  <2> QED
    BY <2>1, <2>2, <2>3, EasingKeeps
<1>3. ASSUME NEW n \in desk.asks, approvalsRespondCommand(n) PROVE AnswersInv'
  <2>1. PICK i \in Ids, c \in Answers : (i \in queue \/ choice[i] # "none") /\ AskOnce(n, "cli", i, c)
    BY <1>3 DEF approvalsRespondCommand
  <2>2. ~Fresh(i) /\ UNCHANGED <<cards, polls>>
    BY <1>3, <2>1 DEF Fresh, approvalsRespondCommand, pageVars
  <2> QED
    BY <1>1, <2>1, <2>2, SendingKeepsAnswers
<1>4. ASSUME NEW n \in desk.asks, act(n) PROVE AnswersInv'
  <2>1. PICK i \in cards, c \in Answers : AskOnce(n, "page", i, c)
    BY <1>4 DEF act
  <2>2. i \in Ids /\ ~Fresh(i) /\ UNCHANGED <<cards, polls>>
    BY <1>4, <2>1 DEF AnswersInv, act, pageVars, SurfacesInv, SurfacesTypeOK
  <2> QED
    BY <1>1, <2>1, <2>2, SendingKeepsAnswers
<1>5. \A n \in Asks : /\ TimesOut(n) /\ Elsewhere => cards' \subseteq cards /\ polls' = polls
                      /\ onResolve(n) => cards' \subseteq cards /\ polls' = polls
  BY DEF Elsewhere, onResolve, pageVars
<1> QED
  BY <1>1, <1>2, <1>3, <1>4, <1>5 DEF Answering

(* Followers and pages answer nobody by themselves, and show what is queued. *)
LEMMA RestKeepsAnswers ==
  ASSUME SurfacesInv, AnswersInv, Following \/ Polling \/ Chatting \/ UNCHANGED surfaceVars
  PROVE  AnswersInv'
<1>1. UNCHANGED <<queue, choice, via, settledBy, proxy, ask>>
  BY DEF Following, watchCommand, WatchReads, processNext, WatchExits, approvalsForwardCommand, ForwardReads,
         PostReturns, cleanup, Polling, Ticks, Listing, PollStarts, listPending, PollArrives, PollIsLost, Chatting,
         surfaceVars, serverVars, queueVars, socketVars
<1>2. (\A i \in Ids : Fresh(i)' = Fresh(i)) /\ \A n \in Asks : Eased(n)
  BY <1>1 DEF Fresh, Eased
<1>3. /\ ShownIsKnown /\ desk.polls \subseteq PollSlots /\ polls \in [PollSlots -> Poll]
      /\ \A i \in queue : i \in Ids => ~Fresh(i)
  BY DeskFacts DEF AnswersInv, ShownIsKnown, SurfacesInv, SurfacesTypeOK, Fresh
<1>4. ASSUME NEW s \in PollSlots, PollStarts(s) PROVE ShownIsKnown'
  <2>1. cards' = cards /\ \A r \in PollSlots : polls'[r].list = polls[r].list
    BY <1>3, <1>4 DEF PollStarts, Poll, Idle
  <2> QED
    BY <1>2, <1>3, <2>1 DEF ShownIsKnown
<1>5. ASSUME NEW s \in PollSlots, listPending(s) PROVE ShownIsKnown'
  <2>1. cards' = cards /\ \A r \in PollSlots : polls'[r].list \in {polls[r].list, queue, {}}
    BY <1>3, <1>5 DEF listPending
  <2> QED
    BY <1>2, <1>3, <2>1 DEF ShownIsKnown
<1>6. ASSUME NEW s \in PollSlots, PollArrives(s) \/ PollIsLost(s) PROVE ShownIsKnown'
  <2>1. /\ cards' \in {cards, polls[s].list} /\ \A r \in PollSlots : polls'[r].list \in {polls[r].list, {}}
    BY <1>3, <1>6 DEF PollArrives, PollIsLost, Idle
  <2> QED
    BY <1>2, <1>3, <2>1 DEF ShownIsKnown
<1>7. ASSUME UNCHANGED <<cards, polls>> PROVE ShownIsKnown'
  BY <1>2, <1>3, <1>7 DEF ShownIsKnown
<1>8. ASSUME NEW on, setRunning(on) PROVE ShownIsKnown'
  <2>1. UNCHANGED <<cards, polls>> \/ (cards' = {} /\ \A s \in PollSlots : polls'[s].list = {})
    BY <1>8 DEF setRunning, pageVars, Idle
  <2> QED
    BY <1>7, <2>1 DEF ShownIsKnown
<1>9. ShownIsKnown'
  <2>1. CASE Following \/ UNCHANGED surfaceVars
    BY <1>7, <2>1 DEF Following, watchCommand, WatchReads, processNext, WatchExits, approvalsForwardCommand,
                      ForwardReads, PostReturns, pageVars, surfaceVars
  <2>2. CASE Polling
    BY <1>3, <1>4, <1>5, <1>6, <2>2 DEF Polling, Ticks, Listing
  <2>3. CASE Chatting
    BY <1>7, <1>8, <2>3 DEF Chatting, PanelNext, onmessage, StatusArrives, chatHistory, chatStatus,
                            HistoryArrives, pageVars
  <2> QED
    BY <2>1, <2>2, <2>3
<1> QED
  BY <1>1, <1>2, <1>9, EasingKeeps

LEMMA AnswersHold == Spec => []AnswersInv
<1>1. Init => AnswersInv
  BY IpcAssumption DEF Init, SurfacesInit, IpcInit, QueueInit, AnswersInv, AskIsTrue, Fresh, Idle
<1>2. SurfacesInv /\ AnswersInv /\ [Next]_vars => AnswersInv'
  BY ServerKeepsAnswers, AnsweringKeepsAnswers, RestKeepsAnswers DEF Next, SettingUp, vars
<1> QED
  BY <1>1, <1>2, SurfacesHold, PTL DEF Spec

(* Whoever answers once is told the truth, over every order of answers,      *)
(* taps, timers, deadlines and ends of either proxy.                         *)
THEOREM AcksAreTruthful == Spec => []AckIsTruthful
<1>1. SurfacesInv /\ AnswersInv => AckIsTruthful
  <2> SUFFICES ASSUME SurfacesInv, AnswersInv, NEW n \in Asks
               PROVE  /\ ask[n].told = "ok" => settledBy[ask[n].id] = n /\ choice[ask[n].id] = ask[n].choice
                                               /\ via[ask[n].id] = "ipc"
                      /\ ask[n].told = "refused" =>
                           settledBy[ask[n].id] # n /\ (ask[n].at = "ours" => ask[n].id \notin queue)
    BY DEF AckIsTruthful
  <2>1. ask[n].told \in {"ok", "refused"} => ask[n] # Unused
    BY DEF Unused
  <2> QED
    BY <2>1 DEF AnswersInv, AskIsTrue
<1> QED
  BY <1>1, SurfacesHold, AnswersHold, PTL

-----------------------------------------------------------------------------
(* The cards of the chat page. *)

LEMMA CardsStepKeeps ==
  ASSUME SurfacesInv, CardsInv, [Next]_vars
  PROVE  CardsInv'
<1>1. /\ desk' = desk /\ desk.polls \subseteq PollSlots /\ (Has("chat") => ~Has("approvals"))
  <2>1. desk' = desk
    BY DEF Next, Server, Answering, Following, Polling, Ticks, Listing, Chatting, SettingUp, Apart, vars
  <2> QED
    BY <2>1, DesksAssumption, DeskFacts DEF SurfacesInv, Has
<1>2. SUFFICES ASSUME Has("chat"), ~running'
               PROVE  cards' = {} /\ \A s \in PollSlots : polls'[s] = Idle
  BY <1>1 DEF CardsInv, Has
<1>3. ~Has("approvals")
  BY <1>1, <1>2
<1>4. ASSUME running' = running
      PROVE  cards = {} /\ \A s \in PollSlots : polls[s] = Idle
  BY <1>2, <1>4 DEF CardsInv
<1>5. CASE UNCHANGED <<running, cards, polls>>
  BY <1>4, <1>5
<1>6. CASE running' = running /\ polls' = polls /\ cards' \subseteq cards
  BY <1>4, <1>6
<1>7. CASE Server \/ Following \/ SettingUp \/ UNCHANGED vars
  BY <1>5, <1>7 DEF Server, Elsewhere, Following, watchCommand, WatchReads, processNext, WatchExits,
     approvalsForwardCommand, ForwardReads, PostReturns, SettingUp, Apart, panelVars, viewVars, pageVars, surfaceVars, vars
<1>8. CASE Answering
  BY <1>6, <1>8 DEF Answering, Elsewhere, onResolve, approvalsRespondCommand, act, Apart, panelVars, viewVars, pageVars
<1>9. CASE Polling
  <2>1. running' = running
    BY <1>9 DEF Polling, Ticks, Listing, Apart, panelVars, viewVars
  <2>2. PICK s \in desk.polls : Ticks(s) \/ listPending(s) \/ PollArrives(s) \/ PollIsLost(s)
    BY <1>9 DEF Polling, Listing
  <2>3. polls[s] = Idle /\ polls[s].stage = "idle"
    BY <1>1, <1>4, <2>1 DEF Idle
  <2>4. ~Ticks(s)
    BY <1>2, <1>3, <2>1 DEF Ticks
  <2> QED
    BY <2>2, <2>3, <2>4 DEF listPending, PollArrives, PollIsLost
<1>10. CASE Chatting
  <2>1. ASSUME NEW on, setRunning(on)
        PROVE  cards' = {} /\ \A s \in PollSlots : polls'[s] = Idle
    BY <1>2, <2>1 DEF setRunning, pageVars, CardsInv
  <2> QED
    BY <1>2, <1>5, <1>10, <2>1 DEF Chatting, PanelNext, StreamBreaks, ManagerNext, handleInbound, onRunEvent, drain,
       onConnection, emit, chatSubscribe, onmessage, chatHistory, chatStatus, HistoryArrives, StatusArrives,
       viewVars, pageVars
<1> QED
  BY <1>7, <1>8, <1>9, <1>10 DEF Next

(* The chat page shows no card while it sees no run, whatever polls were     *)
(* under way when the run ended and whichever status ended it.               *)
THEOREM CardsOnlyInARun == Spec => []CardsNeedRun
<1>1. Init => CardsInv
  BY DEF Init, SurfacesInit, PanelInit, CardsInv
<1>2. SurfacesInv /\ CardsInv /\ [Next]_vars => CardsInv'
  BY CardsStepKeeps
<1>3. CardsInv => CardsNeedRun
  BY DEF CardsInv, CardsNeedRun
<1> QED
  BY <1>1, <1>2, <1>3, SurfacesHold, PTL DEF Spec

-----------------------------------------------------------------------------
(* The panel. *)

Kinds == Says \cup Statuses

(* Short lists of events. *)
LEMMA Lists ==
  ASSUME NEW S
  PROVE  /\ \A x \in S : <<x>> \in Seq(S) /\ Len(<<x>>) = 1 /\ <<x>>[1] = x /\ <<x>> # <<>>
         /\ \A x, y \in S : <<x, y>> \in Seq(S) /\ Len(<<x, y>>) = 2 /\ <<x, y>>[2] = y /\ <<x, y>> # <<>>
         /\ \A x, y, z \in S : /\ <<x, y, z>> \in Seq(S) /\ Len(<<x, y, z>>) = 3
                               /\ <<x, y, z>>[3] = z /\ <<x, y, z>> # <<>>
<1>1. \A x \in S : <<x>> \in Seq(S) /\ Len(<<x>>) = 1 /\ <<x>>[1] = x /\ <<x>> # <<>>
  OBVIOUS
<1>2. \A x, y \in S : <<x, y>> \in Seq(S) /\ Len(<<x, y>>) = 2 /\ <<x, y>>[2] = y /\ <<x, y>> # <<>>
  OBVIOUS
<1>3. \A x, y, z \in S : /\ <<x, y, z>> \in Seq(S) /\ Len(<<x, y, z>>) = 3
                         /\ <<x, y, z>>[3] = z /\ <<x, y, z>> # <<>>
  OBVIOUS
<1> QED
  BY <1>1, <1>2, <1>3

LEMMA Longer ==
  ASSUME NEW S, NEW s \in Seq(S), NEW x \in S
  PROVE  /\ Append(s, x) \in Seq(S) /\ Append(s, x) # <<>>
         /\ Append(s, x)[Len(Append(s, x))] = x
<1>1. /\ Append(s, x) \in Seq(S) /\ Len(Append(s, x)) = Len(s) + 1 /\ Append(s, x)[Len(s) + 1] = x
      /\ Len(s) \in Nat
  BY AppendProperties, LenProperties
<1> QED
  BY <1>1, EmptySeq

(* What is emitted is written after what is on the wire. *)
LEMMA EmitFacts ==
  ASSUME WireTypeOK, NEW kinds \in Seq(Kinds), emit(kinds)
  PROVE  /\ emitted' \in 0..MaxEvents /\ wire' \in Seq(Event)
         /\ UNCHANGED <<subscribed, viewVars>>
         /\ ~subscribed => wire' = wire
         /\ subscribed => /\ Len(wire') = Len(wire) + Len(kinds)
                          /\ \A k \in 1..Len(wire) : wire'[k] = wire[k]
                          /\ \A k \in 1..Len(kinds) : wire'[Len(wire) + k].kind = kinds[k]
         /\ gap' = IF \E k \in 1..Len(kinds) : kinds[k] \in Statuses THEN ~subscribed /\ StatusIsPast ELSE gap
<1> DEFINE events == [k \in DOMAIN kinds |-> [kind |-> kinds[k], n |-> emitted + k]]
<1>1. /\ wire \in Seq(Event) /\ emitted \in Nat /\ MaxEvents \in Nat /\ Len(kinds) \in Nat /\ Len(wire) \in Nat
      /\ DOMAIN kinds = 1..Len(kinds) /\ \A k \in 1..Len(kinds) : kinds[k] \in Kinds
  BY PanelAssumption, LenProperties, ElementOfSeq DEF WireTypeOK
<1>2. /\ emitted' = emitted + Len(kinds) /\ emitted' <= MaxEvents
      /\ wire' = (IF subscribed THEN wire \o events ELSE wire)
      /\ gap' = (IF \E k \in DOMAIN events : IsStatus(events[k]) THEN ~subscribed /\ StatusIsPast ELSE gap)
      /\ UNCHANGED <<subscribed, viewVars>>
  BY DEF emit
<1>3. \A k \in 1..Len(kinds) : [kind |-> kinds[k], n |-> emitted + k] \in Event
  BY <1>1, <1>2 DEF Event, Kinds
<1>4. events \in Seq(Event) /\ Len(events) = Len(kinds) /\ DOMAIN events = 1..Len(kinds)
  <2>1. events \in [1..Len(kinds) -> Event]
    BY <1>1, <1>3
  <2> QED
    BY <1>1, <2>1, SeqDef, LenProperties
<1>5. \A k \in 1..Len(kinds) : events[k].kind = kinds[k]
  BY <1>1
<1> HIDE DEF events
<1>6. /\ wire \o events \in Seq(Event) /\ Len(wire \o events) = Len(wire) + Len(kinds)
      /\ \A k \in 1..Len(wire) : (wire \o events)[k] = wire[k]
      /\ \A k \in 1..Len(kinds) : (wire \o events)[Len(wire) + k] = events[k]
  <2>1. /\ wire \o events \in Seq(Event) /\ Len(wire \o events) = Len(wire) + Len(events)
        /\ \A k \in 1..(Len(wire) + Len(events)) :
             (wire \o events)[k] = IF k <= Len(wire) THEN wire[k] ELSE events[k - Len(wire)]
    BY <1>1, <1>4, ConcatProperties
  <2>2. \A k \in 1..Len(kinds) : Len(wire) + k \in 1..(Len(wire) + Len(events)) /\ ~(Len(wire) + k <= Len(wire))
                                 /\ (Len(wire) + k) - Len(wire) = k
    BY <1>1, <1>4
  <2> QED
    BY <1>1, <1>4, <2>1, <2>2
<1>7. (\E k \in DOMAIN events : IsStatus(events[k])) <=> \E k \in 1..Len(kinds) : kinds[k] \in Statuses
  BY <1>4, <1>5 DEF IsStatus
<1> QED
  BY <1>1, <1>2, <1>5, <1>6, <1>7

(* An invariant of the panel is kept when nothing is said of the run ...     *)
LEMMA TalkKeeps ==
  ASSUME PanelInv, NEW kind \in Says, emit(<<kind>>), UNCHANGED <<bridgeUp, active>>, waiting' \in 0..1
  PROVE  PanelInv'
<1>1. /\ <<kind>> \in Seq(Kinds) /\ Len(<<kind>>) = 1 /\ <<kind>>[1] = kind /\ kind \notin Statuses
  <2>1. kind \in Kinds /\ kind \notin Statuses
    BY DEF Kinds, Says, Statuses
  <2> QED
    BY <2>1, Lists
<1>2. /\ emitted' \in 0..MaxEvents /\ wire' \in Seq(Event) /\ UNCHANGED <<subscribed, viewVars>> /\ gap' = gap
      /\ ~subscribed => wire' = wire
      /\ subscribed => /\ Len(wire') = Len(wire) + 1 /\ \A k \in 1..Len(wire) : wire'[k] = wire[k]
                       /\ wire'[Len(wire) + 1].kind = kind
  <2> DEFINE kinds == <<kind>>
  <2>1. kinds \in Seq(Kinds) /\ Len(kinds) = 1 /\ kinds[1] = kind /\ emit(kinds)
    BY <1>1
  <2> HIDE DEF kinds
  <2>2. WireTypeOK
    BY DEF PanelInv
  <2>3. /\ emitted' \in 0..MaxEvents /\ wire' \in Seq(Event) /\ UNCHANGED <<subscribed, viewVars>>
        /\ ~subscribed => wire' = wire
        /\ subscribed => /\ Len(wire') = Len(wire) + Len(kinds)
                         /\ \A k \in 1..Len(wire) : wire'[k] = wire[k]
                         /\ \A k \in 1..Len(kinds) : wire'[Len(wire) + k].kind = kinds[k]
        /\ gap' = IF \E k \in 1..Len(kinds) : kinds[k] \in Statuses THEN ~subscribed /\ StatusIsPast ELSE gap
    BY <2>1, <2>2, EmitFacts
  <2>4. 1 \in 1..Len(kinds) /\ \A k \in 1..Len(kinds) : k = 1
    BY <2>1
  <2>5. gap' = gap
    BY <1>1, <2>1, <2>3, <2>4
  <2> QED
    BY <2>1, <2>3, <2>4, <2>5
<1>3. Len(wire) \in Nat /\ DOMAIN wire = 1..Len(wire) /\ DOMAIN wire' = 1..Len(wire')
  BY <1>2, LenProperties DEF PanelInv, WireTypeOK
<1>4. \A k \in DOMAIN wire' : IsStatus(wire'[k]) => k \in DOMAIN wire /\ wire'[k] = wire[k]
  <2>1. CASE ~subscribed
    BY <1>2, <2>1
  <2>2. CASE subscribed
    <3>1. \A k \in DOMAIN wire' : k \in DOMAIN wire \/ k = Len(wire) + 1
      BY <1>2, <1>3, <2>2
    <3>2. ~IsStatus(wire'[Len(wire) + 1]) /\ \A k \in DOMAIN wire : wire'[k] = wire[k]
      BY <1>1, <1>2, <1>3, <2>2 DEF IsStatus
    <3> QED
      BY <3>1, <3>2
  <2> QED
    BY <2>1, <2>2
<1>5. \A k \in DOMAIN wire : k \in DOMAIN wire' /\ wire'[k] = wire[k]
  <2>1. CASE ~subscribed
    BY <1>2, <2>1
  <2>2. CASE subscribed
    BY <1>2, <1>3, <2>2
  <2> QED
    BY <2>1, <2>2
<1>6. \A k \in Nat : NoStatusAfter(k)' => NoStatusAfter(k)
  BY <1>5 DEF NoStatusAfter, IsStatus
<1>7. \A k \in DOMAIN wire' : IsStatus(wire'[k]) /\ NoStatusAfter(k)' => Tells(wire[k].kind)'
  BY <1>3, <1>4, <1>6 DEF PanelInv, Tells
<1>8. WireTypeOK'
  BY <1>2 DEF PanelInv, WireTypeOK, viewVars
<1> QED
  BY <1>2, <1>6, <1>7, <1>8 DEF PanelInv, viewVars

(* ... and when the last thing said of it is true.                           *)
LEMMA StatusKeeps ==
  ASSUME PanelInv, NEW kinds \in Seq(Kinds), emit(kinds), kinds # <<>>,
         kinds[Len(kinds)] \in Statuses, Tells(kinds[Len(kinds)])',
         bridgeUp' \in BOOLEAN, active' \in BOOLEAN, waiting' \in 0..1, ~bridgeUp' => ~active'
  PROVE  PanelInv'
<1>1. Len(kinds) \in Nat \ {0} /\ Len(kinds) \in 1..Len(kinds)
  BY LenProperties, EmptySeq
<1>2. /\ emitted' \in 0..MaxEvents /\ wire' \in Seq(Event) /\ UNCHANGED <<subscribed, viewVars>>
      /\ gap' = (~subscribed /\ StatusIsPast)
      /\ ~subscribed => wire' = wire
      /\ subscribed => /\ Len(wire') = Len(wire) + Len(kinds)
                       /\ wire'[Len(wire) + Len(kinds)].kind = kinds[Len(kinds)]
  BY <1>1, EmitFacts DEF PanelInv
<1>3. WireTypeOK'
  BY <1>2 DEF PanelInv, WireTypeOK, viewVars, StatusIsPast
<1>4. CASE ~subscribed
  <2>1. wire' = <<>> /\ ~subscribed'
    BY <1>2, <1>4 DEF PanelInv
  <2>2. ~gap' => ~liveStatusSeen' /\ seed'.stage \notin {"state", "seeded"}
    BY <1>2, <1>4 DEF StatusIsPast, viewVars
  <2> QED
    BY <1>3, <2>1, <2>2 DEF PanelInv
<1>5. CASE subscribed
  <2>1. Len(wire) \in Nat /\ DOMAIN wire' = 1..Len(wire')
    BY <1>2, LenProperties DEF PanelInv, WireTypeOK
  <2>2. Len(wire') \in DOMAIN wire' /\ wire'[Len(wire')].kind = kinds[Len(kinds)] /\ Len(wire') > 0
    BY <1>1, <1>2, <1>5, <2>1
  <2>3. \A k \in DOMAIN wire' : NoStatusAfter(k)' => k = Len(wire')
    BY <2>1, <2>2 DEF NoStatusAfter, IsStatus
  <2>4. ~NoStatusAfter(0)'
    BY <2>2 DEF NoStatusAfter, IsStatus
  <2> QED
    BY <1>2, <1>3, <1>5, <2>2, <2>3, <2>4 DEF PanelInv
<1> QED
  BY <1>4, <1>5

LEMMA ManagerKeepsPanel ==
  ASSUME PanelInv, ManagerNext
  PROVE  PanelInv'
<1>1. /\ bridgeUp \in BOOLEAN /\ active \in BOOLEAN /\ waiting \in 0..1 /\ (active => bridgeUp)
  BY DEF PanelInv, WireTypeOK
<1>2. /\ \A x \in Kinds : <<x>> \in Seq(Kinds) /\ <<x>> # <<>> /\ <<x>>[Len(<<x>>)] = x
      /\ \A x, y \in Kinds : <<x, y>> \in Seq(Kinds) /\ <<x, y>> # <<>> /\ <<x, y>>[Len(<<x, y>>)] = y
  BY Lists
<1>3. /\ {"user", "delta", "final", "rejected"} \subseteq Kinds /\ Statuses \subseteq Kinds
      /\ Statuses = {"idle", "error", "running", "offline"} /\ Says = {"user", "delta", "final", "rejected"}
  BY DEF Kinds, Says, Statuses
<1>4. CASE handleInbound
  <2>1. CASE active /\ waiting' = 1 /\ emit(<<"user">>) /\ UNCHANGED <<bridgeUp, active>>
    BY <1>3, <2>1, TalkKeeps
  <2>2. CASE bridgeUp /\ active' = TRUE /\ emit(<<"user", "running">>) /\ UNCHANGED <<bridgeUp, waiting>>
    BY <1>1, <1>2, <1>3, <2>2, StatusKeeps DEF Tells
  <2>3. CASE emit(<<"rejected">>) /\ UNCHANGED <<bridgeUp, active, waiting>>
    BY <1>1, <1>3, <2>3, TalkKeeps
  <2> QED
    BY <1>4, <2>1, <2>2, <2>3 DEF handleInbound
<1>5. ASSUME active, UNCHANGED bridgeUp, NEW kinds, drain(kinds),
             \/ \E kind \in {"idle", "error"} : kinds = <<kind>>
             \/ kinds = <<"rejected", "offline">>
      PROVE  PanelInv'
  <2>0. kinds \in Seq(Kinds) /\ kinds # <<>> /\ kinds[Len(kinds)] \in {"idle", "error", "offline"}
    <3>1. CASE kinds = <<"rejected", "offline">>
      <4>1. "rejected" \in Kinds /\ "offline" \in Kinds
        BY <1>3
      <4> QED
        BY <1>2, <3>1, <4>1
    <3>2. CASE \E kind \in {"idle", "error"} : kinds = <<kind>>
      <4>1. PICK kind \in {"idle", "error"} : kinds = <<kind>>
        BY <3>2
      <4> QED
        BY <1>2, <1>3, <4>1
    <3> QED
      BY <1>5, <3>1, <3>2
  <2>1. active' = (waiting > 0) /\ waiting' = 0 /\ bridgeUp' = bridgeUp /\ bridgeUp
    BY <1>1, <1>5 DEF drain
  <2>2. CASE waiting > 0
    <3>1. emit(Append(kinds, "running"))
      BY <1>5, <2>2 DEF drain
    <3>2. /\ Append(kinds, "running") \in Seq(Kinds) /\ Append(kinds, "running") # <<>>
          /\ Append(kinds, "running")[Len(Append(kinds, "running"))] = "running"
      BY <1>3, <2>0, Longer
    <3> DEFINE longer == Append(kinds, "running")
    <3>4. longer \in Seq(Kinds) /\ longer # <<>> /\ longer[Len(longer)] = "running" /\ emit(longer)
      BY <3>1, <3>2
    <3> HIDE DEF longer
    <3>3. Tells("running")'
      BY <2>1, <2>2 DEF Tells
    <3> QED
      BY <1>1, <1>3, <2>1, <2>2, <3>3, <3>4, StatusKeeps
  <2>3. CASE ~(waiting > 0)
    <3>1. emit(kinds)
      BY <1>5, <2>3 DEF drain
    <3>2. Tells(kinds[Len(kinds)])'
      BY <2>0, <2>1, <2>3 DEF Tells
    <3> QED
      BY <1>1, <1>3, <2>0, <2>1, <2>3, <3>1, <3>2, StatusKeeps
  <2> QED
    BY <2>2, <2>3
<1>6. CASE onRunEvent
  <2>1. ASSUME NEW kind \in {"delta", "final"}, emit(<<kind>>), UNCHANGED <<active, waiting, bridgeUp>>
        PROVE  PanelInv'
    BY <1>1, <1>3, <2>1, TalkKeeps
  <2> QED
    BY <1>5, <1>6, <2>1 DEF onRunEvent
<1>7. CASE onConnection
  <2>1. CASE bridgeUp
    <3>1. /\ bridgeUp' = FALSE /\ active' = FALSE /\ waiting' = 0
          /\ emit(IF waiting > 0 THEN <<"rejected", "offline">> ELSE <<"offline">>)
      BY <1>1, <1>7, <2>1 DEF onConnection
    <3>2. "rejected" \in Kinds /\ "offline" \in Kinds
      BY <1>3
    <3>3. PICK kinds \in Seq(Kinds) : kinds # <<>> /\ kinds[Len(kinds)] = "offline" /\ emit(kinds)
      BY <1>2, <3>1, <3>2
    <3>4. Tells(kinds[Len(kinds)])'
      BY <3>1, <3>3 DEF Tells
    <3>5. kinds[Len(kinds)] \in Statuses
      BY <1>3, <3>3
    <3>6. bridgeUp' \in BOOLEAN /\ active' \in BOOLEAN /\ (~bridgeUp' => ~active')
      BY <3>1, Zenon
    <3>7. waiting' \in 0..1
      BY <3>1, SMT
    <3> QED
      BY <3>3, <3>4, <3>5, <3>6, <3>7, StatusKeeps
  <2>2. CASE ~bridgeUp
    <3>1. bridgeUp' = TRUE /\ active' = FALSE /\ waiting' = waiting /\ emit(<<"idle">>)
      BY <1>1, <1>7, <2>2 DEF onConnection
    <3>2. Tells("idle")'
      BY <3>1 DEF Tells
    <3> QED
      BY <1>1, <1>2, <1>3, <3>1, <3>2, StatusKeeps
  <2> QED
    BY <2>1, <2>2
<1> QED
  BY <1>4, <1>6, <1>7 DEF ManagerNext

(* The stream breaks, and is opened again. *)
LEMMA StreamKeepsPanel ==
  ASSUME PanelInv, chatSubscribe \/ StreamBreaks
  PROVE  PanelInv'
<1>1. UNCHANGED <<bridgeUp, active, waiting, emitted, viewVars>>
  BY DEF chatSubscribe, StreamBreaks, managerVars
<1>2. CASE chatSubscribe
  <2>1. wire' = wire /\ wire = <<>> /\ subscribed' = TRUE /\ gap' = gap
    BY <1>2 DEF chatSubscribe, PanelInv
  <2>2. NoStatusAfter(0)' = NoStatusAfter(0) /\ DOMAIN wire' = {}
    BY <2>1, EmptySeq DEF NoStatusAfter, IsStatus
  <2>3. WireTypeOK'
    BY <1>1, <2>1 DEF PanelInv, WireTypeOK, viewVars
  <2> QED
    BY <1>1, <2>1, <2>2, <2>3 DEF PanelInv, viewVars
<1>3. CASE StreamBreaks
  <2>1. /\ wire' = <<>> /\ subscribed' = FALSE /\ <<>> \in Seq(Event)
        /\ gap' = (gap \/ (StatusIsPast /\ \E k \in DOMAIN wire : IsStatus(wire[k])))
    BY <1>3, EmptySeq DEF StreamBreaks
  <2>2. DOMAIN wire' = {}
    BY <2>1, EmptySeq
  <2>3. WireTypeOK'
    <3>1. gap' \in BOOLEAN
      BY <2>1 DEF PanelInv, WireTypeOK
    <3> QED
      BY <1>1, <2>1, <3>1 DEF PanelInv, WireTypeOK, viewVars
  <2>4. CASE NoStatusAfter(0)
    <3>1. ~gap' => ~gap
      BY <2>1
    <3> QED
      BY <1>1, <2>1, <2>2, <2>3, <2>4, <3>1 DEF PanelInv, viewVars
  <2>5. CASE ~NoStatusAfter(0)
    <3>1. ~gap' => ~StatusIsPast
      BY <2>1, <2>5 DEF NoStatusAfter
    <3>2. ~gap' => ~liveStatusSeen' /\ seed'.stage \notin {"state", "seeded"}
      BY <1>1, <3>1 DEF StatusIsPast, viewVars
    <3> QED
      BY <1>1, <2>1, <2>2, <2>3, <3>2 DEF PanelInv
  <2> QED
    BY <2>4, <2>5
<1> QED
  BY <1>2, <1>3

(* An event is received. *)
LEMMA ReceivingKeepsPanel ==
  ASSUME PanelInv, onmessage
  PROVE  PanelInv'
<1>1. /\ wire # <<>> /\ wire' = Tail(wire) /\ UNCHANGED <<bridgeUp, active, waiting, emitted, subscribed, seed, gap>>
  BY DEF onmessage, managerVars
<1>2. /\ wire \in Seq(Event) /\ wire' \in Seq(Event) /\ Len(wire) \in Nat \ {0} /\ Len(wire') = Len(wire) - 1
      /\ DOMAIN wire = 1..Len(wire) /\ DOMAIN wire' = 1..Len(wire') /\ Head(wire) = wire[1]
      /\ \A k \in DOMAIN wire' : wire'[k] = wire[k + 1]
  <2>1. wire \in Seq(Event)
    BY DEF PanelInv, WireTypeOK
  <2> QED
    BY <1>1, <2>1, HeadTailProperties, LenProperties, EmptySeq
<1>3. \A k \in Nat : NoStatusAfter(k)' => NoStatusAfter(k + 1)
  <2> SUFFICES ASSUME NEW k \in Nat, NoStatusAfter(k)', NEW l \in DOMAIN wire, l > k + 1
               PROVE  ~IsStatus(wire[l])
    BY DEF NoStatusAfter
  <2>1. l - 1 \in DOMAIN wire' /\ l - 1 > k /\ wire'[l - 1] = wire[l]
    BY <1>2
  <2> QED
    BY <2>1 DEF NoStatusAfter, IsStatus
<1>4. \A k \in DOMAIN wire' : IsStatus(wire[k])' /\ NoStatusAfter(k)' => Tells(wire[k].kind)'
  <2> SUFFICES ASSUME NEW k \in DOMAIN wire', IsStatus(wire'[k]), NoStatusAfter(k)'
               PROVE  Tells(wire[k].kind)'
    BY DEF IsStatus
  <2>1. k + 1 \in DOMAIN wire /\ NoStatusAfter(k + 1) /\ wire'[k] = wire[k + 1]
    BY <1>2, <1>3
  <2>2. Tells(wire[k + 1].kind)
    BY <2>1 DEF PanelInv, IsStatus
  <2> QED
    BY <1>1, <2>1, <2>2 DEF Tells
<1>5. CASE IsStatus(wire[1])
  <2>1. /\ liveStatusSeen' = TRUE /\ offline' = (wire[1].kind = "offline") /\ running' = (wire[1].kind = "running")
        /\ liveEventSeen' = liveEventSeen
    BY <1>2, <1>5 DEF onmessage, setRunning
  <2>2. NoStatusAfter(0)' => Tells(wire[1].kind)
    BY <1>2, <1>3, <1>5 DEF PanelInv
  <2>3. NoStatusAfter(0)' => running' = active' /\ (~offline' => bridgeUp')
    <3>1. wire[1].kind = "running" \/ wire[1].kind # "running"
      OBVIOUS
    <3>2. active \in BOOLEAN
      BY DEF PanelInv, WireTypeOK
    <3> QED
      BY <1>1, <2>1, <2>2, <3>1, <3>2 DEF Tells
  <2>4. WireTypeOK'
    BY <1>1, <1>2, <2>1 DEF PanelInv, WireTypeOK
  <2> QED
    BY <1>1, <1>2, <1>4, <2>1, <2>3, <2>4 DEF PanelInv
<1>6. CASE ~IsStatus(wire[1])
  <2>1. UNCHANGED <<running, offline, liveStatusSeen>> /\ liveEventSeen' = TRUE
    BY <1>2, <1>6 DEF onmessage
  <2>2. NoStatusAfter(0)' => NoStatusAfter(0)
    BY <1>2, <1>3, <1>6 DEF NoStatusAfter
  <2>3. WireTypeOK'
    BY <1>1, <1>2, <2>1 DEF PanelInv, WireTypeOK
  <2> QED
    BY <1>1, <1>2, <1>4, <2>1, <2>2, <2>3 DEF PanelInv
<1> QED
  BY <1>5, <1>6

(* What was fetched is asked for, answered and shown. *)
LEMMA SeedingKeepsPanel ==
  ASSUME PanelInv, chatHistory \/ chatStatus \/ HistoryArrives \/ StatusArrives
  PROVE  PanelInv'
<1>1. UNCHANGED <<bridgeUp, active, waiting, emitted, subscribed, wire, liveEventSeen, liveStatusSeen, gap>>
  BY DEF chatHistory, chatStatus, HistoryArrives, StatusArrives, managerVars, streamVars
<1>2. /\ \A k \in DOMAIN wire' : IsStatus(wire[k]) /\ NoStatusAfter(k)' => Tells(wire[k].kind)'
      /\ NoStatusAfter(0)' = NoStatusAfter(0)
  BY <1>1 DEF PanelInv, NoStatusAfter, IsStatus, Tells
<1>3. ASSUME {running', offline', seed'.running, seed'.bridgeUp} \subseteq BOOLEAN,
             ~gap /\ NoStatusAfter(0) =>
               /\ liveStatusSeen \/ seed'.stage = "seeded" => running' = active /\ (~offline' => bridgeUp)
               /\ ~liveStatusSeen /\ seed'.stage = "state" => seed'.running = active /\ seed'.bridgeUp = bridgeUp
      PROVE  PanelInv'
  <2>1. WireTypeOK'
    BY <1>1, <1>3 DEF PanelInv, WireTypeOK
  <2> QED
    BY <1>1, <1>2, <1>3, <2>1 DEF PanelInv
<1>4. /\ {running, offline, seed.running, seed.bridgeUp, active, bridgeUp} \subseteq BOOLEAN
      /\ ~gap /\ NoStatusAfter(0) =>
           /\ liveStatusSeen \/ seed.stage = "seeded" => running = active /\ (~offline => bridgeUp)
           /\ ~liveStatusSeen /\ seed.stage = "state" => seed.running = active /\ seed.bridgeUp = bridgeUp
  BY DEF PanelInv, WireTypeOK
<1>5. \A stage : At(stage).stage = stage /\ At(stage).running = FALSE /\ At(stage).bridgeUp = FALSE
  BY DEF At
<1>6. CASE chatHistory \/ HistoryArrives
  <2>1. /\ seed'.stage \in {"events", "status"} /\ seed'.running = FALSE /\ seed'.bridgeUp = FALSE
        /\ UNCHANGED <<running, offline>> /\ seed.stage \in {"history", "events"}
    BY <1>6 DEF chatHistory, HistoryArrives, At
  <2> QED
    BY <1>3, <1>4, <2>1
<1>7. CASE chatStatus
  <2>1. /\ seed'.stage = "state" /\ seed'.running = active /\ seed'.bridgeUp = bridgeUp
        /\ UNCHANGED <<running, offline>>
    BY <1>7 DEF chatStatus, At
  <2> QED
    BY <1>3, <1>4, <2>1
<1>8. CASE StatusArrives
  <2>1. /\ seed.stage \in {"status", "state"}
        /\ seed' = At(IF seed.stage = "state" THEN "seeded" ELSE "unknown")
        /\ IF liveStatusSeen THEN UNCHANGED <<offline, running>>
           ELSE offline' = ~seed.bridgeUp /\ running' = seed.running
    BY <1>8 DEF StatusArrives, setRunning
  <2>2. /\ seed'.stage = (IF seed.stage = "state" THEN "seeded" ELSE "unknown")
        /\ seed'.running = FALSE /\ seed'.bridgeUp = FALSE
    BY <1>5, <2>1
  <2>3. {running', offline'} \subseteq BOOLEAN
    BY <1>4, <2>1
  <2>4. CASE liveStatusSeen
    BY <1>3, <1>4, <2>1, <2>2, <2>3, <2>4
  <2>5. CASE ~liveStatusSeen
    <3>1. running' = seed.running /\ (~offline' <=> seed.bridgeUp)
      BY <1>4, <2>1, <2>5
    <3> QED
      BY <1>3, <1>4, <2>1, <2>2, <2>3, <2>5, <3>1
  <2> QED
    BY <2>4, <2>5
<1> QED
  BY <1>6, <1>7, <1>8

LEMMA PanelStepKeeps ==
  ASSUME PanelInv, [Next]_vars
  PROVE  PanelInv'
<1>1. CASE UNCHANGED panelVars
  <2>1. UNCHANGED <<bridgeUp, active, waiting, emitted, subscribed, wire, running, offline, liveEventSeen,
                    liveStatusSeen, seed, gap>>
    BY <1>1 DEF panelVars, managerVars, streamVars, viewVars
  <2> QED
    BY <2>1 DEF PanelInv, WireTypeOK, NoStatusAfter, IsStatus, Tells
<1>2. CASE Chatting
  BY <1>2, ManagerKeepsPanel, StreamKeepsPanel, ReceivingKeepsPanel, SeedingKeepsPanel DEF Chatting, PanelNext
<1>3. [Next]_vars => Chatting \/ UNCHANGED panelVars
  BY DEF Next, Server, Answering, Following, Polling, Ticks, Listing, SettingUp, Apart, vars
<1> QED
  BY <1>1, <1>2, <1>3

LEMMA PanelHolds == Spec => []PanelInv
<1>1. Init => PanelInv
  <2>1. <<>> \in Seq(Event) /\ DOMAIN <<>> = {} /\ MaxEvents \in Nat
    BY EmptySeq, PanelAssumption
  <2>2. Init => seed.stage = "history" /\ seed.running = FALSE /\ seed.bridgeUp = FALSE
    BY DEF Init, PanelInit, At
  <2>3. Init => WireTypeOK
    <3> SUFFICES ASSUME Init PROVE WireTypeOK
      OBVIOUS
    <3>1. waiting \in 0..1 /\ emitted \in 0..MaxEvents /\ wire \in Seq(Event)
      BY <2>1 DEF Init, PanelInit
    <3>2. /\ bridgeUp = TRUE /\ active = FALSE /\ subscribed = FALSE
          /\ {running, offline, liveEventSeen, liveStatusSeen, gap} \subseteq BOOLEAN
          /\ {seed.running, seed.bridgeUp} \subseteq BOOLEAN
      BY <2>2 DEF Init, PanelInit
    <3> QED
      BY <3>1, <3>2 DEF WireTypeOK
  <2> QED
    BY <2>1, <2>2, <2>3 DEF Init, PanelInit, PanelInv
<1>2. PanelInv /\ [Next]_vars => PanelInv'
  BY PanelStepKeeps
<1> QED
  BY <1>1, <1>2, PTL DEF Spec

(* The panel knows whether a run is active, in whatever order the stream and *)
(* the fetched status arrived, once no status is on its way or was missed.   *)
THEOREM PanelSeesTheRun == Spec => []PanelFollowsRun
<1>1. PanelInv => PanelFollowsRun
  <2>1. PanelInv /\ (\A k \in DOMAIN wire : ~IsStatus(wire[k])) => NoStatusAfter(0)
    BY DEF NoStatusAfter
  <2> QED
    BY <2>1 DEF PanelInv, PanelFollowsRun
<1> QED
  BY <1>1, PanelHolds, PTL

-----------------------------------------------------------------------------
(* The bubbles on the screen.                                                *)

(* An event adds at most one bubble, and takes away only a reply that was    *)
(* still being streamed.                                                     *)
Kept(prev, next) ==
  \A j \in DOMAIN prev : ~prev[j].streaming => \E k \in DOMAIN next : next[k] = prev[j]

LEMMA AppendKeeps ==
  ASSUME NEW prev \in Seq(Bubble), NEW b \in Bubble
  PROVE  Append(prev, b) \in Seq(Bubble) /\ Kept(prev, Append(prev, b))
<1>1. /\ Append(prev, b) \in Seq(Bubble) /\ Len(Append(prev, b)) = Len(prev) + 1
      /\ \A i \in 1..Len(prev) : Append(prev, b)[i] = prev[i]
      /\ Len(prev) \in Nat /\ DOMAIN prev = 1..Len(prev)
  BY AppendProperties, LenProperties
<1>2. DOMAIN Append(prev, b) = 1..(Len(prev) + 1)
  BY <1>1, LenProperties
<1>3. \A j \in 1..Len(prev) : j \in 1..(Len(prev) + 1)
  BY <1>1
<1> QED
  BY <1>1, <1>2, <1>3 DEF Kept

LEMMA AllButTheLast == \A l \in Nat \ {0} : \A j \in 1..l : j # l => j \in 1..(l - 1)
  OBVIOUS

LEMMA FrontKeeps ==
  ASSUME NEW prev \in Seq(Bubble), prev # <<>>, Last(prev).streaming
  PROVE  Front(prev) \in Seq(Bubble) /\ Kept(prev, Front(prev))
<1>1. /\ Len(prev) \in Nat \ {0} /\ DOMAIN prev = 1..Len(prev)
      /\ \A i \in 1..Len(prev) : prev[i] \in Bubble
  BY EmptySeq, LenProperties, ElementOfSeq
<1> DEFINE m == Len(prev) - 1
<1>2. m \in Nat /\ \A i \in 1..m : prev[i] \in Bubble
  BY <1>1
<1>3. /\ Front(prev) = SubSeq(prev, 1, m)
      /\ ~(1 <= m) => m = 0
  BY <1>1 DEF Front
<1> HIDE DEF m
<1>4. /\ Front(prev) \in Seq(Bubble) /\ Len(Front(prev)) = m
      /\ \A i \in 1..m : Front(prev)[i] = prev[i]
  <2>1. /\ SubSeq(prev, 1, m) \in Seq(Bubble)
        /\ Len(SubSeq(prev, 1, m)) = IF 1 <= m THEN m - 1 + 1 ELSE 0
        /\ \A i \in 1..(m - 1 + 1) : SubSeq(prev, 1, m)[i] = prev[1 + i - 1]
    BY <1>2, SubSeqProperties
  <2>2. m - 1 + 1 = m /\ \A i \in 1..m : 1 + i - 1 = i
    BY <1>2
  <2> QED
    BY <1>3, <2>1, <2>2
<1>5. DOMAIN Front(prev) = 1..m
  BY <1>4, LenProperties
<1>6. \A j \in 1..Len(prev) : ~prev[j].streaming => j \in 1..m
  <2>1. \A j \in 1..Len(prev) : j # Len(prev) => j \in 1..m
    BY <1>1, AllButTheLast DEF m
  <2> QED
    BY <2>1 DEF Last
<1> QED
  BY <1>1, <1>4, <1>5, <1>6 DEF Kept

LEMMA KeptTwice ==
  ASSUME NEW a, NEW b, NEW c, Kept(a, b), Kept(b, c)
  PROVE  Kept(a, c)
<1> SUFFICES ASSUME NEW j \in DOMAIN a, ~a[j].streaming PROVE \E k \in DOMAIN c : c[k] = a[j]
  BY DEF Kept
<1>1. PICK i \in DOMAIN b : b[i] = a[j]
  BY DEF Kept
<1> QED
  BY <1>1 DEF Kept

LEMMA ApplyKeeps ==
  ASSUME NEW prev \in Seq(Bubble), NEW ev \in Event
  PROVE  applyEvent(prev, ev) \in Seq(Bubble) /\ Kept(prev, applyEvent(prev, ev))
<1> DEFINE replying == prev # <<>> /\ Last(prev).streaming
           before == IF replying THEN Front(prev) ELSE prev
<1>1. before \in Seq(Bubble) /\ Kept(prev, before)
  BY FrontKeeps DEF Kept
<1> DEFINE reply(on) == [kind |-> "assistant", n |-> ev.n, streaming |-> on]
           said == [kind |-> ev.kind, n |-> ev.n, streaming |-> FALSE]
<1>2. reply(TRUE) \in Bubble /\ reply(FALSE) \in Bubble
  BY DEF Bubble, Event
<1>3. ev.kind \in {"user", "rejected", "error"} => said \in Bubble
  BY DEF Bubble, Event
<1>4. applyEvent(prev, ev) =
        CASE ev.kind = "delta" -> Append(before, reply(TRUE))
          [] ev.kind = "final" -> Append(before, reply(FALSE))
          [] ev.kind \in {"user", "rejected", "error"} -> Append(prev, said)
          [] OTHER -> prev
  BY DEF applyEvent
<1> HIDE DEF before, reply, said
<1>5. CASE ev.kind \in {"delta", "final"}
  <2>1. PICK b \in Bubble : applyEvent(prev, ev) = Append(before, b)
    BY <1>2, <1>4, <1>5
  <2>2. Append(before, b) \in Seq(Bubble) /\ Kept(before, Append(before, b))
    BY <1>1, AppendKeeps
  <2> QED
    BY <1>1, <2>1, <2>2, KeptTwice
<1>6. CASE ev.kind \in {"user", "rejected", "error"}
  <2>1. applyEvent(prev, ev) = Append(prev, said)
    BY <1>4, <1>6
  <2> QED
    BY <1>3, <1>6, <2>1, AppendKeeps
<1>7. CASE ev.kind \notin {"delta", "final", "user", "rejected", "error"}
  <2>1. applyEvent(prev, ev) = prev
    BY <1>4, <1>7
  <2> QED
    BY <2>1 DEF Kept
<1> QED
  BY <1>5, <1>6, <1>7

(* The history is folded from its first event on: Shows(g, D, evs) says that *)
(* g gives the bubbles of the events of evs at each set of positions in D.   *)
Shows(g, D, evs) ==
  g = [s \in D |-> IF s = {} THEN <<>> ELSE applyEvent(g[s \ {Max(s)}], evs[Max(s)])]

LEMMA MaxIsIn ==
  ASSUME NEW n \in Nat
  PROVE  \A s \in SUBSET (1..n) : s # {} => Max(s) \in s
<1> SUFFICES ASSUME NEW s \in SUBSET (1..n), s # {} PROVE Max(s) \in s
  OBVIOUS
<1>1. s \in SUBSET Nat /\ \A t \in s : t <= n
  OBVIOUS
<1>2. \E x \in s : \A t \in s : x >= t
  BY <1>1, GreatestElement
<1> QED
  BY <1>2 DEF Max

LEMMA PositionsHaveAMax ==
  ASSUME NEW evs \in Seq(Event)
  PROVE  IsFiniteSet(DOMAIN evs) /\ \A s \in SUBSET DOMAIN evs : s # {} => Max(s) \in s
<1>1. DOMAIN evs = 1..Len(evs) /\ Len(evs) \in Nat
  BY LenProperties
<1>2. IsFiniteSet(1..Len(evs))
  BY <1>1, FS_Interval
<1> QED
  BY <1>1, <1>2, MaxIsIn

LEMMA ShowsOneMore ==
  ASSUME NEW evs \in Seq(Event), NEW n \in Nat, NEW g, Shows(g, UpTo(DOMAIN evs, n), evs)
  PROVE  \E h : Shows(h, UpTo(DOMAIN evs, n + 1), evs)
<1> DEFINE S == DOMAIN evs
           h == [s \in UpTo(S, n + 1) |-> IF s = {} THEN <<>> ELSE applyEvent(g[s \ {Max(s)}], evs[Max(s)])]
<1>0. IsFiniteSet(S) /\ \A s \in SUBSET S : s # {} => Max(s) \in s
  BY PositionsHaveAMax
<1> HIDE DEF S
<1>1. \A s \in UpTo(S, n + 1) : s # {} => s \ {Max(s)} \in UpTo(S, n) /\ s \ {Max(s)} \in UpTo(S, n + 1)
  <2> SUFFICES ASSUME NEW s \in UpTo(S, n + 1), s # {}
               PROVE  s \ {Max(s)} \in UpTo(S, n) /\ s \ {Max(s)} \in UpTo(S, n + 1)
    OBVIOUS
  <2>1. s \in SUBSET S /\ IsFiniteSet(s) /\ Cardinality(s) \in Nat /\ Cardinality(s) <= n + 1 /\ Max(s) \in s
    BY <1>0, FS_Subset, FS_CardinalityType DEF UpTo
  <2>2. Cardinality(s \ {Max(s)}) = Cardinality(s) - 1
    BY <2>1, FS_RemoveElement
  <2> QED
    BY <2>1, <2>2 DEF UpTo
<1>2. \A s \in UpTo(S, n) : s \in UpTo(S, n + 1)
  <2>1. \A s \in UpTo(S, n) : s \in SUBSET S /\ Cardinality(s) \in Nat /\ Cardinality(s) <= n
    BY <1>0, FS_Subset, FS_CardinalityType DEF UpTo
  <2> QED
    BY <2>1 DEF UpTo
<1>3. \A s \in UpTo(S, n) : h[s] = g[s]
  <2>1. \A s \in UpTo(S, n) : g[s] = IF s = {} THEN <<>> ELSE applyEvent(g[s \ {Max(s)}], evs[Max(s)])
    BY Zenon DEF Shows, S
  <2> QED
    BY <1>2, <2>1, Zenon
<1>4. h = [s \in UpTo(S, n + 1) |-> IF s = {} THEN <<>> ELSE applyEvent(h[s \ {Max(s)}], evs[Max(s)])]
  <2>1. \A s \in UpTo(S, n + 1) : s # {} => h[s \ {Max(s)}] = g[s \ {Max(s)}]
    BY <1>1, <1>3, Zenon
  <2>2. \A s \in UpTo(S, n + 1) : h[s] = IF s = {} THEN <<>> ELSE applyEvent(h[s \ {Max(s)}], evs[Max(s)])
    BY <2>1, Zenon
  <2>3. h = [s \in UpTo(S, n + 1) |-> h[s]]
    OBVIOUS
  <2> HIDE DEF h
  <2> QED
    BY <2>2, <2>3, Zenon
<1> QED
  BY <1>4, Zenon DEF Shows, S

LEMMA ShowsExists ==
  ASSUME NEW evs \in Seq(Event)
  PROVE  \E g : Shows(g, SUBSET DOMAIN evs, evs)
<1> DEFINE S == DOMAIN evs
           bad == {n \in Nat : ~ \E g : Shows(g, UpTo(S, n), evs)}
<1>0. IsFiniteSet(S)
  BY PositionsHaveAMax
<1>1. 0 \notin bad
  <2> DEFINE g == [s \in UpTo(S, 0) |-> <<>>]
  <2>1. \A s \in UpTo(S, 0) : s = {}
    <3> SUFFICES ASSUME NEW s \in UpTo(S, 0) PROVE s = {}
      OBVIOUS
    <3>1. IsFiniteSet(s) /\ Cardinality(s) \in Nat /\ Cardinality(s) <= 0
      BY <1>0, FS_Subset, FS_CardinalityType DEF UpTo
    <3>2. Cardinality(s) = 0
      BY <3>1
    <3> QED
      BY <3>1, <3>2, FS_EmptySet
  <2>2. Shows(g, UpTo(S, 0), evs)
    BY <2>1, Zenon DEF Shows
  <2> QED
    BY <2>2
<1>2. bad = {}
  <2> SUFFICES ASSUME bad # {} PROVE FALSE
    OBVIOUS
  <2>1. PICK n \in bad : \A m \in bad : n <= m
    BY LeastElement
  <2>2. n \in Nat /\ n - 1 \in Nat /\ n - 1 \notin bad
    BY <1>1, <2>1
  <2>3. PICK g : Shows(g, UpTo(S, n - 1), evs)
    BY <2>2
  <2>4. (n - 1) + 1 = n /\ \E h : Shows(h, UpTo(S, (n - 1) + 1), evs)
    BY <2>2, <2>3, ShowsOneMore
  <2> QED
    BY <2>1, <2>4
<1>3. UpTo(S, Cardinality(S)) = SUBSET S
  BY <1>0, FS_Subset DEF UpTo
<1>4. Cardinality(S) \in Nat
  BY <1>0, FS_CardinalityType
<1> HIDE DEF bad
<1>5. \E g : Shows(g, UpTo(S, Cardinality(S)), evs)
  BY <1>2, <1>4 DEF bad
<1> QED
  BY <1>3, <1>5

LEMMA FoldTypes ==
  ASSUME NEW evs \in Seq(Event)
  PROVE  FoldLeft(applyEvent, <<>>, evs) \in Seq(Bubble)
<1> DEFINE S == DOMAIN evs
           g == CHOOSE g : Shows(g, SUBSET S, evs)
<1>1. FoldLeft(applyEvent, <<>>, evs) = g[S]
  BY Zenon DEF Shows, FoldLeft, MapThenFoldSet
<1>2. Shows(g, SUBSET S, evs)
  BY ShowsExists
<1> HIDE DEF g
<1>3. \A s \in SUBSET S : g[s] = IF s = {} THEN <<>> ELSE applyEvent(g[s \ {Max(s)}], evs[Max(s)])
  BY <1>2, Zenon DEF Shows
<1> DEFINE Good == {s \in SUBSET S : g[s] \in Seq(Bubble)}
<1>4. IsFiniteSet(S) /\ \A s \in SUBSET S : s # {} => Max(s) \in s
  BY PositionsHaveAMax
<1>5. \A i \in S : evs[i] \in Event
  BY ElementOfSeq, LenProperties
<1> HIDE DEF S
<1>6. {} \in Good
  BY <1>3, EmptySeq
<1>7. ASSUME NEW T \in SUBSET S, T # {}, \A x \in T : T \ {x} \in Good PROVE T \in Good
  <2>1. Max(T) \in T /\ evs[Max(T)] \in Event /\ g[T \ {Max(T)}] \in Seq(Bubble)
    BY <1>4, <1>5, <1>7
  <2>2. g[T] = applyEvent(g[T \ {Max(T)}], evs[Max(T)])
    BY <1>3, <1>7
  <2> QED
    BY <2>1, <2>2, ApplyKeeps
<1>8. S \in Good
  <2> HIDE DEF Good
  <2> QED
    BY <1>4, <1>6, <1>7, SubsetInduction
<1> QED
  BY <1>1, <1>8

(* What the manager emits is kept in its ring too. *)
LEMMA RingFacts ==
  ASSUME WireTypeOK, ring \in Seq(Event), NEW kinds \in Seq(Kinds), emit(kinds)
  PROVE  ring' \in Seq(Event) /\ UNCHANGED viewVars
<1> DEFINE events == [k \in DOMAIN kinds |-> [kind |-> kinds[k], n |-> emitted + k]]
           kept == ring \o events
<1>1. /\ emitted \in Nat /\ MaxEvents \in Nat /\ Len(kinds) \in Nat
      /\ DOMAIN kinds = 1..Len(kinds) /\ \A k \in 1..Len(kinds) : kinds[k] \in Kinds
  BY PanelAssumption, LenProperties, ElementOfSeq DEF WireTypeOK
<1>2. /\ emitted' = emitted + Len(kinds) /\ emitted' <= MaxEvents
      /\ ring' = SubSeq(kept, IF Len(kept) > HistorySize THEN Len(kept) - HistorySize + 1 ELSE 1, Len(kept))
      /\ UNCHANGED viewVars
  BY DEF emit
<1>3. \A k \in 1..Len(kinds) : [kind |-> kinds[k], n |-> emitted + k] \in Event
  BY <1>1, <1>2 DEF Event, Kinds
<1>4. events \in Seq(Event)
  <2>1. events \in [1..Len(kinds) -> Event]
    BY <1>1, <1>3
  <2> QED
    BY <1>1, <2>1, SeqDef
<1> HIDE DEF events
<1>5. kept \in Seq(Event)
  BY <1>4, ConcatProperties
<1> HIDE DEF kept
<1>6. Len(kept) \in Nat /\ \A i \in 1..Len(kept) : kept[i] \in Event
  BY <1>5, LenProperties, ElementOfSeq
<1>7. \A m \in Nat \ {0} : SubSeq(kept, m, Len(kept)) \in Seq(Event)
  <2> SUFFICES ASSUME NEW m \in Nat \ {0} PROVE SubSeq(kept, m, Len(kept)) \in Seq(Event)
    OBVIOUS
  <2>1. \A i \in m..Len(kept) : i \in 1..Len(kept)
    BY <1>6
  <2> QED
    BY <1>6, <2>1, SubSeqProperties
<1>8. (IF Len(kept) > HistorySize THEN Len(kept) - HistorySize + 1 ELSE 1) \in Nat \ {0}
  BY <1>6, PanelAssumption
<1> QED
  BY <1>2, <1>7, <1>8

LEMMA ManagerEmits ==
  ASSUME ManagerNext, waiting \in 0..1
  PROVE  \E kinds \in Seq(Kinds) : emit(kinds)
<1>1. /\ \A x \in Kinds : <<x>> \in Seq(Kinds)
      /\ \A x, y \in Kinds : <<x, y>> \in Seq(Kinds)
  BY Lists
<1>2. {"user", "delta", "final", "rejected", "idle", "error", "running", "offline"} \subseteq Kinds
  BY DEF Kinds, Says, Statuses
<1>3. CASE handleInbound
  BY <1>1, <1>2, <1>3 DEF handleInbound
<1>4. ASSUME NEW kinds \in Seq(Kinds), drain(kinds) PROVE \E s \in Seq(Kinds) : emit(s)
  <2>1. Append(kinds, "running") \in Seq(Kinds)
    BY <1>2, Longer
  <2> QED
    BY <1>4, <2>1 DEF drain
<1>5. CASE onRunEvent
  BY <1>1, <1>2, <1>4, <1>5 DEF onRunEvent
<1>6. CASE onConnection
  BY <1>1, <1>2, <1>6 DEF onConnection
<1> QED
  BY <1>3, <1>5, <1>6 DEF ManagerNext

(* The bubbles and the fetched history are typed, and until the history is   *)
(* shown, a stream that brought no conversation put up only notices of       *)
(* failed runs.                                                              *)
OnlyNotices == \A k \in DOMAIN messages : messages[k].kind = "error"

ScreenInv ==
  /\ ring \in Seq(Event) /\ messages \in Seq(Bubble)
  /\ seed \in [stage : Stages, events : Seq(Event), running : BOOLEAN, bridgeUp : BOOLEAN]
  /\ ~liveEventSeen /\ seed.stage \in {"history", "events"} => OnlyNotices

LEMMA NoticesOnly ==
  ASSUME NEW prev \in Seq(Bubble), NEW ev \in Event, IsStatus(ev),
         \A k \in DOMAIN prev : prev[k].kind = "error"
  PROVE  \A k \in DOMAIN applyEvent(prev, ev) : applyEvent(prev, ev)[k].kind = "error"
<1> DEFINE said == [kind |-> ev.kind, n |-> ev.n, streaming |-> FALSE]
<1>1. ev.kind \in {"idle", "error", "running", "offline"}
  BY DEF IsStatus, Statuses
<1>2. applyEvent(prev, ev) = IF ev.kind = "error" THEN Append(prev, said) ELSE prev
  BY <1>1 DEF applyEvent
<1>3. CASE ev.kind = "error"
  <2>1. said \in Bubble /\ said.kind = "error"
    BY <1>3 DEF Bubble, Event
  <2> HIDE DEF said
  <2>2. /\ Append(prev, said) \in Seq(Bubble) /\ Len(Append(prev, said)) = Len(prev) + 1
        /\ \A i \in 1..Len(prev) : Append(prev, said)[i] = prev[i]
        /\ Append(prev, said)[Len(prev) + 1] = said
        /\ Len(prev) \in Nat /\ DOMAIN prev = 1..Len(prev)
    BY <2>1, AppendProperties, LenProperties
  <2>3. DOMAIN Append(prev, said) = 1..(Len(prev) + 1)
    BY <2>2, LenProperties
  <2>4. \A k \in 1..(Len(prev) + 1) : k = Len(prev) + 1 \/ k \in 1..Len(prev)
    BY <2>2
  <2> QED
    BY <1>2, <1>3, <2>1, <2>2, <2>3, <2>4
<1> QED
  BY <1>2, <1>3

(* An event is received, and folded into the bubbles. *)
LEMMA ReceivingKeepsScreen ==
  ASSUME PanelInv, ScreenInv, onmessage
  PROVE  ScreenInv' /\ Kept(messages, messages')
<1>1. /\ wire \in Seq(Event) /\ wire # <<>> /\ messages' = applyEvent(messages, Head(wire))
      /\ ring' = ring /\ seed' = seed
  BY DEF PanelInv, WireTypeOK, onmessage, managerVars
<1>2. Head(wire) \in Event
  BY <1>1, HeadTailProperties
<1>3. messages' \in Seq(Bubble) /\ Kept(messages, messages')
  BY <1>1, <1>2, ApplyKeeps DEF ScreenInv
<1>4. CASE IsStatus(Head(wire))
  <2>1. liveEventSeen' = liveEventSeen
    BY <1>4 DEF onmessage
  <2>2. OnlyNotices => OnlyNotices'
    BY <1>1, <1>2, <1>4, NoticesOnly DEF ScreenInv, OnlyNotices
  <2> QED
    BY <1>1, <1>3, <2>1, <2>2 DEF ScreenInv
<1>5. CASE ~IsStatus(Head(wire))
  <2>1. liveEventSeen' = TRUE
    BY <1>5 DEF onmessage
  <2> QED
    BY <1>1, <1>3, <2>1 DEF ScreenInv
<1> QED
  BY <1>4, <1>5

LEMMA AtTypes ==
  \A stage \in Stages :
    At(stage) \in [stage : Stages, events : Seq(Event), running : BOOLEAN, bridgeUp : BOOLEAN]
  BY EmptySeq DEF At

(* What was fetched is asked for, answered and shown: the history replaces   *)
(* nothing but notices.                                                      *)
LEMMA SeedingKeepsScreen ==
  ASSUME PanelInv, ScreenInv, chatHistory \/ chatStatus \/ HistoryArrives \/ StatusArrives
  PROVE  ScreenInv' /\ (Kept(messages, messages') \/ OnlyNotices)
<1>1. /\ ring \in Seq(Event) /\ messages \in Seq(Bubble) /\ ring' = ring /\ liveEventSeen' = liveEventSeen
      /\ seed \in [stage : Stages, events : Seq(Event), running : BOOLEAN, bridgeUp : BOOLEAN]
  BY DEF ScreenInv, chatHistory, chatStatus, HistoryArrives, StatusArrives, managerVars
<1>2. UNCHANGED messages => Kept(messages, messages')
  BY DEF Kept
<1>3. CASE chatHistory
  <2>1. /\ seed.stage = "history" /\ UNCHANGED messages
        /\ seed' = [At("events") EXCEPT !.events = IF Reached = "ours" THEN ring ELSE <<>>]
    BY <1>3 DEF chatHistory
  <2>2. At("events") \in [stage : Stages, events : Seq(Event), running : BOOLEAN, bridgeUp : BOOLEAN]
    BY AtTypes DEF Stages
  <2>3. seed' \in [stage : Stages, events : Seq(Event), running : BOOLEAN, bridgeUp : BOOLEAN]
    BY <1>1, <2>1, <2>2, EmptySeq
  <2> QED
    BY <1>1, <1>2, <2>1, <2>3 DEF ScreenInv, OnlyNotices
<1>4. CASE chatStatus
  <2>1. /\ seed' = [At("state") EXCEPT !.running = active, !.bridgeUp = bridgeUp] /\ UNCHANGED messages
        /\ active \in BOOLEAN /\ bridgeUp \in BOOLEAN
    BY <1>4 DEF chatStatus, PanelInv, WireTypeOK
  <2>2. seed' \in [stage : Stages, events : Seq(Event), running : BOOLEAN, bridgeUp : BOOLEAN]
        /\ seed'.stage = "state"
    BY <2>1, EmptySeq DEF At, Stages
  <2> QED
    BY <1>1, <1>2, <2>1, <2>2 DEF ScreenInv
<1>5. CASE HistoryArrives
  <2>1. /\ seed.stage = "events" /\ seed' = At("status")
        /\ messages' = IF liveEventSeen THEN messages ELSE FoldLeft(applyEvent, <<>>, seed.events)
    BY <1>5 DEF HistoryArrives
  <2>2. messages' \in Seq(Bubble)
    <3>1. seed.events \in Seq(Event)
      BY <1>1
    <3> QED
      BY <1>1, <2>1, <3>1, FoldTypes
  <2>3. seed' \in [stage : Stages, events : Seq(Event), running : BOOLEAN, bridgeUp : BOOLEAN]
        /\ seed'.stage = "status"
    BY <2>1, AtTypes DEF At, Stages
  <2>4. liveEventSeen \/ OnlyNotices
    BY <2>1 DEF ScreenInv
  <2> QED
    BY <1>1, <1>2, <2>1, <2>2, <2>3, <2>4 DEF ScreenInv
<1>6. CASE StatusArrives
  <2>1. /\ seed' = At(IF seed.stage = "state" THEN "seeded" ELSE "unknown") /\ UNCHANGED messages
    BY <1>6 DEF StatusArrives
  <2>2. seed' \in [stage : Stages, events : Seq(Event), running : BOOLEAN, bridgeUp : BOOLEAN]
        /\ seed'.stage \in {"seeded", "unknown"}
    BY <2>1, AtTypes DEF At, Stages
  <2> QED
    BY <1>1, <1>2, <2>1, <2>2 DEF ScreenInv
<1> QED
  BY <1>3, <1>4, <1>5, <1>6

LEMMA ScreenStepKeeps ==
  ASSUME PanelInv, ScreenInv, [Next]_vars
  PROVE  ScreenInv' /\ (Kept(messages, messages') \/ OnlyNotices)
<1>1. ASSUME UNCHANGED <<viewVars>>, ring' \in Seq(Event)
      PROVE  ScreenInv' /\ Kept(messages, messages')
  <2>1. UNCHANGED <<messages, seed, liveEventSeen>>
    BY <1>1 DEF viewVars
  <2> QED
    BY <1>1, <2>1 DEF ScreenInv, OnlyNotices, Kept
<1>2. CASE UNCHANGED panelVars
  <2>1. ring' = ring /\ UNCHANGED viewVars
    BY <1>2 DEF panelVars, managerVars
  <2> QED
    BY <1>1, <2>1 DEF ScreenInv
<1>3. CASE ManagerNext
  <2>1. WireTypeOK /\ waiting \in 0..1 /\ ring \in Seq(Event)
    BY DEF PanelInv, WireTypeOK, ScreenInv
  <2>2. PICK kinds \in Seq(Kinds) : emit(kinds)
    BY <1>3, <2>1, ManagerEmits
  <2> QED
    BY <1>1, <2>1, <2>2, RingFacts
<1>4. CASE chatSubscribe \/ StreamBreaks
  <2>1. ring' = ring /\ UNCHANGED viewVars
    BY <1>4 DEF chatSubscribe, StreamBreaks, managerVars
  <2> QED
    BY <1>1, <2>1 DEF ScreenInv
<1>5. Chatting => \/ ManagerNext \/ chatSubscribe \/ StreamBreaks
                  \/ onmessage \/ chatHistory \/ chatStatus \/ HistoryArrives \/ StatusArrives
  BY DEF Chatting, PanelNext
<1>6. [Next]_vars => Chatting \/ UNCHANGED panelVars
  BY DEF Next, Server, Answering, Following, Polling, Ticks, Listing, SettingUp, Apart, vars
<1> QED
  BY <1>2, <1>3, <1>4, <1>5, <1>6, ReceivingKeepsScreen, SeedingKeepsScreen

LEMMA ScreenHolds == Spec => []ScreenInv
<1>1. Init => ScreenInv
  <2> SUFFICES ASSUME Init PROVE ScreenInv
    OBVIOUS
  <2>1. <<>> \in Seq(Event) /\ <<>> \in Seq(Bubble) /\ DOMAIN <<>> = {}
    BY EmptySeq
  <2>2. ring = <<>> /\ messages = <<>> /\ seed = At("history")
    BY DEF Init, PanelInit
  <2>3. seed \in [stage : Stages, events : Seq(Event), running : BOOLEAN, bridgeUp : BOOLEAN]
    BY <2>2, AtTypes DEF Stages
  <2> QED
    BY <2>1, <2>2, <2>3 DEF ScreenInv, OnlyNotices
<1> QED
  BY <1>1, PanelHolds, ScreenStepKeeps, PTL DEF Spec

(* Everything the operator's tools keep stays in its type, for any desks,    *)
(* numbers of approvals and events, and any length of the history.           *)
THEOREM OperatorIsTyped == Spec => []OperatorTypeOK
<1>1. PanelInv /\ ScreenInv => PanelTypeOK
  BY DEF PanelInv, WireTypeOK, ScreenInv, PanelTypeOK
<1>2. SurfacesInv => desk \in Desks /\ SurfacesTypeOK
  BY DEF SurfacesInv
<1>3. SetupInv => SetupTypeOK
  BY DEF SetupInv
<1>4. SurfacesInv /\ SetupInv /\ PanelInv /\ ScreenInv => OperatorTypeOK
  BY <1>1, <1>2, <1>3 DEF OperatorTypeOK
<1> QED
  BY <1>4, SurfacesHold, SetupHolds, PanelHolds, ScreenHolds, PTL

(* What was said stays on the screen, however the late history races the     *)
(* stream (ChatPanel.tsx, the guard of the seed).                            *)
THEOREM SaidIsNeverLost == Spec => SaidStays
<1>1. ASSUME PanelInv, ScreenInv, [Next]_vars PROVE Lasting \subseteq Lasting'
  <2>1. CASE OnlyNotices
    BY <2>1 DEF OnlyNotices, Lasting
  <2>2. CASE Kept(messages, messages')
    <3> SUFFICES ASSUME NEW j \in DOMAIN messages, ~messages[j].streaming, messages[j].kind # "error"
                 PROVE  messages[j].n \in Lasting'
      BY DEF Lasting
    <3>1. PICK k \in DOMAIN messages' : messages'[k] = messages[j]
      BY <2>2 DEF Kept
    <3> QED
      BY <3>1 DEF Lasting
  <2> QED
    BY <1>1, <2>1, <2>2, ScreenStepKeeps
<1>2. PanelInv /\ ScreenInv /\ [Next]_vars => [Lasting \subseteq Lasting']_messages
  BY <1>1
<1> QED
  BY <1>2, PanelHolds, ScreenHolds, PTL DEF Spec, SaidStays

-----------------------------------------------------------------------------
(* The followers. *)

LEMMA NeverInNothing == \A i : Never(i, <<>>)
  BY EmptySeq DEF Never

LEMMA AppendOnce ==
  ASSUME NEW s \in Seq(Ids), NEW x \in Ids
  PROVE  /\ Never(x, s) => Once(x, Append(s, x))
         /\ \A i : i # x => /\ Never(i, s) => Never(i, Append(s, x))
                            /\ Once(i, s) => Once(i, Append(s, x))
<1>1. /\ Len(s) \in Nat /\ DOMAIN s = 1..Len(s) /\ DOMAIN Append(s, x) = 1..(Len(s) + 1)
      /\ \A k \in 1..Len(s) : Append(s, x)[k] = s[k]
      /\ Append(s, x)[Len(s) + 1] = x
  BY AppendProperties, LenProperties
<1>2. /\ \A k \in DOMAIN Append(s, x) : k \in DOMAIN s \/ k = Len(s) + 1
      /\ Len(s) + 1 \notin DOMAIN s /\ Len(s) + 1 \in DOMAIN Append(s, x)
      /\ \A k \in DOMAIN s : k \in DOMAIN Append(s, x) /\ Append(s, x)[k] = s[k]
  BY <1>1
<1>3. Never(x, s) => Once(x, Append(s, x))
  BY <1>1, <1>2 DEF Never, Once
<1>4. ASSUME NEW i, i # x, Never(i, s) PROVE Never(i, Append(s, x))
  BY <1>1, <1>2, <1>4 DEF Never
<1>5. ASSUME NEW i, i # x, Once(i, s) PROVE Once(i, Append(s, x))
  BY <1>1, <1>2, <1>5 DEF Once
<1> QED
  BY <1>3, <1>4, <1>5

LEMMA TailOnce ==
  ASSUME NEW s \in Seq(Ids), s # <<>>
  PROVE  \A i : /\ Never(i, s) => Head(s) # i /\ Never(i, Tail(s))
                /\ Once(i, s) => IF Head(s) = i THEN Never(i, Tail(s)) ELSE Once(i, Tail(s))
<1>1. /\ Len(s) \in Nat \ {0} /\ DOMAIN s = 1..Len(s) /\ Head(s) = s[1]
      /\ DOMAIN Tail(s) = 1..(Len(s) - 1) /\ \A k \in 1..(Len(s) - 1) : Tail(s)[k] = s[k + 1]
  <2>1. /\ Len(s) \in Nat /\ Len(s) # 0 /\ DOMAIN s = 1..Len(s) /\ Head(s) = s[1]
    BY LenProperties, HeadTailProperties, EmptySeq
  <2>2. /\ Tail(s) \in Seq(Ids) /\ Len(Tail(s)) = Len(s) - 1 /\ \A k \in 1..Len(Tail(s)) : Tail(s)[k] = s[k + 1]
    BY HeadTailProperties
  <2> QED
    BY <2>1, <2>2, LenProperties
<1>2. /\ 1 \in DOMAIN s
      /\ \A k \in DOMAIN Tail(s) : k + 1 \in DOMAIN s /\ k + 1 # 1 /\ Tail(s)[k] = s[k + 1] /\ k \in Int
      /\ \A k \in DOMAIN s : k # 1 => k - 1 \in DOMAIN Tail(s) /\ Tail(s)[k - 1] = s[k] /\ k \in Int
  BY <1>1
<1>3. ASSUME NEW i, Never(i, s) PROVE Head(s) # i /\ Never(i, Tail(s))
  BY <1>1, <1>2, <1>3 DEF Never
<1>4. ASSUME NEW i, Once(i, s) PROVE IF Head(s) = i THEN Never(i, Tail(s)) ELSE Once(i, Tail(s))
  <2>1. PICK k \in DOMAIN s : s[k] = i /\ \A j \in DOMAIN s : s[j] = i => j = k
    BY <1>4 DEF Once
  <2>2. CASE k = 1
    BY <1>1, <1>2, <2>1, <2>2 DEF Never
  <2>3. CASE k # 1
    <3>1. Head(s) # i
      BY <1>1, <1>2, <2>1, <2>3
    <3>2. k - 1 \in DOMAIN Tail(s) /\ Tail(s)[k - 1] = i
      BY <1>2, <2>1, <2>3
    <3>3. \A j \in DOMAIN Tail(s) : Tail(s)[j] = i => j = k - 1
      BY <1>2, <2>1
    <3> QED
      BY <3>1, <3>2, <3>3 DEF Once
  <2> QED
    BY <2>2, <2>3
<1> QED
  BY <1>3, <1>4

(* Nothing moves. *)
LEMMA QuietKeepsFollowers ==
  ASSUME FollowersInv, queue' \subseteq queue, \A i \in Ids : Fresh(i)' => Fresh(i),
         UNCHANGED <<follow, inbox, backlog, asking, typed, posting, posted>>
  PROVE  FollowersInv'
<1>1. \A i \in Ids : Nowhere(i)' = Nowhere(i) /\ Before(i)' = Before(i) /\ Forwarded(i)' = Forwarded(i)
  BY DEF Nowhere, Before, Forwarded, Never, Once, TypedOf
<1>2. \A i \in queue' : Before(i)' = Before(i) /\ Forwarded(i)' = Forwarded(i)
  BY DEF Before, Forwarded, Never, Once, TypedOf
<1> QED
  BY <1>1, <1>2 DEF FollowersInv

(* A request is broadcast. *)
LEMMA RequestKeepsFollowers ==
  ASSUME SurfacesInv, FollowersInv, NEW i \in Ids, onApprovalRequest(i),
         UNCHANGED <<backlog, asking, posting, posted>>
  PROVE  FollowersInv'
<1>1. /\ Fresh(i) /\ queue' = queue \cup {i} /\ UNCHANGED <<follow, typed, choice, proxy>>
      /\ inbox' = [f \in Followers |-> IF follow[f] = "ours" THEN Append(inbox[f], i) ELSE inbox[f]]
  BY DEF onApprovalRequest, request, broadcast, socketVars, Fresh
<1>2. /\ "watch" \in Followers /\ "forward" \in Followers
      /\ inbox["watch"] \in Seq(Ids) /\ inbox["forward"] \in Seq(Ids) /\ queue \subseteq Ids
  BY IpcAssumption DEF SurfacesInv, SurfacesTypeOK, IpcTypeOK, QueueTypeOK
<1>3. /\ inbox'["watch"] = (IF follow["watch"] = "ours" THEN Append(inbox["watch"], i) ELSE inbox["watch"])
      /\ inbox'["forward"] = (IF follow["forward"] = "ours" THEN Append(inbox["forward"], i) ELSE inbox["forward"])
  BY <1>1, <1>2
<1>4. \A j \in Ids : TypedOf(j)' = TypedOf(j)
  BY <1>1 DEF TypedOf
<1>5. \A j \in Ids \ {i} : /\ Never(j, inbox["watch"]) => Never(j, inbox["watch"])'
                           /\ Never(j, inbox["forward"]) => Never(j, inbox["forward"])'
                           /\ Once(j, inbox["watch"]) => Once(j, inbox["watch"])'
                           /\ Once(j, inbox["forward"]) => Once(j, inbox["forward"])'
                           /\ Never(j, backlog)' = Never(j, backlog) /\ Once(j, backlog)' = Once(j, backlog)
  <2> SUFFICES ASSUME NEW j \in Ids \ {i}
               PROVE  /\ Never(j, inbox["watch"]) => Never(j, inbox["watch"]')
                      /\ Never(j, inbox["forward"]) => Never(j, inbox["forward"]')
                      /\ Once(j, inbox["watch"]) => Once(j, inbox["watch"]')
                      /\ Once(j, inbox["forward"]) => Once(j, inbox["forward"]')
    BY DEF Never, Once
  <2> QED
    BY <1>2, <1>3, AppendOnce
<1>6. ASSUME NEW j \in Ids, Fresh(j)' PROVE Nowhere(j)'
  <2>1. j # i /\ Fresh(j)
    BY <1>1, <1>6 DEF Fresh
  <2> QED
    BY <1>4, <1>5, <2>1 DEF FollowersInv, Nowhere
<1>7. /\ follow'["watch"] \in {"off", "other"} =>
            inbox'["watch"] = <<>> /\ backlog' = <<>> /\ asking' = None /\ typed' = {}
      /\ follow'["forward"] \in {"off", "other"} => inbox'["forward"] = <<>> /\ posting' = {} /\ posted' = {}
  BY <1>1, <1>3 DEF FollowersInv
<1>8. ASSUME NEW j \in queue \ {i}
      PROVE  /\ follow'["watch"] = "ours" => Before(j)'
             /\ follow'["forward"] = "ours" => Forwarded(j)'
  <2>1. /\ follow["watch"] = "ours" => Before(j)
        /\ follow["forward"] = "ours" => Forwarded(j)
    BY DEF FollowersInv
  <2>2. j \in Ids \ {i}
    BY <1>2
  <2>3. Before(j) => Before(j)'
    BY <1>1, <1>4, <1>5, <2>2 DEF Before
  <2>4. Forwarded(j) => Forwarded(j)'
    BY <1>1, <1>5, <2>2 DEF Forwarded
  <2> QED
    BY <1>1, <2>1, <2>3, <2>4
<1>9. /\ follow'["watch"] = "ours" => Before(i)'
      /\ follow'["forward"] = "ours" => Forwarded(i)'
  <2>1. Nowhere(i)
    BY <1>1 DEF FollowersInv
  <2>2. follow["watch"] = "ours" => Once(i, inbox'["watch"])
    BY <1>2, <1>3, <2>1, AppendOnce DEF Nowhere
  <2>3. follow["forward"] = "ours" => Once(i, inbox'["forward"])
    BY <1>2, <1>3, <2>1, AppendOnce DEF Nowhere
  <2>4. Never(i, backlog)' /\ asking' # i /\ TypedOf(i)' = {} /\ i \notin posting' \cup posted'
    BY <1>4, <2>1 DEF Nowhere, Never
  <2> QED
    BY <1>1, <2>2, <2>3, <2>4 DEF Before, Forwarded, Once
<1> QED
  BY <1>1, <1>6, <1>7, <1>8, <1>9 DEF FollowersInv

(* A typed answer is read: it settles its approval, or finds it settled. *)
LEMMA TypedKeepsFollowers ==
  ASSUME SurfacesInv, FollowersInv, NEW a \in typed, handleTyped(a),
         UNCHANGED <<backlog, asking, posting, posted>>
  PROVE  FollowersInv'
<1>1. /\ typed' = typed \ {a} /\ UNCHANGED <<follow, inbox, proxy>>
      /\ queue' \subseteq queue /\ a.id \notin queue'
      /\ \A i \in Ids : i \notin queue' /\ choice'[i] = "none" => i \notin queue /\ choice[i] = "none"
  <2>1. a.id \in Ids /\ a.choice \in ApprovalChoices /\ a.choice # "none"
    BY IpcAssumption DEF SurfacesInv, SurfacesTypeOK, IpcTypeOK, ApprovalChoices
  <2>2. CASE respond(a.id, a.choice, "ipc")
    <3>1. /\ queue' = queue \ {a.id} /\ choice'[a.id] = a.choice
          /\ \A i \in Ids \ {a.id} : choice'[i] = choice[i]
      BY <2>1, <2>2, SettleTypes DEF respond, Sources, SurfacesInv, SurfacesTypeOK, IpcTypeOK
    <3> QED
      BY <2>1, <3>1 DEF handleTyped, socketVars
  <2>3. CASE a.id \notin queue /\ UNCHANGED queueVars
    BY <2>3 DEF handleTyped, socketVars, queueVars
  <2> QED
    BY <2>2, <2>3 DEF handleTyped
<1>2. \A i \in Ids : Fresh(i)' => Fresh(i)
  BY <1>1 DEF Fresh
<1>3. \A i : /\ TypedOf(i) = {} => TypedOf(i)' = {}
             /\ i # a.id => TypedOf(i)' = TypedOf(i)
  BY <1>1 DEF TypedOf
<1>4. \A i \in Ids : Nowhere(i) => Nowhere(i)'
  BY <1>1, <1>3 DEF Nowhere, Never
<1>5. \A i \in queue' : Before(i) => Before(i)'
  <2> SUFFICES ASSUME NEW i \in queue', Before(i) PROVE Before(i)'
    OBVIOUS
  <2>1. TypedOf(i)' = TypedOf(i) /\ UNCHANGED <<inbox, backlog, asking>>
    BY <1>1, <1>3
  <2> QED
    BY <2>1 DEF Before, Once, Never
<1>6. \A i \in queue' : Forwarded(i)' = Forwarded(i)
  BY <1>1 DEF Forwarded, Once, Never
<1> QED
  BY <1>1, <1>2, <1>4, <1>5, <1>6 DEF FollowersInv

(* A client is admitted, and sent what is pending. *)
LEMMA AdmissionKeepsFollowers ==
  ASSUME SurfacesInv, FollowersInv, NEW f \in Followers, handleConnection(f),
         UNCHANGED <<backlog, asking, posting, posted>>
  PROVE  FollowersInv'
<1> DEFINE S == IF path = "ours" THEN queue ELSE {}
<1>1. /\ follow[f] = "off" /\ path \in {"ours", "other"} /\ follow' = [follow EXCEPT ![f] = path]
      /\ UNCHANGED <<queue, choice, proxy, typed>>
  BY DEF handleConnection, Reachable, queueVars, socketVars
<1>2. /\ "watch" \in Followers /\ "forward" \in Followers /\ queue \subseteq Ids /\ IsFiniteSet(queue)
      /\ follow \in [Followers -> {"off", "ours", "other", "gone"}] /\ inbox \in [Followers -> Seq(Ids)]
  BY IpcAssumption DEF SurfacesInv, SurfacesTypeOK, IpcTypeOK, QueueTypeOK
<1>3. PICK pending \in SetToSeqs(S) : inbox' = [inbox EXCEPT ![f] = pending]
  BY DEF handleConnection
<1>4. pending \in Seq(Ids) /\ \A i : IF i \in S THEN Once(i, pending) ELSE Never(i, pending)
  <2>1. S \in SUBSET Ids /\ IsFiniteSet(S)
    BY <1>2, FS_EmptySet
  <2> QED
    BY <2>1, PendingTypes
<1>5. path = "other" => pending = <<>>
  <2> SUFFICES ASSUME path = "other", pending # <<>> PROVE FALSE
    OBVIOUS
  <2>1. 1 \in DOMAIN pending
    BY <1>4, LenProperties, EmptySeq
  <2>2. Never(pending[1], pending)
    BY <1>4
  <2> QED
    BY <2>1, <2>2 DEF Never
<1>6. /\ follow'[f] = path /\ inbox'[f] = pending
      /\ \A g \in Followers \ {f} : follow'[g] = follow[g] /\ inbox'[g] = inbox[g]
  BY <1>1, <1>2, <1>3
<1>7. \A i \in Ids : Fresh(i)' = Fresh(i) /\ (Fresh(i) => i \notin queue)
  BY <1>1 DEF Fresh
<1>8. \A i : TypedOf(i)' = TypedOf(i) /\ Never(i, backlog)' = Never(i, backlog)
  BY <1>1 DEF TypedOf, Never
<1> HIDE DEF S
<1>9. ASSUME NEW i \in Ids, Fresh(i)' PROVE Nowhere(i)'
  <2>1. Nowhere(i) /\ Never(i, pending)
    BY <1>4, <1>7, <1>9 DEF FollowersInv, S
  <2>2. Never(i, inbox'["watch"]) /\ Never(i, inbox'["forward"])
    BY <1>2, <1>6, <2>1 DEF Nowhere
  <2> QED
    BY <1>8, <2>1, <2>2 DEF Nowhere, Never
<1>10. CASE f = "watch"
  <2>1. backlog = <<>> /\ asking = None /\ typed = {} /\ None \notin Ids
    BY <1>1, <1>10, SurfacesAssumption DEF FollowersInv
  <2>2. ASSUME path = "ours", NEW i \in queue PROVE Before(i)'
    <3>1. Once(i, inbox'["watch"])
      BY <1>4, <1>6, <1>10, <2>2 DEF S
    <3>2. Never(i, backlog') /\ asking' # i /\ TypedOf(i)' = {}
      BY <1>2, <1>8, <2>1, NeverInNothing DEF TypedOf
    <3> QED
      BY <3>1, <3>2 DEF Before, Once, Never
  <2>3. /\ follow'["forward"] = follow["forward"] /\ inbox'["forward"] = inbox["forward"]
    BY <1>2, <1>6, <1>10
  <2>4. \A i \in queue : Forwarded(i)' = Forwarded(i)
    BY <2>3 DEF Forwarded, Once, Never
  <2> QED
    BY <1>1, <1>5, <1>6, <1>9, <1>10, <2>1, <2>2, <2>3, <2>4 DEF FollowersInv
<1>11. CASE f = "forward"
  <2>1. posting = {} /\ posted = {}
    BY <1>1, <1>11 DEF FollowersInv
  <2>2. ASSUME path = "ours", NEW i \in queue PROVE Forwarded(i)'
    <3>1. Once(i, inbox'["forward"])
      BY <1>4, <1>6, <1>11, <2>2 DEF S
    <3> QED
      BY <2>1, <3>1 DEF Forwarded, Once
  <2>3. /\ follow'["watch"] = follow["watch"] /\ inbox'["watch"] = inbox["watch"]
    BY <1>2, <1>6, <1>11
  <2>4. \A i \in queue : Before(i) => Before(i)'
    BY <1>8, <2>3 DEF Before, Once, Never
  <2> QED
    BY <1>1, <1>5, <1>6, <1>9, <1>11, <2>1, <2>2, <2>3, <2>4 DEF FollowersInv
<1> QED
  BY <1>10, <1>11, IpcAssumption

(* Connections end: what their followers hold is theirs to lose. *)
LEMMA PartingKeepsFollowers ==
  ASSUME SurfacesInv, FollowersInv, queue' \subseteq queue, \A i \in Ids : Fresh(i)' => Fresh(i),
         typed' \subseteq typed,
         \A f \in Followers : \/ follow'[f] = "gone" /\ inbox'[f] = <<>>
                              \/ follow'[f] = follow[f] /\ inbox'[f] = inbox[f],
         follow'["watch"] = "ours" => typed' = typed,
         UNCHANGED <<backlog, asking>>, posting' \cup posted' = posting \cup posted,
         follow["forward"] \in {"off", "other"} => posting' = posting /\ posted' = posted
  PROVE  FollowersInv'
<1>1. "watch" \in Followers /\ "forward" \in Followers
  BY IpcAssumption
<1>2. \A i : TypedOf(i) = {} => TypedOf(i)' = {}
  BY DEF TypedOf
<1>3. \A i, f : f \in Followers /\ Never(i, inbox[f]) => Never(i, inbox'[f])
  BY NeverInNothing
<1>4. ASSUME NEW i \in Ids, Fresh(i)' PROVE Nowhere(i)'
  <2>1. Nowhere(i)
    BY <1>4 DEF FollowersInv
  <2>2. Never(i, inbox'["watch"]) /\ Never(i, inbox'["forward"])
    BY <1>1, <1>3, <2>1 DEF Nowhere
  <2>3. Never(i, backlog') /\ asking' # i /\ TypedOf(i)' = {} /\ i \notin posting' \cup posted'
    BY <1>2, <2>1 DEF Nowhere
  <2> QED
    BY <2>2, <2>3 DEF Nowhere, Never
<1>5. ASSUME NEW i \in queue', follow'["watch"] = "ours" PROVE Before(i)'
  <2>1. /\ follow["watch"] = "ours" /\ inbox'["watch"] = inbox["watch"] /\ typed' = typed /\ Before(i)
    BY <1>1, <1>5 DEF FollowersInv
  <2>2. TypedOf(i)' = TypedOf(i)
    BY <2>1 DEF TypedOf
  <2> QED
    BY <2>1, <2>2 DEF Before, Once, Never
<1>6. ASSUME NEW i \in queue', follow'["forward"] = "ours" PROVE Forwarded(i)'
  <2>1. /\ follow["forward"] = "ours" /\ inbox'["forward"] = inbox["forward"] /\ Forwarded(i)
    BY <1>1, <1>6 DEF FollowersInv
  <2> QED
    BY <2>1 DEF Forwarded, Once, Never
<1>7. follow'["watch"] \in {"off", "other"} =>
        inbox'["watch"] = <<>> /\ backlog' = <<>> /\ asking' = None /\ typed' = {}
  BY <1>1 DEF FollowersInv
<1>8. follow'["forward"] \in {"off", "other"} => inbox'["forward"] = <<>> /\ posting' = {} /\ posted' = {}
  BY <1>1 DEF FollowersInv
<1> QED
  BY <1>4, <1>5, <1>6, <1>7, <1>8 DEF FollowersInv

(* `watch` reads a request. *)
LEMMA ReadingKeepsFollowers ==
  ASSUME SurfacesInv, FollowersInv, WatchReads
  PROVE  FollowersInv'
<1> DEFINE s == inbox["watch"]
           x == Head(s)
<1>1. /\ "watch" \in Followers /\ "forward" \in Followers /\ s \in Seq(Ids) /\ s # <<>> /\ backlog \in Seq(Ids)
      /\ queue \subseteq Ids /\ x \in Ids
  <2>1. /\ "watch" \in Followers /\ "forward" \in Followers /\ s \in Seq(Ids) /\ s # <<>> /\ backlog \in Seq(Ids)
        /\ queue \subseteq Ids
    BY IpcAssumption DEF WatchReads, SurfacesInv, SurfacesTypeOK, IpcTypeOK, QueueTypeOK
  <2> QED
    BY <2>1, HeadTailProperties
<1>2. /\ UNCHANGED <<queue, choice, proxy, follow, typed, posting, posted>>
      /\ inbox' = [inbox EXCEPT !["watch"] = Tail(s)]
      /\ IF asking = None THEN asking' = x /\ backlog' = backlog
                          ELSE backlog' = Append(backlog, x) /\ asking' = asking
  BY DEF WatchReads, queueVars, socketVars, forwardVars
<1>3. inbox'["watch"] = Tail(s) /\ inbox'["forward"] = inbox["forward"]
  BY <1>1, <1>2 DEF SurfacesInv, SurfacesTypeOK, IpcTypeOK
<1>4. /\ follow["watch"] \notin {"off", "other"}
      /\ follow'["forward"] \in {"off", "other"} => inbox'["forward"] = <<>> /\ posting' = {} /\ posted' = {}
  BY <1>1, <1>2, <1>3 DEF FollowersInv
<1>5. \A i : TypedOf(i)' = TypedOf(i)
  BY <1>2 DEF TypedOf
<1>6. \A i : /\ Never(i, s) => x # i /\ Never(i, Tail(s))
             /\ Once(i, s) => IF x = i THEN Never(i, Tail(s)) ELSE Once(i, Tail(s))
  BY <1>1, TailOnce
<1>7. /\ Never(x, backlog) => Once(x, Append(backlog, x))
      /\ \A i : i # x => /\ Never(i, backlog) => Never(i, Append(backlog, x))
                         /\ Once(i, backlog) => Once(i, Append(backlog, x))
  BY <1>1, AppendOnce
<1> HIDE DEF x
<1>8. ASSUME NEW i \in Ids, Fresh(i)' PROVE Nowhere(i)'
  <2>1. Nowhere(i)
    BY <1>2, <1>8 DEF FollowersInv, Fresh
  <2>2. /\ Never(i, inbox'["watch"]) /\ Never(i, backlog') /\ asking' # i
    BY <1>2, <1>3, <1>6, <1>7, <2>1 DEF Nowhere
  <2> QED
    BY <1>2, <1>3, <1>5, <2>1, <2>2 DEF Nowhere, Never
<1>9. ASSUME NEW i \in queue, follow["watch"] = "ours" PROVE Before(i)'
  <2>1. Before(i) /\ i \in Ids
    BY <1>1, <1>9 DEF FollowersInv
  <2>2. CASE x # i
    <3>1. /\ Never(i, backlog) => Never(i, backlog')
          /\ Once(i, backlog) => Once(i, backlog')
          /\ asking # i => asking' # i
      BY <1>2, <1>7, <2>2
    <3>2. asking = i => asking' = i
      BY <1>2, <2>1, SurfacesAssumption
    <3>3. /\ Never(i, s) => Never(i, inbox'["watch"])
          /\ Once(i, s) => Once(i, inbox'["watch"])
      BY <1>3, <1>6, <2>2
    <3> QED
      BY <1>5, <2>1, <3>1, <3>2, <3>3 DEF Before, Once, Never
  <2>3. CASE x = i
    <3>1. Once(i, s) /\ Never(i, backlog) /\ asking # i /\ TypedOf(i) = {}
      BY <1>6, <2>1, <2>3 DEF Before
    <3>2. Never(i, inbox'["watch"])
      BY <1>3, <1>6, <2>3, <3>1
    <3>3. \/ asking' = i /\ Never(i, backlog')
          \/ asking' # i /\ Once(i, backlog')
      BY <1>2, <1>7, <2>3, <3>1
    <3> QED
      BY <1>5, <3>1, <3>2, <3>3 DEF Before, Once, Never
  <2> QED
    BY <2>2, <2>3
<1>10. \A i \in queue : Forwarded(i) => Forwarded(i)'
  BY <1>2, <1>3 DEF Forwarded, Once, Never
<1> QED
  BY <1>2, <1>4, <1>8, <1>9, <1>10 DEF FollowersInv

(* The prompt on the screen is answered, and the next one comes up. *)
LEMMA PromptKeepsFollowers ==
  ASSUME SurfacesInv, FollowersInv, processNext
  PROVE  FollowersInv'
<1>1. PICK c \in Answers : typed' = typed \cup {[id |-> asking, choice |-> c]}
  BY DEF processNext
<1>2. /\ UNCHANGED <<queue, choice, proxy, follow, inbox, posting, posted>> /\ asking # None
      /\ IF backlog = <<>> THEN asking' = None /\ backlog' = backlog
                           ELSE asking' = Head(backlog) /\ backlog' = Tail(backlog)
  BY DEF processNext, queueVars, socketVars, forwardVars
<1>3. backlog \in Seq(Ids) /\ asking \in Ids /\ queue \subseteq Ids /\ None \notin Ids
  BY <1>2, SurfacesAssumption DEF SurfacesInv, SurfacesTypeOK, IpcTypeOK, QueueTypeOK
<1>4. \A i \in Ids : i # asking => TypedOf(i)' = TypedOf(i)
  BY <1>1 DEF TypedOf
<1>5. \A i \in Ids : /\ Never(i, backlog) => asking' # i /\ Never(i, backlog')
                     /\ Once(i, backlog) => \/ asking' = i /\ Never(i, backlog')
                                            \/ asking' # i /\ Once(i, backlog')
  <2>1. CASE backlog = <<>>
    <3>1. \A i : ~Once(i, backlog)
      BY <2>1, EmptySeq DEF Once
    <3> QED
      BY <1>2, <1>3, <2>1, <3>1
  <2>2. CASE backlog # <<>>
    <3>1. \A i : /\ Never(i, backlog) => Head(backlog) # i /\ Never(i, Tail(backlog))
                 /\ Once(i, backlog) => IF Head(backlog) = i THEN Never(i, Tail(backlog)) ELSE Once(i, Tail(backlog))
      BY <1>3, <2>2, TailOnce
    <3>2. asking' = Head(backlog) /\ backlog' = Tail(backlog)
      BY <1>2, <2>2
    <3> QED
      BY <3>1, <3>2
  <2> QED
    BY <2>1, <2>2
<1>6. ASSUME NEW i \in Ids, Fresh(i)' PROVE Nowhere(i)'
  <2>1. Nowhere(i)
    BY <1>2, <1>6 DEF FollowersInv, Fresh
  <2>2. TypedOf(i)' = {} /\ Never(i, backlog') /\ asking' # i
    BY <1>4, <1>5, <2>1 DEF Nowhere
  <2> QED
    BY <1>2, <2>1, <2>2 DEF Nowhere, Never
<1>7. ASSUME NEW i \in queue, follow["watch"] = "ours" PROVE Before(i)'
  <2>1. Before(i) /\ i \in Ids
    BY <1>3, <1>7 DEF FollowersInv
  <2>2. CASE i = asking
    <3>1. Never(i, inbox["watch"]) /\ Never(i, backlog) /\ TypedOf(i) = {}
      BY <2>1, <2>2 DEF Before
    <3>2. TypedOf(i)' = {[id |-> i, choice |-> c]}
      BY <1>1, <2>2, <3>1 DEF TypedOf
    <3>3. asking' # i /\ Never(i, backlog') /\ Never(i, inbox'["watch"])
      BY <1>2, <1>5, <2>1, <3>1
    <3> QED
      BY <3>2, <3>3 DEF Before, Never
  <2>3. CASE i # asking
    <3>1. TypedOf(i)' = TypedOf(i) /\ inbox' = inbox
      BY <1>2, <1>4, <2>1, <2>3
    <3>2. \/ Once(i, inbox["watch"]) /\ Never(i, backlog') /\ asking' # i /\ TypedOf(i) = {}
          \/ /\ Never(i, inbox["watch"]) /\ TypedOf(i) = {}
             /\ \/ asking' = i /\ Never(i, backlog')
                \/ asking' # i /\ Once(i, backlog')
          \/ /\ Never(i, inbox["watch"]) /\ Never(i, backlog') /\ asking' # i
             /\ \E d \in Answers : TypedOf(i) = {[id |-> i, choice |-> d]}
      BY <1>5, <2>1, <2>3 DEF Before
    <3> QED
      BY <3>1, <3>2 DEF Before, Once, Never
  <2> QED
    BY <2>2, <2>3
<1>8. \A i \in queue : Forwarded(i) => Forwarded(i)'
  BY <1>2 DEF Forwarded, Once, Never
<1>9. follow["watch"] \notin {"off", "other"}
  BY <1>2 DEF FollowersInv
<1> QED
  BY <1>2, <1>6, <1>7, <1>8, <1>9 DEF FollowersInv

(* `watch` leaves. *)
LEMMA LeavingKeepsFollowers ==
  ASSUME SurfacesInv, FollowersInv, WatchExits
  PROVE  FollowersInv'
<1>1. /\ UNCHANGED <<queue, choice, proxy, follow, inbox, typed, posting, posted>>
      /\ follow["watch"] = "gone" /\ asking' = None /\ backlog' = <<>> /\ None \notin Ids
  BY SurfacesAssumption DEF WatchExits, serverVars, queueVars, socketVars, followVars, forwardVars
<1>2. \A i \in Ids : Fresh(i)' => Nowhere(i)'
  <2> SUFFICES ASSUME NEW i \in Ids, Fresh(i)' PROVE Nowhere(i)'
    OBVIOUS
  <2>1. Nowhere(i)
    BY <1>1 DEF FollowersInv, Fresh
  <2>2. Never(i, backlog') /\ asking' # i /\ TypedOf(i)' = {}
    BY <1>1, <2>1, NeverInNothing DEF Nowhere, TypedOf
  <2> QED
    BY <1>1, <2>1, <2>2 DEF Nowhere, Never
<1>3. \A i \in queue : Forwarded(i) => Forwarded(i)'
  BY <1>1 DEF Forwarded, Once, Never
<1> QED
  BY <1>1, <1>2, <1>3 DEF FollowersInv

(* `forward` reads a request and posts it. *)
LEMMA PostingKeepsFollowers ==
  ASSUME SurfacesInv, FollowersInv, ForwardReads
  PROVE  FollowersInv'
<1> DEFINE s == inbox["forward"]
           x == Head(s)
<1>1. /\ "watch" \in Followers /\ "forward" \in Followers /\ s \in Seq(Ids) /\ s # <<>> /\ queue \subseteq Ids
  BY IpcAssumption DEF ForwardReads, SurfacesInv, SurfacesTypeOK, IpcTypeOK, QueueTypeOK
<1>2. /\ UNCHANGED <<queue, choice, proxy, follow, typed, backlog, asking, posted>>
      /\ inbox' = [inbox EXCEPT !["forward"] = Tail(s)] /\ posting' = posting \cup {x}
  BY DEF ForwardReads, queueVars, socketVars, watchVars
<1>3. inbox'["forward"] = Tail(s) /\ inbox'["watch"] = inbox["watch"]
  BY <1>1, <1>2 DEF SurfacesInv, SurfacesTypeOK, IpcTypeOK
<1>4. \A i : /\ Never(i, s) => x # i /\ Never(i, Tail(s))
             /\ Once(i, s) => IF x = i THEN Never(i, Tail(s)) ELSE Once(i, Tail(s))
  BY <1>1, TailOnce
<1> HIDE DEF x
<1>5. follow["forward"] \notin {"off", "other"}
  BY <1>1 DEF FollowersInv
<1>6. \A i : TypedOf(i)' = TypedOf(i)
  BY <1>2 DEF TypedOf
<1>7. ASSUME NEW i \in Ids, Fresh(i)' PROVE Nowhere(i)'
  <2>1. Nowhere(i)
    BY <1>2, <1>7 DEF FollowersInv, Fresh
  <2>2. Never(i, inbox'["forward"]) /\ i \notin posting' \cup posted'
    BY <1>2, <1>3, <1>4, <2>1 DEF Nowhere
  <2> QED
    BY <1>2, <1>3, <1>6, <2>1, <2>2 DEF Nowhere, Never
<1>8. \A i \in queue : Before(i) => Before(i)'
  BY <1>2, <1>3, <1>6 DEF Before, Once, Never
<1>9. ASSUME NEW i \in queue, Forwarded(i) PROVE Forwarded(i)'
  <2>1. CASE Once(i, s) /\ i \notin posting \cup posted
    <3>1. IF x = i THEN Never(i, inbox'["forward"]) /\ i \in posting' \cup posted'
                   ELSE Once(i, inbox'["forward"]) /\ i \notin posting' \cup posted'
      BY <1>2, <1>3, <1>4, <2>1
    <3> QED
      BY <3>1 DEF Forwarded, Once, Never
  <2>2. CASE Never(i, s) /\ i \in posting \cup posted
    <3>1. Never(i, inbox'["forward"]) /\ i \in posting' \cup posted'
      BY <1>2, <1>3, <1>4, <2>2
    <3> QED
      BY <3>1 DEF Forwarded, Never
  <2> QED
    BY <1>9, <2>1, <2>2 DEF Forwarded
<1> QED
  BY <1>2, <1>3, <1>5, <1>7, <1>8, <1>9 DEF FollowersInv

LEMMA FollowersStepKeeps ==
  ASSUME SurfacesInv, FollowersInv, [Next]_vars
  PROVE  FollowersInv'
<1> USE DEF queueVars, socketVars, followVars
<1>1. /\ "watch" \in Followers /\ "forward" \in Followers /\ Sources = {"ipc", "telegram", "timeout"}
      /\ ApprovalChoices = {"allow_once", "allow_session", "deny"}
      /\ desk.ids \subseteq Ids /\ desk.asks \subseteq Asks
  BY IpcAssumption, DeskFacts DEF Sources, ApprovalChoices, SurfacesInv
<1>2. CASE Server
  <2>1. UNCHANGED <<backlog, asking, posting, posted>>
    BY <1>2 DEF Server, Elsewhere, watchVars, forwardVars
  <2>2. ASSUME NEW i \in Ids, onApprovalResolved(i) PROVE FollowersInv'
    <3>1. UNCHANGED <<proxy, follow, inbox, typed>>
      BY <2>2 DEF onApprovalResolved
    <3>2. PICK c \in ApprovalChoices, source \in Sources : Settle(i, c, source)
      BY <1>1, <2>2 DEF onApprovalResolved, expire, respond, TimeoutChoice, TapChoices
    <3>3. /\ queue' = queue \ {i} /\ choice'[i] = c /\ c # "none"
          /\ \A j \in Ids \ {i} : choice'[j] = choice[j]
      BY <1>1, <3>2, SettleTypes DEF SurfacesInv, SurfacesTypeOK, IpcTypeOK
    <3>4. queue' \subseteq queue /\ \A j \in Ids : Fresh(j)' => Fresh(j)
      BY <3>1, <3>3 DEF Fresh
    <3> QED
      BY <2>1, <3>1, <3>4, QuietKeepsFollowers
  <2>3. ASSUME NEW n \in Asks, handleRespond(n) PROVE FollowersInv'
    <3>1. UNCHANGED <<proxy, follow, inbox, typed>> /\ ask[n] # Unused
      BY <2>3 DEF handleRespond
    <3>2. ask[n].id \in Ids /\ ask[n].choice \in ApprovalChoices
      BY <3>1, AnswerTypes, IpcAssumption DEF SurfacesInv, SurfacesTypeOK, IpcTypeOK
    <3>3. queue' \subseteq queue /\ \A j \in Ids : Fresh(j)' => Fresh(j)
      <4>1. CASE respond(ask[n].id, ask[n].choice, "ipc")
        <5>1. /\ queue' = queue \ {ask[n].id} /\ choice'[ask[n].id] = ask[n].choice
              /\ \A j \in Ids \ {ask[n].id} : choice'[j] = choice[j]
          BY <1>1, <3>2, <4>1, SettleTypes DEF respond, SurfacesInv, SurfacesTypeOK, IpcTypeOK
        <5>2. ask[n].choice # "none"
          BY <1>1, <3>2
        <5> QED
          BY <3>1, <5>1, <5>2 DEF Fresh
      <4>2. CASE UNCHANGED queueVars
        BY <3>1, <4>2 DEF Fresh
      <4> QED
        BY <2>3, <4>1, <4>2 DEF handleRespond
    <3> QED
      BY <2>1, <3>1, <3>3, QuietKeepsFollowers
  <2>4. ASSUME NEW n \in Asks, OtherRefuses(n) PROVE FollowersInv'
    <3>1. UNCHANGED <<queue, choice, proxy, follow, inbox, typed>>
      BY <2>4 DEF OtherRefuses
    <3> QED
      BY <2>1, <3>1, QuietKeepsFollowers DEF Fresh
  <2>5. ASSUME NEW f \in Followers, cleanup(f) PROVE FollowersInv'
    <3>1. /\ UNCHANGED <<queue, choice, proxy, typed>>
          /\ \A g \in Followers : \/ follow'[g] = "gone" /\ inbox'[g] = <<>>
                                  \/ follow'[g] = follow[g] /\ inbox'[g] = inbox[g]
      BY <2>5 DEF cleanup, SurfacesInv, SurfacesTypeOK, IpcTypeOK
    <3> QED
      BY <2>1, <3>1, PartingKeepsFollowers DEF Fresh
  <2>6. ASSUME SocketNext PROVE FollowersInv'
    <3>1. /\ queue' \subseteq queue /\ typed' \subseteq typed /\ choice' = choice
          /\ \/ destroy("ours") /\ typed' = {} 
             \/ destroy("other") /\ typed' = typed
             \/ UNCHANGED followVars
          /\ \A i \in Ids : Fresh(i)' => Fresh(i)
      <4>1. proxy = "down" => proxy' = "down"
        BY <2>6 DEF SocketNext, stop, Exits, Killed, RivalStarts, RivalStops
      <4>2. queue' # queue => proxy' = "down"
        BY <2>6 DEF SocketNext, stop, Exits, Killed, RivalStarts, RivalStops
      <4>3. queue' \in {queue, {}} /\ choice' = choice
        BY <2>6 DEF SocketNext, stop, Exits, Killed, RivalStarts, RivalStops, shutdown
      <4>4. \/ destroy("ours") /\ typed' = {} 
            \/ destroy("other") /\ typed' = typed
            \/ UNCHANGED followVars
        BY <2>6 DEF SocketNext, stop, Exits, Killed, RivalStarts, RivalStops
      <4> QED
        BY <4>1, <4>2, <4>3, <4>4 DEF Fresh
    <3>2. \A f \in Followers : \/ follow'[f] = "gone" /\ inbox'[f] = <<>>
                               \/ follow'[f] = follow[f] /\ inbox'[f] = inbox[f]
      BY <3>1 DEF destroy
    <3>3. follow'["watch"] = "ours" => typed' = typed
      BY <1>1, <3>1 DEF destroy
    <3> QED
      BY <2>1, <3>1, <3>2, <3>3, PartingKeepsFollowers
  <2> QED
    BY <1>1, <1>2, <2>1, <2>2, <2>3, <2>4, <2>5, <2>6, RequestKeepsFollowers, TypedKeepsFollowers,
       AdmissionKeepsFollowers DEF Server
<1>3. ASSUME NEW i \in posting, PostReturns(i) PROVE FollowersInv'
  <2>1. /\ posting' = posting \ {i} /\ posted' = posted \cup {i} /\ UNCHANGED <<backlog, asking>>
        /\ UNCHANGED serverVars \/ cleanup("forward")
    BY <1>3 DEF PostReturns, watchVars
  <2>2. UNCHANGED <<queue, choice, proxy, typed>>
    BY <2>1 DEF serverVars, cleanup
  <2>3. \A g \in Followers : \/ follow'[g] = "gone" /\ inbox'[g] = <<>>
                             \/ follow'[g] = follow[g] /\ inbox'[g] = inbox[g]
    BY <2>1 DEF serverVars, cleanup, SurfacesInv, SurfacesTypeOK, IpcTypeOK
  <2>4. follow["forward"] \notin {"off", "other"} /\ posting' \cup posted' = posting \cup posted
    BY <2>1 DEF FollowersInv
  <2> QED
    BY <2>1, <2>2, <2>3, <2>4, PartingKeepsFollowers DEF Fresh
<1>4. CASE Following
  BY <1>3, <1>4, ReadingKeepsFollowers, PromptKeepsFollowers, LeavingKeepsFollowers, PostingKeepsFollowers
     DEF Following, watchCommand, approvalsForwardCommand
<1>5. CASE UNCHANGED <<serverVars, watchVars, forwardVars>>
  <2>1. UNCHANGED <<queue, choice, proxy, follow, inbox, backlog, asking, typed, posting, posted>>
    BY <1>5 DEF serverVars, watchVars, forwardVars
  <2> QED
    BY <2>1, QuietKeepsFollowers DEF Fresh
<1>6. CASE Answering
  <2>1. UNCHANGED <<queue, choice, proxy, follow, inbox, backlog, asking, typed, posting, posted>>
    BY <1>6 DEF Answering, TimesOut, Elsewhere, onResolve, approvalsRespondCommand, act, AskOnce, watchVars, forwardVars
  <2> QED
    BY <2>1, QuietKeepsFollowers DEF Fresh
<1>7. Polling \/ Chatting \/ SettingUp \/ UNCHANGED vars => UNCHANGED <<serverVars, watchVars, forwardVars>>
  BY DEF Polling, Ticks, Listing, PollStarts, listPending, PollArrives, PollIsLost, Chatting, SettingUp, surfaceVars, vars
<1> QED
  BY <1>2, <1>4, <1>5, <1>6, <1>7 DEF Next

(* What occurs once is counted once. *)
LEMMA Counting ==
  ASSUME NEW s, NEW i
  PROVE  /\ Once(i, s) => Occurrences(i, s) = 1
         /\ Never(i, s) => Occurrences(i, s) = 0
<1>1. ASSUME Once(i, s) PROVE Occurrences(i, s) = 1
  <2>1. PICK k \in DOMAIN s : s[k] = i /\ \A j \in DOMAIN s : s[j] = i => j = k
    BY <1>1 DEF Once
  <2>2. {j \in DOMAIN s : s[j] = i} = {k}
    BY <2>1
  <2> QED
    BY <2>2, FS_Singleton DEF Occurrences
<1>2. ASSUME Never(i, s) PROVE Occurrences(i, s) = 0
  <2>1. {j \in DOMAIN s : s[j] = i} = {}
    BY <1>2 DEF Never
  <2> QED
    BY <2>1, FS_EmptySet DEF Occurrences
<1> QED
  BY <1>1, <1>2

LEMMA JoinOnce ==
  ASSUME NEW s \in Seq(Ids), NEW t \in Seq(Ids), NEW i
  PROVE  /\ Never(i, s) /\ Never(i, t) => Never(i, s \o t)
         /\ Once(i, s) /\ Never(i, t) => Once(i, s \o t)
         /\ Never(i, s) /\ Once(i, t) => Once(i, s \o t)
<1>1. /\ Len(s) \in Nat /\ Len(t) \in Nat /\ DOMAIN s = 1..Len(s) /\ DOMAIN t = 1..Len(t)
      /\ DOMAIN (s \o t) = 1..(Len(s) + Len(t))
      /\ \A k \in 1..(Len(s) + Len(t)) : (s \o t)[k] = IF k <= Len(s) THEN s[k] ELSE t[k - Len(s)]
  BY ConcatProperties, LenProperties
<1>2. /\ \A k \in DOMAIN s : k \in DOMAIN (s \o t) /\ (s \o t)[k] = s[k]
      /\ \A k \in DOMAIN t : Len(s) + k \in DOMAIN (s \o t) /\ (s \o t)[Len(s) + k] = t[k]
      /\ \A k \in DOMAIN (s \o t) : \/ k \in DOMAIN s
                                    \/ k - Len(s) \in DOMAIN t /\ k = Len(s) + (k - Len(s))
  <2>1. \A k \in DOMAIN s : k \in DOMAIN (s \o t) /\ (s \o t)[k] = s[k]
    BY <1>1
  <2>2. \A k \in DOMAIN t : /\ Len(s) + k \in DOMAIN (s \o t) /\ ~(Len(s) + k <= Len(s))
                            /\ (Len(s) + k) - Len(s) = k
    BY <1>1
  <2>3. \A k \in DOMAIN (s \o t) : \/ k \in DOMAIN s
                                   \/ k - Len(s) \in DOMAIN t /\ k = Len(s) + (k - Len(s))
    BY <1>1
  <2> QED
    BY <1>1, <2>1, <2>2, <2>3
<1>3. ASSUME Never(i, s), Never(i, t) PROVE Never(i, s \o t)
  <2> SUFFICES ASSUME NEW k \in DOMAIN (s \o t) PROVE (s \o t)[k] # i
    BY DEF Never
  <2> QED
    BY <1>2, <1>3 DEF Never
<1>4. ASSUME Once(i, s), Never(i, t) PROVE Once(i, s \o t)
  <2>1. PICK k \in DOMAIN s : s[k] = i /\ \A j \in DOMAIN s : s[j] = i => j = k
    BY <1>4 DEF Once
  <2>2. ASSUME NEW j \in DOMAIN (s \o t), (s \o t)[j] = i PROVE j = k
    BY <1>2, <1>4, <2>1, <2>2 DEF Never
  <2> QED
    BY <1>2, <2>1, <2>2 DEF Once
<1>5. ASSUME Never(i, s), Once(i, t) PROVE Once(i, s \o t)
  <2>1. PICK k \in DOMAIN t : t[k] = i /\ \A j \in DOMAIN t : t[j] = i => j = k
    BY <1>5 DEF Once
  <2>2. ASSUME NEW j \in DOMAIN (s \o t), (s \o t)[j] = i PROVE j = Len(s) + k
    <3>1. j \notin DOMAIN s
      BY <1>2, <1>5, <2>2 DEF Never
    <3>2. j - Len(s) \in DOMAIN t /\ j = Len(s) + (j - Len(s))
      BY <1>2, <2>2, <3>1
    <3>3. t[j - Len(s)] = i
      BY <1>2, <2>2, <3>2
    <3> QED
      BY <2>1, <3>2, <3>3
  <2> QED
    BY <1>2, <2>1, <2>2 DEF Once
<1> QED
  BY <1>3, <1>4, <1>5

(* As long as a follower is connected to the proxy, each approval that waits *)
(* is before its operator exactly once, whenever it was requested.           *)
THEOREM NothingIsMissed == Spec => []FollowersMissNothing
<1>1. Init => FollowersInv
  <2> SUFFICES ASSUME Init PROVE FollowersInv
    OBVIOUS
  <2>1. /\ queue = {} /\ backlog = <<>> /\ asking = None /\ typed = {} /\ posting = {} /\ posted = {}
        /\ "watch" \in Followers /\ "forward" \in Followers /\ inbox = [f \in Followers |-> <<>>] /\ None \notin Ids
    BY IpcAssumption, SurfacesAssumption DEF Init, SurfacesInit, IpcInit, QueueInit
  <2>2. \A i \in Ids : Nowhere(i)
    BY <2>1, NeverInNothing DEF Nowhere, TypedOf
  <2> QED
    BY <2>1, <2>2 DEF FollowersInv
<1>2. SurfacesInv /\ FollowersInv /\ [Next]_vars => FollowersInv'
  BY FollowersStepKeeps
<1>3. SurfacesInv /\ FollowersInv => FollowersMissNothing
  <2> SUFFICES ASSUME SurfacesInv, FollowersInv, NEW i \in queue
               PROVE  /\ follow["watch"] = "ours" =>
                           Occurrences(i, inbox["watch"] \o backlog)
                             + (IF asking = i THEN 1 ELSE 0) + Cardinality({a \in typed : a.id = i}) = 1
                      /\ follow["forward"] = "ours" =>
                           Occurrences(i, inbox["forward"]) + Cardinality({i} \cap (posting \cup posted)) = 1
    BY DEF FollowersMissNothing
  <2>1. inbox["watch"] \in Seq(Ids) /\ backlog \in Seq(Ids) /\ i \in Ids
    BY IpcAssumption DEF SurfacesInv, SurfacesTypeOK, IpcTypeOK, QueueTypeOK
  <2>2. ASSUME Before(i)
        PROVE  Occurrences(i, inbox["watch"] \o backlog)
                 + (IF asking = i THEN 1 ELSE 0) + Cardinality({a \in typed : a.id = i}) = 1
    <3>1. /\ Cardinality({}) = 0 /\ \A x : Cardinality({x}) = 1
          /\ TypedOf(i) = {a \in typed : a.id = i}
      BY FS_EmptySet, FS_Singleton DEF TypedOf
    <3>2. /\ Never(i, inbox["watch"]) /\ Never(i, backlog) => Occurrences(i, inbox["watch"] \o backlog) = 0
          /\ Once(i, inbox["watch"]) /\ Never(i, backlog) => Occurrences(i, inbox["watch"] \o backlog) = 1
          /\ Never(i, inbox["watch"]) /\ Once(i, backlog) => Occurrences(i, inbox["watch"] \o backlog) = 1
      BY <2>1, JoinOnce, Counting
    <3>3. \/ Occurrences(i, inbox["watch"] \o backlog) = 1 /\ asking # i /\ Cardinality(TypedOf(i)) = 0
          \/ Occurrences(i, inbox["watch"] \o backlog) = 0 /\ asking = i /\ Cardinality(TypedOf(i)) = 0
          \/ Occurrences(i, inbox["watch"] \o backlog) = 0 /\ asking # i /\ Cardinality(TypedOf(i)) = 1
      BY <2>2, <3>1, <3>2, Zenon DEF Before
    <3> QED
      BY <3>1, <3>3
  <2>3. ASSUME Forwarded(i)
        PROVE  Occurrences(i, inbox["forward"]) + Cardinality({i} \cap (posting \cup posted)) = 1
    <3>1. CASE Once(i, inbox["forward"]) /\ i \notin posting \cup posted
      <4>1. {i} \cap (posting \cup posted) = {}
        BY <3>1
      <4> QED
        BY <3>1, <4>1, Counting, FS_EmptySet
    <3>2. CASE Never(i, inbox["forward"]) /\ i \in posting \cup posted
      <4>1. {i} \cap (posting \cup posted) = {i}
        BY <3>2
      <4> QED
        BY <3>2, <4>1, Counting, FS_Singleton
    <3> QED
      BY <2>3, <3>1, <3>2 DEF Forwarded
  <2> QED
    BY <2>2, <2>3 DEF FollowersInv
<1> QED
  BY <1>1, <1>2, <1>3, SurfacesHold, PTL DEF Spec

===============================================================================
