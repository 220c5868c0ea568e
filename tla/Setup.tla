--------------------------------- MODULE Setup ---------------------------------
(***************************************************************************)
(* The commands that move tool servers from the assistant's config file to *)
(* the proxy's (install/openclaw.ts, downstream-add/installer.ts).  Each   *)
(* reads the files, then rewrites them in place one after the other; the   *)
(* commands of two terminals interleave, and a command may be killed       *)
(* between two writes or within one.                                       *)
(*                                                                         *)
(* Each backup has a name of its own: the names bear the second, and no    *)
(* two installs fall into one.  The backups that add and remove make of    *)
(* config.yaml are left out; no command reads them.                        *)
(***************************************************************************)
EXTENDS Naturals, Sequences, SequencesExt

CONSTANTS
  Names,         (* names of stdio servers                          *)
  Terminals,     (* where commands are run                          *)
  MaxBackups,    (* bound: backups made                             *)
  MaxKills       (* bound: commands killed                          *)

ASSUME SetupAssumption == MaxBackups \in Nat /\ MaxKills \in Nat

VARIABLES
  assistant,   (* openclaw.json: its stdio servers, and whether the proxy's *)
               (* entry is in it                                            *)
  config,      (* config.yaml: the entries of mcp_servers                   *)
  backups,     (* of the assistant's file, oldest first                     *)
  job,         (* the command of each terminal and what it has still to do  *)
  migrated,    (* history: the servers an install took from the assistant   *)
  kills

setupVars == <<assistant, config, backups, job, migrated, kills>>

File == [readable : BOOLEAN, servers : SUBSET Names, ours : BOOLEAN]
Torn == [readable |-> FALSE, servers |-> {}, ours |-> FALSE]
Installed == [readable |-> TRUE, servers |-> {}, ours |-> TRUE]

(* An entry under its server's name or with the prefix openclaw_, as defined *)
(* by the assistant or by the operator.                                      *)
Entry == [name : Names, prefixed : BOOLEAN, by : {"assistant", "operator"}]

NoJob == [todo |-> <<>>, servers |-> {}, config |-> {}]
Steps == {"backup", "assistant", "config"}

SetupTypeOK ==
  /\ assistant \in File
  /\ config \subseteq Entry
  /\ \A e, f \in config : e.name = f.name /\ e.prefixed = f.prefixed => e = f
  /\ backups \in Seq(File) /\ Len(backups) <= MaxBackups
  /\ job \in [Terminals -> [todo : Seq(Steps), servers : SUBSET Names, config : SUBSET Entry]]
  /\ migrated \subseteq Names /\ kills \in 0..MaxKills

SetupInit ==
  /\ assistant = [readable |-> TRUE, servers |-> {}, ours |-> FALSE]
  /\ config = {}
  /\ backups = <<>> /\ job = [t \in Terminals |-> NoJob]
  /\ migrated = {} /\ kills = 0

Named(entries, n) == \E e \in entries : e.name = n /\ ~e.prefixed

(* Faulty variant: an entry of the name is kept beside the new one. *)
PutBeside(entries, e) == entries \cup {e}

Put(entries, e) == {f \in entries : f.name # e.name \/ f.prefixed # e.prefixed} \cup {e}

(* A server whose name is taken is entered under openclaw_ and its name. *)
mergeIntoAgentGuardConfig(entries, servers) ==
  LET moved == {[name |-> n, prefixed |-> Named(entries, n), by |-> "assistant"] : n \in servers}
  IN  {f \in entries : \A e \in moved : f.name # e.name \/ f.prefixed # e.prefixed} \cup moved

Begins(t, todo, servers, entries) ==
  /\ job[t] = NoJob
  /\ job' = [job EXCEPT ![t] = [todo |-> todo, servers |-> servers, config |-> entries]]
  /\ UNCHANGED <<assistant, config, backups, migrated, kills>>

(* Faulty variant: the backup is made of what the install has written. *)
installWritingFirst(t) ==
  /\ assistant.readable /\ Len(backups) < MaxBackups
  /\ Begins(t, <<"assistant", "backup", "config">>, assistant.servers,
            mergeIntoAgentGuardConfig(config, assistant.servers))

(* Over an installed assistant only with --force.  What is to be written is *)
(* computed from the files as read now.                                     *)
installOpenclaw(t) ==
  /\ assistant.readable /\ Len(backups) < MaxBackups
  /\ Begins(t, <<"backup", "assistant", "config">>, assistant.servers,
            mergeIntoAgentGuardConfig(config, assistant.servers))

(* Adds a server, or with --force replaces one; or removes one. *)
addDownstreamServer(t) ==
  \E n \in Names :
    Begins(t, <<"config">>, {}, Put(config, [name |-> n, prefixed |-> FALSE, by |-> "operator"]))

removeDownstreamServer(t) == \E e \in config : Begins(t, <<"config">>, {}, config \ {e})

backupConfig == Len(backups) < MaxBackups /\ backups' = Append(backups, assistant)

findLatestBackup == Last(backups)

(* The next write of a command. *)
Writes(t) ==
  LET j == job[t]
  IN  /\ j.todo # <<>>
      /\ job' = [job EXCEPT ![t] = IF Len(j.todo) = 1 THEN NoJob ELSE [j EXCEPT !.todo = Tail(@)]]
      /\ CASE Head(j.todo) = "backup" ->
                backupConfig /\ UNCHANGED <<assistant, config, migrated>>
           [] Head(j.todo) = "assistant" ->
                /\ assistant' = Installed
                /\ migrated' = migrated \cup j.servers
                /\ UNCHANGED <<config, backups>>
           [] Head(j.todo) = "config" ->
                config' = j.config /\ UNCHANGED <<assistant, backups, migrated>>
      /\ UNCHANGED kills

(* A command is killed before its next write, or in it: the file is cut off. *)
(* A config.yaml cut where it still parses has lost entries; one that does   *)
(* not parse stops every later command, and is left out.                     *)
IsKilled(t) ==
  LET j == job[t]
  IN  /\ j.todo # <<>> /\ kills < MaxKills
      /\ kills' = kills + 1
      /\ job' = [job EXCEPT ![t] = NoJob]
      /\ \/ UNCHANGED <<assistant, config, backups, migrated>>
         \/ /\ Head(j.todo) = "assistant"
            /\ assistant' = Torn /\ migrated' = migrated \cup j.servers
            /\ UNCHANGED <<config, backups>>
         \/ /\ Head(j.todo) = "config"
            /\ \E left \in SUBSET j.config : config' = left
            /\ UNCHANGED <<assistant, backups, migrated>>

(* The latest backup is restored; config.yaml stays as it is.  Not while a  *)
(* command is running.                                                      *)
uninstallOpenclaw ==
  /\ backups # <<>> /\ \A t \in Terminals : job[t] = NoJob
  /\ assistant' = findLatestBackup
  /\ UNCHANGED <<config, backups, job, migrated, kills>>

(* The assistant is given a server of its own, while no command is running. *)
AssistantGains ==
  /\ assistant.readable /\ \A t \in Terminals : job[t] = NoJob
  /\ \E n \in Names : assistant' = [assistant EXCEPT !.servers = @ \cup {n}]
  /\ UNCHANGED <<config, backups, job, migrated, kills>>

SetupNext ==
  \/ \E t \in Terminals :
       \/ installOpenclaw(t) \/ addDownstreamServer(t) \/ removeDownstreamServer(t)
       \/ Writes(t) \/ IsKilled(t)
  \/ uninstallOpenclaw \/ AssistantGains

-----------------------------------------------------------------------------
(* Whatever the order of the commands' writes, and wherever one was killed,  *)
(* a server an install took from the assistant is still in the assistant's   *)
(* file, in config.yaml, or in a backup of the assistant's file, even if its *)
(* name collided or the other terminal overwrote config.yaml with what it    *)
(* had read before (openclaw.ts, installOpenclaw).                           *)
ServersSurvive ==
  \A n \in migrated :
    \/ n \in assistant.servers
    \/ \E e \in config : e.name = n /\ e.by = "assistant"
    \/ \E k \in DOMAIN backups : n \in backups[k].servers
=============================================================================
