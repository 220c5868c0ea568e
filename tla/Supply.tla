-------------------------------- MODULE Supply --------------------------------
(***************************************************************************)
(* The supply of tools as the start command wires it (cli/commands/        *)
(* start.ts): the downstream manager, and the threat engine that scans its *)
(* listing at boot and after every periodic refresh.  The process may be   *)
(* killed at any moment, in the middle of a scan too, and started again.   *)
(***************************************************************************)
EXTENDS DownstreamManager, ThreatEngine

VARIABLES
  up,          (* the proxy process runs                                        *)
  seen,        (* history: definitions of a key this session knows of           *)
  ever,        (* history: definitions of a key any scan has looked at          *)
  reported,    (* history: keys some scan found something on                    *)
  forgetful    (* history: a write of the snapshot file failed or was torn, or  *)
               (* a scan was killed after it found something                    *)

history == <<seen, ever, reported, forgetful>>
supplyVars == <<managerVars, flags, snaps, disk, up, history>>

SupplyTypeOK ==
  /\ ManagerTypeOK
  /\ ThreatTypeOK
  /\ up \in BOOLEAN
  /\ seen \in [Keys -> SUBSET Defs] /\ ever \in [Keys -> SUBSET Defs]
  /\ reported \subseteq Keys
  /\ forgetful \in BOOLEAN

Init ==
  /\ ManagerInit
  /\ up = FALSE
  /\ flags = [k \in Keys |-> {}]
  /\ snaps = [k \in Keys |-> Unseen] /\ disk = snaps
  /\ seen = [k \in Keys |-> {}] /\ ever = [k \in Keys |-> {}]
  /\ reported = {} /\ forgetful = FALSE

(* What scanTools is given: the listing by key. *)
Listing(idx) ==
  [k \in {<<rec.server, rec.tool>> : rec \in idx} |->
     (CHOOSE rec \in idx : <<rec.server, rec.tool>> = k).def]

Noted(old, listing, keys) ==
  [k \in Keys |-> old[k] \cup IF k \in keys THEN {listing[k]} ELSE {}]

(* The scan of the whole listing, after which every write has succeeded or,  *)
(* counted as one fault more than `spent`, none has.                         *)
Scan(listing, spent) ==
  /\ \/ scanTools(listing, Recorded(listing)) /\ faults' = spent /\ UNCHANGED forgetful
     \/ scanTools(listing, {}) /\ faults' = spent + 1 /\ forgetful' = TRUE
  /\ faults' <= MaxFaults
  /\ seen' = Noted(seen, listing, DOMAIN listing)
  /\ ever' = Noted(ever, listing, DOMAIN listing)
  /\ reported' = reported \cup {k \in DOMAIN listing : ScanFindings(k, listing[k]) # {}}

(* The constructor of the snapshot store has loaded the file by the time    *)
(* the servers are up; a first scan follows before any agent is served.     *)
StartCommand ==
  /\ ~up
  /\ up' = TRUE
  /\ \E ok \in SUBSET Servers :
       start(ok) /\ Scan(Listing(index'), faults + Cardinality(Servers \ ok))

(* One tick of the rescan timer ends: the refreshed listing is scanned in   *)
(* the same turn of the event loop.                                         *)
Rescan ==
  /\ up
  /\ RefreshCompletes
  /\ Scan(Listing(index'), faults)
  /\ UNCHANGED up

Dies ==
  /\ up
  /\ up' = FALSE
  /\ Fault
  /\ Gone
  /\ load(disk')
  /\ seen' = [k \in Keys |-> {disk'[k]} \ {Unseen}]

Crash ==
  /\ UNCHANGED disk
  /\ Dies
  /\ UNCHANGED <<ever, reported, forgetful>>

(* Killed in a scan, before it reports: the tools done are on file already, *)
(* or their last write was torn.                                            *)
CrashInScan ==
  /\ RefreshIsDone
  /\ LET listing == Listing(rebuildToolIndex(child, clients))
     IN  \E done \in (SUBSET Recorded(listing)) \ {{}} :
           /\ ever' = Noted(ever, listing, done)
           /\ \/ /\ saved(listing, done)
                 /\ forgetful' = (forgetful \/ \E k \in done : ScanFindings(k, listing[k]) # {})
              \/ disk' = [k \in Keys |-> Unseen] /\ forgetful' = TRUE
  /\ UNCHANGED reported
  /\ Dies

-----------------------------------------------------------------------------
World ==
  \/ \E p \in Slots : ChildDies(p)
  \/ \E s \in Servers : BackoffElapses(s) \/ ForwardFails(s)

Refreshing ==
  \/ RefreshBegins
  \/ \E s \in Servers, p \in Slots : RefreshAnswers(s, p) \/ RefreshFails(s, p)

(* What the threat engine and the histories do not notice. *)
ThreatAside == UNCHANGED <<flags, snaps, disk, up, history>>

RespawnStep ==
  /\ up
  /\ \E r \in respawns : FreshIsUp(r) \/ FreshFails(r) \/ FreshIsInstalled(r)
  /\ ThreatAside

Next ==
  \/ StartCommand
  \/ Rescan
  \/ Crash
  \/ CrashInScan
  \/ up /\ (World \/ Refreshing) /\ ThreatAside
  \/ RespawnStep

Spec == Init /\ [][Next]_supplyVars

(* The rescan timer ticks and its requests are answered or time out, backoff *)
(* delays elapse, and a respawn that does not fail makes progress.           *)
Fairness ==
  /\ WF_supplyVars(Rescan \/ (up /\ Refreshing /\ ThreatAside))
  /\ WF_supplyVars(up /\ (\E s \in Servers : BackoffElapses(s)) /\ ThreatAside)
  /\ WF_supplyVars(RespawnStep)

FairSpec == Spec /\ Fairness

-----------------------------------------------------------------------------
(* A server the proxy once had stays listed through its death, failed       *)
(* refreshes and overlapping respawns: "a stale-but-known catalog beats an  *)
(* empty one" (manager.ts, refresh and restartServer).                      *)
ServersStayListed ==
  \A s \in Servers : clients[s] # NoSlot => \E rec \in index : rec.server = s

(* The configuration gives both servers one prefix; nothing rejects that. *)
ConfiguredAlike(s, r) ==
  \/ Namespace[s] # None /\ Namespace[s] = Namespace[r]
  \/ Namespace[s] = r \/ Namespace[r] = s

OneOwner(idx) ==
  \A a, b \in idx :
    a.prefix = b.prefix /\ a.tool = b.tool
      => a = b \/ (a.server # b.server /\ ConfiguredAlike(a.server, b.server))

(* However the servers' lists come to overlap, through refreshes and         *)
(* respawns, a public name has one owner, with or without configured         *)
(* prefixes, unless the configuration itself gives the two servers the same  *)
(* prefix, by one namespace twice or one that is another server's name:      *)
(* findTool then answers with the last (manager.ts, rebuildToolIndex).       *)
NamesAreUnique == OneOwner(index)

(* The catalogue outlives deaths, failures and overlapping respawns, and no  *)
(* sequence of them gives a public name a second owner (manager.ts, refresh, *)
(* restartServer and rebuildToolIndex).                                      *)
CatalogueSurvives == ServersStayListed /\ NamesAreUnique

(* A running child that neither the manager nor a respawn refers to is one   *)
(* that overlapping respawns of its server displaced or one whose first      *)
(* listing failed, at boot or in a respawn: no other order of events leaks a *)
(* process (manager.ts, start and restartServer; client.ts, start).          *)
NoOtherStrays ==
  \A p \in Slots :
    (/\ child[p].process
     /\ \A s \in Servers : clients[s] # p
     /\ \A r \in respawns : p \notin {r.old, r.fresh})
    => p \in strays

(* Once a session has seen two definitions of a tool, the recorded one      *)
(* included, every later call of the tool gets a threat decision, however   *)
(* clean its later scans (engine.ts, toolFlags).                            *)
DriftIsCaught ==
  Mode["rug_pull"] # "off" =>
    \A k \in Keys :
      up /\ Cardinality(seen[k]) > 1 => checkCall(k, {}) # NoDecision

(* Over any number of runs, and whatever moment each was killed at, a tool  *)
(* whose definition changed was reported by some scan, unless a write of    *)
(* the snapshot file failed or was torn, or a scan was killed between       *)
(* recording a change and reporting it (snapshots.ts, checkAndRecord).      *)
NoSilentDrift ==
  Mode["rug_pull"] # "off" =>
    \A k \in Keys : Cardinality(ever[k]) > 1 /\ ~forgetful => k \in reported

(* While the proxy runs, a scan adds to a tool's flags and removes nothing: *)
(* "Re-scans add, never remove" (architecture.md, engine.ts).               *)
FlagsOnlyGrow == [][up /\ up' => \A k \in Keys : flags[k] \subseteq flags'[k]]_supplyVars

Serving(s) == clients[s] # NoSlot /\ child[clients[s]].stage = "ready" /\ child[clients[s]].process

(* A server that came up once and died is served again after a later        *)
(* refresh: neither backoff nor respawns in flight keep it down for ever    *)
(* (manager.ts, refresh and restartServer).                                 *)
DeadServerComesBack ==
  \A s \in Servers :
    (up /\ clients[s] # NoSlot /\ ~Serving(s)) ~> (Serving(s) \/ ~up)
=============================================================================
