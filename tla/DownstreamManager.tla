-------------------------- MODULE DownstreamManager --------------------------
(***************************************************************************)
(* The child MCP servers (downstream/manager.ts, downstream/client.ts):    *)
(* spawning, the cached tool lists and the public index built from them,   *)
(* the periodic refresh, and respawns, which any failed call or refresh    *)
(* starts in the background and nothing keeps from overlapping.            *)
(*                                                                         *)
(* A client is a slot of `child`: it owns one spawn of its server.         *)
(***************************************************************************)
EXTENDS Catalogue

CONSTANTS
  Namespace,   (* the configured prefix of a server, None when unset          *)
  Offers,      (* the tool lists each server's program may answer with        *)
  MaxSlots,    (* bound: client objects at one time                           *)
  MaxFaults    (* bound: child deaths, refused spawns and calls that fail     *)

NoSlot == 0   (* the manager has no client for a server *)
Slots == 1..MaxSlots

ASSUME DownstreamAssumption ==
  /\ Offers \in [Servers -> SUBSET ToolList]
  /\ MaxSlots \in Nat /\ MaxFaults \in Nat
  (* the servers are finitely many, and each has room for its first client *)
  /\ IsFiniteSet(Servers)
  /\ \E f \in [Servers -> Slots] : \A s, r \in Servers : s # r => f[s] # f[r]

VARIABLES
  child,       (* the client in each slot: its server, stage, process, tools  *)
  clients,     (* the manager's client of each server                         *)
  cooling,     (* servers whose next respawn attempt is still backed off      *)
  respawns,    (* restartServer calls in flight                               *)
  index,       (* the public tool list: prefix, tool, server, definition      *)
  refreshing,  (* a refresh() is in flight                                    *)
  asked,       (* its refreshTools calls still unanswered: server and client  *)
  faults,      (* faults so far                                               *)
  strays       (* history: slots a later respawn replaced without stopping,   *)
               (* or whose start failed with the process already running      *)

managerVars ==
  <<child, clients, cooling, respawns, index, refreshing, asked, faults, strays>>

Stages == {"free", "starting", "ready", "closing"}
Client == [of : Servers \cup {None}, stage : Stages, process : BOOLEAN, tools : ToolList]
Free == [of |-> None, stage |-> "free", process |-> FALSE, tools |-> NoTools]
Spawned(s) == [of |-> s, stage |-> "starting", process |-> TRUE, tools |-> NoTools]
Started(s, list) == [of |-> s, stage |-> "ready", process |-> TRUE, tools |-> list]

Respawn == [server : Servers, old : Slots \cup {NoSlot}, fresh : Slots,
            by : {"refresh", "forward"}]
AggregatedTool ==
  [prefix : {Namespace[s] : s \in Servers} \cup Servers \cup {None},
   tool : Tools, server : Servers, def : Defs]

ManagerTypeOK ==
  /\ child \in [Slots -> Client]
  /\ clients \in [Servers -> Slots \cup {NoSlot}]
  /\ cooling \subseteq Servers
  /\ respawns \subseteq Respawn
  /\ index \subseteq AggregatedTool
  /\ refreshing \in BOOLEAN
  /\ asked \subseteq Servers \X Slots
  /\ faults \in 0..MaxFaults
  /\ strays \subseteq Slots
  /\ \A s \in Servers : clients[s] # NoSlot => child[clients[s]].of = s
  /\ \A r \in respawns : child[r.fresh].of = r.server

-----------------------------------------------------------------------------
(* The index. *)

listTools(c, cs) == [s \in Servers |-> IF cs[s] = NoSlot THEN NoTools ELSE c[cs[s]].tools]

Hosts(lists, t) == {s \in Servers : t \in DOMAIN lists[s]}

(* A configured prefix; else the server's own name once any of its tools is *)
(* also another's; else none.                                               *)
PrefixOf(lists, s) ==
  IF Namespace[s] # None THEN Namespace[s]
  ELSE IF \E t \in DOMAIN lists[s] : Cardinality(Hosts(lists, t)) > 1 THEN s
  ELSE None

(* Faulty variant: entries of the last build stay on the index. *)
rebuildWithoutClearing(c, cs) ==
  LET lists == listTools(c, cs)
  IN  index \cup
        UNION {{[prefix |-> PrefixOf(lists, s), tool |-> t, server |-> s, def |-> lists[s][t]] :
                   t \in DOMAIN lists[s]} : s \in Servers}

rebuildToolIndex(c, cs) ==
  LET lists == listTools(c, cs)
  IN  UNION {{[prefix |-> PrefixOf(lists, s), tool |-> t, server |-> s, def |-> lists[s][t]] :
                 t \in DOMAIN lists[s]} : s \in Servers}

-----------------------------------------------------------------------------
(* Slots and the world outside. *)

(* A slot is free again when its process is gone and no code refers to it. *)
Reusable(p) ==
  /\ child[p].stage = "free"
  /\ \A s \in Servers : clients[s] # p /\ <<s, p>> \notin asked
  /\ \A r \in respawns : p \notin {r.old, r.fresh}

NextSlot == CHOOSE p \in Slots : Reusable(p) /\ \A q \in Slots : Reusable(q) => p <= q

Fault == faults < MaxFaults /\ faults' = faults + 1

(* The process exits.  No handler watches for it: the client stays "alive" *)
(* until a request to it fails.                                            *)
ChildDies(p) ==
  /\ child[p].process
  /\ Fault
  /\ child' = [child EXCEPT ![p].process = FALSE]
  /\ UNCHANGED <<clients, cooling, respawns, index, refreshing, asked, strays>>

BackoffElapses(s) ==
  /\ s \in cooling
  /\ cooling' = cooling \ {s}
  /\ UNCHANGED <<child, clients, respawns, index, refreshing, asked, faults, strays>>

-----------------------------------------------------------------------------
(* Respawns. *)

(* restartServer up to its first await.  Nothing asks whether a respawn of  *)
(* this server is already under way.                                        *)
restartServer(s, by) ==
  IF s \in cooling
  THEN UNCHANGED <<child, respawns>>
  ELSE /\ \E p \in Slots : Reusable(p)
       /\ child' = [child EXCEPT ![NextSlot] = Spawned(s)]
       /\ respawns' = respawns \cup
            {[server |-> s, old |-> clients[s], fresh |-> NextSlot, by |-> by]}

(* A forwarded call fails: the client was stopped, its process is gone, or  *)
(* a live server answers with an error.                                     *)
ForwardFails(s) ==
  /\ clients[s] # NoSlot
  /\ \E rec \in index : rec.server = s
  /\ s \notin cooling
  /\ Fault
  /\ restartServer(s, "forward")
  /\ UNCHANGED <<clients, cooling, index, refreshing, asked, strays>>

(* The fresh client has its tool list; the old one is told to stop, and no  *)
(* call gets through to it from here on.                                    *)
FreshIsUp(r) ==
  /\ child[r.fresh].stage = "starting" /\ child[r.fresh].process
  /\ \E list \in Offers[r.server] :
       child' = [p \in Slots |->
         IF p = r.fresh THEN Started(r.server, list)
         ELSE IF p = r.old /\ child[p].stage = "ready"
         THEN [child[p] EXCEPT !.stage = "closing"]
         ELSE child[p]]
  /\ UNCHANGED <<clients, cooling, respawns, index, refreshing, asked, faults, strays>>

(* The old client is closed and the fresh one takes its place, whichever    *)
(* client has the place by now.                                             *)
Install(r, stopped) ==
  /\ child[r.fresh].stage = "ready"
  /\ child' = stopped
  /\ clients' = [clients EXCEPT ![r.server] = r.fresh]
  /\ cooling' = cooling \ {r.server}
  /\ respawns' = respawns \ {r}
  /\ index' = rebuildToolIndex(child', clients')
  /\ strays' = (strays \cup {clients[r.server]}) \ {r.old, r.fresh, NoSlot}
  /\ UNCHANGED <<refreshing, asked, faults>>

(* Faulty variant: the replaced client is dropped without being stopped. *)
FreshIsInstalledOldKept(r) == Install(r, child)

FreshIsInstalled(r) ==
  Install(r, [p \in Slots |-> IF p = r.old THEN Free ELSE child[p]])

(* The start fails: a refused handshake takes the process with it, a failed *)
(* first listing leaves it running.                                         *)
StartFails(r, otherwise) ==
  /\ child[r.fresh].stage = "starting"
  /\ \/ /\ child[r.fresh].process
        /\ Fault
        /\ strays' = strays \cup {r.fresh}
        /\ child' = otherwise
     \/ /\ IF child[r.fresh].process THEN Fault ELSE UNCHANGED faults
        /\ child' = [otherwise EXCEPT ![r.fresh] = Free]
        /\ UNCHANGED strays
  /\ cooling' = cooling \cup {r.server}
  /\ respawns' = respawns \ {r}
  /\ UNCHANGED <<index, refreshing, asked>>

(* Faulty variants: the old client is stopped, and forgets its tools, before *)
(* its replacement is known to be up; or it loses its place.                 *)
FreshFailsStoppingOld(r) ==
  /\ StartFails(r, [p \in Slots |-> IF p = r.old THEN Free ELSE child[p]])
  /\ UNCHANGED clients

FreshFailsForgettingOld(r) ==
  /\ StartFails(r, child)
  /\ clients' = [clients EXCEPT ![r.server] = NoSlot]

(* The old client keeps its place, and its tools their place in the index. *)
FreshFails(r) == StartFails(r, child) /\ UNCHANGED clients

-----------------------------------------------------------------------------
(* The refresh. *)

RefreshBegins ==
  /\ ~refreshing
  /\ refreshing' = TRUE
  /\ asked' = {<<s, clients[s]>> : s \in {r \in Servers : clients[r] # NoSlot}}
  /\ UNCHANGED <<child, clients, cooling, respawns, index, faults, strays>>

RefreshAnswers(s, p) ==
  /\ <<s, p>> \in asked
  /\ child[p].stage \in {"ready", "closing"} /\ child[p].process
  /\ \E list \in Offers[s] : child' = [child EXCEPT ![p].tools = list]
  /\ cooling' = cooling \ {s}
  /\ asked' = asked \ {<<s, p>>}
  /\ UNCHANGED <<clients, respawns, index, refreshing, faults, strays>>

(* The listing fails: the client is stopped or its process gone, or the     *)
(* server does not answer in time.                                          *)
RefreshFails(s, p) ==
  /\ <<s, p>> \in asked
  /\ IF child[p].stage = "ready" /\ child[p].process THEN Fault ELSE UNCHANGED faults
  /\ asked' = asked \ {<<s, p>>}
  /\ restartServer(s, "refresh")
  /\ UNCHANGED <<clients, cooling, index, refreshing, strays>>

RefreshIsDone ==
  refreshing /\ asked = {} /\ ~ \E r \in respawns : r.by = "refresh"

RefreshCompletes ==
  /\ RefreshIsDone
  /\ refreshing' = FALSE
  /\ index' = rebuildToolIndex(child, clients)
  /\ UNCHANGED <<child, clients, cooling, respawns, asked, strays>>

-----------------------------------------------------------------------------
(* start() and the end of the process. *)

(* Every server is spawned; those outside `ok` fail and are never retried,  *)
(* for the refresh only asks clients it has.  A failed handshake takes the  *)
(* process with it; one whose first listing failed runs on, with no client. *)
start(ok) ==
  \E left \in SUBSET (Servers \ ok) :
    LET slot == CHOOSE f \in [ok \cup left -> Slots] :
                  \A s, r \in ok \cup left : s # r => f[s] # f[r]
    IN  /\ \E lists \in [ok -> ToolList] :
             /\ \A s \in ok : lists[s] \in Offers[s]
             /\ child' = [p \in Slots |->
                  IF \E s \in ok \cup left : slot[s] = p
                  THEN LET s == CHOOSE r \in ok \cup left : slot[r] = p
                       IN  IF s \in ok THEN Started(s, lists[s]) ELSE Spawned(s)
                  ELSE Free]
        /\ clients' = [s \in Servers |-> IF s \in ok THEN slot[s] ELSE NoSlot]
        /\ index' = rebuildToolIndex(child', clients')
        /\ strays' = {slot[s] : s \in left}
        /\ UNCHANGED <<cooling, respawns, refreshing, asked>>

Gone ==
  /\ child' = [p \in Slots |-> Free]
  /\ clients' = [s \in Servers |-> NoSlot]
  /\ cooling' = {} /\ respawns' = {} /\ index' = {}
  /\ refreshing' = FALSE /\ asked' = {} /\ strays' = {}

ManagerInit ==
  /\ child = [p \in Slots |-> Free]
  /\ clients = [s \in Servers |-> NoSlot]
  /\ cooling = {} /\ respawns = {} /\ index = {}
  /\ refreshing = FALSE /\ asked = {} /\ faults = 0 /\ strays = {}
=============================================================================
