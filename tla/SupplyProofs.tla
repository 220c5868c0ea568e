----------------------------- MODULE SupplyProofs -----------------------------
(***************************************************************************)
(* Proofs about the supply of tools for any servers, tool lists, detector  *)
(* modes and number of slots and faults.                                   *)
(***************************************************************************)
EXTENDS Supply, Numbers, FiniteSetTheorems, TLAPS

-----------------------------------------------------------------------------
(* The inductive invariant of the manager. *)

(* A client on the way out may be gone already, but no other server has     *)
(* taken its slot: a respawn or a refresh that still refers to it keeps it. *)
ReferredIsOurs ==
  /\ \A r \in respawns : r.old # NoSlot => child[r.old].of \in {r.server, None}
  /\ \A a \in asked : child[a[2]].of \in {a[1], None}

(* A fresh client is nobody's until it is installed. *)
FreshIsApart ==
  \A r \in respawns :
    /\ \A s \in Servers : clients[s] # r.fresh
    /\ \A q \in respawns : q.old # r.fresh /\ (q # r => q.fresh # r.fresh)

(* What the manager serves from has come up once, and what it caches its    *)
(* server has offered.                                                      *)
ServedHasStarted ==
  /\ \A s \in Servers : clients[s] # NoSlot => child[clients[s]].stage \in {"ready", "closing"}
  /\ \A p \in Slots :
       child[p].stage \in {"ready", "closing"} =>
         child[p].of \in Servers /\ child[p].tools \in Offers[child[p].of]

(* The process a respawn will stop is the served one, or counted as a stray. *)
OldIsKnown ==
  \A r \in respawns :
    r.old # NoSlot /\ child[r.old].process => r.old = clients[r.server] \/ r.old \in strays

(* Without a proxy there is nothing. *)
DownIsEmpty ==
  ~up => /\ clients = [s \in Servers |-> NoSlot] /\ respawns = {} /\ asked = {}

ManagerInv ==
  /\ ManagerTypeOK /\ up \in BOOLEAN
  /\ ReferredIsOurs /\ FreshIsApart /\ ServedHasStarted /\ OldIsKnown /\ DownIsEmpty
  /\ NoOtherStrays

(* The inductive invariant of the threat engine. *)
FlagsAreOn == \A k \in Keys : \A f \in flags[k] : Mode[f.detector] # "off"

(* Without a flag, this session knows of one definition, the recorded one. *)
SeenIsRecorded ==
  Mode["rug_pull"] # "off" => \A k \in Keys : flags[k] = {} => seen[k] \subseteq {snaps[k]}

(* As long as nothing was lost, what was not reported has one definition,    *)
(* the one on file.                                                         *)
EverIsOnFile ==
  Mode["rug_pull"] # "off" /\ ~forgetful =>
    /\ disk = snaps
    /\ \A k \in Keys \ reported : ever[k] \subseteq {disk[k]}

ThreatInv ==
  /\ SupplyTypeOK /\ FlagsAreOn /\ SeenIsRecorded /\ EverIsOnFile

-----------------------------------------------------------------------------
(* Lemmas on the manager's operators. *)

(* NextSlot is a reusable slot whenever there is one. *)
LEMMA NextSlotIsReusable ==
  ASSUME \E p \in Slots : Reusable(p)
  PROVE  NextSlot \in Slots /\ Reusable(NextSlot)
<1> DEFINE free == {p \in Slots : Reusable(p)}
<1>1. free \in SUBSET Nat /\ free # {}
  BY DownstreamAssumption DEF Slots
<1> HIDE DEF free
<1>2. \E p \in free : \A q \in free : p <= q
  BY <1>1, LeastElement
<1>3. \E p \in Slots : Reusable(p) /\ \A q \in Slots : Reusable(q) => p <= q
  BY <1>2 DEF free
<1> HIDE DEF Reusable
<1> QED
  BY <1>3 DEF NextSlot

(* The empty list is a list. *)
LEMMA NoToolsIsList == NoTools \in ToolList
  BY DEF NoTools, ToolList

(* What a list maps a tool on it to. *)
LEMMA ListMapsToDefs ==
  ASSUME NEW list \in ToolList
  PROVE  DOMAIN list \subseteq Tools /\ \A t \in DOMAIN list : list[t] \in Defs
  BY DEF ToolList

(* The manager's lists, of any typed clients. *)
LEMMA ListsType ==
  ASSUME NEW c \in [Slots -> Client], NEW cs \in [Servers -> Slots \cup {NoSlot}]
  PROVE  listTools(c, cs) \in [Servers -> ToolList]
<1>1. \A p \in Slots : c[p].tools \in ToolList
  BY DEF Client
<1> QED
  BY <1>1, NoToolsIsList DEF listTools

(* What an entry of the rebuilt index says. *)
LEMMA IndexEntry ==
  ASSUME NEW c, NEW cs, NEW rec \in rebuildToolIndex(c, cs)
  PROVE  LET lists == listTools(c, cs)
         IN  /\ rec.server \in Servers /\ rec.tool \in DOMAIN lists[rec.server]
             /\ rec.prefix = PrefixOf(lists, rec.server)
             /\ rec.def = lists[rec.server][rec.tool]
             /\ rec = [prefix |-> rec.prefix, tool |-> rec.tool,
                       server |-> rec.server, def |-> rec.def]
<1> DEFINE lists == listTools(c, cs)
<1>1. PICK s \in Servers :
        rec \in {[prefix |-> PrefixOf(lists, s), tool |-> t, server |-> s, def |-> lists[s][t]] :
                   t \in DOMAIN lists[s]}
  BY DEF rebuildToolIndex
<1> HIDE DEF lists
<1>2. PICK t \in DOMAIN lists[s] :
        rec = [prefix |-> PrefixOf(lists, s), tool |-> t, server |-> s, def |-> lists[s][t]]
  BY <1>1
<1>3. rec.server = s /\ rec.tool = t /\ rec.prefix = PrefixOf(lists, s) /\ rec.def = lists[s][t]
  BY <1>2
<1> QED
  BY <1>2, <1>3 DEF lists

(* The index rebuilt from typed clients is typed. *)
LEMMA IndexType ==
  ASSUME NEW c \in [Slots -> Client], NEW cs \in [Servers -> Slots \cup {NoSlot}]
  PROVE  rebuildToolIndex(c, cs) \subseteq AggregatedTool
<1> DEFINE lists == listTools(c, cs)
<1>1. lists \in [Servers -> ToolList]
  BY ListsType
<1> SUFFICES ASSUME NEW rec \in rebuildToolIndex(c, cs)
             PROVE  rec \in AggregatedTool
  OBVIOUS
<1>2. /\ rec.server \in Servers /\ rec.tool \in DOMAIN lists[rec.server]
      /\ rec.prefix = PrefixOf(lists, rec.server)
      /\ rec.def = lists[rec.server][rec.tool]
      /\ rec = [prefix |-> rec.prefix, tool |-> rec.tool,
                server |-> rec.server, def |-> rec.def]
  BY IndexEntry
<1> HIDE DEF lists
<1>3. rec.tool \in Tools /\ rec.def \in Defs
  BY <1>1, <1>2, ListMapsToDefs
<1>4. PrefixOf(lists, rec.server) \in {Namespace[rec.server], rec.server, None}
  BY DEF PrefixOf
<1>5. rec.prefix \in {Namespace[s] : s \in Servers} \cup Servers \cup {None}
  BY <1>2, <1>4
<1> QED
  BY <1>2, <1>3, <1>5 DEF AggregatedTool

-----------------------------------------------------------------------------
(* Every step of the manager preserves its invariant. *)

(* restartServer, whoever asked for it. *)
LEMMA RestartKeeps ==
  ASSUME ManagerInv, up, up', NEW s \in Servers, NEW by \in {"refresh", "forward"},
         restartServer(s, by), asked' \subseteq asked, faults' \in 0..MaxFaults,
         UNCHANGED <<clients, cooling, index, refreshing, strays>>
  PROVE  ManagerInv'
<1> USE DEF ManagerInv, ManagerTypeOK
<1>1. CASE s \in cooling
  <2>1. UNCHANGED <<child, respawns>>
    BY <1>1 DEF restartServer
  <2> QED
    BY <2>1 DEF ReferredIsOurs, FreshIsApart, ServedHasStarted, OldIsKnown, DownIsEmpty,
                NoOtherStrays
<1>2. CASE s \notin cooling
  <2> DEFINE n == NextSlot
             new == [server |-> s, old |-> clients[s], fresh |-> n, by |-> by]
             fresh == [of |-> s, stage |-> "starting", process |-> TRUE, tools |-> NoTools]
  <2>1. /\ n \in Slots /\ Reusable(n)
        /\ child' = [child EXCEPT ![n] = fresh]
        /\ respawns' = respawns \cup {new}
    BY <1>2, NextSlotIsReusable DEF restartServer, Spawned
  <2>2. /\ \A r \in Servers : clients[r] # n /\ <<r, n>> \notin asked
        /\ \A r \in respawns : n # r.old /\ n # r.fresh
    BY <2>1 DEF Reusable
  <2> HIDE DEF n
  <2>3. new \in Respawn /\ fresh \in Client
    BY <2>1, NoToolsIsList DEF Respawn, Client, Stages
  <2>4. child' \in [Slots -> Client] /\ respawns' \subseteq Respawn
    BY <2>1, <2>3
  <2>5. /\ child'[n].of = s /\ child'[n].stage = "starting"
        /\ \A p \in Slots \ {n} : child'[p] = child[p]
    BY <2>1
  <2>6. new.server = s /\ new.old = clients[s] /\ new.fresh = n
    OBVIOUS
  <2> HIDE DEF new, fresh
  <2>7. \A r \in respawns : r.fresh \in Slots /\ r.server \in Servers /\ r.old \in Slots \cup {NoSlot}
    BY DEF Respawn
  <2>8. ManagerTypeOK'
    <3>1. \A r \in Servers : clients'[r] # NoSlot => child'[clients'[r]].of = r
      BY <2>2, <2>5
    <3>2. \A r \in respawns' : child'[r.fresh].of = r.server
      BY <2>1, <2>2, <2>5, <2>6, <2>7
    <3> QED
      BY <2>4, <3>1, <3>2
  <2>9. ReferredIsOurs'
    <3>1. \A r \in respawns' : r.old # NoSlot => child'[r.old].of \in {r.server, None}
      <4>1. ASSUME NEW r \in respawns, r.old # NoSlot PROVE child'[r.old].of \in {r.server, None}
        BY <4>1, <2>2, <2>5, <2>7 DEF ReferredIsOurs
      <4>2. ASSUME new.old # NoSlot PROVE child'[new.old].of \in {new.server, None}
        BY <4>2, <2>2, <2>5, <2>6
      <4> QED
        BY <4>1, <4>2, <2>1
    <3>2. ASSUME NEW a \in asked' PROVE child'[a[2]].of \in {a[1], None}
      <4>1. a \in asked /\ a[1] \in Servers /\ a[2] \in Slots /\ a = <<a[1], a[2]>>
        OBVIOUS
      <4>2. a[2] # n
        BY <4>1, <2>2
      <4> QED
        BY <4>1, <4>2, <2>5 DEF ReferredIsOurs
    <3> QED
      BY <3>1, <3>2 DEF ReferredIsOurs
  <2>10. FreshIsApart'
    <3>1. \A r \in respawns' : \A q \in Servers : clients'[q] # r.fresh
      BY <2>1, <2>2, <2>6 DEF FreshIsApart
    <3>2. \A r, q \in respawns' : q.old # r.fresh /\ (q # r => q.fresh # r.fresh)
      BY <2>1, <2>2, <2>6, ZenonT(60) DEF FreshIsApart
    <3> QED
      BY <3>1, <3>2 DEF FreshIsApart
  <2>11. ServedHasStarted'
    BY <2>2, <2>5 DEF ServedHasStarted
  <2>12. OldIsKnown'
    <3>1. ASSUME NEW r \in respawns, r.old # NoSlot, child'[r.old].process
          PROVE  r.old = clients'[r.server] \/ r.old \in strays'
      BY <3>1, <2>2, <2>5, <2>7 DEF OldIsKnown
    <3> QED
      BY <3>1, <2>1, <2>6 DEF OldIsKnown
  <2>13. NoOtherStrays'
    BY <2>1, <2>5, <2>6 DEF NoOtherStrays
  <2> QED
    BY <2>8, <2>9, <2>10, <2>11, <2>12, <2>13 DEF DownIsEmpty
<1> QED
  BY <1>1, <1>2

(* A child dies: it is the same client, without its process. *)
LEMMA DeathKeeps ==
  ASSUME ManagerInv, up, up', NEW p \in Slots, ChildDies(p)
  PROVE  ManagerInv'
<1> USE DEF ManagerInv, ManagerTypeOK
<1>1. /\ child' = [child EXCEPT ![p].process = FALSE]
      /\ faults' \in 0..MaxFaults
      /\ UNCHANGED <<clients, cooling, respawns, index, refreshing, asked, strays>>
  BY DownstreamAssumption DEF ChildDies, Fault
<1>2. child' \in [Slots -> Client]
  BY <1>1 DEF Client
<1>3. \A q \in Slots : /\ child'[q].of = child[q].of /\ child'[q].stage = child[q].stage
                       /\ child'[q].tools = child[q].tools
                       /\ child'[q].process => child[q].process
  BY <1>1 DEF Client
<1>4. \A r \in respawns : r.fresh \in Slots /\ r.server \in Servers /\ r.old \in Slots \cup {NoSlot}
  BY DEF Respawn
<1>5. ManagerTypeOK'
  BY <1>1, <1>2, <1>3, <1>4
<1>6. ReferredIsOurs'
  <2>1. ASSUME NEW a \in asked' PROVE child'[a[2]].of \in {a[1], None}
    <3>1. a \in asked /\ a[2] \in Slots
      BY <1>1
    <3> QED
      BY <1>3, <3>1 DEF ReferredIsOurs
  <2>2. \A r \in respawns' : r.old # NoSlot => child'[r.old].of \in {r.server, None}
    BY <1>1, <1>3, <1>4 DEF ReferredIsOurs
  <2> QED
    BY <2>1, <2>2 DEF ReferredIsOurs
<1>7. FreshIsApart' /\ DownIsEmpty'
  BY <1>1 DEF FreshIsApart, DownIsEmpty
<1>8. ServedHasStarted'
  BY <1>1, <1>3 DEF ServedHasStarted
<1>9. OldIsKnown'
  BY <1>1, <1>3, <1>4 DEF OldIsKnown
<1>10. NoOtherStrays'
  BY <1>1, <1>3 DEF NoOtherStrays
<1> QED
  BY <1>5, <1>6, <1>7, <1>8, <1>9, <1>10

(* Steps that move no client and start or end no respawn: a backoff elapses, *)
(* a refresh begins or completes.                                            *)
LEMMA QuietStepKeeps ==
  ASSUME ManagerInv, up, up', UNCHANGED <<child, clients, respawns, strays>>,
         cooling' \subseteq Servers, index' \subseteq AggregatedTool, refreshing' \in BOOLEAN,
         faults' \in 0..MaxFaults,
         \A a \in asked' : a \in asked \/ \E s \in Servers : clients[s] # NoSlot /\ a = <<s, clients[s]>>
  PROVE  ManagerInv'
<1> USE DEF ManagerInv, ManagerTypeOK
<1>1. ASSUME NEW a \in asked' PROVE a \in Servers \X Slots /\ child[a[2]].of \in {a[1], None}
  <2>1. CASE a \in asked
    BY <2>1 DEF ReferredIsOurs
  <2>2. CASE \E s \in Servers : clients[s] # NoSlot /\ a = <<s, clients[s]>>
    BY <2>2
  <2> QED
    BY <2>1, <2>2
<1>2. ReferredIsOurs'
  BY <1>1 DEF ReferredIsOurs
<1>3. ManagerTypeOK'
  BY <1>1
<1> QED
  BY <1>2, <1>3 DEF FreshIsApart, ServedHasStarted, OldIsKnown, DownIsEmpty, NoOtherStrays

(* A list the server has answered with replaces the cached one. *)
LEMMA AnswerKeeps ==
  ASSUME ManagerInv, up, up', NEW s \in Servers, NEW p \in Slots, RefreshAnswers(s, p)
  PROVE  ManagerInv'
<1> USE DEF ManagerInv, ManagerTypeOK
<1>1. PICK list \in Offers[s] : child' = [child EXCEPT ![p].tools = list]
  BY DEF RefreshAnswers
<1>2. /\ <<s, p>> \in asked /\ child[p].stage \in {"ready", "closing"}
      /\ cooling' = cooling \ {s} /\ asked' = asked \ {<<s, p>>}
      /\ UNCHANGED <<clients, respawns, index, refreshing, faults, strays>>
  BY DEF RefreshAnswers
<1>3. list \in ToolList
  BY DownstreamAssumption
<1>4. child[p].of = s
  BY <1>2, CatalogueAssumption DEF ReferredIsOurs, ServedHasStarted
<1>5. child' \in [Slots -> Client]
  BY <1>1, <1>3 DEF Client
<1>6. /\ child'[p].tools = list
      /\ \A q \in Slots : /\ child'[q].of = child[q].of /\ child'[q].stage = child[q].stage
                          /\ child'[q].process = child[q].process
                          /\ q # p => child'[q].tools = child[q].tools
  BY <1>1 DEF Client
<1>7. \A r \in respawns : r.fresh \in Slots /\ r.server \in Servers /\ r.old \in Slots \cup {NoSlot}
  BY DEF Respawn
<1>8. ManagerTypeOK'
  BY <1>2, <1>5, <1>6, <1>7
<1>9. ReferredIsOurs'
  <2>1. ASSUME NEW a \in asked' PROVE child'[a[2]].of \in {a[1], None}
    <3>1. a \in asked /\ a[2] \in Slots
      BY <1>2
    <3> QED
      BY <1>6, <3>1 DEF ReferredIsOurs
  <2>2. \A r \in respawns' : r.old # NoSlot => child'[r.old].of \in {r.server, None}
    BY <1>2, <1>6, <1>7 DEF ReferredIsOurs
  <2> QED
    BY <2>1, <2>2 DEF ReferredIsOurs
<1>10. ServedHasStarted'
  <2>1. \A r \in Servers : clients'[r] # NoSlot => child'[clients'[r]].stage \in {"ready", "closing"}
    BY <1>2, <1>6 DEF ServedHasStarted
  <2>2. ASSUME NEW q \in Slots, child'[q].stage \in {"ready", "closing"}
        PROVE  child'[q].of \in Servers /\ child'[q].tools \in Offers[child'[q].of]
    BY <1>4, <1>6, <2>2 DEF ServedHasStarted
  <2> QED
    BY <2>1, <2>2 DEF ServedHasStarted
<1>11. OldIsKnown'
  BY <1>2, <1>6, <1>7 DEF OldIsKnown
<1> QED
  BY <1>2, <1>6, <1>8, <1>9, <1>10, <1>11 DEF FreshIsApart, DownIsEmpty, NoOtherStrays

(* A respawn and what it refers to. *)
LEMMA RespawnIsTyped ==
  ASSUME ManagerInv
  PROVE  \A r \in respawns : /\ r.server \in Servers /\ r.fresh \in Slots
                             /\ r.old \in Slots \cup {NoSlot}
  BY DEF ManagerInv, ManagerTypeOK, Respawn

(* The fresh client is up, the old one is told to stop. *)
LEMMA UpKeeps ==
  ASSUME ManagerInv, up, up', NEW r \in respawns, FreshIsUp(r)
  PROVE  ManagerInv'
<1> USE DEF ManagerInv, ManagerTypeOK
<1>1. PICK list \in Offers[r.server] :
        child' = [p \in Slots |->
          IF p = r.fresh THEN Started(r.server, list)
          ELSE IF p = r.old /\ child[p].stage = "ready"
          THEN [child[p] EXCEPT !.stage = "closing"]
          ELSE child[p]]
  BY DEF FreshIsUp
<1>2. /\ child[r.fresh].stage = "starting" /\ child[r.fresh].process
      /\ UNCHANGED <<clients, cooling, respawns, index, refreshing, asked, faults, strays>>
  BY DEF FreshIsUp
<1>3. \A q \in respawns : q.server \in Servers /\ q.fresh \in Slots /\ q.old \in Slots \cup {NoSlot}
  BY RespawnIsTyped
<1>4. list \in ToolList /\ child[r.fresh].of = r.server
  BY <1>3, DownstreamAssumption
<1>5. /\ child'[r.fresh].of = r.server /\ child'[r.fresh].stage = "ready"
      /\ child'[r.fresh].process = TRUE /\ child'[r.fresh].tools = list
  BY <1>1, <1>3 DEF Started
<1>6. ASSUME NEW p \in Slots, p # r.fresh
      PROVE  /\ child'[p] \in Client
             /\ child'[p].of = child[p].of /\ child'[p].process = child[p].process
             /\ child'[p].tools = child[p].tools
             /\ \/ child'[p].stage = child[p].stage
                \/ child[p].stage = "ready" /\ child'[p].stage = "closing"
  <2>1. child[p] \in Client
    OBVIOUS
  <2>2. \/ child'[p] = child[p]
        \/ /\ child[p].stage = "ready"
           /\ child'[p] = [child[p] EXCEPT !.stage = "closing"]
    BY <1>1, <1>6
  <2>3. CASE child'[p] = child[p]
    BY <2>1, <2>3
  <2>4. CASE child[p].stage = "ready" /\ child'[p] = [child[p] EXCEPT !.stage = "closing"]
    BY <2>1, <2>4 DEF Client, Stages
  <2> QED
    BY <2>2, <2>3, <2>4
<1>7. Started(r.server, list) \in Client
  BY <1>3, <1>4 DEF Started, Client, Stages
<1>8. child' \in [Slots -> Client]
  BY <1>1, <1>6, <1>7
<1>9. \A p \in Slots : /\ child'[p].of = child[p].of
                       /\ child'[p].process => child[p].process
  BY <1>2, <1>4, <1>5, <1>6
<1>10. ManagerTypeOK'
  BY <1>2, <1>3, <1>8, <1>9
<1>11. ReferredIsOurs'
  <2>1. ASSUME NEW a \in asked' PROVE child'[a[2]].of \in {a[1], None}
    <3>1. a \in asked /\ a[2] \in Slots
      BY <1>2
    <3> QED
      BY <1>9, <3>1 DEF ReferredIsOurs
  <2>2. \A q \in respawns' : q.old # NoSlot => child'[q.old].of \in {q.server, None}
    BY <1>2, <1>3, <1>9 DEF ReferredIsOurs
  <2> QED
    BY <2>1, <2>2 DEF ReferredIsOurs
<1>12. ServedHasStarted'
  <2>1. ASSUME NEW s \in Servers, clients[s] # NoSlot
        PROVE  child'[clients[s]].stage \in {"ready", "closing"}
    BY <2>1, <1>5, <1>6 DEF ServedHasStarted
  <2>2. ASSUME NEW p \in Slots, child'[p].stage \in {"ready", "closing"}
        PROVE  child'[p].of \in Servers /\ child'[p].tools \in Offers[child'[p].of]
    <3>1. CASE p = r.fresh
      BY <3>1, <1>3, <1>5
    <3>2. CASE p # r.fresh
      BY <3>2, <2>2, <1>6 DEF ServedHasStarted
    <3> QED
      BY <3>1, <3>2
  <2> QED
    BY <2>1, <2>2, <1>2 DEF ServedHasStarted
<1>13. OldIsKnown'
  BY <1>2, <1>3, <1>9 DEF OldIsKnown
<1> QED
  BY <1>2, <1>9, <1>10, <1>11, <1>12, <1>13 DEF FreshIsApart, DownIsEmpty, NoOtherStrays

(* The start fails, and leaves a process behind or not. *)
LEMMA FailureKeeps ==
  ASSUME ManagerInv, up, up', NEW r \in respawns, FreshFails(r)
  PROVE  ManagerInv'
<1> USE DEF ManagerInv, ManagerTypeOK
<1>1. /\ child[r.fresh].stage = "starting"
      /\ \/ /\ strays' = strays \cup {r.fresh} /\ child' = child
         \/ /\ strays' = strays
            /\ child' = [child EXCEPT ![r.fresh] = Free]
      /\ cooling' = cooling \cup {r.server}
      /\ respawns' = respawns \ {r}
      /\ UNCHANGED <<clients, index, refreshing, asked>>
  BY DEF FreshFails, StartFails
<1>2. faults' \in 0..MaxFaults
  BY DownstreamAssumption DEF FreshFails, StartFails, Fault
<1>3. \A q \in respawns : q.server \in Servers /\ q.fresh \in Slots /\ q.old \in Slots \cup {NoSlot}
  BY RespawnIsTyped
<1>4. Free \in Client /\ Free.of = None /\ Free.stage = "free" /\ Free.process = FALSE
  BY NoToolsIsList DEF Free, Client, Stages
<1>5. /\ child' \in [Slots -> Client]
      /\ \A p \in Slots : child'[p] = child[p] \/ (p = r.fresh /\ child'[p] = Free)
      /\ strays' \subseteq Slots /\ strays \subseteq strays'
      /\ child'[r.fresh].process => r.fresh \in strays'
  BY <1>1, <1>3, <1>4
<1>6. ManagerTypeOK'
  <2>1. \A s \in Servers : clients'[s] # NoSlot => child'[clients'[s]].of = s
    BY <1>1, <1>5 DEF FreshIsApart
  <2>2. \A q \in respawns' : child'[q.fresh].of = q.server
    BY <1>1, <1>3, <1>5 DEF FreshIsApart
  <2> QED
    BY <1>1, <1>2, <1>3, <1>5, <2>1, <2>2
<1>7. ReferredIsOurs'
  <2>1. ASSUME NEW a \in asked' PROVE child'[a[2]].of \in {a[1], None}
    <3>1. a \in asked /\ a[2] \in Slots
      BY <1>1
    <3> QED
      BY <1>4, <1>5, <3>1 DEF ReferredIsOurs
  <2>2. \A q \in respawns' : q.old # NoSlot => child'[q.old].of \in {q.server, None}
    BY <1>1, <1>3, <1>4, <1>5 DEF ReferredIsOurs
  <2> QED
    BY <2>1, <2>2 DEF ReferredIsOurs
<1>8. FreshIsApart' /\ DownIsEmpty'
  BY <1>1 DEF FreshIsApart, DownIsEmpty
<1>9. ServedHasStarted'
  <2>1. \A s \in Servers : clients'[s] # NoSlot => child'[clients'[s]].stage \in {"ready", "closing"}
    BY <1>1, <1>5 DEF FreshIsApart, ServedHasStarted
  <2>2. \A p \in Slots : child'[p].stage \in {"ready", "closing"} => child'[p] = child[p]
    BY <1>4, <1>5
  <2> QED
    BY <2>1, <2>2 DEF ServedHasStarted
<1>10. OldIsKnown'
  BY <1>1, <1>3, <1>4, <1>5 DEF OldIsKnown
<1>11. NoOtherStrays'
  <2> SUFFICES ASSUME NEW p \in Slots, child'[p].process,
                      \A s \in Servers : clients'[s] # p,
                      \A q \in respawns' : p \notin {q.old, q.fresh}
               PROVE  p \in strays'
    BY DEF NoOtherStrays
  <2>1. child[p].process /\ child'[p] = child[p]
    BY <1>4, <1>5
  <2>2. CASE p = r.fresh
    BY <2>2, <1>5
  <2>3. CASE p = r.old
    <3>1. p # NoSlot
      BY DEF Slots, NoSlot
    <3>2. r.old = clients[r.server] \/ r.old \in strays
      BY <2>1, <2>3, <3>1 DEF OldIsKnown
    <3> QED
      BY <2>3, <3>2, <1>1, <1>3, <1>5
  <2>4. CASE p # r.old /\ p # r.fresh
    BY <2>1, <2>4, <1>1, <1>5 DEF NoOtherStrays
  <2> QED
    BY <2>2, <2>3, <2>4
<1> QED
  BY <1>6, <1>7, <1>8, <1>9, <1>10, <1>11

(* The fresh client takes its place, and the process it displaces without    *)
(* having known of it is a stray.                                            *)
LEMMA InstallKeeps ==
  ASSUME ManagerInv, up, up', NEW r \in respawns, FreshIsInstalled(r)
  PROVE  ManagerInv'
<1> USE DEF ManagerInv, ManagerTypeOK
<1>1. /\ child[r.fresh].stage = "ready"
      /\ child' = [p \in Slots |-> IF p = r.old THEN Free ELSE child[p]]
      /\ clients' = [clients EXCEPT ![r.server] = r.fresh]
      /\ cooling' = cooling \ {r.server}
      /\ respawns' = respawns \ {r}
      /\ index' = rebuildToolIndex(child', clients')
      /\ strays' = (strays \cup {clients[r.server]}) \ {r.old, r.fresh, NoSlot}
      /\ UNCHANGED <<refreshing, asked, faults>>
  BY DEF FreshIsInstalled, Install
<1>2. \A q \in respawns : q.server \in Servers /\ q.fresh \in Slots /\ q.old \in Slots \cup {NoSlot}
  BY RespawnIsTyped
<1>3. Free \in Client /\ Free.of = None /\ Free.stage = "free" /\ Free.process = FALSE
  BY NoToolsIsList DEF Free, Client, Stages
<1>4. /\ child' \in [Slots -> Client]
      /\ \A p \in Slots : child'[p] = IF p = r.old THEN Free ELSE child[p]
  BY <1>1, <1>3
<1>5. /\ clients' \in [Servers -> Slots \cup {NoSlot}]
      /\ clients'[r.server] = r.fresh
      /\ \A s \in Servers \ {r.server} : clients'[s] = clients[s]
  BY <1>1, <1>2
<1>6. NoSlot \notin Slots
  BY DEF NoSlot, Slots
<1>7. r.fresh # r.old /\ child'[r.fresh] = child[r.fresh]
  BY <1>2, <1>4 DEF FreshIsApart
<1>8. \A s \in Servers \ {r.server} : clients[s] # NoSlot => clients[s] # r.old
  BY <1>2, CatalogueAssumption DEF ReferredIsOurs
<1>9. ManagerTypeOK'
  <2>1. index' \subseteq AggregatedTool
    BY <1>1, <1>4, <1>5, IndexType
  <2>2. ASSUME NEW s \in Servers, clients'[s] # NoSlot PROVE child'[clients'[s]].of = s
    <3>1. CASE s = r.server
      BY <3>1, <1>2, <1>5, <1>7
    <3>2. CASE s # r.server
      BY <3>2, <2>2, <1>4, <1>5, <1>8
    <3> QED
      BY <3>1, <3>2
  <2>3. \A q \in respawns' : child'[q.fresh].of = q.server
    BY <1>1, <1>2, <1>4 DEF FreshIsApart
  <2>4. /\ strays' \subseteq Slots /\ cooling' \subseteq Servers /\ respawns' \subseteq Respawn
        /\ refreshing' \in BOOLEAN /\ asked' \subseteq Servers \X Slots /\ faults' \in 0..MaxFaults
    BY <1>1, <1>2
  <2> QED
    BY <1>4, <1>5, <2>1, <2>2, <2>3, <2>4
<1>10. ReferredIsOurs'
  <2>1. ASSUME NEW a \in asked' PROVE child'[a[2]].of \in {a[1], None}
    <3>1. a \in asked /\ a[2] \in Slots
      BY <1>1
    <3> QED
      BY <1>3, <1>4, <3>1 DEF ReferredIsOurs
  <2>2. \A q \in respawns' : q.old # NoSlot => child'[q.old].of \in {q.server, None}
    BY <1>1, <1>2, <1>3, <1>4 DEF ReferredIsOurs
  <2> QED
    BY <2>1, <2>2 DEF ReferredIsOurs
<1>11. FreshIsApart'
  <2>1. \A q \in respawns' : \A s \in Servers : clients'[s] # q.fresh
    BY <1>1, <1>5 DEF FreshIsApart
  <2>2. \A q, x \in respawns' : x.old # q.fresh /\ (x # q => x.fresh # q.fresh)
    BY <1>1 DEF FreshIsApart
  <2> QED
    BY <2>1, <2>2 DEF FreshIsApart
<1>12. ServedHasStarted'
  <2>1. ASSUME NEW s \in Servers, clients'[s] # NoSlot
        PROVE  child'[clients'[s]].stage \in {"ready", "closing"}
    <3>1. CASE s = r.server
      BY <3>1, <1>1, <1>5, <1>7
    <3>2. CASE s # r.server
      BY <3>2, <2>1, <1>4, <1>5, <1>8 DEF ServedHasStarted
    <3> QED
      BY <3>1, <3>2
  <2>2. \A p \in Slots : child'[p].stage \in {"ready", "closing"} => child'[p] = child[p]
    BY <1>3, <1>4
  <2> QED
    BY <2>1, <2>2 DEF ServedHasStarted
<1>13. OldIsKnown'
  <2> SUFFICES ASSUME NEW q \in respawns', q.old # NoSlot, child'[q.old].process
               PROVE  q.old = clients'[q.server] \/ q.old \in strays'
    BY DEF OldIsKnown
  <2>1. q \in respawns /\ q.old \in Slots /\ q.old # r.fresh
    BY <1>1, <1>2 DEF FreshIsApart
  <2>2. q.old # r.old /\ child[q.old].process
    BY <2>1, <1>3, <1>4
  <2>3. q.old = clients[q.server] \/ q.old \in strays
    BY <2>1, <2>2 DEF OldIsKnown
  <2>4. CASE q.server = r.server
    BY <2>1, <2>2, <2>3, <2>4, <1>1, <1>6
  <2>5. CASE q.server # r.server
    BY <2>1, <2>2, <2>3, <2>5, <1>1, <1>2, <1>5, <1>6
  <2> QED
    BY <2>4, <2>5
<1>14. NoOtherStrays'
  <2> SUFFICES ASSUME NEW p \in Slots, child'[p].process,
                      \A s \in Servers : clients'[s] # p,
                      \A q \in respawns' : p \notin {q.old, q.fresh}
               PROVE  p \in strays'
    BY DEF NoOtherStrays
  <2>1. p # r.old /\ p # r.fresh /\ p # NoSlot /\ child[p].process
    BY <1>2, <1>3, <1>4, <1>5, <1>6
  <2>2. CASE p = clients[r.server]
    BY <2>1, <2>2, <1>1
  <2>3. CASE p # clients[r.server]
    <3>1. \A s \in Servers : clients[s] # p
      BY <2>3, <1>5
    <3>2. \A q \in respawns : p \notin {q.old, q.fresh}
      BY <2>1, <1>1
    <3>3. p \in strays
      BY <2>1, <3>1, <3>2 DEF NoOtherStrays
    <3> QED
      BY <2>1, <3>3, <1>1
  <2> QED
    BY <2>2, <2>3
<1> QED
  BY <1>9, <1>10, <1>11, <1>12, <1>13, <1>14 DEF DownIsEmpty

(* The servers that come up each get a slot of their own. *)
LEMMA SlotsAtStart ==
  ASSUME NEW ok \in SUBSET Servers
  PROVE  LET slot == CHOOSE f \in [ok -> Slots] : \A s, r \in ok : s # r => f[s] # f[r]
         IN  slot \in [ok -> Slots] /\ \A s, r \in ok : s # r => slot[s] # slot[r]
<1>1. PICK f \in [Servers -> Slots] : \A s, r \in Servers : s # r => f[s] # f[r]
  BY DownstreamAssumption
<1>2. [s \in ok |-> f[s]] \in [ok -> Slots]
  OBVIOUS
<1>3. \A s, r \in ok : s # r => [q \in ok |-> f[q]][s] # [q \in ok |-> f[q]][r]
  BY <1>1
<1>4. \E g \in [ok -> Slots] : \A s, r \in ok : s # r => g[s] # g[r]
  BY <1>2, <1>3
<1> QED
  BY <1>4

LEMMA StartKeeps ==
  ASSUME ManagerInv, ~up, up', NEW ok \in SUBSET Servers, start(ok), faults' \in 0..MaxFaults
  PROVE  ManagerInv'
<1> USE DEF ManagerInv, ManagerTypeOK
<1>1. PICK left \in SUBSET (Servers \ ok) :
        LET slot == CHOOSE f \in [ok \cup left -> Slots] :
                      \A s, r \in ok \cup left : s # r => f[s] # f[r]
        IN  /\ \E lists \in [ok -> ToolList] :
                 /\ \A s \in ok : lists[s] \in Offers[s]
                 /\ child' = [p \in Slots |->
                      IF \E s \in ok \cup left : slot[s] = p
                      THEN LET s == CHOOSE r \in ok \cup left : slot[r] = p
                           IN  IF s \in ok THEN Started(s, lists[s]) ELSE Spawned(s)
                      ELSE Free]
            /\ clients' = [s \in Servers |-> IF s \in ok THEN slot[s] ELSE NoSlot]
            /\ index' = rebuildToolIndex(child', clients')
            /\ strays' = {slot[s] : s \in left}
            /\ UNCHANGED <<cooling, respawns, refreshing, asked>>
  BY DEF start
<1> DEFINE spawned == ok \cup left
           slot == CHOOSE f \in [spawned -> Slots] : \A s, r \in spawned : s # r => f[s] # f[r]
<1>2. /\ slot \in [spawned -> Slots]
      /\ \A s, r \in spawned : s # r => slot[s] # slot[r]
  <2>1. spawned \in SUBSET Servers
    BY SMTT(30)
  <2> HIDE DEF spawned
  <2> QED
    BY <2>1, SlotsAtStart
<1>3. PICK lists \in [ok -> ToolList] :
        /\ \A s \in ok : lists[s] \in Offers[s]
        /\ child' = [p \in Slots |->
             IF \E s \in spawned : slot[s] = p
             THEN LET s == CHOOSE r \in spawned : slot[r] = p
                  IN  IF s \in ok THEN Started(s, lists[s]) ELSE Spawned(s)
             ELSE Free]
  BY <1>1
<1>4. /\ clients' = [s \in Servers |-> IF s \in ok THEN slot[s] ELSE NoSlot]
      /\ index' = rebuildToolIndex(child', clients')
      /\ strays' = {slot[s] : s \in left}
      /\ UNCHANGED <<cooling, respawns, refreshing, asked>>
  BY <1>1
<1> HIDE DEF slot
<1>5. /\ Free \in Client /\ Free.stage = "free" /\ Free.process = FALSE
      /\ \A s \in Servers : Spawned(s) \in Client /\ Spawned(s).stage = "starting"
  BY NoToolsIsList DEF Free, Spawned, Client, Stages
<1>6. ASSUME NEW s \in spawned
      PROVE  child'[slot[s]] = IF s \in ok THEN Started(s, lists[s]) ELSE Spawned(s)
  <2>1. slot[s] \in Slots /\ \A r \in spawned : slot[r] = slot[s] => r = s
    BY <1>2
  <2>2. (CHOOSE r \in spawned : slot[r] = slot[s]) = s
    BY <2>1
  <2> QED
    BY <1>3, <2>1, <2>2
<1>7. \A p \in Slots : (\A s \in spawned : slot[s] # p) => child'[p] = Free
  BY <1>3
<1>8. ASSUME NEW s \in ok
      PROVE  /\ Started(s, lists[s]) \in Client
             /\ Started(s, lists[s]).of = s /\ Started(s, lists[s]).stage = "ready"
             /\ Started(s, lists[s]).tools \in Offers[s]
  <2>1. lists[s] \in ToolList /\ lists[s] \in Offers[s]
    BY <1>3
  <2> QED
    BY <2>1 DEF Started, Client, Stages
<1>9. \A s \in ok : s \in spawned /\ child'[slot[s]] = Started(s, lists[s])
  BY <1>6
<1>10. child' \in [Slots -> Client]
  <2>1. \A p \in Slots : child'[p] \in Client
    BY <1>5, <1>6, <1>7, <1>8
  <2>2. child' = [p \in Slots |-> child'[p]]
    BY <1>3
  <2> QED
    BY <2>1, <2>2
<1>11. /\ clients' \in [Servers -> Slots \cup {NoSlot}]
       /\ \A s \in Servers : clients'[s] # NoSlot => s \in ok /\ clients'[s] = slot[s]
       /\ \A s \in ok : clients'[s] = slot[s]
  BY <1>2, <1>4
<1>12. respawns' = {} /\ asked' = {}
  BY <1>4 DEF DownIsEmpty
<1>13. ManagerTypeOK'
  <2>1. index' \subseteq AggregatedTool
    BY <1>4, <1>10, <1>11, IndexType
  <2>2. \A s \in Servers : clients'[s] # NoSlot => child'[clients'[s]].of = s
    BY <1>8, <1>9, <1>11
  <2>3. strays' \subseteq Slots
    BY <1>2, <1>4
  <2> QED
    BY <1>4, <1>10, <1>11, <1>12, <2>1, <2>2, <2>3
<1>14. ServedHasStarted'
  <2>1. \A s \in Servers : clients'[s] # NoSlot => child'[clients'[s]].stage \in {"ready", "closing"}
    BY <1>8, <1>9, <1>11
  <2>2. ASSUME NEW p \in Slots, child'[p].stage \in {"ready", "closing"}
        PROVE  child'[p].of \in Servers /\ child'[p].tools \in Offers[child'[p].of]
    <3>1. PICK s \in spawned : slot[s] = p
      BY <2>2, <1>5, <1>7
    <3>2. s \in ok
      BY <2>2, <3>1, <1>5, <1>6
    <3> QED
      BY <3>1, <3>2, <1>8, <1>9
  <2> QED
    BY <2>1, <2>2 DEF ServedHasStarted
<1>15. NoOtherStrays'
  <2> SUFFICES ASSUME NEW p \in Slots, child'[p].process, \A s \in Servers : clients'[s] # p
               PROVE  p \in strays'
    BY DEF NoOtherStrays
  <2>1. PICK s \in spawned : slot[s] = p
    BY <1>5, <1>7
  <2>2. s \notin ok
    BY <2>1, <1>11
  <2> QED
    BY <2>1, <2>2, <1>4
<1> QED
  BY <1>12, <1>13, <1>14, <1>15
     DEF ReferredIsOurs, FreshIsApart, OldIsKnown, DownIsEmpty

(* The end of the process. *)
LEMMA GoneKeeps ==
  ASSUME Gone, up' = FALSE, faults' \in 0..MaxFaults
  PROVE  ManagerInv'
<1>1. /\ child' = [p \in Slots |-> Free]
      /\ clients' = [s \in Servers |-> NoSlot]
      /\ cooling' = {} /\ respawns' = {} /\ index' = {}
      /\ refreshing' = FALSE /\ asked' = {} /\ strays' = {}
  BY DEF Gone
<1>2. Free \in Client /\ Free.stage = "free" /\ Free.process = FALSE
  BY NoToolsIsList DEF Free, Client, Stages
<1>3. ManagerTypeOK'
  BY <1>1, <1>2 DEF ManagerTypeOK
<1>4. ServedHasStarted' /\ NoOtherStrays'
  BY <1>1, <1>2 DEF ServedHasStarted, NoOtherStrays
<1> QED
  BY <1>1, <1>3, <1>4
     DEF ManagerInv, ReferredIsOurs, FreshIsApart, OldIsKnown, DownIsEmpty

LEMMA ManagerStart ==
  Init => ManagerInv
<1> SUFFICES ASSUME Init PROVE ManagerInv
  OBVIOUS
<1>1. Free \in Client /\ Free.stage = "free" /\ Free.process = FALSE
  BY NoToolsIsList DEF Free, Client, Stages
<1>2. ManagerTypeOK
  <2>1. /\ child \in [Slots -> Client] /\ clients \in [Servers -> Slots \cup {NoSlot}]
        /\ \A s \in Servers : clients[s] = NoSlot
    BY <1>1 DEF Init, ManagerInit
  <2>2. faults \in 0..MaxFaults
    BY DownstreamAssumption DEF Init, ManagerInit
  <2> QED
    BY <2>1, <2>2 DEF Init, ManagerInit, ManagerTypeOK
<1>3. ServedHasStarted /\ NoOtherStrays
  BY <1>1 DEF Init, ManagerInit, ServedHasStarted, NoOtherStrays
<1> QED
  BY <1>2, <1>3 DEF Init, ManagerInit, ManagerInv, ReferredIsOurs, FreshIsApart, OldIsKnown,
                    DownIsEmpty

(* A scan spends what the start did, and one fault more when its writes fail. *)
LEMMA ScanSpends ==
  ASSUME NEW listing, NEW spent \in Nat, Scan(listing, spent)
  PROVE  faults' \in 0..MaxFaults
  BY DownstreamAssumption DEF Scan

LEMMA ManagerStep ==
  ManagerInv /\ [Next]_supplyVars => ManagerInv'
<1> SUFFICES ASSUME ManagerInv, [Next]_supplyVars PROVE ManagerInv'
  OBVIOUS
<1>1. CASE StartCommand
  <2>1. PICK ok \in SUBSET Servers :
          start(ok) /\ Scan(Listing(index'), faults + Cardinality(Servers \ ok))
    BY <1>1 DEF StartCommand
  <2>2. faults + Cardinality(Servers \ ok) \in Nat
    <3>1. IsFiniteSet(Servers \ ok)
      BY DownstreamAssumption, FS_Difference
    <3>2. Cardinality(Servers \ ok) \in Nat
      BY <3>1, FS_CardinalityType
    <3> QED
      BY <3>2, DownstreamAssumption DEF ManagerInv, ManagerTypeOK
  <2>3. faults' \in 0..MaxFaults
    BY <2>1, <2>2, ScanSpends
  <2> QED
    BY <1>1, <2>1, <2>3, StartKeeps DEF StartCommand
<1>2. CASE Rescan
  <2>1. /\ up /\ up' /\ refreshing' = FALSE /\ index' = rebuildToolIndex(child, clients)
        /\ UNCHANGED <<child, clients, cooling, respawns, asked, strays>>
    BY <1>2 DEF Rescan, RefreshCompletes
  <2>2. index' \subseteq AggregatedTool
    BY <2>1, IndexType DEF ManagerInv, ManagerTypeOK
  <2>3. faults \in Nat
    BY DownstreamAssumption DEF ManagerInv, ManagerTypeOK
  <2>4. faults' \in 0..MaxFaults
    BY <1>2, <2>3, ScanSpends DEF Rescan
  <2> QED
    BY <2>1, <2>2, <2>4, QuietStepKeeps DEF ManagerInv, ManagerTypeOK
<1>3. CASE Crash \/ CrashInScan
  <2>1. Gone /\ up' = FALSE /\ Fault
    BY <1>3 DEF Crash, CrashInScan, Dies
  <2>2. faults' \in 0..MaxFaults
    BY <2>1, DownstreamAssumption DEF Fault, ManagerInv, ManagerTypeOK
  <2> QED
    BY <2>1, <2>2, GoneKeeps
<1>4. CASE up /\ World /\ ThreatAside
  <2>1. up /\ up'
    BY <1>4 DEF ThreatAside
  <2>2. CASE \E p \in Slots : ChildDies(p)
    BY <2>1, <2>2, DeathKeeps
  <2>3. ASSUME NEW s \in Servers, BackoffElapses(s) PROVE ManagerInv'
    BY <2>1, <2>3, QuietStepKeeps DEF BackoffElapses, ManagerInv, ManagerTypeOK
  <2>4. ASSUME NEW s \in Servers, ForwardFails(s) PROVE ManagerInv'
    <3>1. faults' \in 0..MaxFaults
      BY <2>4, DownstreamAssumption DEF ForwardFails, Fault, ManagerInv, ManagerTypeOK
    <3> QED
      BY <2>1, <2>4, <3>1, RestartKeeps DEF ForwardFails
  <2> QED
    BY <1>4, <2>2, <2>3, <2>4 DEF World
<1>5. CASE up /\ Refreshing /\ ThreatAside
  <2>1. up /\ up'
    BY <1>5 DEF ThreatAside
  <2>2. CASE RefreshBegins
    <3>1. \A a \in asked' : \E s \in Servers : clients[s] # NoSlot /\ a = <<s, clients[s]>>
      BY <2>2 DEF RefreshBegins
    <3> QED
      BY <2>1, <2>2, <3>1, QuietStepKeeps DEF RefreshBegins, ManagerInv, ManagerTypeOK
  <2>3. ASSUME NEW s \in Servers, NEW p \in Slots, RefreshAnswers(s, p) PROVE ManagerInv'
    BY <2>1, <2>3, AnswerKeeps
  <2>4. ASSUME NEW s \in Servers, NEW p \in Slots, RefreshFails(s, p) PROVE ManagerInv'
    <3>1. faults' \in 0..MaxFaults
      BY <2>4, DownstreamAssumption DEF RefreshFails, Fault, ManagerInv, ManagerTypeOK
    <3> QED
      BY <2>1, <2>4, <3>1, RestartKeeps DEF RefreshFails
  <2> QED
    BY <1>5, <2>2, <2>3, <2>4 DEF Refreshing
<1>6. CASE RespawnStep
  <2>1. PICK r \in respawns : FreshIsUp(r) \/ FreshFails(r) \/ FreshIsInstalled(r)
    BY <1>6 DEF RespawnStep
  <2>2. up /\ up'
    BY <1>6 DEF RespawnStep, ThreatAside
  <2> QED
    BY <2>1, <2>2, UpKeeps, FailureKeeps, InstallKeeps
<1>7. CASE UNCHANGED supplyVars
  BY <1>7 DEF supplyVars, managerVars, ManagerInv, ManagerTypeOK, ReferredIsOurs, FreshIsApart,
              ServedHasStarted, OldIsKnown, DownIsEmpty, NoOtherStrays
<1> QED
  BY <1>1, <1>2, <1>3, <1>4, <1>5, <1>6, <1>7 DEF Next

LEMMA ManagerIsSound == Spec => []ManagerInv
  BY ManagerStart, ManagerStep, PTL DEF Spec

(* A process outlives the manager's knowledge of it in two ways only:        *)
(* overlapping respawns displace it, or its first listing fails              *)
(* (manager.ts, start and restartServer).                                    *)
THEOREM OnlyTheseStrays == Spec => []NoOtherStrays
<1>1. ManagerInv => NoOtherStrays
  BY DEF ManagerInv
<1> QED
  BY <1>1, ManagerIsSound, PTL

-----------------------------------------------------------------------------
(* The index. *)

(* A program that answers tools/list answers with a tool. *)
EveryListHasATool == \A s \in Servers : \A list \in Offers[s] : DOMAIN list # {}

Listed == \A s \in Servers : clients[s] # NoSlot => \E rec \in index : rec.server = s

(* Two servers that list one tool carry prefixes that differ, unless the     *)
(* configuration gives them the same.                                        *)
LEMMA PrefixesDiffer ==
  ASSUME NEW lists, NEW s \in Servers, NEW r \in Servers, s # r,
         NEW t, t \in DOMAIN lists[s], t \in DOMAIN lists[r], ~ConfiguredAlike(s, r)
  PROVE  PrefixOf(lists, s) # PrefixOf(lists, r)
<1> DEFINE hosts == Hosts(lists, t)
<1>1. Cardinality(hosts) > 1
  <2>1. {s, r} \in SUBSET hosts /\ hosts \in SUBSET Servers
    BY DEF Hosts
  <2>2. IsFiniteSet(hosts)
    BY <2>1, DownstreamAssumption, FS_Subset
  <2>3. Cardinality({s, r}) = 2
    <3>1. IsFiniteSet({s}) /\ Cardinality({s}) = 1
      BY FS_Singleton
    <3>2. {s, r} = {s} \cup {r}
      OBVIOUS
    <3> HIDE DEF hosts
    <3>3. Cardinality({s} \cup {r}) = IF r \in {s} THEN Cardinality({s}) ELSE Cardinality({s}) + 1
      BY <3>1, FS_AddElement, Zenon
    <3> QED
      BY <3>1, <3>2, <3>3
  <2>4. Cardinality({s, r}) <= Cardinality(hosts) /\ Cardinality(hosts) \in Nat
    BY <2>1, <2>2, FS_Subset, FS_CardinalityType
  <2> QED
    BY <2>3, <2>4
<1>2. /\ PrefixOf(lists, s) = IF Namespace[s] # None THEN Namespace[s] ELSE s
      /\ PrefixOf(lists, r) = IF Namespace[r] # None THEN Namespace[r] ELSE r
  BY <1>1 DEF PrefixOf
<1> QED
  BY <1>2 DEF ConfiguredAlike

(* However the lists overlap, the rebuilt index gives a name one owner. *)
LEMMA RebuiltHasOneOwner ==
  ASSUME NEW c, NEW cs
  PROVE  OneOwner(rebuildToolIndex(c, cs))
<1> DEFINE lists == listTools(c, cs)
<1> SUFFICES ASSUME NEW a \in rebuildToolIndex(c, cs), NEW b \in rebuildToolIndex(c, cs),
                    a.prefix = b.prefix, a.tool = b.tool
             PROVE  a = b \/ (a.server # b.server /\ ConfiguredAlike(a.server, b.server))
  BY DEF OneOwner
<1>1. /\ a.server \in Servers /\ a.tool \in DOMAIN lists[a.server]
      /\ a.prefix = PrefixOf(lists, a.server) /\ a.def = lists[a.server][a.tool]
      /\ a = [prefix |-> a.prefix, tool |-> a.tool, server |-> a.server, def |-> a.def]
  BY IndexEntry
<1>2. /\ b.server \in Servers /\ b.tool \in DOMAIN lists[b.server]
      /\ b.prefix = PrefixOf(lists, b.server) /\ b.def = lists[b.server][b.tool]
      /\ b = [prefix |-> b.prefix, tool |-> b.tool, server |-> b.server, def |-> b.def]
  BY IndexEntry
<1> HIDE DEF lists
<1>3. CASE a.server = b.server
  BY <1>1, <1>2, <1>3
<1>4. CASE a.server # b.server
  BY <1>1, <1>2, <1>4, PrefixesDiffer
<1> QED
  BY <1>3, <1>4

(* Every tool of a served client is on the rebuilt index. *)
LEMMA RebuiltListsServed ==
  ASSUME NEW c, NEW cs, NEW s \in Servers, cs[s] # NoSlot, DOMAIN c[cs[s]].tools # {}
  PROVE  \E rec \in rebuildToolIndex(c, cs) : rec.server = s
<1> DEFINE lists == listTools(c, cs)
           entry(r, t) == [prefix |-> PrefixOf(lists, r), tool |-> t, server |-> r,
                           def |-> lists[r][t]]
<1>1. lists[s] = c[cs[s]].tools
  BY DEF listTools
<1>2. PICK t : t \in DOMAIN lists[s]
  BY <1>1
<1>3. rebuildToolIndex(c, cs) = UNION {{entry(r, u) : u \in DOMAIN lists[r]} : r \in Servers}
  BY DEF rebuildToolIndex
<1> HIDE DEF lists
<1>4. entry(s, t) \in rebuildToolIndex(c, cs)
  BY <1>2, <1>3
<1>5. entry(s, t).server = s
  OBVIOUS
<1> QED
  BY <1>4, <1>5

(* A rebuild from clients that have started lists every server it serves. *)
LEMMA RebuildLists ==
  ASSUME ManagerInv', EveryListHasATool, index' = rebuildToolIndex(child', clients')
  PROVE  Listed'
<1> SUFFICES ASSUME NEW s \in Servers, clients'[s] # NoSlot
             PROVE  \E rec \in index' : rec.server = s
  BY DEF Listed
<1>1. clients'[s] \in Slots /\ child'[clients'[s]].of = s
  BY DEF ManagerInv, ManagerTypeOK
<1>2. child'[clients'[s]].tools \in Offers[s]
  BY <1>1 DEF ManagerInv, ServedHasStarted
<1>3. DOMAIN child'[clients'[s]].tools # {}
  BY <1>2 DEF EveryListHasATool
<1> QED
  BY <1>3, RebuiltListsServed

(* The index changes only when it is rebuilt.                                *)
LEMMA IndexSteps ==
  [Next]_supplyVars =>
    index' = rebuildToolIndex(child', clients') \/ UNCHANGED <<index, clients>> \/ Gone
<1> SUFFICES ASSUME [Next]_supplyVars
             PROVE  index' = rebuildToolIndex(child', clients') \/ UNCHANGED <<index, clients>> \/ Gone
  BY SMTT(30)
<1>1. CASE StartCommand
  BY <1>1 DEF StartCommand, start
<1>2. CASE Rescan
  BY <1>2 DEF Rescan, RefreshCompletes
<1>3. CASE Crash \/ CrashInScan
  BY <1>3 DEF Crash, CrashInScan, Dies
<1>4. CASE up /\ (World \/ Refreshing) /\ ThreatAside
  BY <1>4 DEF World, Refreshing, ChildDies, BackoffElapses, ForwardFails, RefreshBegins,
              RefreshAnswers, RefreshFails
<1>5. CASE RespawnStep
  BY <1>5 DEF RespawnStep, FreshIsUp, FreshFails, StartFails, FreshIsInstalled, Install
<1>6. CASE UNCHANGED supplyVars
  BY <1>6 DEF supplyVars, managerVars
<1> QED
  BY <1>1, <1>2, <1>3, <1>4, <1>5, <1>6 DEF Next

(* For any servers, lists and configured prefixes, and however the lists     *)
(* come to overlap through respawns and refreshes: a public name has one     *)
(* owner, or two servers that the configuration itself gives one prefix, by  *)
(* one namespace twice or one that is the other's name (manager.ts,          *)
(* rebuildToolIndex and findTool).                                           *)
THEOREM NamesHaveOneOwner == Spec => []NamesAreUnique
<1> USE DEF NamesAreUnique
<1>1. Init => OneOwner(index)
  BY DEF Init, ManagerInit, OneOwner
<1>2. OneOwner(index) /\ [Next]_supplyVars => OneOwner(index)'
  <2> SUFFICES ASSUME OneOwner(index), [Next]_supplyVars PROVE OneOwner(index')
    OBVIOUS
  <2>1. CASE index' = rebuildToolIndex(child', clients')
    BY <2>1, RebuiltHasOneOwner
  <2>2. CASE UNCHANGED <<index, clients>>
    BY <2>2
  <2>3. CASE Gone
    BY <2>3 DEF Gone, OneOwner
  <2> QED
    BY <2>1, <2>2, <2>3, IndexSteps
<1> QED
  BY <1>1, <1>2, PTL DEF Spec

LEMMA ListedStep ==
  ASSUME EveryListHasATool
  PROVE  ManagerInv' /\ Listed /\ [Next]_supplyVars => Listed'
<1> SUFFICES ASSUME ManagerInv', Listed, [Next]_supplyVars PROVE Listed'
  OBVIOUS
<1>1. CASE index' = rebuildToolIndex(child', clients')
  BY <1>1, RebuildLists
<1>2. CASE UNCHANGED <<index, clients>>
  BY <1>2 DEF Listed
<1>3. CASE Gone
  BY <1>3 DEF Listed, Gone
<1> QED
  BY <1>1, <1>2, <1>3, IndexSteps

(* Of servers that list at least one tool each, every one the manager ever   *)
(* installed stays listed, through deaths, failed refreshes and overlapping  *)
(* respawns, and no name gets a second owner (manager.ts, refresh and        *)
(* restartServer).                                                           *)
THEOREM CatalogueOutlivesFailures ==
  ASSUME EveryListHasATool
  PROVE  Spec => []CatalogueSurvives
<1>1. Init => Listed
  BY DEF Init, ManagerInit, Listed
<1>2. ManagerInv' /\ Listed /\ [Next]_supplyVars => Listed'
  BY ListedStep
<1>3. Listed /\ NamesAreUnique => CatalogueSurvives
  BY DEF CatalogueSurvives, ServersStayListed, Listed
<1> QED
  BY <1>1, <1>2, <1>3, ManagerIsSound, NamesHaveOneOwner, PTL DEF Spec

-----------------------------------------------------------------------------
(* Lemmas on the threat engine's operators. *)

(* A typed listing: definitions by key. *)
IsListing(listing) ==
  DOMAIN listing \subseteq Keys /\ \A k \in DOMAIN listing : listing[k] \in Defs

LEMMA ListingType ==
  ASSUME NEW idx \in SUBSET AggregatedTool
  PROVE  IsListing(Listing(idx))
<1>1. DOMAIN Listing(idx) = {<<rec.server, rec.tool>> : rec \in idx}
  BY DEF Listing
<1>2. \A rec \in idx : rec.server \in Servers /\ rec.tool \in Tools /\ rec.def \in Defs
  BY DEF AggregatedTool
<1>3. ASSUME NEW k \in DOMAIN Listing(idx) PROVE k \in Keys /\ Listing(idx)[k] \in Defs
  <2>1. \E rec \in idx : <<rec.server, rec.tool>> = k
    BY <1>1, <1>3
  <2>2. (CHOOSE rec \in idx : <<rec.server, rec.tool>> = k) \in idx
    BY <2>1
  <2>3. Listing(idx)[k] = (CHOOSE rec \in idx : <<rec.server, rec.tool>> = k).def
    BY <1>1, <1>3 DEF Listing
  <2> QED
    BY <1>2, <2>1, <2>2, <2>3 DEF Keys
<1> QED
  BY <1>3 DEF IsListing

(* What a scan finds is typed, is of detectors that are on, and includes the *)
(* drift of a definition when drift is looked for.                           *)
LEMMA FindingsType ==
  ASSUME NEW k \in Keys, NEW def \in Defs
  PROVE  /\ ScanFindings(k, def) \subseteq Finding
         /\ \A f \in ScanFindings(k, def) : Mode[f.detector] # "off"
         /\ Mode["rug_pull"] # "off" /\ ScanFindings(k, def) = {} => snaps[k] \in {Unseen, def}
<1>1. /\ PoisonSeverities[def] \subseteq Severity /\ FeedSeverities[k] \subseteq Severity
      /\ "high" \in Severity
  BY ThreatAssumption DEF Severity, SEVERITY_RANK
<1>2. ASSUME NEW detector \in Detectors, NEW severities \in SUBSET Severity
      PROVE  /\ Of(detector, severities) \subseteq Finding
             /\ \A f \in Of(detector, severities) : Mode[f.detector] # "off"
             /\ Mode[detector] # "off" /\ severities # {} => Of(detector, severities) # {}
  <2>1. CASE Mode[detector] = "off"
    BY <2>1 DEF Of
  <2>2. CASE Mode[detector] # "off"
    <3>1. Of(detector, severities) = {[detector |-> detector, severity |-> v] : v \in severities}
      BY <2>2 DEF Of
    <3>2. \A v \in severities : /\ [detector |-> detector, severity |-> v] \in Finding
                                /\ [detector |-> detector, severity |-> v].detector = detector
      BY DEF Finding
    <3> QED
      BY <2>2, <3>1, <3>2
  <2> QED
    BY <2>1, <2>2
<1>3. /\ "tool_poisoning" \in Detectors /\ "rug_pull" \in Detectors
      /\ "signatures" \in Detectors
  BY DEF Detectors
<1> DEFINE drift == IF Drifted(k, def) THEN {"high"} ELSE {}
<1>4. drift \in SUBSET Severity /\ (drift = {} <=> snaps[k] \in {Unseen, def})
  BY <1>1 DEF Drifted
<1>5. ScanFindings(k, def) =
        Of("tool_poisoning", PoisonSeverities[def])
          \cup Of("rug_pull", drift) \cup Of("signatures", FeedSeverities[k])
  BY DEF ScanFindings
<1> HIDE DEF drift
<1>6. /\ Of("tool_poisoning", PoisonSeverities[def]) \subseteq Finding
      /\ \A f \in Of("tool_poisoning", PoisonSeverities[def]) : Mode[f.detector] # "off"
  BY <1>1, <1>2, <1>3
<1>7. /\ Of("signatures", FeedSeverities[k]) \subseteq Finding
      /\ \A f \in Of("signatures", FeedSeverities[k]) : Mode[f.detector] # "off"
  BY <1>1, <1>2, <1>3
<1>8. /\ Of("rug_pull", drift) \subseteq Finding
      /\ \A f \in Of("rug_pull", drift) : Mode[f.detector] # "off"
      /\ Mode["rug_pull"] # "off" /\ drift # {} => Of("rug_pull", drift) # {}
  BY <1>2, <1>3, <1>4
<1> QED
  BY <1>4, <1>5, <1>6, <1>7, <1>8

(* Ranks and positions number what they rank. *)
LEMMA RanksAreNumbers ==
  /\ \A v \in Severity : SEVERITY_RANK[v] \in 1..4
  /\ \A v, w \in Severity : SEVERITY_RANK[v] = SEVERITY_RANK[w] => v = w
  /\ \A d \in Detectors : ScanOrder[d] \in 1..4
  /\ \A d, e \in Detectors : ScanOrder[d] = ScanOrder[e] => d = e
<1>1. Severity = {"low", "medium", "high", "critical"}
  BY DEF Severity, SEVERITY_RANK
<1> QED
  BY <1>1 DEF SEVERITY_RANK, ScanOrder, Detectors

(* Some finding outweighs the others: sorting by severity, in scan order,    *)
(* puts one first.                                                           *)
LEMMA WorstIsFound ==
  ASSUME NEW findings \in SUBSET Finding, findings # {}
  PROVE  Worst(findings) \in findings
<1> DEFINE weight(f) == 5 * SEVERITY_RANK[f.severity] + (4 - ScanOrder[f.detector])
           weights == {weight(f) : f \in findings}
<1>1. ASSUME NEW f \in findings
      PROVE  /\ SEVERITY_RANK[f.severity] \in 1..4 /\ ScanOrder[f.detector] \in 1..4
             /\ weight(f) \in Nat /\ weight(f) <= 23
  <2>1. SEVERITY_RANK[f.severity] \in 1..4 /\ ScanOrder[f.detector] \in 1..4
    BY RanksAreNumbers DEF Finding
  <2> QED
    BY <2>1
<1>2. weights \in SUBSET Nat /\ weights # {} /\ \A w \in weights : w <= 23
  BY <1>1
<1>3. ASSUME NEW f \in findings, NEW g \in findings, f # g, weight(f) >= weight(g)
      PROVE  Worse(f, g)
  <2>1. f.severity # g.severity \/ f.detector # g.detector
    BY <1>3 DEF Finding
  <2>2. /\ f.severity \in Severity /\ g.severity \in Severity
        /\ f.detector \in Detectors /\ g.detector \in Detectors
    BY DEF Finding
  <2>3. CASE f.severity = g.severity
    <3>1. ScanOrder[f.detector] # ScanOrder[g.detector]
      BY <2>1, <2>2, <2>3, RanksAreNumbers
    <3> QED
      BY <1>1, <1>3, <2>3, <3>1 DEF Worse
  <2>4. CASE f.severity # g.severity
    <3>1. SEVERITY_RANK[f.severity] # SEVERITY_RANK[g.severity]
      BY <2>2, <2>4, RanksAreNumbers
    <3> QED
      BY <1>1, <1>3, <3>1 DEF Worse
  <2> QED
    BY <2>3, <2>4
<1> HIDE DEF weights
<1>4. PICK top \in weights : \A w \in weights : top >= w
  BY <1>2, GreatestElement
<1>5. PICK f \in findings : top = weight(f)
  BY <1>4 DEF weights
<1>6. \A g \in findings : weight(f) >= weight(g)
  BY <1>4, <1>5 DEF weights
<1> HIDE DEF weight
<1>7. \E h \in findings : \A g \in findings \ {h} : Worse(h, g)
  BY <1>3, <1>6
<1> QED
  BY <1>7 DEF Worst

(* A flagged tool gets a decision. *)
LEMMA FlaggedIsJudged ==
  ASSUME ThreatInv, NEW k \in Keys, flags[k] # {}
  PROVE  checkCall(k, {}) # NoDecision
<1> DEFINE findings == {f \in Of("credential_egress", {}) \cup flags[k] : Mode[f.detector] # "off"}
           worst == Worst(findings)
<1>1. flags[k] \in SUBSET Finding /\ \A f \in flags[k] : Mode[f.detector] # "off"
  BY DEF ThreatInv, SupplyTypeOK, ThreatTypeOK, FlagsAreOn
<1>2. findings = flags[k]
  BY <1>1 DEF Of
<1>3. findings # {} /\ worst \in findings
  BY <1>1, <1>2, WorstIsFound
<1>4. worst \in Finding /\ Mode[worst.detector] # "off"
  BY <1>1, <1>2, <1>3
<1>5. checkCall(k, {}) = toDecision(worst)
  BY <1>3 DEF checkCall
<1> HIDE DEF worst
<1>6. Mode[worst.detector] \in {"warn", "require_approval", "block"}
  BY <1>4, ThreatAssumption DEF Finding, EnforcementMode
<1>7. toDecision(worst) \in PolicyDecision
  BY <1>6 DEF toDecision, Decision, PolicyDecision, ActionType, EnforcementLevel, RuleTier
<1> QED
  BY <1>5, <1>7, NoDecisionIsNone

-----------------------------------------------------------------------------
(* Every step preserves the threat engine's invariant. *)

LEMMA ThreatStart ==
  Init => ThreatInv
<1> SUFFICES ASSUME Init PROVE ThreatInv
  OBVIOUS
<1>1. ManagerTypeOK
  BY ManagerStart DEF ManagerInv
<1>2. /\ up = FALSE /\ flags = [k \in Keys |-> {}]
      /\ snaps = [k \in Keys |-> Unseen] /\ disk = snaps
      /\ seen = [k \in Keys |-> {}] /\ ever = [k \in Keys |-> {}]
      /\ reported = {} /\ forgetful = FALSE
  BY DEF Init
<1> QED
  BY <1>1, <1>2 DEF ThreatInv, SupplyTypeOK, ThreatTypeOK, FlagsAreOn, SeenIsRecorded, EverIsOnFile

(* A scan, its writes done or failed. *)
LEMMA ScanKeeps ==
  ASSUME ThreatInv, ManagerTypeOK', up' \in BOOLEAN,
         NEW listing, IsListing(listing), NEW spent, Scan(listing, spent)
  PROVE  ThreatInv'
<1> DEFINE on == Mode["rug_pull"] # "off"
           listed == DOMAIN listing
<1>1. /\ flags \in [Keys -> SUBSET Finding]
      /\ snaps \in [Keys -> Defs \cup {Unseen}] /\ disk \in [Keys -> Defs \cup {Unseen}]
      /\ seen \in [Keys -> SUBSET Defs] /\ ever \in [Keys -> SUBSET Defs]
      /\ reported \subseteq Keys /\ forgetful \in BOOLEAN
  BY DEF ThreatInv, SupplyTypeOK, ThreatTypeOK
<1>2. PICK written \in {Recorded(listing), {}} :
        /\ scanTools(listing, written)
        /\ \/ written = Recorded(listing) /\ UNCHANGED forgetful
           \/ forgetful' = TRUE
  BY DEF Scan
<1>3. /\ flags' = FlagsAfter(listing)
      /\ snaps' = [k \in Keys |-> IF k \in Recorded(listing) THEN listing[k] ELSE snaps[k]]
      /\ disk' = IF written = {} THEN disk ELSE Overlay(snaps, listing, written)
      /\ seen' = Noted(seen, listing, listed) /\ ever' = Noted(ever, listing, listed)
      /\ reported' = reported \cup {k \in listed : ScanFindings(k, listing[k]) # {}}
  BY <1>2 DEF Scan, scanTools, saved
<1>4. \A k \in listed : k \in Keys /\ listing[k] \in Defs
  BY DEF IsListing
<1>5. Recorded(listing) = IF on THEN listed ELSE {}
  BY DEF Recorded
<1>6. \A k \in Keys : flags'[k] = IF k \in listed /\ ScanFindings(k, listing[k]) # {}
                                  THEN ScanFindings(k, listing[k]) ELSE flags[k]
  BY <1>3 DEF FlagsAfter
<1>7. \A k \in Keys : /\ seen'[k] = seen[k] \cup (IF k \in listed THEN {listing[k]} ELSE {})
                      /\ ever'[k] = ever[k] \cup (IF k \in listed THEN {listing[k]} ELSE {})
  BY <1>3 DEF Noted
<1> HIDE DEF on, listed
<1>8. SupplyTypeOK'
  <2>1. flags' \in [Keys -> SUBSET Finding]
    <3>1. \A k \in Keys : flags'[k] \in SUBSET Finding
      BY <1>1, <1>4, <1>6, FindingsType
    <3>2. flags' = [k \in Keys |-> flags'[k]]
      BY <1>3 DEF FlagsAfter
    <3> QED
      BY <3>1, <3>2
  <2>2. /\ snaps' \in [Keys -> Defs \cup {Unseen}]
        /\ disk' \in [Keys -> Defs \cup {Unseen}]
    BY <1>1, <1>2, <1>3, <1>4, <1>5 DEF Overlay
  <2>3. seen' \in [Keys -> SUBSET Defs] /\ ever' \in [Keys -> SUBSET Defs]
    BY <1>1, <1>3, <1>4 DEF Noted
  <2>4. reported' \subseteq Keys /\ forgetful' \in BOOLEAN
    BY <1>1, <1>2, <1>3, <1>4
  <2> QED
    BY <2>1, <2>2, <2>3, <2>4 DEF SupplyTypeOK, ThreatTypeOK
<1>9. FlagsAreOn'
  BY <1>4, <1>6, FindingsType DEF FlagsAreOn, ThreatInv
<1>10. SeenIsRecorded'
  <2> SUFFICES ASSUME on, NEW k \in Keys, flags'[k] = {}
               PROVE  seen'[k] \subseteq {snaps'[k]}
    BY DEF SeenIsRecorded, on
  <2>1. flags[k] = {} /\ (k \in listed => ScanFindings(k, listing[k]) = {})
    BY <1>6
  <2>2. seen[k] \subseteq {snaps[k]}
    BY <2>1 DEF ThreatInv, SeenIsRecorded, on
  <2>3. CASE k \in listed
    <3>1. snaps[k] \in {Unseen, listing[k]}
      BY <2>1, <2>3, <1>4, FindingsType DEF on
    <3>2. seen[k] \subseteq {listing[k]}
      BY <2>2, <3>1, <1>1, CatalogueAssumption
    <3> QED
      BY <2>3, <3>2, <1>3, <1>5, <1>7
  <2>4. CASE k \notin listed
    BY <2>2, <2>4, <1>3, <1>5, <1>7
  <2> QED
    BY <2>3, <2>4
<1>11. EverIsOnFile'
  <2> SUFFICES ASSUME on, ~forgetful'
               PROVE  disk' = snaps' /\ \A k \in Keys \ reported' : ever'[k] \subseteq {disk'[k]}
    BY DEF EverIsOnFile, on
  <2>1. written = listed /\ ~forgetful
    BY <1>2, <1>5
  <2>2. disk = snaps /\ \A k \in Keys \ reported : ever[k] \subseteq {disk[k]}
    BY <2>1 DEF ThreatInv, EverIsOnFile, on
  <2>3. disk' = snaps'
    <3>1. CASE listed = {}
      BY <3>1, <2>1, <2>2, <1>1, <1>3, <1>5
    <3>2. CASE listed # {}
      BY <3>2, <2>1, <1>3, <1>5 DEF Overlay
    <3> QED
      BY <3>1, <3>2
  <2>4. ASSUME NEW k \in Keys \ reported' PROVE ever'[k] \subseteq {snaps'[k]}
    <3>1. k \notin reported /\ (k \in listed => ScanFindings(k, listing[k]) = {})
      BY <1>3
    <3>2. ever[k] \subseteq {snaps[k]}
      BY <2>2, <3>1
    <3>3. CASE k \in listed
      <4>1. snaps[k] \in {Unseen, listing[k]}
        BY <3>1, <3>3, <1>4, FindingsType DEF on
      <4>2. ever[k] \subseteq {listing[k]}
        BY <3>2, <4>1, <1>1, CatalogueAssumption
      <4> QED
        BY <3>3, <4>2, <1>3, <1>5, <1>7
    <3>4. CASE k \notin listed
      BY <3>2, <3>4, <1>3, <1>5, <1>7
    <3> QED
      BY <3>3, <3>4
  <2> QED
    BY <2>3, <2>4
<1> QED
  BY <1>8, <1>9, <1>10, <1>11 DEF ThreatInv

(* A death, whatever it leaves on file. *)
LEMMA DeathIsForgotten ==
  ASSUME ThreatInv, ManagerTypeOK', up' \in BOOLEAN, load(disk'),
         seen' = [k \in Keys |-> {disk'[k]} \ {Unseen}],
         disk' \in [Keys -> Defs \cup {Unseen}], ever' \in [Keys -> SUBSET Defs],
         UNCHANGED reported, forgetful' \in BOOLEAN,
         Mode["rug_pull"] # "off" /\ ~forgetful' =>
           \A k \in Keys \ reported : ever'[k] \subseteq {disk'[k]}
  PROVE  ThreatInv'
<1>1. snaps' = disk' /\ flags' = [k \in Keys |-> {}]
  BY DEF load
<1>2. SupplyTypeOK'
  <2>1. seen' \in [Keys -> SUBSET Defs]
    OBVIOUS
  <2> QED
    BY <1>1, <2>1 DEF ThreatInv, SupplyTypeOK, ThreatTypeOK
<1>3. FlagsAreOn' /\ SeenIsRecorded' /\ EverIsOnFile'
  BY <1>1 DEF FlagsAreOn, SeenIsRecorded, EverIsOnFile
<1> QED
  BY <1>2, <1>3 DEF ThreatInv

(* Killed between scans. *)
LEMMA CrashKeeps ==
  ASSUME ThreatInv, ManagerTypeOK', Crash
  PROVE  ThreatInv'
<1>1. /\ up' = FALSE /\ load(disk') /\ seen' = [k \in Keys |-> {disk'[k]} \ {Unseen}]
      /\ UNCHANGED <<disk, ever, reported, forgetful>>
  BY DEF Crash, Dies
<1>2. /\ disk \in [Keys -> Defs \cup {Unseen}] /\ ever \in [Keys -> SUBSET Defs]
      /\ forgetful \in BOOLEAN
  BY DEF ThreatInv, SupplyTypeOK, ThreatTypeOK
<1>3. Mode["rug_pull"] # "off" /\ ~forgetful =>
        \A k \in Keys \ reported : ever[k] \subseteq {disk[k]}
  BY DEF ThreatInv, EverIsOnFile
<1> QED
  BY <1>1, <1>2, <1>3, DeathIsForgotten

(* Killed in the middle of a scan. *)
LEMMA CrashInScanKeeps ==
  ASSUME ThreatInv, ManagerInv, ManagerTypeOK', CrashInScan
  PROVE  ThreatInv'
<1> DEFINE listing == Listing(rebuildToolIndex(child, clients))
           on == Mode["rug_pull"] # "off"
<1>1. IsListing(listing)
  BY ListingType, IndexType DEF ManagerInv, ManagerTypeOK
<1>2. PICK done \in (SUBSET Recorded(listing)) \ {{}} :
        /\ ever' = Noted(ever, listing, done)
        /\ \/ /\ saved(listing, done)
              /\ forgetful' = (forgetful \/ \E k \in done : ScanFindings(k, listing[k]) # {})
           \/ disk' = [k \in Keys |-> Unseen] /\ forgetful' = TRUE
  BY DEF CrashInScan
<1>3. /\ up' = FALSE /\ load(disk') /\ seen' = [k \in Keys |-> {disk'[k]} \ {Unseen}]
      /\ UNCHANGED reported
  BY DEF CrashInScan, Dies
<1> HIDE DEF listing
<1>4. done # {} /\ \A k \in done : k \in Keys /\ listing[k] \in Defs
  BY <1>1, <1>2 DEF IsListing, Recorded
<1>5. /\ snaps \in [Keys -> Defs \cup {Unseen}] /\ disk \in [Keys -> Defs \cup {Unseen}]
      /\ ever \in [Keys -> SUBSET Defs] /\ forgetful \in BOOLEAN
  BY DEF ThreatInv, SupplyTypeOK, ThreatTypeOK
<1>6. \/ /\ disk' = Overlay(snaps, listing, done)
         /\ forgetful' = (forgetful \/ \E k \in done : ScanFindings(k, listing[k]) # {})
      \/ disk' = [k \in Keys |-> Unseen] /\ forgetful' = TRUE
  BY <1>2, <1>4 DEF saved
<1>7. /\ disk' \in [Keys -> Defs \cup {Unseen}] /\ ever' \in [Keys -> SUBSET Defs]
      /\ forgetful' \in BOOLEAN
  <2>1. Overlay(snaps, listing, done) \in [Keys -> Defs \cup {Unseen}]
    BY <1>4, <1>5 DEF Overlay
  <2>2. Noted(ever, listing, done) \in [Keys -> SUBSET Defs]
    BY <1>4, <1>5 DEF Noted
  <2>3. forgetful' \in BOOLEAN
    BY <1>6
  <2> QED
    BY <2>1, <2>2, <2>3, <1>2, <1>6
<1>8. ASSUME on, ~forgetful', NEW k \in Keys \ reported PROVE ever'[k] \subseteq {disk'[k]}
  <2>1. /\ disk' = Overlay(snaps, listing, done) /\ ~forgetful
        /\ \A d \in done : ScanFindings(d, listing[d]) = {}
    BY <1>6, <1>8
  <2>2. disk = snaps /\ ever[k] \subseteq {snaps[k]}
    BY <2>1, <1>8 DEF ThreatInv, EverIsOnFile
  <2>3. /\ disk'[k] = IF k \in done THEN listing[k] ELSE snaps[k]
        /\ ever'[k] = ever[k] \cup IF k \in done THEN {listing[k]} ELSE {}
    BY <2>1, <1>2 DEF Overlay, Noted
  <2>4. CASE k \in done
    <3>1. snaps[k] \in {Unseen, listing[k]}
      BY <2>1, <2>4, <1>4, <1>8, FindingsType
    <3>2. ever[k] \subseteq {listing[k]}
      BY <2>2, <3>1, <1>5, CatalogueAssumption
    <3> QED
      BY <2>3, <2>4, <3>2
  <2>5. CASE k \notin done
    BY <2>2, <2>3, <2>5
  <2> QED
    BY <2>4, <2>5
<1> QED
  BY <1>3, <1>7, <1>8, DeathIsForgotten

LEMMA ThreatStep ==
  ManagerInv /\ ManagerInv' /\ ThreatInv /\ [Next]_supplyVars => ThreatInv'
<1> SUFFICES ASSUME ManagerInv, ManagerInv', ThreatInv, [Next]_supplyVars PROVE ThreatInv'
  OBVIOUS
<1>1. ManagerTypeOK' /\ up' \in BOOLEAN
  BY DEF ManagerInv
<1>2. IsListing(Listing(index'))
  BY <1>1, ListingType DEF ManagerTypeOK
<1>3. CASE StartCommand \/ Rescan
  <2>1. \E spent : Scan(Listing(index'), spent)
    BY <1>3 DEF StartCommand, Rescan
  <2> QED
    BY <1>1, <1>2, <2>1, ScanKeeps
<1>4. CASE Crash
  BY <1>1, <1>4, CrashKeeps
<1>5. CASE CrashInScan
  BY <1>1, <1>5, CrashInScanKeeps
<1>6. CASE UNCHANGED <<flags, snaps, disk, up, history>>
  BY <1>1, <1>6 DEF ThreatInv, SupplyTypeOK, ThreatTypeOK, FlagsAreOn, SeenIsRecorded,
                    EverIsOnFile, history
<1>7. CASE (up /\ (World \/ Refreshing) /\ ThreatAside) \/ RespawnStep
  BY <1>6, <1>7 DEF ThreatAside, RespawnStep
<1>8. CASE UNCHANGED supplyVars
  BY <1>6, <1>8 DEF supplyVars
<1> QED
  BY <1>3, <1>4, <1>5, <1>7, <1>8 DEF Next

LEMMA PartOfOne ==
  ASSUME NEW x, NEW S \in SUBSET {x}
  PROVE  ~ (Cardinality(S) > 1)
<1>1. IsFiniteSet({x}) /\ Cardinality({x}) = 1
  BY FS_Singleton
<1>2. Cardinality(S) <= Cardinality({x}) /\ IsFiniteSet(S)
  BY <1>1, FS_Subset
<1>3. Cardinality(S) \in Nat
  BY <1>2, FS_CardinalityType
<1> QED
  BY <1>1, <1>2, <1>3

LEMMA ThreatIsSound == Spec => []ThreatInv
  BY ThreatStart, ThreatStep, ManagerIsSound, PTL DEF Spec

(* Type correctness of the manager, the threat engine and the histories. *)
THEOREM SupplyTypes == Spec => []SupplyTypeOK
<1>1. ThreatInv => SupplyTypeOK
  BY DEF ThreatInv
<1> QED
  BY <1>1, ThreatIsSound, PTL

(* Two definitions seen in a session, the recorded one included: every later *)
(* call of the tool gets a threat decision (engine.ts, toolFlags).           *)
THEOREM DriftIsAlwaysCaught == Spec => []DriftIsCaught
<1>1. ThreatInv => DriftIsCaught
  <2> SUFFICES ASSUME ThreatInv, Mode["rug_pull"] # "off", NEW k \in Keys,
                      Cardinality(seen[k]) > 1
               PROVE  checkCall(k, {}) # NoDecision
    BY DEF DriftIsCaught
  <2>1. flags[k] # {}
    <3> SUFFICES ASSUME flags[k] = {} PROVE FALSE
      OBVIOUS
    <3>1. seen[k] \in SUBSET {snaps[k]}
      BY DEF ThreatInv, SeenIsRecorded
    <3> QED
      BY <3>1, PartOfOne
  <2> QED
    BY <2>1, FlaggedIsJudged
<1> QED
  BY <1>1, ThreatIsSound, PTL

(* Over any number of runs and deaths, a changed definition was reported,    *)
(* unless what was recorded was lost or never reported (snapshots.ts).       *)
THEOREM NoDriftIsSilent == Spec => []NoSilentDrift
<1>1. ThreatInv => NoSilentDrift
  <2> SUFFICES ASSUME ThreatInv, Mode["rug_pull"] # "off", NEW k \in Keys,
                      Cardinality(ever[k]) > 1, ~forgetful, k \notin reported
               PROVE  FALSE
    BY DEF NoSilentDrift
  <2>1. ever[k] \in SUBSET {disk[k]}
    BY DEF ThreatInv, EverIsOnFile
  <2> QED
    BY <2>1, PartOfOne
<1> QED
  BY <1>1, ThreatIsSound, PTL

===============================================================================
