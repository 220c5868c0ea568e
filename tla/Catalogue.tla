------------------------------ MODULE Catalogue ------------------------------
(* What the downstream manager and the threat engine both speak of: tools of *)
(* servers, and the definitions a server may give them.                      *)
EXTENDS Naturals, FiniteSets

CONSTANTS
  Servers,   (* the configured servers                                       *)
  Tools,     (* original tool names                                          *)
  Defs       (* descriptions with their input schemas, as hashToolDef tells  *)
             (* them apart                                                   *)

None == "none"
Unseen == "unseen"

ASSUME CatalogueAssumption == None \notin Servers /\ Unseen \notin Defs

(* The key of flags and snapshots: `${server}/${originalName}` *)
Keys == Servers \X Tools

(* A server's list: a function from the tools on it to their definitions. *)
ToolList == UNION {[S -> Defs] : S \in SUBSET Tools}
NoTools == [t \in {} |-> None]
==============================================================================
