----------------------------- MODULE ThreatEngine -----------------------------
(***************************************************************************)
(* Scan-time and call-time threat checks (threat/engine.ts) and the tool   *)
(* definitions remembered on disk to notice drift (threat/snapshots.ts).   *)
(*                                                                         *)
(* A finding keeps its detector and its severity.  What the text detectors *)
(* find in a definition is given by constants; detectors that are off find *)
(* nothing.  Tools are keyed by server and original name.                  *)
(***************************************************************************)
EXTENDS Decisions, Catalogue

CONSTANTS
  Mode,              (* the configured mode of each detector                   *)
  PoisonSeverities,  (* severities of the poisoning cues in a definition       *)
  FeedSeverities     (* severities of the feed's matches on a key              *)

Detectors == {"credential_egress", "tool_poisoning", "rug_pull", "signatures"}
EnforcementMode == {"off", "warn", "require_approval", "block"}
SEVERITY_RANK == [low |-> 1, medium |-> 2, high |-> 3, critical |-> 4]
Severity == DOMAIN SEVERITY_RANK
Finding == [detector : Detectors, severity : Severity]

ASSUME ThreatAssumption ==
  /\ Mode \in [Detectors -> EnforcementMode]
  /\ PoisonSeverities \in [Defs -> SUBSET Severity]
  /\ FeedSeverities \in [Keys -> SUBSET Severity]

VARIABLES
  flags,  (* toolFlags: the findings a call on this key is judged by *)
  snaps,  (* the definition each key was last recorded with          *)
  disk    (* the snapshot file                                       *)

ThreatTypeOK ==
  /\ flags \in [Keys -> SUBSET Finding]
  /\ snaps \in [Keys -> Defs \cup {Unseen}]
  /\ disk \in [Keys -> Defs \cup {Unseen}]

Of(detector, severities) ==
  IF Mode[detector] = "off" THEN {}
  ELSE {[detector |-> detector, severity |-> v] : v \in severities}

Drifted(k, def) == snaps[k] \notin {Unseen, def}

(* Everything one scan finds on one tool. *)
ScanFindings(k, def) ==
  Of("tool_poisoning", PoisonSeverities[def])
    \cup Of("rug_pull", IF Drifted(k, def) THEN {"high"} ELSE {})
    \cup Of("signatures", FeedSeverities[k])

-----------------------------------------------------------------------------
(* A listing is a function from the keys on it to their definitions. *)

(* Faulty variant: a clean scan clears the flags. *)
FlagsAfterClearing(listing) ==
  [k \in Keys |->
     IF k \in DOMAIN listing THEN ScanFindings(k, listing[k]) ELSE flags[k]]

(* Flags are replaced where the scan finds something and kept where it does *)
(* not.                                                                     *)
FlagsAfter(listing) ==
  [k \in Keys |->
     IF k \in DOMAIN listing /\ ScanFindings(k, listing[k]) # {}
     THEN ScanFindings(k, listing[k]) ELSE flags[k]]

(* Faulty variant: only changed definitions are written. *)
OverlayChangesOnly(old, listing, seen) ==
  [k \in Keys |-> IF k \in seen /\ old[k] # Unseen THEN listing[k] ELSE old[k]]

Overlay(old, listing, seen) ==
  [k \in Keys |-> IF k \in seen THEN listing[k] ELSE old[k]]

(* Detection off records nothing. *)
Recorded(listing) == IF Mode["rug_pull"] = "off" THEN {} ELSE DOMAIN listing

(* Each tool's record is followed by a write of the whole file.  A write may *)
(* fail, and a later one makes up for it: the file holds what was recorded   *)
(* up to the last write that succeeded.                                      *)
saved(listing, written) ==
  disk' = IF written = {} THEN disk ELSE Overlay(snaps, listing, written)

scanTools(listing, written) ==
  /\ flags' = FlagsAfter(listing)
  /\ snaps' = [k \in Keys |-> IF k \in Recorded(listing) THEN listing[k] ELSE snaps[k]]
  /\ saved(listing, written)

(* load(): a missing or unreadable file is an empty one. *)
load(file) ==
  /\ snaps' = file
  /\ flags' = [k \in Keys |-> {}]

-----------------------------------------------------------------------------
(* Call time: the first of the most severe findings decides, by the mode of *)
(* its detector.                                                            *)

ScanOrder ==
  [credential_egress |-> 1, tool_poisoning |-> 2, rug_pull |-> 3, signatures |-> 4]

Worse(f, g) ==
  \/ SEVERITY_RANK[f.severity] > SEVERITY_RANK[g.severity]
  \/ /\ f.severity = g.severity
     /\ ScanOrder[f.detector] < ScanOrder[g.detector]

Worst(findings) == CHOOSE f \in findings : \A g \in findings \ {f} : Worse(f, g)

toDecision(f) ==
  CASE Mode[f.detector] = "block" -> Decision("deny", "hard_mandatory", "built_in")
    [] Mode[f.detector] = "require_approval" ->
         Decision("require_approval", "soft_mandatory", "built_in")
    [] Mode[f.detector] = "warn" -> Decision("allow", "advisory", "built_in")

(* egress: the severities of the secrets in the call's arguments. *)
checkCall(k, egress) ==
  LET findings == {f \in Of("credential_egress", egress) \cup flags[k] :
                     Mode[f.detector] # "off"}
  IN  IF findings = {} THEN NoDecision ELSE toDecision(Worst(findings))
=============================================================================
