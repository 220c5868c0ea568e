---------------------------- MODULE MeteringProofs ----------------------------
(***************************************************************************)
(* Proofs about the metering for any calls, prices, calendar and number of *)
(* restarts.                                                               *)
(*                                                                         *)
(* The argument: of the calls, the log shows as allowed exactly those let  *)
(* through (Logged), and while nothing was lost the memory holds those of  *)
(* this month (Recorded): pruning and hydration both keep what is not      *)
(* before the start of the month, which only moves forward.  What else the *)
(* memory holds are accepted chat messages, read by a hydration.           *)
(***************************************************************************)
EXTENDS AuditViews, Numbers, TLAPS

-----------------------------------------------------------------------------
(* Calls and commands are finitely many, and apart.                          *)
LEMMA EntriesAre ==
  /\ IsFiniteSet(Entries) /\ IsFiniteSet(Calls)
  /\ Calls \in SUBSET Entries /\ Commands \in SUBSET Entries
  /\ Entries = Calls \cup Commands /\ Calls \cap Commands = {}
<1>1. /\ IsFiniteSet(Entries) /\ Calls \cap Commands = {}
      /\ Entries = Calls \cup Commands
  BY MeteringAssumption DEF Entries
<1>2. Calls \in SUBSET Entries /\ Commands \in SUBSET Entries
  BY <1>1
<1>3. IsFiniteSet(Calls)
  BY <1>1, <1>2, FS_Subset
<1> QED
  BY <1>1, <1>2, <1>3

-----------------------------------------------------------------------------
(* The calendar.                                                             *)

StartOfMonth(n) == Max({t \in MonthStarts : t <= n})

(* At any time some month has begun, and the latest to begin is returned. *)
LEMMA MonthHasStart ==
  ASSUME NEW n \in FirstTick..LastTick
  PROVE  /\ StartOfMonth(n) \in MonthStarts /\ StartOfMonth(n) <= n
         /\ \A t \in MonthStarts : t <= n => t <= StartOfMonth(n)
<1> DEFINE begun == {t \in MonthStarts : t <= n}
<1>1. n \in Nat /\ FirstTick <= n /\ FirstTick \in Nat
  BY MeteringAssumption
<1>2. begun \in SUBSET Nat /\ \A t \in begun : t <= n
  BY MeteringAssumption
<1>3. begun # {}
  <2>1. PICK t \in MonthStarts : t <= FirstTick
    BY MeteringAssumption
  <2>2. t \in Nat
    BY MeteringAssumption
  <2> QED
    BY <1>1, <2>1, <2>2
<1>4. begun \subseteq MonthStarts /\ \A t \in MonthStarts : t <= n => t \in begun
  OBVIOUS
<1>5. StartOfMonth(n) = Max(begun)
  BY DEF StartOfMonth
<1> HIDE DEF begun
<1>6. \E x \in begun : \A t \in begun : x >= t
  BY <1>1, <1>2, <1>3, GreatestElement
<1>7. Max(begun) \in begun /\ \A t \in begun : Max(begun) >= t
  BY <1>6 DEF Max
<1> QED
  BY <1>2, <1>4, <1>5, <1>7

(* A later time is not in an earlier month. *)
LEMMA MonthMovesForward ==
  ASSUME NEW n \in FirstTick..LastTick, NEW m \in FirstTick..LastTick, n <= m
  PROVE  StartOfMonth(n) <= StartOfMonth(m)
<1>1. StartOfMonth(n) \in MonthStarts /\ StartOfMonth(n) <= n
  BY MonthHasStart
<1>2. n \in Nat /\ m \in Nat
  BY MeteringAssumption
<1>3. StartOfMonth(n) \in Nat
  <2>1. MonthStarts \subseteq Nat
    BY MeteringAssumption
  <2> QED
    BY <1>1, <2>1, Zenon
<1>4. StartOfMonth(n) <= m
  BY <1>1, <1>2, <1>3
<1> QED
  BY <1>1, <1>4, MonthHasStart

LEMMA MonthStartIs == MonthStart = StartOfMonth(now) /\ MonthStart' = StartOfMonth(now')
  BY DEF MonthStart, LatestOf, StartOfMonth

-----------------------------------------------------------------------------
(* The inductive invariant.                                                  *)

(* The log shows as allowed exactly the calls that were let through. *)
Logged ==
  /\ allowed \cap Calls = Cleared
  /\ \A c \in denied \cap Calls : pc[c] = "refused"

(* The memory has this month's calls unless something was lost. *)
Recorded ==
  up /\ ~degraded => \A c \in Cleared : at[c] >= MonthStart => c \in records

IInv == MeteringTypeOK /\ Logged /\ Recorded

(* Pruning drops nothing of this month, and only what was there before. *)
LEMMA PruneKeepsMonth ==
  ASSUME inserts \in 0..PruneEvery - 1, NEW R \in SUBSET Entries, NEW M \in SUBSET Calls,
         Prune(R, M)
  PROVE  /\ records' \subseteq R /\ metered' \subseteq M
         /\ inserts' \in 0..PruneEvery - 1
         /\ \A c \in R : (at')[c] >= MonthStart' => c \in records'
         /\ \A c \in M : (sizedAt')[c] >= MonthStart' => c \in metered'
<1>0. PruneEvery \in Nat /\ PruneEvery # 0
  BY MeteringAssumption
<1>1. CASE inserts + 1 < PruneEvery
  BY <1>0, <1>1 DEF Prune
<1>2. CASE ~ (inserts + 1 < PruneEvery)
  <2>1. records' = {c \in R : c \in Kept'} /\ metered' = M \cap KeptTokens' /\ inserts' = 0
    BY <1>2 DEF Prune
  <2>2. /\ Kept' = {c \in Entries : (at')[c] >= MonthStart'}
        /\ KeptTokens' = {c \in Calls : (sizedAt')[c] >= MonthStart'}
    BY DEF Kept, KeptTokens
  <2> QED
    BY <1>0, <2>1, <2>2
<1> QED
  BY <1>1, <1>2

LEMMA InitInvariant == Init => IInv
<1> SUFFICES ASSUME Init PROVE IInv
  OBVIOUS
<1>1. Cleared = {} /\ ~up
  BY DEF Init, Cleared, up
<1>2. 0 \in 0..PruneEvery - 1 /\ 0 \in 0..MaxFaults /\ FirstTick \in FirstTick..LastTick
  BY MeteringAssumption
<1>3. MeteringTypeOK
  BY <1>1, <1>2 DEF Init, MeteringTypeOK, Accepted
<1> QED
  BY <1>1, <1>3 DEF Init, IInv, Logged, Recorded

LEMMA DispatchPreserves ==
  ASSUME IInv, NEW c \in Calls, Dispatch(c)
  PROVE  IInv'
<1> USE DEF IInv
<1>1. now \in Nat /\ now' = now /\ agent' = agent /\ degraded' = degraded /\ sizedAt' = sizedAt
  BY MeteringAssumption DEF Dispatch, MeteringTypeOK
<1>2. at' \in [Entries -> Nat] /\ \A d \in Entries \ {c} : (at')[d] = at[d]
  BY <1>1 DEF Dispatch, MeteringTypeOK
<1>3. MonthStart' = MonthStart
  BY <1>1 DEF MonthStart, LatestOf
<1>4. faults' \in 0..MaxFaults
  <2>1. MaxFaults \in Nat /\ faults \in 0..MaxFaults
    BY MeteringAssumption DEF MeteringTypeOK
  <2>2. faults' = faults \/ Fault
    BY DEF Dispatch, LogFails
  <2> QED
    BY <2>1, <2>2 DEF Fault
<1>5. /\ c \notin Cleared /\ pc[c] = "new" /\ Cleared \subseteq Calls
      /\ c \in Entries /\ Cleared \subseteq Entries /\ Accepted \subseteq Entries
  BY EntriesAre DEF Dispatch, Cleared, Accepted
<1>6. CASE Clears(c)
  <2>1. Cleared' = Cleared \cup {c} /\ pc' \in [Calls -> {"new", "cleared", "returned", "failed", "refused"}]
    BY <1>6 DEF Clears, Cleared, MeteringTypeOK
  <2>2. /\ records' \subseteq records \cup {c} /\ metered' \subseteq metered
        /\ inserts' \in 0..PruneEvery - 1
        /\ \A d \in records \cup {c} : (at')[d] >= MonthStart' => d \in records'
    <3>1. records \cup {c} \in SUBSET Entries /\ metered \in SUBSET Calls
      BY <1>5 DEF MeteringTypeOK
    <3>2. inserts \in 0..PruneEvery - 1 /\ Prune(records \cup {c}, metered)
      BY <1>6 DEF Clears, MeteringTypeOK
    <3> QED
      BY <3>1, <3>2, PruneKeepsMonth
  <2>3. MeteringTypeOK'
    <3>1. Accepted' = Accepted
      BY <1>6, EntriesAre DEF Accepted, Clears
    <3> QED
      BY <1>1, <1>2, <1>4, <1>5, <1>6, <2>1, <2>2, <3>1 DEF MeteringTypeOK, Clears
  <2>4. Logged'
    BY <1>5, <1>6, <2>1 DEF Logged, Clears, MeteringTypeOK
  <2>5. Recorded'
    <3>1. SUFFICES ASSUME up, ~degraded, NEW d \in Cleared', (at')[d] >= MonthStart'
                   PROVE  d \in records'
      BY <1>1 DEF Recorded, up
    <3>2. CASE d = c
      BY <3>1, <3>2, <2>2
    <3>3. CASE d # c
      <4>1. d \in Cleared /\ (at')[d] = at[d]
        BY <3>1, <3>3, <2>1, <1>2, <1>5
      <4>2. d \in records
        BY <4>1, <3>1, <1>3 DEF Recorded
      <4> QED
        BY <4>2, <3>1, <2>2
    <3> QED
      BY <3>2, <3>3
  <2> QED
    BY <2>3, <2>4, <2>5
<1>7. CASE Refuses(c) \/ LogFails(c)
  <2>1. Cleared' = Cleared /\ pc' \in [Calls -> {"new", "cleared", "returned", "failed", "refused"}]
    BY <1>5, <1>7 DEF Refuses, LogFails, Cleared, MeteringTypeOK
  <2>2. /\ records' = records /\ metered' = metered /\ inserts' = inserts
        /\ session' = session /\ allowed' = allowed /\ meter' = meter
        /\ denied' \subseteq denied \cup {c} /\ (pc')[c] = "refused"
        /\ \A d \in Calls \ {c} : (pc')[d] = pc[d]
    BY <1>7 DEF Refuses, LogFails, memory, database, MeteringTypeOK
  <2>3. MeteringTypeOK'
    <3>1. Accepted' = Accepted
      BY <2>2 DEF Accepted
    <3> QED
      BY <1>1, <1>2, <1>4, <1>5, <2>1, <2>2, <3>1 DEF MeteringTypeOK
  <2>4. Logged'
    BY <2>1, <2>2 DEF Logged, MeteringTypeOK
  <2>5. Recorded'
    BY <1>1, <1>2, <1>3, <1>5, <2>1, <2>2 DEF Recorded, up
  <2> QED
    BY <2>3, <2>4, <2>5
<1> QED
  BY <1>6, <1>7 DEF Dispatch

(* A result that comes back, or a failed forward, leaves the log and the     *)
(* calls let through as they were.                                           *)
LEMMA SettlingPreserves ==
  ASSUME IInv, NEW c \in Calls, Returns(c) \/ ForwardFails(c)
  PROVE  IInv'
<1> USE DEF IInv
<1>1. /\ now' = now /\ agent' = agent /\ at' = at /\ session' = session
      /\ allowed' = allowed /\ denied' = denied /\ now \in Nat
  BY MeteringAssumption DEF Returns, ForwardFails, MeteringTypeOK, memory, database
<1>2. /\ Cleared' = Cleared /\ c \in Cleared
      /\ pc' \in [Calls -> {"new", "cleared", "returned", "failed", "refused"}]
      /\ \A d \in Calls : pc[d] = "refused" => (pc')[d] = "refused"
  BY DEF Returns, ForwardFails, Cleared, MeteringTypeOK
<1>3. sizedAt' \in [Calls -> Nat]
  BY <1>1 DEF Returns, ForwardFails, MeteringTypeOK
<1>4. MonthStart' = MonthStart
  BY <1>1 DEF MonthStart, LatestOf
<1>5. faults' \in 0..MaxFaults
  <2>1. MaxFaults \in Nat /\ faults \in 0..MaxFaults
    BY MeteringAssumption DEF MeteringTypeOK
  <2>2. faults' = faults \/ Fault
    BY DEF Returns, ForwardFails
  <2> QED
    BY <2>1, <2>2 DEF Fault
<1>6. Logged'
  BY <1>1, <1>2 DEF Logged, MeteringTypeOK
<1>7. /\ records' \subseteq records /\ metered' \subseteq Cleared
      /\ inserts' \in 0..PruneEvery - 1
      /\ meter' \subseteq Calls \cap allowed /\ degraded' \in BOOLEAN
      /\ ~degraded' => ~degraded
      /\ \A d \in records : at[d] >= MonthStart => d \in records'
  <2>0. /\ records \in SUBSET Entries /\ metered \subseteq Cleared /\ c \in Calls \cap allowed
        /\ meter \subseteq Calls \cap allowed /\ degraded \in BOOLEAN
        /\ inserts \in 0..PruneEvery - 1 /\ Cleared \subseteq Calls
    <3>1. Cleared \subseteq Calls
      BY DEF Cleared
    <3> QED
      BY <1>2, <3>1, EntriesAre DEF MeteringTypeOK, Logged, Accepted
  <2>1. CASE UNCHANGED <<records, metered, inserts, meter, degraded>>
    BY <2>0, <2>1
  <2>2. CASE /\ Prune(records, metered \cup {c})
             /\ meter' = meter \cup {c} /\ degraded' = degraded
    <3>1. records \in SUBSET Entries /\ metered \cup {c} \in SUBSET Calls
      BY <2>0
    <3>2. /\ records' \subseteq records /\ metered' \subseteq metered \cup {c}
          /\ inserts' \in 0..PruneEvery - 1
          /\ \A d \in records : (at')[d] >= MonthStart' => d \in records'
      BY <2>0, <2>2, <3>1, PruneKeepsMonth
    <3> QED
      BY <1>1, <1>2, <1>4, <2>0, <2>2, <3>2
  <2>3. CASE /\ metered' = metered \cup {c} /\ degraded' = TRUE
             /\ UNCHANGED <<records, inserts, meter>>
    BY <1>2, <2>0, <2>3
  <2> QED
    BY <2>1, <2>2, <2>3 DEF Returns, ForwardFails, memory, database
<1>8. MeteringTypeOK'
  <2>1. Accepted' = Accepted
    BY <1>1 DEF Accepted
  <2> QED
    BY <1>1, <1>2, <1>3, <1>5, <1>7, <2>1 DEF MeteringTypeOK
<1>9. Recorded'
  BY <1>1, <1>2, <1>4, <1>7 DEF Recorded, up
<1> QED
  BY <1>6, <1>8, <1>9

LEMMA TickPreserves ==
  ASSUME IInv, Tick
  PROVE  IInv'
<1> USE DEF IInv
<1>1. /\ FirstTick \in Nat /\ LastTick \in Nat /\ now \in FirstTick..LastTick
      /\ now' \in FirstTick..LastTick /\ now <= now'
  BY MeteringAssumption DEF Tick, MeteringTypeOK
<1>2. UNCHANGED <<memory, database, agent, pc, at, sizedAt, faults, degraded>>
  BY DEF Tick
<1>3. Cleared' = Cleared /\ Accepted' = Accepted
  BY <1>2 DEF Cleared, Accepted, database
<1>4. MeteringTypeOK'
  BY <1>1, <1>2, <1>3 DEF MeteringTypeOK, memory, database
<1>5. Logged'
  BY <1>2, <1>3 DEF Logged, database
<1>6. Recorded'
  <2>1. SUFFICES ASSUME up, ~degraded, NEW c \in Cleared, at[c] >= MonthStart'
                 PROVE  c \in records
    BY <1>2, <1>3 DEF Recorded, up, memory
  <2>2. MonthStart <= MonthStart'
    BY <1>1, MonthMovesForward, MonthStartIs
  <2>3. MonthStart \in Nat /\ MonthStart' \in Nat
    <3>1. StartOfMonth(now) \in MonthStarts /\ StartOfMonth(now') \in MonthStarts
      BY <1>1, MonthHasStart
    <3>2. MonthStarts \subseteq Nat
      BY MeteringAssumption
    <3> QED
      BY <3>1, <3>2, MonthStartIs, Zenon
  <2>4. at[c] \in Nat
    BY EntriesAre DEF MeteringTypeOK, Cleared
  <2>5. at[c] >= MonthStart
    BY <2>1, <2>2, <2>3, <2>4
  <2> QED
    BY <2>1, <2>5 DEF Recorded
<1> QED
  BY <1>4, <1>5, <1>6

LEMMA KilledPreserves ==
  ASSUME IInv, Killed
  PROVE  IInv'
<1> USE DEF IInv
<1>1. UNCHANGED <<now, allowed, denied, meter, at, sizedAt, degraded>>
  BY DEF Killed, database
<1>2. /\ Cleared' = Cleared
      /\ pc' \in [Calls -> {"new", "cleared", "returned", "failed", "refused"}]
      /\ \A c \in Calls : pc[c] = "refused" => (pc')[c] = "refused"
  BY DEF Killed, Cleared, MeteringTypeOK
<1>3. faults' \in 0..MaxFaults /\ 0 \in 0..PruneEvery - 1
  BY MeteringAssumption DEF Killed, Fault, MeteringTypeOK
<1>4. MeteringTypeOK'
  <2>1. Accepted' = Accepted
    BY <1>1 DEF Accepted
  <2> QED
    BY <1>1, <1>2, <1>3, <2>1 DEF Killed, MeteringTypeOK
<1>5. Logged'
  BY <1>1, <1>2 DEF Logged, MeteringTypeOK
<1>6. Recorded'
  BY DEF Killed, Recorded, up
<1> QED
  BY <1>4, <1>5, <1>6

(* A row for a chat message is counted by nobody.                            *)
LEMMA OnAuditPreserves ==
  ASSUME IInv, NEW m \in Commands, onAudit(m)
  PROVE  IInv'
<1> USE DEF IInv
<1>1. UNCHANGED <<now, memory, meter, agent, pc, sizedAt, faults, degraded>>
  BY DEF onAudit
<1>2. /\ m \in Entries /\ m \notin Calls /\ Cleared \subseteq Calls /\ Calls \subseteq Entries
      /\ Cleared' = Cleared /\ now \in Nat
  BY <1>1, EntriesAre, MeteringAssumption DEF Cleared, MeteringTypeOK
<1>3. at' \in [Entries -> Nat] /\ \A c \in Calls : (at')[c] = at[c]
  BY <1>2 DEF onAudit, MeteringTypeOK
<1>4. /\ allowed \subseteq allowed' /\ allowed' \subseteq Entries /\ denied' \subseteq Entries
      /\ allowed' \cap Calls = allowed \cap Calls /\ denied' \cap Calls = denied \cap Calls
  BY <1>2 DEF onAudit, MeteringTypeOK
<1>5. MeteringTypeOK'
  <2>1. Accepted \subseteq Accepted'
    BY <1>4 DEF Accepted
  <2> QED
    BY <1>1, <1>2, <1>3, <1>4, <2>1 DEF MeteringTypeOK, memory
<1>6. Logged'
  BY <1>1, <1>2, <1>4 DEF Logged
<1>7. Recorded'
  BY <1>1, <1>2, <1>3 DEF Recorded, up, memory, MonthStart, LatestOf
<1> QED
  BY <1>5, <1>6, <1>7

(* A hydration that was not cut reads every row of this month. *)
LEMMA HydratedAll ==
  ASSUME NEW chosen, Hydrated(chosen), allowed \subseteq Entries,
         Cardinality({c \in allowed : at[c] >= MonthStart}) <= HydrateLimit
  PROVE  chosen = {c \in allowed : at[c] >= MonthStart}
<1> DEFINE rows == {c \in allowed : at[c] >= MonthStart}
<1>1. chosen \subseteq rows /\ Cardinality(chosen) = Min({Cardinality(rows), HydrateLimit})
  BY DEF Hydrated
<1>2. rows \subseteq Entries /\ IsFiniteSet(Entries) /\ HydrateLimit \in Nat
  BY MeteringAssumption
<1> HIDE DEF rows
<1>3. IsFiniteSet(rows)
  BY <1>2, FS_Subset
<1>4. Cardinality(rows) \in Nat
  BY <1>3, FS_CardinalityType
<1>5. Min({Cardinality(rows), HydrateLimit}) = Cardinality(rows)
  <2>1. Cardinality(rows) <= HydrateLimit
    BY DEF rows
  <2> QED
    BY <1>2, <1>4, <2>1 DEF Min
<1>6. chosen = rows
  BY <1>1, <1>3, <1>5, FS_Subset
<1> QED
  BY <1>6 DEF rows

LEMMA StartPreserves ==
  ASSUME IInv, Start
  PROVE  IInv'
<1> USE DEF IInv
<1>1. UNCHANGED <<now, inserts, session, allowed, denied, meter, pc, at, sizedAt>>
  BY DEF Start, database
<1>2. /\ Cleared' = Cleared /\ Accepted' = Accepted
      /\ allowed \cap Calls = Cleared /\ Cleared \subseteq Calls
      /\ allowed = Cleared \cup Accepted /\ allowed \subseteq Entries
  <2>1. Cleared' = Cleared /\ Accepted' = Accepted /\ Cleared \subseteq Calls
    BY <1>1 DEF Cleared, Accepted
  <2>2. allowed \cap Calls = Cleared /\ allowed \subseteq Entries
    BY DEF Logged, MeteringTypeOK
  <2> QED
    BY <2>1, <2>2, EntriesAre DEF Accepted
<1>3. MonthStart' = MonthStart
  BY <1>1 DEF MonthStart, LatestOf
<1>4. PICK chosen \in SUBSET Entries :
        /\ Hydrated(chosen)
        /\ \/ /\ records' = chosen
              /\ metered' = {c \in meter : sizedAt[c] >= MonthStart}
              /\ degraded' = (degraded \/ Cardinality({c \in allowed : at[c] >= MonthStart})
                                            > HydrateLimit)
              /\ UNCHANGED faults
           \/ /\ Fault
              /\ records' \in {{}, chosen} /\ metered' = {}
              /\ degraded' = TRUE
  BY DEF Start
<1>5. chosen \subseteq allowed
  BY <1>4 DEF Hydrated
<1>6. faults' \in 0..MaxFaults
  <2>1. MaxFaults \in Nat /\ faults \in 0..MaxFaults
    BY MeteringAssumption DEF MeteringTypeOK
  <2>2. faults' = faults \/ Fault
    BY <1>4
  <2> QED
    BY <2>1, <2>2 DEF Fault
<1>7. records' \subseteq Cleared \cup Accepted /\ metered' \subseteq Cleared
  <2>1. meter \subseteq Cleared
    BY <1>2 DEF MeteringTypeOK
  <2> QED
    BY <1>2, <1>4, <1>5, <2>1
<1>8. degraded' \in BOOLEAN /\ agent' \in Agents
  BY <1>4 DEF MeteringTypeOK, Start
<1>9. MeteringTypeOK'
  BY <1>1, <1>2, <1>6, <1>7, <1>8 DEF MeteringTypeOK
<1>10. Logged'
  BY <1>1, <1>2 DEF Logged
<1>11. Recorded'
  <2>1. SUFFICES ASSUME ~degraded', NEW c \in Cleared, at[c] >= MonthStart
                 PROVE  c \in records'
    BY <1>1, <1>2, <1>3 DEF Recorded
  <2>2. /\ records' = chosen
        /\ ~ (Cardinality({d \in allowed : at[d] >= MonthStart}) > HydrateLimit)
    BY <1>4, <2>1
  <2>3. Cardinality({d \in allowed : at[d] >= MonthStart}) <= HydrateLimit
    <3> DEFINE rows == {d \in allowed : at[d] >= MonthStart}
    <3>1. rows \subseteq Entries /\ IsFiniteSet(Entries) /\ HydrateLimit \in Nat
      BY <1>2, MeteringAssumption
    <3>2. ~ (Cardinality(rows) > HydrateLimit)
      BY <2>2
    <3> HIDE DEF rows
    <3>3. Cardinality(rows) \in Nat
      BY <3>1, FS_Subset, FS_CardinalityType
    <3>4. Cardinality(rows) <= HydrateLimit
      BY <3>1, <3>2, <3>3
    <3> QED
      BY <3>4 DEF rows
  <2>4. chosen = {d \in allowed : at[d] >= MonthStart}
    BY <1>2, <1>4, <2>3, HydratedAll
  <2> QED
    BY <1>2, <2>1, <2>2, <2>4
<1> QED
  BY <1>9, <1>10, <1>11

LEMMA Invariance == Spec => []IInv
<1>1. Init => IInv
  BY InitInvariant
<1>2. IInv /\ [Next]_meteringVars => IInv'
  <2> SUFFICES ASSUME IInv, [Next]_meteringVars PROVE IInv'
    OBVIOUS
  <2>1. CASE \E c \in Calls : Dispatch(c) \/ Returns(c) \/ ForwardFails(c)
    BY <2>1, DispatchPreserves, SettlingPreserves
  <2>2. CASE Tick
    BY <2>2, TickPreserves
  <2>3. CASE Killed
    BY <2>3, KilledPreserves
  <2>4. CASE Start
    BY <2>4, StartPreserves
  <2>5. CASE UNCHANGED meteringVars
    BY <2>5 DEF meteringVars, memory, database, IInv, MeteringTypeOK, Logged, Recorded,
                Cleared, Accepted, up, MonthStart, LatestOf
  <2>6. CASE \E m \in Commands : onAudit(m)
    BY <2>6, OnAuditPreserves
  <2> QED
    BY <2>1, <2>2, <2>3, <2>4, <2>5, <2>6 DEF Next
<1> QED
  BY <1>1, <1>2, PTL DEF Spec

-----------------------------------------------------------------------------
(* The theorems.                                                             *)

(* Type correctness: among the rest, what the tracker counts was let through *)
(* and the prune counter stays below its period (tracker.ts).                *)
THEOREM MeteringTypeCorrect == Spec => []MeteringTypeOK
<1>1. IInv => MeteringTypeOK
  BY DEF IInv
<1> QED
  BY <1>1, Invariance, PTL

(* Nothing is forwarded that the log does not show as allowed, whatever is   *)
(* killed or fails to be written (server.ts: log, then count, then forward). *)
THEOREM LogIsComplete == Spec => []ForwardedIsLogged
<1>1. IInv => ForwardedIsLogged
  BY DEF IInv, Logged, ForwardedIsLogged, Cleared
<1> QED
  BY <1>1, Invariance, PTL

(* Where nothing was lost, a window that begins in this month holds the      *)
(* calls let through in it, and besides them chat messages.                  *)
LEMMA WindowHolds ==
  ASSUME IInv, up, ~degraded, NEW t \in Int, t >= MonthStart
  PROVE  /\ Since(t) \in SUBSET Entries
         /\ Since(t) \cap Calls = {c \in Cleared : at[c] >= t}
         /\ \A c \in Since(t) \ Calls : c \in Accepted
<1>1. MonthStart \in Nat
  <2>1. StartOfMonth(now) \in MonthStarts
    BY MonthHasStart DEF IInv, MeteringTypeOK
  <2>2. MonthStarts \subseteq Nat
    BY MeteringAssumption
  <2> QED
    BY <2>1, <2>2, MonthStartIs, Zenon
<1>2. /\ records \subseteq Cleared \cup Accepted /\ Cleared \subseteq Calls
      /\ Accepted \subseteq Commands
  BY DEF IInv, MeteringTypeOK, Cleared, Accepted
<1>3. \A c \in Cleared : at[c] >= t => c \in records
  <2>1. \A c \in Cleared : at[c] \in Nat
    BY <1>2, EntriesAre DEF IInv, MeteringTypeOK
  <2> QED
    BY <1>1, <2>1 DEF IInv, Recorded
<1> QED
  BY <1>2, <1>3, EntriesAre DEF Since

(* What an agent's counters hold, unless its name is "chat".                 *)
LEMMA WindowOfAgent ==
  ASSUME IInv, up, ~degraded, NEW t \in Int, t >= MonthStart, NEW a, a # ChatAgent
  PROVE  Of(Since(t), a) = Of({c \in Cleared : at[c] >= t}, a)
<1>1. /\ Since(t) \cap Calls = {c \in Cleared : at[c] >= t}
      /\ \A c \in Since(t) \ Calls : c \in Accepted
  BY WindowHolds
<1>2. \A c \in Accepted : Agent[c] # a
  BY MeteringAssumption DEF Accepted
<1> QED
  BY <1>1, <1>2 DEF Of

(* A window that begins in this month counts every call let through in it,   *)
(* however often the process was restarted or the lists were pruned, for an  *)
(* agent of any name but "chat" (start.ts: hydration; tracker.ts:            *)
(* maybePrune).                                                              *)
THEOREM CountsSurviveRestarts == Spec => []CallCountsSurvive
<1>1. IInv => CallCountsSurvive
  <2>1. SUFFICES ASSUME IInv, up, ~degraded,
                        NEW t \in MonthStart..now, NEW a \in Agents \ {ChatAgent}
                 PROVE  countCallsSince(a, t) =
                          Cardinality(Of({c \in Cleared : at[c] >= t}, a))
    BY DEF CallCountsSurvive
  <2>2. t \in Int /\ t >= MonthStart
    OBVIOUS
  <2>3. Of(Since(t), a) = Of({c \in Cleared : at[c] >= t}, a)
    BY <2>1, <2>2, WindowOfAgent
  <2> QED
    BY <2>3 DEF countCallsSince
<1> QED
  BY <1>1, Invariance, PTL

-----------------------------------------------------------------------------
(* Sums over calls and rows.                                                 *)

TokensOf(S) == MapThenSumSet(LAMBDA c : Tokens[c], S)

LEMMA SpendIs ==
  ASSUME NEW S \in SUBSET Entries
  PROVE  Spend(S) = Total(Price, S)
<1>1. IsFiniteSet(S) /\ Weighs(Price, S)
  BY EntriesAre, MeteringAssumption, FS_Subset DEF Weighs
<1>2. \E g : Adds(g, SUBSET S, Price)
  BY <1>1, AddsExists
<1>3. \E g : Adds(g, SUBSET S, Price) /\ Spend(S) = g[S]
  BY <1>2, Zenon DEF Adds, Chosen, Spend, MapThenSumSet, MapThenFoldSet
<1>4. PICK g : Adds(g, SUBSET S, Price) /\ Spend(S) = g[S]
  BY <1>3
<1>5. Totals(g, Price, S)
  BY <1>1, <1>4, TotalIs
<1> QED
  BY <1>4, <1>5 DEF Totals

LEMMA TokensOfIs ==
  ASSUME NEW S \in SUBSET Calls
  PROVE  TokensOf(S) = Total(Tokens, S)
<1>1. IsFiniteSet(S) /\ Weighs(Tokens, S)
  BY EntriesAre, MeteringAssumption, FS_Subset DEF Weighs
<1>2. \E g : Adds(g, SUBSET S, Tokens)
  BY <1>1, AddsExists
<1>3. \E g : Adds(g, SUBSET S, Tokens) /\ TokensOf(S) = g[S]
  BY <1>2, Zenon DEF Adds, Chosen, TokensOf, MapThenSumSet, MapThenFoldSet
<1>4. PICK g : Adds(g, SUBSET S, Tokens) /\ TokensOf(S) = g[S]
  BY <1>3
<1>5. Totals(g, Tokens, S)
  BY <1>1, <1>4, TotalIs
<1> QED
  BY <1>4, <1>5 DEF Totals

(* Chat messages cost nothing. *)
LEMMA SpendOfCalls ==
  ASSUME NEW S \in SUBSET Entries
  PROVE  Spend(S) = Spend(S \cap Calls) /\ Spend(S) \in Nat
<1>1. IsFiniteSet(S) /\ Weighs(Price, S) /\ S \cap Calls \in SUBSET Entries
  BY EntriesAre, MeteringAssumption, FS_Subset DEF Weighs
<1>2. \A c \in S \ (S \cap Calls) : Price[c] = 0
  BY EntriesAre, MeteringAssumption
<1>3. Total(Price, S \cap Calls) = Total(Price, S)
  BY <1>1, <1>2, TotalOfPart
<1>4. Total(Price, S) \in Nat
  BY <1>1, TotalAdds DEF Additive
<1> QED
  BY <1>1, <1>3, <1>4, SpendIs

(* One more call costs its price more. *)
LEMMA SpendOneMore ==
  ASSUME NEW S \in SUBSET Calls, NEW c \in Calls \ S
  PROVE  Spend(S \cup {c}) = Price[c] + Spend(S) /\ Spend(S) \in Nat
<1> DEFINE T == S \cup {c}
<1>1. T \in SUBSET Calls /\ c \in T /\ T \ {c} = S
  OBVIOUS
<1>2. IsFiniteSet(T) /\ IsFiniteSet(S) /\ Weighs(Price, T) /\ Weighs(Price, S)
  BY <1>1, EntriesAre, MeteringAssumption, FS_Subset DEF Weighs
<1> HIDE DEF T
<1>3. Additive(Price, T) /\ Additive(Price, S)
  BY <1>2, TotalAdds
<1>4. Total(Price, T) = Price[c] + Total(Price, S) /\ Total(Price, S) \in Nat
  BY <1>1, <1>3 DEF Additive
<1>5. Spend(T) = Total(Price, T) /\ Spend(S) = Total(Price, S)
  BY <1>1, SpendIs, EntriesAre
<1> QED
  BY <1>4, <1>5 DEF T

-----------------------------------------------------------------------------
(* The meter of results.                                                     *)

(* Only results that came back are metered; unless something was lost, those *)
(* with tokens are in the database, and this month's in memory.              *)
Metered ==
  /\ \A c \in metered \cup meter : pc[c] = "returned"
  /\ ~degraded =>
       \A c \in Calls : pc[c] = "returned" /\ Tokens[c] > 0 =>
         c \in meter /\ (up /\ sizedAt[c] >= MonthStart => c \in metered)

(* No call was decided in the future. *)
Timely == \A c \in Cleared : at[c] <= now

(* Where the calendar stands. *)
LEMMA MonthIsNow ==
  ASSUME MeteringTypeOK
  PROVE  MonthStart \in Nat /\ now \in Nat /\ MonthStart <= now
<1>1. now \in FirstTick..LastTick
  BY DEF MeteringTypeOK
<1>2. StartOfMonth(now) \in MonthStarts /\ StartOfMonth(now) <= now
  BY <1>1, MonthHasStart
<1>3. MonthStarts \subseteq Nat /\ now \in Nat
  BY <1>1, MeteringAssumption
<1>4. StartOfMonth(now) \in Nat
  BY <1>2, <1>3, Zenon
<1> QED
  BY <1>2, <1>3, <1>4, MonthStartIs

LEMMA ReturnsMeters ==
  ASSUME IInv, Metered, NEW c \in Calls, Returns(c)
  PROVE  Metered'
<1>1. /\ now' = now /\ agent' = agent /\ up /\ up' = up
      /\ pc[c] = "cleared" /\ (pc')[c] = "returned"
      /\ \A d \in Calls \ {c} : (pc')[d] = pc[d] /\ (sizedAt')[d] = sizedAt[d]
  BY DEF Returns, IInv, MeteringTypeOK, up
<1>2. MonthStart' = MonthStart
  BY <1>1 DEF MonthStart, LatestOf
<1>3. MonthStart \in Nat /\ now \in Nat /\ MonthStart <= now
  BY MonthIsNow DEF IInv
<1>4. metered \in SUBSET Calls /\ meter \in SUBSET Calls /\ Tokens[c] \in Nat
  BY MeteringAssumption DEF IInv, MeteringTypeOK, Cleared
<1>5. c \notin metered \cup meter
  BY <1>1 DEF Metered
<1>6. CASE Tokens[c] = 0 /\ UNCHANGED <<records, metered, inserts, meter, faults, degraded>>
  <2>1. ~ (Tokens[c] > 0)
    BY <1>6
  <2> QED
    BY <1>1, <1>2, <1>4, <1>5, <1>6, <2>1 DEF Metered
<1>7. CASE /\ Tokens[c] > 0
           /\ Prune(records, metered \cup {c})
           /\ meter' = meter \cup {c}
           /\ UNCHANGED <<faults, degraded>>
  <2>1. (sizedAt')[c] = now
    BY <1>7 DEF Returns, IInv, MeteringTypeOK
  <2>2. /\ metered' \subseteq metered \cup {c}
        /\ \A d \in metered \cup {c} : (sizedAt')[d] >= MonthStart' => d \in metered'
    <3>1. records \in SUBSET Entries /\ metered \cup {c} \in SUBSET Calls
          /\ inserts \in 0..PruneEvery - 1
      BY <1>4, EntriesAre DEF IInv, MeteringTypeOK, Cleared, Accepted
    <3> QED
      BY <1>7, <3>1, PruneKeepsMonth
  <2>3. \A d \in metered' \cup meter' : (pc')[d] = "returned"
    BY <1>1, <1>4, <1>7, <2>2 DEF Metered
  <2>4. SUFFICES ASSUME ~degraded, NEW d \in Calls, (pc')[d] = "returned", Tokens[d] > 0
                 PROVE  d \in meter' /\ ((sizedAt')[d] >= MonthStart' => d \in metered')
    BY <1>1, <1>7, <2>3 DEF Metered
  <2>5. CASE d = c
    BY <1>7, <2>2, <2>5
  <2>6. CASE d # c
    <3>1. d \in meter /\ (sizedAt[d] >= MonthStart => d \in metered)
      BY <1>1, <2>4, <2>6 DEF Metered
    <3> QED
      BY <1>1, <1>2, <1>7, <2>2, <2>6, <3>1
  <2> QED
    BY <2>5, <2>6
<1>8. CASE metered' = metered \cup {c} /\ meter' = meter /\ degraded' = TRUE
  BY <1>1, <1>4, <1>8 DEF Metered
<1> QED
  BY <1>6, <1>7, <1>8 DEF Returns

LEMMA StepMeters ==
  ASSUME IInv, IInv', Metered, [Next]_meteringVars
  PROVE  Metered'
<1>1. CASE \E c \in Calls : Dispatch(c)
  <2>1. PICK c \in Calls : Dispatch(c)
    BY <1>1
  <2>2. /\ now' = now /\ agent' = agent /\ sizedAt' = sizedAt /\ degraded' = degraded
        /\ pc[c] = "new" /\ (pc')[c] # "returned" /\ \A d \in Calls \ {c} : (pc')[d] = pc[d]
        /\ meter' = meter
    BY <2>1 DEF Dispatch, Clears, Refuses, LogFails, memory, database, IInv, MeteringTypeOK
  <2>3. MonthStart' = MonthStart /\ up' = up
    BY <2>2 DEF MonthStart, LatestOf, up
  <2>4. /\ metered' \subseteq metered
        /\ \A d \in metered : (sizedAt')[d] >= MonthStart' => d \in metered'
    <3>1. metered' = metered \/ Prune(records \cup {c}, metered)
      BY <2>1 DEF Dispatch, Clears, Refuses, LogFails, memory
    <3>2. records \cup {c} \in SUBSET Entries /\ metered \in SUBSET Calls
          /\ inserts \in 0..PruneEvery - 1
      BY EntriesAre DEF IInv, MeteringTypeOK, Cleared, Accepted
    <3> QED
      BY <3>1, <3>2, PruneKeepsMonth
  <2>5. metered \in SUBSET Calls /\ meter \in SUBSET Calls
    BY DEF IInv, MeteringTypeOK, Cleared
  <2> QED
    BY <2>2, <2>3, <2>4, <2>5 DEF Metered
<1>2. CASE \E c \in Calls : Returns(c)
  BY <1>2, ReturnsMeters
<1>3. CASE \E c \in Calls : ForwardFails(c)
  <2>1. PICK c \in Calls : ForwardFails(c)
    BY <1>3
  <2>2. /\ UNCHANGED <<now, agent, sizedAt, degraded, metered, meter>>
        /\ pc[c] = "cleared" /\ (pc')[c] = "failed" /\ \A d \in Calls \ {c} : (pc')[d] = pc[d]
    BY <2>1 DEF ForwardFails, memory, database, IInv, MeteringTypeOK
  <2>3. metered \in SUBSET Calls /\ meter \in SUBSET Calls
    BY DEF IInv, MeteringTypeOK, Cleared
  <2> QED
    BY <2>2, <2>3 DEF Metered, MonthStart, LatestOf, up
<1>4. CASE Tick
  <2>1. UNCHANGED <<agent, sizedAt, degraded, metered, meter, pc>>
    BY <1>4 DEF Tick, memory, database
  <2>2. MonthStart <= MonthStart' /\ MonthStart \in Nat /\ MonthStart' \in Nat
    <3>1. now \in FirstTick..LastTick /\ now' \in FirstTick..LastTick /\ now <= now'
      BY <1>4, MeteringAssumption DEF Tick, IInv, MeteringTypeOK
    <3>2. MonthStart <= MonthStart'
      BY <3>1, MonthMovesForward, MonthStartIs
    <3>3. StartOfMonth(now) \in MonthStarts /\ StartOfMonth(now') \in MonthStarts
      BY <3>1, MonthHasStart
    <3>4. MonthStarts \subseteq Nat
      BY MeteringAssumption
    <3>5. MonthStart \in Nat /\ MonthStart' \in Nat
      BY <3>3, <3>4, MonthStartIs, Zenon
    <3> QED
      BY <3>2, <3>5
  <2>3. \A c \in Calls : sizedAt[c] \in Nat /\ (sizedAt[c] >= MonthStart' => sizedAt[c] >= MonthStart)
    BY <2>2 DEF IInv, MeteringTypeOK
  <2> QED
    BY <2>1, <2>3 DEF Metered, up
<1>5. CASE Killed
  <2>1. /\ UNCHANGED <<sizedAt, degraded, meter>> /\ metered' = {} /\ ~up'
        /\ \A c \in Calls : (pc')[c] = "returned" <=> pc[c] = "returned"
    BY <1>5 DEF Killed, database, up, IInv, MeteringTypeOK
  <2>2. meter \in SUBSET Calls
    BY DEF IInv, MeteringTypeOK, Cleared
  <2> QED
    BY <2>1, <2>2 DEF Metered
<1>6. CASE Start
  <2>1. UNCHANGED <<now, sizedAt, meter, pc>>
    BY <1>6 DEF Start, database
  <2>2. MonthStart' = MonthStart
    BY <2>1 DEF MonthStart, LatestOf
  <2>3. metered' \subseteq meter /\ (degraded => degraded')
        /\ (degraded' \/ metered' = {c \in meter : sizedAt[c] >= MonthStart})
    BY <1>6 DEF Start
  <2> QED
    BY <2>1, <2>2, <2>3 DEF Metered
<1>7. CASE UNCHANGED meteringVars
  BY <1>7 DEF meteringVars, memory, database, Metered, MonthStart, LatestOf, up
<1>8. CASE \E m \in Commands : onAudit(m)
  BY <1>8 DEF onAudit, memory, Metered, MonthStart, LatestOf, up
<1> QED
  BY <1>1, <1>2, <1>3, <1>4, <1>5, <1>6, <1>7, <1>8 DEF Next

LEMMA MeteredHolds == Spec => []Metered
<1>1. Init => Metered
  BY DEF Init, Metered
<1>2. IInv /\ IInv' /\ Metered /\ [Next]_meteringVars => Metered'
  BY StepMeters
<1> QED
  BY <1>1, <1>2, Invariance, PTL DEF Spec

(* A set of results weighs what those of them with tokens weigh. *)
LEMMA SameTokens ==
  ASSUME NEW R \in SUBSET Calls, NEW M, M \subseteq R,
         \A c \in R : Tokens[c] > 0 => c \in M
  PROVE  TokensOf(M) = TokensOf(R)
<1>1. IsFiniteSet(R) /\ Weighs(Tokens, R) /\ M \in SUBSET Calls
  BY EntriesAre, MeteringAssumption, FS_Subset DEF Weighs
<1>2. \A c \in R \ M : Tokens[c] = 0
  BY <1>1 DEF Weighs
<1>3. Total(Tokens, M) = Total(Tokens, R)
  BY <1>1, <1>2, TotalOfPart
<1> QED
  BY <1>1, <1>3, TokensOfIs

(* A window that begins in this month counts the tokens of every result that *)
(* came back in it, however often the process was restarted or the lists     *)
(* were pruned (start.ts: hydration; tracker.ts: maybePrune, tokenRecords).  *)
THEOREM TokensSurviveRestarts == Spec => []TokenCountsSurvive
<1>1. IInv /\ Metered => TokenCountsSurvive
  <2> SUFFICES ASSUME IInv, Metered, up, ~degraded,
                      NEW t \in MonthStart..now, NEW a \in Agents
               PROVE  resultTokensSince(a, t) =
                        TokensOf(Of({c \in Calls : pc[c] = "returned" /\ sizedAt[c] >= t}, a))
    BY DEF TokenCountsSurvive, TokensOf
  <2> DEFINE R == Of({c \in Calls : pc[c] = "returned" /\ sizedAt[c] >= t}, a)
             M == Of({c \in metered : sizedAt[c] >= t}, a)
  <2>1. MonthStart \in Nat /\ now \in Nat
    BY MonthIsNow DEF IInv
  <2>2. R \in SUBSET Calls /\ M \subseteq R
    BY DEF Of, Metered, IInv, MeteringTypeOK, Cleared
  <2>3. ASSUME NEW c \in R, Tokens[c] > 0 PROVE c \in M
    <3>1. c \in Calls /\ pc[c] = "returned" /\ sizedAt[c] >= t /\ Agent[c] = a
      BY DEF Of
    <3>2. sizedAt[c] \in Nat
      BY <3>1 DEF IInv, MeteringTypeOK
    <3>3. sizedAt[c] >= MonthStart
      BY <2>1, <3>1, <3>2
    <3> QED
      BY <2>3, <3>1, <3>3 DEF Metered, Of
  <2> HIDE DEF R, M
  <2>4. TokensOf(M) = TokensOf(R)
    BY <2>2, <2>3, SameTokens
  <2> QED
    BY <2>4 DEF resultTokensSince, TokensOf, R, M
<1> QED
  BY <1>1, Invariance, MeteredHolds, PTL

-----------------------------------------------------------------------------
(* The limits.  What is said of the calls let through, C, and the times they *)
(* were decided at, f, without reference to the state.                       *)

Same(f, starts, c, d) == ~ \E t \in starts : (f[c] < t) # (f[d] < t)

Alike(C, f, starts, c) == {d \in Of(C, Agent[c]) : Same(f, starts, c, d)}

HourOf(C, f, c) == {d \in Of(C, Agent[c]) : f[d] <= f[c] /\ f[d] >= f[c] - Hour}

Within(C, f, starts, k) ==
  \A c \in C : Set(Agent[c], k) /\ OnExceed = "deny" =>
    Spend(Alike(C, f, starts, c)) <= budgetFor(Agent[c])[k]

HourWithin(C, f) ==
  \A c \in C :
    Set(Agent[c], "per_hour") /\ (\A d \in HourOf(C, f, c) : Same(f, MonthStarts, c, d)) =>
      Cardinality(HourOf(C, f, c)) <= budgetFor(Agent[c]).per_hour

LimitsHold ==
  ~degraded =>
    /\ Within(Cleared, at, DayStarts, "daily")
    /\ Within(Cleared, at, MonthStarts, "monthly")
    /\ HourWithin(Cleared, at)

(* No call was decided after n, and the latest of some starts up to n is m.   *)
AllBy(C, f, n) == \A d \in C : f[d] <= n
LatestIs(starts, n, m) == m \in starts /\ m <= n /\ \A t \in starts : t <= n => t <= m

Joins(C, c0, f, g, starts, m) ==
  /\ Alike(C \cup {c0}, g, starts, c0) = Of({d \in C : f[d] >= m}, Agent[c0]) \cup {c0}
  /\ \A c \in C : ~ Same(g, starts, c, c0) \/ Agent[c] # Agent[c0] =>
       Alike(C \cup {c0}, g, starts, c) = Alike(C, f, starts, c)
  /\ \A c \in C : Same(g, starts, c, c0) /\ Agent[c] = Agent[c0] =>
       Alike(C \cup {c0}, g, starts, c) = Alike(C \cup {c0}, g, starts, c0)

(* One more call is let through, at the latest time of all: it is with those *)
(* decided since the latest start before it.                                 *)
LEMMA NewestGroup ==
  ASSUME NEW C \in SUBSET Calls, NEW c0 \in Calls \ C, NEW f \in [Entries -> Nat],
         NEW n \in Nat, AllBy(C, f, n),
         NEW starts \in SUBSET Nat, NEW m, LatestIs(starts, n, m),
         NEW g, g = [f EXCEPT ![c0] = n]
  PROVE  Joins(C, c0, f, g, starts, m)
<1>0. m \in starts /\ m <= n /\ (\A t \in starts : t <= n => t <= m) /\ \A d \in C : f[d] <= n
  BY DEF AllBy, LatestIs
<1>1. g \in [Entries -> Nat] /\ g[c0] = n /\ \A d \in C : g[d] = f[d] /\ f[d] \in Nat
  BY EntriesAre
<1>2. ASSUME NEW d \in C PROVE Same(g, starts, c0, d) <=> f[d] >= m
  <2>1. f[d] \in Nat /\ f[d] <= n /\ m \in Nat /\ g[d] = f[d] /\ g[c0] = n
    BY <1>0, <1>1
  <2>2. CASE f[d] >= m
    <3>1. ASSUME NEW t \in starts PROVE (n < t) <=> (f[d] < t)
      BY <1>0, <2>1, <2>2
    <3> QED
      BY <2>1, <2>2, <3>1 DEF Same
  <2>3. CASE ~ (f[d] >= m)
    <3>1. ~ (n < m) /\ f[d] < m
      BY <1>0, <2>1, <2>3
    <3> QED
      BY <1>0, <2>1, <2>3, <3>1 DEF Same
  <2> QED
    BY <2>2, <2>3
<1>3. Same(g, starts, c0, c0)
  BY DEF Same
<1>4. Alike(C \cup {c0}, g, starts, c0) = Of({d \in C : f[d] >= m}, Agent[c0]) \cup {c0}
  BY <1>2, <1>3 DEF Alike, Of
<1>5. ASSUME NEW c \in C, ~ Same(g, starts, c, c0) \/ Agent[c] # Agent[c0]
      PROVE  Alike(C \cup {c0}, g, starts, c) = Alike(C, f, starts, c)
  <2>1. \A d \in C : Same(g, starts, c, d) <=> Same(f, starts, c, d)
    BY <1>1 DEF Same
  <2> QED
    BY <1>5, <2>1 DEF Alike, Of
<1>6. ASSUME NEW c \in C, Same(g, starts, c, c0), Agent[c] = Agent[c0]
      PROVE  Alike(C \cup {c0}, g, starts, c) = Alike(C \cup {c0}, g, starts, c0)
  <2>1. \A d : Same(g, starts, c, d) <=> Same(g, starts, c0, d)
    BY <1>6 DEF Same
  <2> QED
    BY <1>6, <2>1 DEF Alike, Of
<1> QED
  BY <1>4, <1>5, <1>6 DEF Joins

LEMMA WithinGrows ==
  ASSUME NEW C \in SUBSET Calls, NEW c0 \in Calls \ C, NEW f \in [Entries -> Nat],
         NEW n \in Nat, AllBy(C, f, n),
         NEW starts \in SUBSET Nat, NEW m, LatestIs(starts, n, m),
         NEW k, Within(C, f, starts, k),
         Set(Agent[c0], k) /\ OnExceed = "deny" =>
           Spend(Of({d \in C : f[d] >= m}, Agent[c0])) + Price[c0] <= budgetFor(Agent[c0])[k]
  PROVE  Within(C \cup {c0}, [f EXCEPT ![c0] = n], starts, k)
<1> DEFINE g == [f EXCEPT ![c0] = n]
           D == C \cup {c0}
           since == Of({d \in C : f[d] >= m}, Agent[c0])
<1>0. g = [f EXCEPT ![c0] = n]
  OBVIOUS
<1> HIDE DEF g
<1>1. /\ Alike(D, g, starts, c0) = since \cup {c0}
      /\ \A c \in C : ~ Same(g, starts, c, c0) \/ Agent[c] # Agent[c0] =>
           Alike(D, g, starts, c) = Alike(C, f, starts, c)
      /\ \A c \in C : Same(g, starts, c, c0) /\ Agent[c] = Agent[c0] =>
           Alike(D, g, starts, c) = Alike(D, g, starts, c0)
  <2>1. Joins(C, c0, f, g, starts, m)
    BY <1>0, NewestGroup
  <2> QED
    BY <2>1 DEF Joins
<1>2. since \in SUBSET Calls /\ c0 \in Calls \ since
  BY DEF Of
<1>3. Spend(since \cup {c0}) = Price[c0] + Spend(since) /\ Spend(since) \in Nat
  BY <1>2, SpendOneMore
<1>4. Price[c0] \in Nat
  BY EntriesAre, MeteringAssumption
<1> HIDE DEF since
<1>5. Set(Agent[c0], k) /\ OnExceed = "deny" =>
        Spend(Alike(D, g, starts, c0)) <= budgetFor(Agent[c0])[k]
  <2>1. Spend(since \cup {c0}) = Spend(since) + Price[c0]
    BY <1>3, <1>4
  <2> QED
    BY <1>1, <2>1 DEF since
<1>6. ASSUME NEW c \in C, Set(Agent[c], k), OnExceed = "deny"
      PROVE  Spend(Alike(D, g, starts, c)) <= budgetFor(Agent[c])[k]
  <2>1. CASE ~ Same(g, starts, c, c0) \/ Agent[c] # Agent[c0]
    BY <1>1, <1>6, <2>1 DEF Within
  <2>2. CASE Same(g, starts, c, c0) /\ Agent[c] = Agent[c0]
    BY <1>1, <1>5, <1>6, <2>2
  <2> QED
    BY <2>1, <2>2
<1> QED
  BY <1>5, <1>6 DEF Within, g

LEMMA HourGrows ==
  ASSUME NEW C \in SUBSET Calls, NEW c0 \in Calls \ C, NEW f \in [Entries -> Nat],
         NEW n \in Nat, AllBy(C, f, n), HourWithin(C, f),
         NEW m, LatestIs(MonthStarts, n, m),
         NEW R \in SUBSET C, \A d \in C : f[d] >= m => d \in R,
         Set(Agent[c0], "per_hour") =>
           Cardinality(Of({d \in R : f[d] >= n - Hour}, Agent[c0])) + 1
             <= budgetFor(Agent[c0]).per_hour
  PROVE  HourWithin(C \cup {c0}, [f EXCEPT ![c0] = n])
<1> DEFINE g == [f EXCEPT ![c0] = n]
           D == C \cup {c0}
           since == Of({d \in R : f[d] >= n - Hour}, Agent[c0])
<1>0. /\ MonthStarts \in SUBSET Nat /\ m \in Nat /\ Hour \in Nat /\ IsFiniteSet(Calls)
      /\ m \in MonthStarts /\ m <= n /\ \A d \in C : f[d] <= n
  <2>1. MonthStarts \in SUBSET Nat /\ Hour \in Nat /\ IsFiniteSet(Calls)
    BY EntriesAre, MeteringAssumption
  <2> QED
    BY <2>1 DEF AllBy, LatestIs
<1>1. g \in [Entries -> Nat] /\ g[c0] = n /\ \A d \in C : g[d] = f[d] /\ f[d] \in Nat
  BY EntriesAre
<1> HIDE DEF g
<1>2. ASSUME NEW d \in C, Same(g, MonthStarts, c0, d) PROVE d \in R
  <2>1. ~ (n < m) /\ (g[c0] < m <=> g[d] < m)
    BY <1>0, <1>1, <1>2 DEF Same
  <2>2. f[d] >= m
    BY <1>0, <1>1, <2>1
  <2> QED
    BY <2>2
<1>3. ASSUME Set(Agent[c0], "per_hour"), \A d \in HourOf(D, g, c0) : Same(g, MonthStarts, c0, d)
      PROVE  Cardinality(HourOf(D, g, c0)) <= budgetFor(Agent[c0]).per_hour
  <2>1. HourOf(D, g, c0) \subseteq since \cup {c0}
    <3> SUFFICES ASSUME NEW d \in HourOf(D, g, c0), d # c0 PROVE d \in since
      OBVIOUS
    <3>1. d \in C /\ Agent[d] = Agent[c0] /\ g[d] >= g[c0] - Hour
      BY DEF HourOf, Of
    <3>2. d \in R
      BY <1>2, <1>3, <3>1
    <3> QED
      BY <1>0, <1>1, <3>1, <3>2 DEF Of
  <2>2. since \subseteq C /\ c0 \notin since /\ IsFiniteSet(since)
    <3>1. since \subseteq C /\ since \subseteq Calls
      BY DEF Of
    <3> QED
      BY <1>0, <3>1, FS_Subset
  <2> HIDE DEF since
  <2>3. IsFiniteSet(since \cup {c0}) /\ Cardinality(since \cup {c0}) = Cardinality(since) + 1
        /\ Cardinality(since) \in Nat
    BY <2>2, FS_AddElement, FS_CardinalityType
  <2>4. Cardinality(HourOf(D, g, c0)) <= Cardinality(since \cup {c0})
        /\ IsFiniteSet(HourOf(D, g, c0))
    BY <2>1, <2>3, FS_Subset
  <2>5. Cardinality(HourOf(D, g, c0)) \in Nat
    BY <2>4, FS_CardinalityType
  <2>6. budgetFor(Agent[c0]).per_hour \in Int
    <3>1. budgetFor(Agent[c0]).per_hour \in Nat \cup {Unset}
      BY MeteringAssumption DEF budgetFor, CallLimits
    <3> QED
      BY <1>3, <3>1 DEF Set
  <2>7. Cardinality(since) + 1 <= budgetFor(Agent[c0]).per_hour
    BY <1>3 DEF since
  <2> QED
    BY <2>3, <2>4, <2>5, <2>6, <2>7
<1>4. ASSUME NEW c \in C, Set(Agent[c], "per_hour"),
             \A d \in HourOf(D, g, c) : Same(g, MonthStarts, c, d)
      PROVE  Cardinality(HourOf(D, g, c)) <= budgetFor(Agent[c]).per_hour
  <2>1. CASE c0 \in HourOf(D, g, c)
    <3>1. Agent[c0] = Agent[c] /\ g[c] = n
      <4>1. Agent[c0] = Agent[c] /\ g[c0] <= g[c]
        BY <2>1 DEF HourOf, Of
      <4> QED
        BY <1>0, <1>1, <4>1
    <3>2. HourOf(D, g, c) = HourOf(D, g, c0)
      BY <1>1, <3>1 DEF HourOf
    <3>3. \A d : Same(g, MonthStarts, c, d) <=> Same(g, MonthStarts, c0, d)
      BY <1>1, <3>1 DEF Same
    <3> QED
      BY <1>3, <1>4, <3>1, <3>2, <3>3
  <2>2. CASE c0 \notin HourOf(D, g, c)
    <3>1. HourOf(D, g, c) = HourOf(C, f, c)
      BY <1>1, <2>2 DEF HourOf, Of
    <3>2. HourOf(C, f, c) \subseteq C
      BY DEF HourOf, Of
    <3>3. \A d \in C : Same(g, MonthStarts, c, d) <=> Same(f, MonthStarts, c, d)
      BY <1>1 DEF Same
    <3>4. \A d \in HourOf(C, f, c) : Same(f, MonthStarts, c, d)
      BY <1>4, <3>1, <3>2, <3>3
    <3> QED
      BY <1>4, <3>1, <3>4 DEF HourWithin
  <2> QED
    BY <2>1, <2>2
<1> QED
  BY <1>3, <1>4 DEF HourWithin, g

(* The starts of the day and of the month it is. *)
LEMMA StartsAreLatest ==
  ASSUME MeteringTypeOK
  PROVE  /\ LatestIs(DayStarts, now, Midnight) /\ LatestIs(MonthStarts, now, MonthStart)
         /\ Midnight \in Nat /\ MonthStart \in Nat /\ MonthStart <= Midnight /\ now \in Nat
<1>1. now \in Nat /\ FirstTick <= now /\ FirstTick \in Nat /\ now \in FirstTick..LastTick
  BY MeteringAssumption DEF MeteringTypeOK
<1>2. LatestIs(MonthStarts, now, MonthStart)
  BY <1>1, MonthHasStart, MonthStartIs DEF LatestIs
<1>3. LatestIs(DayStarts, now, Midnight)
  <2> DEFINE begun == {t \in DayStarts : t <= now}
  <2>1. begun \in SUBSET Nat /\ \A t \in begun : t <= now
    BY MeteringAssumption
  <2>2. begun # {}
    <3>1. PICK t \in DayStarts : t <= FirstTick
      BY MeteringAssumption
    <3>2. t \in Nat
      BY MeteringAssumption
    <3> QED
      BY <1>1, <3>1, <3>2
  <2>3. Midnight = Max(begun)
    BY DEF Midnight, LatestOf
  <2>4. begun \subseteq DayStarts /\ \A t \in DayStarts : t <= now => t \in begun
    OBVIOUS
  <2> HIDE DEF begun
  <2>5. PICK x \in begun : \A t \in begun : x >= t
    BY <1>1, <2>1, <2>2, GreatestElement
  <2>6. Max(begun) \in begun /\ \A t \in begun : Max(begun) >= t
    BY <2>5 DEF Max
  <2> QED
    BY <2>1, <2>3, <2>4, <2>6 DEF LatestIs
<1>4. Midnight \in Nat /\ MonthStart \in Nat /\ MonthStarts \subseteq DayStarts
  BY <1>2, <1>3, MeteringAssumption DEF LatestIs
<1>5. MonthStart <= Midnight
  BY <1>2, <1>3, <1>4 DEF LatestIs
<1> QED
  BY <1>1, <1>2, <1>3, <1>4, <1>5

(* What an open budget check says of the amounts it looked at.               *)
LEMMA OpenMeansWithin ==
  ASSUME NEW a \in Agents, NEW cost \in Nat, check(budgetFor(a), Reading(a), cost) = NoDecision
  PROVE  /\ \A k \in {"daily", "monthly"} :
              Set(a, k) /\ OnExceed = "deny" => ~ (Reading(a)[k] + cost > budgetFor(a)[k])
         /\ Set(a, "per_hour") => ~ (Reading(a).per_hour >= budgetFor(a).per_hour)
<1>1. Denial # NoDecision /\ Decision("require_approval", "soft_mandatory", "built_in") # NoDecision
  <2>1. Denial \in PolicyDecision
        /\ Decision("require_approval", "soft_mandatory", "built_in") \in PolicyDecision
    BY DEF Denial, Decision, PolicyDecision, ActionType, EnforcementLevel, RuleTier
  <2> QED
    BY <2>1, NoDecisionIsNone
<1>2. /\ ~ (DollarOverrun(budgetFor(a), Reading(a), cost) /\ OnExceed = "deny")
      /\ ~ CountExhausted(budgetFor(a), Reading(a))
  BY <1>1 DEF check
<1> QED
  BY <1>2 DEF DollarOverrun, CountExhausted, DollarLimits, CallLimits, Set

(* They hold as long as no call is let through. *)
LEMMA NothingCleared ==
  ASSUME LimitsHold, Cleared' = Cleared, \A d \in Cleared : (at')[d] = at[d],
         degraded => degraded'
  PROVE  LimitsHold'
<1>1. \A c \in Cleared : \A starts : Alike(Cleared, at', starts, c) = Alike(Cleared, at, starts, c)
  BY DEF Alike, Of, Same
<1>2. \A c \in Cleared : HourOf(Cleared, at', c) = HourOf(Cleared, at, c)
  BY DEF HourOf, Of
<1>3. \A c, d \in Cleared : Same(at', MonthStarts, c, d) <=> Same(at, MonthStarts, c, d)
  BY DEF Same
<1>4. \A c \in Cleared : HourOf(Cleared, at, c) \subseteq Cleared
  BY DEF HourOf, Of
<1>5. SUFFICES ASSUME ~degraded
               PROVE  /\ Within(Cleared, at', DayStarts, "daily")
                      /\ Within(Cleared, at', MonthStarts, "monthly")
                      /\ HourWithin(Cleared, at')
  BY DEF LimitsHold
<1>6. /\ Within(Cleared, at, DayStarts, "daily") /\ Within(Cleared, at, MonthStarts, "monthly")
      /\ HourWithin(Cleared, at)
  BY <1>5 DEF LimitsHold
<1>7. Within(Cleared, at', DayStarts, "daily") /\ Within(Cleared, at', MonthStarts, "monthly")
  BY <1>1, <1>6 DEF Within
<1>8. HourWithin(Cleared, at')
  BY <1>2, <1>3, <1>4, <1>6 DEF HourWithin
<1> QED
  BY <1>7, <1>8

LEMMA DispatchWithin ==
  ASSUME IInv, Timely, LimitsHold, NEW c0 \in Calls, Dispatch(c0)
  PROVE  LimitsHold'
<1>1. /\ now' = now /\ agent' = agent /\ degraded' = degraded /\ agent = Agent[c0] /\ up
      /\ pc[c0] = "new" /\ at' = [at EXCEPT ![c0] = now]
  BY MeteringAssumption DEF Dispatch, up
<1>2. /\ c0 \in Calls \ Cleared /\ Cleared \in SUBSET Calls /\ at \in [Entries -> Nat]
      /\ Calls \in SUBSET Entries
  BY <1>1, EntriesAre DEF Cleared, IInv, MeteringTypeOK
<1>3. SUFFICES ASSUME ~degraded
               PROVE  /\ Within(Cleared', at', DayStarts, "daily")
                      /\ Within(Cleared', at', MonthStarts, "monthly")
                      /\ HourWithin(Cleared', at')
  BY <1>1 DEF LimitsHold
<1> DEFINE a == Agent[c0]
<1>4. CASE /\ check(budgetFor(agent), Reading(agent), Price[c0]) = NoDecision
           /\ Clears(c0)
  <2>1. Cleared' = Cleared \cup {c0}
    BY <1>4 DEF Clears, Cleared, IInv, MeteringTypeOK
  <2>2. /\ LatestIs(DayStarts, now, Midnight) /\ LatestIs(MonthStarts, now, MonthStart)
        /\ Midnight \in Nat /\ MonthStart \in Nat /\ MonthStart <= Midnight /\ now \in Nat
    BY StartsAreLatest DEF IInv
  <2>3. AllBy(Cleared, at, now)
    BY DEF AllBy, Timely
  <2>4. /\ records \cap Calls \in SUBSET Cleared /\ records \in SUBSET Entries
        /\ \A d \in Cleared : at[d] >= MonthStart => d \in records \cap Calls
    BY <1>1, <1>2, <1>3, EntriesAre DEF IInv, MeteringTypeOK, Recorded, Accepted
  <2>5. a \in Agents /\ Price[c0] \in Nat /\ DayStarts \in SUBSET Nat /\ MonthStarts \in SUBSET Nat
    BY <1>2, MeteringAssumption DEF Agents
  <2>6. /\ \A k \in {"daily", "monthly"} :
             Set(a, k) /\ OnExceed = "deny" => ~ (Reading(a)[k] + Price[c0] > budgetFor(a)[k])
        /\ Set(a, "per_hour") => ~ (Reading(a).per_hour >= budgetFor(a).per_hour)
    BY <1>1, <1>4, <2>5, OpenMeansWithin
  <2>7. ASSUME NEW k \in {"daily", "monthly", "per_hour"}, Set(a, k)
        PROVE  budgetFor(a)[k] \in Nat
    <3>1. budgetFor(a)[k] \in Nat \cup {Unset}
      BY MeteringAssumption DEF budgetFor, CallLimits, DollarLimits
    <3> QED
      BY <2>7, <3>1 DEF Set
  <2>8. ASSUME NEW m \in Nat, m >= MonthStart
        PROVE  Spend(Of({d \in Cleared : at[d] >= m}, a)) = Spend(Of(Since(m), a))
               /\ Spend(Of(Since(m), a)) \in Nat
    <3>1. /\ Since(m) \in SUBSET Entries
          /\ Since(m) \cap Calls = {d \in Cleared : at[d] >= m}
      BY <1>1, <1>3, <2>8, WindowHolds
    <3>2. /\ Of(Since(m), a) \in SUBSET Entries
          /\ Of(Since(m), a) \cap Calls = Of({d \in Cleared : at[d] >= m}, a)
      BY <3>1 DEF Of
    <3> QED
      BY <3>2, SpendOfCalls
  <2>10. Within(Cleared', at', DayStarts, "daily")
    <3>1. Set(a, "daily") /\ OnExceed = "deny" =>
            Spend(Of({d \in Cleared : at[d] >= Midnight}, a)) + Price[c0] <= budgetFor(a)["daily"]
      <4>1. Spend(Of({d \in Cleared : at[d] >= Midnight}, a)) = Spend(Of(Since(Midnight), a))
        BY <2>2, <2>8
      <4>2. Reading(a)["daily"] = Spend(Of(Since(Midnight), a))
        BY DEF Reading
      <4>3. Spend(Of(Since(Midnight), a)) \in Nat
        BY <2>2, <2>8
      <4> SUFFICES ASSUME Set(a, "daily"), OnExceed = "deny"
                   PROVE  Spend(Of(Since(Midnight), a)) + Price[c0] <= budgetFor(a)["daily"]
        BY <4>1
      <4>4. ~ (Spend(Of(Since(Midnight), a)) + Price[c0] > budgetFor(a)["daily"])
        BY <2>6, <4>2
      <4>5. budgetFor(a)["daily"] \in Nat
        BY <2>7
      <4> QED
        BY <2>5, <4>3, <4>4, <4>5
    <3>2. Within(Cleared, at, DayStarts, "daily")
      BY <1>3 DEF LimitsHold
    <3>3. Within(Cleared \cup {c0}, [at EXCEPT ![c0] = now], DayStarts, "daily")
      BY <1>2, <2>2, <2>3, <2>5, <3>1, <3>2, WithinGrows
    <3> QED
      BY <1>1, <2>1, <3>3
  <2>11. Within(Cleared', at', MonthStarts, "monthly")
    <3>1. Set(a, "monthly") /\ OnExceed = "deny" =>
            Spend(Of({d \in Cleared : at[d] >= MonthStart}, a)) + Price[c0] <= budgetFor(a)["monthly"]
      <4>1. Spend(Of({d \in Cleared : at[d] >= MonthStart}, a)) = Spend(Of(Since(MonthStart), a))
        BY <2>2, <2>8
      <4>2. Reading(a)["monthly"] = Spend(Of(Since(MonthStart), a))
        BY DEF Reading
      <4>3. Spend(Of(Since(MonthStart), a)) \in Nat
        <5>1. MonthStart \in Nat /\ MonthStart >= MonthStart
          BY <2>2
        <5> QED
          BY <5>1, <2>8
      <4> SUFFICES ASSUME Set(a, "monthly"), OnExceed = "deny"
                   PROVE  Spend(Of(Since(MonthStart), a)) + Price[c0] <= budgetFor(a)["monthly"]
        BY <4>1
      <4>4. ~ (Spend(Of(Since(MonthStart), a)) + Price[c0] > budgetFor(a)["monthly"])
        BY <2>6, <4>2
      <4>5. budgetFor(a)["monthly"] \in Nat
        BY <2>7
      <4> QED
        BY <2>5, <4>3, <4>4, <4>5
    <3>2. Within(Cleared, at, MonthStarts, "monthly")
      BY <1>3 DEF LimitsHold
    <3>3. Within(Cleared \cup {c0}, [at EXCEPT ![c0] = now], MonthStarts, "monthly")
      BY <1>2, <2>2, <2>3, <2>5, <3>1, <3>2, WithinGrows
    <3> QED
      BY <1>1, <2>1, <3>3
  <2>12. HourWithin(Cleared', at')
    <3> DEFINE counted == Of({d \in records : at[d] >= now - Hour}, a)
               calls == Of({d \in records \cap Calls : at[d] >= now - Hour}, a)
    <3>1. Set(a, "per_hour") => Cardinality(calls) + 1 <= budgetFor(a).per_hour
      <4>1. Reading(a).per_hour = Cardinality(counted)
        BY DEF Reading, countCallsSince, Since
      <4>2. Cardinality(counted) \in Nat /\ Cardinality(calls) \in Nat
            /\ Cardinality(calls) <= Cardinality(counted)
        <5>1. counted \in SUBSET Entries /\ calls \subseteq counted
          BY <2>4 DEF Of
        <5> HIDE DEF counted, calls
        <5>2. IsFiniteSet(counted) /\ IsFiniteSet(calls)
          BY <5>1, EntriesAre, FS_Subset
        <5> QED
          BY <5>1, <5>2, FS_Subset, FS_CardinalityType
      <4> SUFFICES ASSUME Set(a, "per_hour")
                   PROVE  Cardinality(calls) + 1 <= budgetFor(a).per_hour
        OBVIOUS
      <4>3. budgetFor(a)["per_hour"] \in Nat
        BY <2>7
      <4>4. ~ (Cardinality(counted) >= budgetFor(a).per_hour)
        BY <2>6, <4>1
      <4> QED
        BY <4>2, <4>3, <4>4
    <3>2. HourWithin(Cleared, at)
      BY <1>3 DEF LimitsHold
    <3>3. HourWithin(Cleared \cup {c0}, [at EXCEPT ![c0] = now])
      BY <1>2, <2>2, <2>3, <2>4, <3>1, <3>2, HourGrows
    <3> QED
      BY <1>1, <2>1, <3>3
  <2> QED
    BY <2>10, <2>11, <2>12
<1>5. CASE Refuses(c0) \/ LogFails(c0)
  <2>1. Cleared' = Cleared
    BY <1>1, <1>5 DEF Refuses, LogFails, Cleared, IInv, MeteringTypeOK
  <2>2. \A d \in Cleared : (at')[d] = at[d]
    BY <1>1, <1>2
  <2>3. LimitsHold'
    BY <1>1, <2>1, <2>2, NothingCleared
  <2> QED
    BY <1>1, <1>3, <2>3 DEF LimitsHold
<1> QED
  BY <1>4, <1>5 DEF Dispatch

(* Only a dispatch changes which calls were let through, and when. *)
LEMMA OthersClearNothing ==
  ASSUME IInv, [Next]_meteringVars, ~ \E c \in Calls : Dispatch(c)
  PROVE  Cleared' = Cleared /\ \A d \in Cleared : (at')[d] = at[d]
<1>1. CASE \E m \in Commands : onAudit(m)
  <2>1. PICK m \in Commands : onAudit(m)
    BY <1>1
  <2>2. Cleared' = Cleared /\ at' = [at EXCEPT ![m] = now] /\ m \notin Cleared
    BY <2>1, EntriesAre DEF onAudit, Cleared
  <2>3. at \in [Entries -> Nat] /\ Cleared \subseteq Entries
    BY EntriesAre DEF IInv, MeteringTypeOK, Cleared
  <2> QED
    BY <2>2, <2>3
<1>2. CASE ~ \E m \in Commands : onAudit(m)
  <2>1. at' = at /\ Cleared' = Cleared
    BY <1>2 DEF Next, Returns, ForwardFails, Tick, Killed, Start, meteringVars, Cleared,
                IInv, MeteringTypeOK
  <2> QED
    BY <2>1
<1> QED
  BY <1>1, <1>2

LEMMA StepWithin ==
  ASSUME IInv, Timely, LimitsHold, [Next]_meteringVars
  PROVE  LimitsHold'
<1>1. CASE \E c \in Calls : Dispatch(c)
  BY <1>1, DispatchWithin
<1>2. CASE ~ \E c \in Calls : Dispatch(c)
  <2>1. Cleared' = Cleared /\ \A d \in Cleared : (at')[d] = at[d]
    BY <1>2, OthersClearNothing
  <2>2. degraded => degraded'
    BY <1>2 DEF Next, Returns, ForwardFails, onAudit, Tick, Killed, Start, meteringVars,
                IInv, MeteringTypeOK
  <2> QED
    BY <2>1, <2>2, NothingCleared
<1> QED
  BY <1>1, <1>2

LEMMA TimelyHolds == Spec => []Timely
<1>1. Init => Timely
  BY DEF Init, Timely, Cleared
<1>2. IInv /\ IInv' /\ Timely /\ [Next]_meteringVars => Timely'
  <2> SUFFICES ASSUME IInv, IInv', Timely, [Next]_meteringVars, NEW c \in Cleared'
               PROVE  (at')[c] <= now'
    BY DEF Timely
  <2>1. /\ now \in Nat /\ now' \in Nat /\ at \in [Entries -> Nat] /\ c \in Calls
        /\ Calls \in SUBSET Entries
    BY MonthIsNow, EntriesAre, MeteringAssumption DEF IInv, MeteringTypeOK, Cleared
  <2>2. now <= now'
    <3>1. CASE Tick
      BY <2>1, <3>1 DEF Tick
    <3>2. CASE ~ Tick
      <4>1. now' = now
        BY <3>2 DEF Next, Dispatch, Returns, ForwardFails, onAudit, Killed, Start, meteringVars
      <4> QED
        BY <2>1, <4>1
    <3> QED
      BY <3>1, <3>2
  <2>3. CASE c \in Cleared /\ (at')[c] = at[c]
    BY <2>1, <2>2, <2>3 DEF Timely
  <2>4. CASE (at')[c] = now
    BY <2>2, <2>4
  <2>5. (c \in Cleared /\ (at')[c] = at[c]) \/ (at')[c] = now
    <3>1. CASE \E d \in Calls : Dispatch(d)
      <4>1. PICK d \in Calls : Dispatch(d)
        BY <3>1
      <4>2. at' = [at EXCEPT ![d] = now] /\ \A x \in Calls \ {d} : (pc')[x] = pc[x]
        BY <4>1 DEF Dispatch, Clears, Refuses, LogFails, IInv, MeteringTypeOK
      <4> QED
        BY <2>1, <4>2 DEF Cleared
    <3>2. CASE ~ \E d \in Calls : Dispatch(d)
      <4> QED
        BY <3>2, OthersClearNothing
    <3> QED
      BY <3>1, <3>2
  <2> QED
    BY <2>3, <2>4, <2>5
<1> QED
  BY <1>1, <1>2, Invariance, PTL DEF Spec

(* A restart hands no agent a fresh budget: the calls let through keep the   *)
(* limits of the day and of the month, and that of the rolling hour where it *)
(* does not reach back into another month, for as long as nothing of the     *)
(* log was lost (start.ts: hydration; tracker.ts; budget.ts: check).         *)
THEOREM LimitsOutliveRestarts == Spec => []LimitsHoldAcrossRestarts
<1>1. Init => LimitsHold
  BY DEF Init, LimitsHold, Within, HourWithin, Cleared
<1>2. IInv /\ Timely /\ LimitsHold /\ [Next]_meteringVars => LimitsHold'
  BY StepWithin
<1>3. LimitsHold => LimitsHoldAcrossRestarts
  <2>1. \A starts, c, d : SameStretch(starts, c, d) <=> Same(at, starts, c, d)
    BY DEF SameStretch, Same
  <2> QED
    BY <2>1 DEF LimitsHold, LimitsHoldAcrossRestarts, Within, HourWithin, Alike, HourOf
<1> QED
  BY <1>1, <1>2, <1>3, Invariance, TimelyHolds, PTL DEF Spec

-----------------------------------------------------------------------------
(* The spend page.                                                           *)

(* Its sums as totals of the rows and of the agents.                         *)
LEMMA TotalCostIs ==
  ASSUME NEW S, IsFiniteSet(S), NEW w, Weighs(w, S), \A r \in S : w[r] = r.cost
  PROVE  TotalCost(S) = Total(w, S)
<1>1. PICK g : Adds(g, SUBSET S, w)
  BY AddsExists
<1>2. \A h : Adds(h, SUBSET S, w) <=>
               h = [s \in SUBSET S |->
                      IF s = {} THEN 0 ELSE Chosen(s).cost + h[s \ {Chosen(s)}]]
  <2>1. \A s \in SUBSET S : s # {} => w[Chosen(s)] = Chosen(s).cost
    BY ChosenIsIn
  <2> QED
    BY <2>1 DEF Adds
<1>3. \E h : /\ h = [s \in SUBSET S |->
                       IF s = {} THEN 0 ELSE Chosen(s).cost + h[s \ {Chosen(s)}]]
             /\ TotalCost(S) = h[S]
  <2>1. g = [s \in SUBSET S |-> IF s = {} THEN 0 ELSE Chosen(s).cost + g[s \ {Chosen(s)}]]
    BY <1>1, <1>2
  <2> QED
    BY <2>1, ZenonT(60) DEF Chosen, TotalCost, MapThenSumSet, MapThenFoldSet
<1>4. PICK h : Adds(h, SUBSET S, w) /\ TotalCost(S) = h[S]
  BY <1>2, <1>3
<1>5. Totals(h, w, S)
  BY <1>4, TotalIs
<1> QED
  BY <1>4, <1>5 DEF Totals

TokensRead(rows) == MapThenSumSet(LAMBDA m : m.tokens, rows)

LEMMA TokensReadIs ==
  ASSUME NEW S, IsFiniteSet(S), NEW w, Weighs(w, S), \A m \in S : w[m] = m.tokens
  PROVE  TokensRead(S) = Total(w, S)
<1>1. PICK g : Adds(g, SUBSET S, w)
  BY AddsExists
<1>2. \A h : Adds(h, SUBSET S, w) <=>
               h = [s \in SUBSET S |->
                      IF s = {} THEN 0 ELSE Chosen(s).tokens + h[s \ {Chosen(s)}]]
  <2>1. \A s \in SUBSET S : s # {} => w[Chosen(s)] = Chosen(s).tokens
    BY ChosenIsIn
  <2> QED
    BY <2>1 DEF Adds
<1>3. \E h : /\ h = [s \in SUBSET S |->
                       IF s = {} THEN 0 ELSE Chosen(s).tokens + h[s \ {Chosen(s)}]]
             /\ TokensRead(S) = h[S]
  <2>1. g = [s \in SUBSET S |-> IF s = {} THEN 0 ELSE Chosen(s).tokens + g[s \ {Chosen(s)}]]
    BY <1>1, <1>2
  <2> QED
    BY <2>1, ZenonT(60) DEF Chosen, TokensRead, MapThenSumSet, MapThenFoldSet
<1>4. PICK h : Adds(h, SUBSET S, w) /\ TokensRead(S) = h[S]
  BY <1>2, <1>3
<1>5. Totals(h, w, S)
  BY <1>4, TotalIs
<1> QED
  BY <1>4, <1>5 DEF Totals

LEMMA AgentsAreFinite == IsFiniteSet(Agents)
<1> DEFINE f == [c \in Calls |-> Agent[c]]
<1>1. f \in Surjection(Calls, Agents)
  BY DEF Surjection, Agents
<1> QED
  BY <1>1, EntriesAre, FS_Surjection

(* A sum over some agents of one field of their readings.                    *)
ReadOver(B, k) == MapThenSumSet(LAMBDA a : Reading(a)[k], B)

LEMMA ReadOverIs ==
  ASSUME NEW B \in SUBSET Agents, NEW k,
         NEW v, Weighs(v, B), \A a \in B : v[a] = Reading(a)[k]
  PROVE  ReadOver(B, k) = Total(v, B)
<1>0. IsFiniteSet(B)
  BY AgentsAreFinite, FS_Subset
<1>1. PICK g : Adds(g, SUBSET B, v)
  BY <1>0, AddsExists
<1>2. \A h : Adds(h, SUBSET B, v) <=>
               h = [s \in SUBSET B |->
                      IF s = {} THEN 0 ELSE Reading(Chosen(s))[k] + h[s \ {Chosen(s)}]]
  <2>1. \A s \in SUBSET B : s # {} => v[Chosen(s)] = Reading(Chosen(s))[k]
    BY ChosenIsIn
  <2> QED
    BY <2>1 DEF Adds
<1>3. \E h : /\ h = [s \in SUBSET B |->
                       IF s = {} THEN 0 ELSE Reading(Chosen(s))[k] + h[s \ {Chosen(s)}]]
             /\ ReadOver(B, k) = h[B]
  <2>1. g = [s \in SUBSET B |-> IF s = {} THEN 0 ELSE Reading(Chosen(s))[k] + g[s \ {Chosen(s)}]]
    BY <1>1, <1>2
  <2> QED
    BY <2>1, ZenonT(60) DEF Chosen, ReadOver, MapThenSumSet, MapThenFoldSet
<1>4. PICK h : Adds(h, SUBSET B, v) /\ ReadOver(B, k) = h[B]
  BY <1>2, <1>3
<1>5. Totals(h, v, B)
  BY <1>0, <1>4, TotalIs
<1> QED
  BY <1>4, <1>5 DEF Totals

LEMMA SumsRead ==
  /\ InTotal(LAMBDA a : Reading(a).per_day) = ReadOver(OtherAgents, "per_day")
  /\ InTotal(LAMBDA a : Reading(a).per_hour) = ReadOver(OtherAgents, "per_hour")
  /\ MapThenSumSet(LAMBDA a : Reading(a).daily, Agents) = ReadOver(Agents, "daily")
  /\ MapThenSumSet(LAMBDA a : Reading(a).tokens_per_day, Agents)
       = ReadOver(Agents, "tokens_per_day")
  BY DEF InTotal, ReadOver

(* The calls of a set, counted by agent, are as many as the set.             *)
LEMMA CountedByAgent ==
  ASSUME NEW S \in SUBSET Entries, NEW B, IsFiniteSet(B), Classifies(Agent, S, B),
         NEW v, \A a \in B : v[a] = Cardinality(Of(S, a))
  PROVE  Weighs(v, B) /\ Total(v, B) = Cardinality(S)
<1> DEFINE ones == [c \in Entries |-> 1]
<1>1. IsFiniteSet(S) /\ Weighs(ones, S)
  BY EntriesAre, FS_Subset DEF Weighs
<1>2. \A a : Of(S, a) = {c \in S : Agent[c] = a} /\ Of(S, a) \in SUBSET S /\ IsFiniteSet(Of(S, a))
  BY <1>1, FS_Subset DEF Of
<1>3. \A T \in SUBSET S : IsFiniteSet(T) /\ \A c \in T : ones[c] = 1
  BY <1>1, FS_Subset
<1> HIDE DEF ones
<1>4. \A T \in SUBSET S : Total(ones, T) = Cardinality(T)
  BY <1>3, TotalOfOnes
<1>5. ByClass(v, B, ones, S, Agent)
  BY <1>2, <1>4 DEF ByClass
<1>6. Total(v, B) = Total(ones, S)
  BY <1>1, <1>5, TotalOfClasses
<1>7. Weighs(v, B)
  BY <1>2, FS_CardinalityType DEF Weighs
<1> QED
  BY <1>4, <1>6, <1>7

(* Likewise their costs.                                                     *)
LEMMA SpendByAgent ==
  ASSUME NEW S \in SUBSET Calls,
         NEW v, \A a \in Agents : v[a] = Spend(Of(S, a))
  PROVE  Weighs(v, Agents) /\ Total(v, Agents) = Spend(S)
<1>1. IsFiniteSet(S) /\ IsFiniteSet(Agents) /\ Weighs(Price, S)
      /\ Classifies(Agent, S, Agents)
  BY AgentsAreFinite, EntriesAre, MeteringAssumption, FS_Subset DEF Weighs, Agents, Classifies
<1>2. \A a : Of(S, a) = {c \in S : Agent[c] = a} /\ Of(S, a) \in SUBSET S
  BY DEF Of
<1>3. \A T \in SUBSET S : Spend(T) = Total(Price, T) /\ Spend(T) \in Nat
  <2>1. \A T \in SUBSET S : T \in SUBSET Entries
    BY EntriesAre
  <2> QED
    BY <2>1, SpendIs, SpendOfCalls
<1>4. ByClass(v, Agents, Price, S, Agent)
  BY <1>2, <1>3 DEF ByClass
<1>5. Total(v, Agents) = Total(Price, S)
  BY <1>1, <1>4, TotalOfClasses
<1>6. Weighs(v, Agents)
  BY <1>2, <1>3 DEF Weighs
<1> QED
  BY <1>3, <1>5, <1>6

(* And their tokens.                                                         *)
LEMMA TokensByAgent ==
  ASSUME NEW S \in SUBSET Calls,
         NEW v, \A a \in Agents : v[a] = TokensOf(Of(S, a))
  PROVE  Weighs(v, Agents) /\ Total(v, Agents) = TokensOf(S)
<1>1. IsFiniteSet(S) /\ IsFiniteSet(Agents) /\ Weighs(Tokens, S)
      /\ Classifies(Agent, S, Agents)
  BY AgentsAreFinite, EntriesAre, MeteringAssumption, FS_Subset DEF Weighs, Agents, Classifies
<1>2. \A a : Of(S, a) = {c \in S : Agent[c] = a} /\ Of(S, a) \in SUBSET S
  BY DEF Of
<1>3. \A T \in SUBSET S : TokensOf(T) = Total(Tokens, T) /\ Total(Tokens, T) \in Nat
  <2>1. \A T \in SUBSET S : T \in SUBSET Calls /\ Additive(Tokens, T)
    BY <1>1, TotalAdds
  <2> QED
    BY <2>1, TokensOfIs DEF Additive
<1>4. ByClass(v, Agents, Tokens, S, Agent)
  BY <1>2, <1>3 DEF ByClass
<1>5. Total(v, Agents) = Total(Tokens, S)
  BY <1>1, <1>4, TotalOfClasses
<1>6. Weighs(v, Agents)
  BY <1>2, <1>3 DEF Weighs
<1> QED
  BY <1>3, <1>5, <1>6

(* The rows the page reads, by what they were written for.                   *)
RowOf(c) ==
  [id |-> c, time |-> at[c], agent |-> Agent[c], cost |-> Price[c],
   decision |-> IF c \in allowed THEN "allow" ELSE "deny"]
ReadingOf(c) == [id |-> c, time |-> sizedAt[c], tokens |-> Tokens[c]]

LEMMA RowsOfEntries ==
  ASSUME NEW S \in SUBSET Entries
  PROVE  /\ Cardinality({RowOf(c) : c \in S}) = Cardinality(S)
         /\ TotalCost({RowOf(c) : c \in S}) = Spend(S)
<1> DEFINE f == [c \in Entries |-> RowOf(c)]
           rows == {f[c] : c \in S}
           w == [r \in rows |-> r.cost]
<1>1. IsFiniteSet(S) /\ Weighs(Price, S)
  BY EntriesAre, MeteringAssumption, FS_Subset DEF Weighs
<1>2. \A c \in S : f[c] = RowOf(c) /\ f[c].id = c /\ f[c].cost = Price[c]
  BY DEF RowOf
<1>3. rows = {RowOf(c) : c \in S}
  BY <1>2
<1> HIDE DEF f
<1>4. \A x, y \in S : f[x] = f[y] => x = y
  BY <1>2
<1>5. \A c \in S : w[f[c]] = Price[c]
  BY <1>2
<1>6. Weighs(w, rows) /\ \A r \in rows : w[r] = r.cost
  BY <1>1, <1>2 DEF Weighs
<1> HIDE DEF w
<1>7. IsFiniteSet(rows) /\ Total(w, rows) = Total(Price, S)
  BY <1>1, <1>4, <1>5, TotalOfImage
<1>8. Cardinality(rows) = Cardinality(S)
  BY <1>1, <1>4, <1>5, TotalOfImage, Z3T(60)
<1> HIDE DEF rows
<1>9. TotalCost(rows) = Total(w, rows)
  BY <1>6, <1>7, TotalCostIs
<1> QED
  BY <1>3, <1>7, <1>8, <1>9, SpendIs

LEMMA ReadingsOfCalls ==
  ASSUME NEW S \in SUBSET Calls
  PROVE  TokensRead({ReadingOf(c) : c \in S}) = TokensOf(S)
<1> DEFINE f == [c \in Calls |-> ReadingOf(c)]
           rows == {f[c] : c \in S}
           w == [r \in rows |-> r.tokens]
<1>1. IsFiniteSet(S) /\ Weighs(Tokens, S)
  BY EntriesAre, MeteringAssumption, FS_Subset DEF Weighs
<1>2. \A c \in S : f[c] = ReadingOf(c) /\ f[c].id = c /\ f[c].tokens = Tokens[c]
  BY DEF ReadingOf
<1>3. rows = {ReadingOf(c) : c \in S}
  BY <1>2
<1> HIDE DEF f
<1>4. \A x, y \in S : f[x] = f[y] => x = y
  BY <1>2
<1>5. \A c \in S : w[f[c]] = Tokens[c]
  BY <1>2
<1>6. Weighs(w, rows) /\ \A r \in rows : w[r] = r.tokens
  BY <1>1, <1>2 DEF Weighs
<1> HIDE DEF w
<1>7. IsFiniteSet(rows) /\ Total(w, rows) = Total(Tokens, S)
  BY <1>1, <1>4, <1>5, TotalOfImage, SMTT(60)
<1> HIDE DEF rows
<1>8. TokensRead(rows) = Total(w, rows)
  BY <1>6, <1>7, TokensReadIs
<1> QED
  BY <1>3, <1>7, <1>8, TokensOfIs

(* The allowed rows since t, and the readings.                               *)
LEMMA PermittedRows ==
  ASSUME NEW t \in Int
  PROVE  /\ From(With(AuditRows, "allow"), t) = {RowOf(c) : c \in {d \in allowed : at[d] >= t}}
         /\ From(MeterRows, t) = {ReadingOf(c) : c \in {d \in meter : sizedAt[d] >= t}}
<1>1. AuditRows = {RowOf(c) : c \in allowed \cup denied}
  BY DEF AuditRows, RowOf
<1>2. \A c : /\ RowOf(c).time = at[c]
             /\ RowOf(c).decision = "allow" <=> c \in allowed
             /\ ReadingOf(c).time = sizedAt[c]
  BY DEF RowOf, ReadingOf
<1>3. MeterRows = {ReadingOf(c) : c \in meter}
  BY DEF MeterRows, ReadingOf
<1>4. From(With(AuditRows, "allow"), t) = {RowOf(c) : c \in {d \in allowed : at[d] >= t}}
  BY <1>1, <1>2 DEF From, With
<1>5. From(MeterRows, t) = {ReadingOf(c) : c \in {d \in meter : sizedAt[d] >= t}}
  BY <1>2, <1>3 DEF From
<1> QED
  BY <1>4, <1>5

(* The allowed rows since t: those of agents by another name than "chat",    *)
(* and the others.                                                           *)
Permitted(t) == {c \in allowed : at[c] >= t}
Named(S) == {c \in S : Agent[c] # ChatAgent}

LEMMA PermittedAre ==
  ASSUME IInv, NEW t
  PROVE  /\ Permitted(t) \in SUBSET Entries /\ Named(Permitted(t)) \in SUBSET Entries
         /\ Permitted(t) \cap Calls = {c \in Cleared : at[c] >= t}
         /\ \A a : a # ChatAgent =>
              Of(Permitted(t), a) = Of({c \in Cleared : at[c] >= t}, a)
         /\ Classifies(Agent, Named(Permitted(t)), OtherAgents)
         /\ Cardinality(Named(Permitted(t))) \in Nat /\ Cardinality(ChatRows(t)) \in Nat
         /\ Cardinality(Permitted(t)) = Cardinality(Named(Permitted(t))) + Cardinality(ChatRows(t))
<1> DEFINE all == Permitted(t)
           named == Named(all)
           chat == ChatRows(t)
<1>1. allowed \in SUBSET Entries /\ allowed \cap Calls = Cleared
  BY DEF IInv, MeteringTypeOK, Logged
<1>2. all \in SUBSET Entries /\ all \cap Calls = {c \in Cleared : at[c] >= t}
  BY <1>1 DEF Permitted
<1>3. named = {c \in all : Agent[c] # ChatAgent} /\ chat = {c \in all : Agent[c] = ChatAgent}
  BY DEF Named, ChatRows, Permitted
<1> HIDE DEF all, named, chat
<1>4. \A c \in all : c \in Calls \/ Agent[c] = ChatAgent
  BY <1>2, EntriesAre, MeteringAssumption
<1>5. \A a : a # ChatAgent => Of(all, a) = Of({c \in Cleared : at[c] >= t}, a)
  BY <1>2, <1>4 DEF Of
<1>6. Classifies(Agent, named, OtherAgents)
  BY <1>3, <1>4 DEF Classifies, OtherAgents, Agents
<1>7. /\ IsFiniteSet(named) /\ IsFiniteSet(chat)
      /\ named \cup chat = all /\ named \cap chat = {}
  <2>1. named \in SUBSET Entries /\ chat \in SUBSET Entries
    BY <1>2, <1>3
  <2> QED
    BY <1>3, <2>1, EntriesAre, FS_Subset
<1>8. /\ Cardinality(named) \in Nat /\ Cardinality(chat) \in Nat
      /\ Cardinality(all) = Cardinality(named) + Cardinality(chat)
  <2>1. Cardinality(all) = Cardinality(named) + Cardinality(chat) - Cardinality(named \cap chat)
    BY <1>7, FS_Union
  <2>2. Cardinality(named \cap chat) = 0
    BY <1>7, FS_EmptySet
  <2> QED
    BY <1>7, <2>1, <2>2, FS_CardinalityType
<1>9. named \in SUBSET Entries
  BY <1>2, <1>3
<1> QED
  BY <1>2, <1>5, <1>6, <1>8, <1>9 DEF all, named, chat

(* What the counters of the agents by another name than "chat" add up to, in *)
(* a window for which they have every call.                                  *)
LEMMA WindowAddsUp ==
  ASSUME IInv, up, ~degraded, NEW t \in Int, t >= MonthStart,
         NEW v, \A a \in OtherAgents : v[a] = Cardinality(Of(Since(t), a))
  PROVE  Weighs(v, OtherAgents) /\ Total(v, OtherAgents) = Cardinality(Named(Permitted(t)))
<1> DEFINE named == Named(Permitted(t))
<1>1. named \in SUBSET Entries /\ Classifies(Agent, named, OtherAgents)
  BY PermittedAre
<1>2. IsFiniteSet(OtherAgents)
  BY AgentsAreFinite, FS_Subset DEF OtherAgents
<1>3. ASSUME NEW a \in OtherAgents PROVE v[a] = Cardinality(Of(named, a))
  <2>1. a # ChatAgent
    BY DEF OtherAgents
  <2>2. Of(named, a) = Of(Permitted(t), a)
    BY <2>1 DEF Of, Named
  <2>3. Of(Permitted(t), a) = Of({c \in Cleared : at[c] >= t}, a)
    BY <2>1, PermittedAre
  <2>4. Of(Since(t), a) = Of({c \in Cleared : at[c] >= t}, a)
    BY <2>1, WindowOfAgent
  <2> QED
    BY <2>2, <2>3, <2>4
<1> HIDE DEF named
<1>4. Weighs(v, OtherAgents) /\ Total(v, OtherAgents) = Cardinality(named)
  BY <1>1, <1>2, <1>3, CountedByAgent
<1> QED
  BY <1>4 DEF named

(* In any window they add up to no more.                                     *)
LEMMA WindowAddsUpToLess ==
  ASSUME IInv, NEW t \in Int,
         NEW v, \A a \in OtherAgents : v[a] = Cardinality(Of(Since(t), a))
  PROVE  /\ Weighs(v, OtherAgents)
         /\ Total(v, OtherAgents) \in Nat
         /\ Total(v, OtherAgents) <= Cardinality(Named(Permitted(t)))
<1> DEFINE counted == Named(Since(t))
           named == Named(Permitted(t))
<1>1. named \in SUBSET Entries /\ Classifies(Agent, named, OtherAgents)
  BY PermittedAre
<1>2. counted \subseteq named
  <2>1. records \subseteq allowed
    BY DEF IInv, MeteringTypeOK, Logged, Accepted
  <2> QED
    BY <2>1 DEF Since, Named, Permitted
<1>3. IsFiniteSet(OtherAgents)
  BY AgentsAreFinite, FS_Subset DEF OtherAgents
<1>4. \A a \in OtherAgents : v[a] = Cardinality(Of(counted, a))
  <2>1. \A a \in OtherAgents : Of(Since(t), a) = Of(counted, a)
    BY DEF Of, Named, OtherAgents
  <2> QED
    BY <2>1
<1> HIDE DEF counted, named
<1>5. counted \in SUBSET Entries /\ Classifies(Agent, counted, OtherAgents)
  BY <1>1, <1>2 DEF Classifies
<1>6. Weighs(v, OtherAgents) /\ Total(v, OtherAgents) = Cardinality(counted)
  BY <1>3, <1>4, <1>5, CountedByAgent
<1>7. IsFiniteSet(named) /\ IsFiniteSet(counted)
  BY <1>1, <1>5, EntriesAre, FS_Subset
<1>8. Cardinality(counted) <= Cardinality(named) /\ Cardinality(counted) \in Nat
  BY <1>2, <1>7, FS_Subset, FS_CardinalityType
<1> QED
  BY <1>6, <1>8 DEF named

(* The spend page and the enforcer agree: calls and cost of the day by       *)
(* agent, calls, cost and tokens of the day together, and the calls of the   *)
(* last hour unless the month turned within it, but for the rows of the type *)
(* "chat", which the page adds to its calls, for as long as nothing of the   *)
(* log was lost (web: lib/audit.ts, spendSummary; tracker.ts; start.ts:      *)
(* onAudit).                                                                 *)
THEOREM PageAgreesWithEnforcer == Spec => []SpendPageAgrees
<1>1. IInv /\ Metered => SpendPageAgrees
  <2> SUFFICES ASSUME IInv, Metered, up, ~degraded PROVE SpendPageAgrees
    BY DEF SpendPageAgrees
  <2> DEFINE T == Permitted(Midnight)
             H == Permitted(now - Hour)
             today == {RowOf(c) : c \in T}
             page == spendSummary(AuditRows, MeterRows, now, Midnight, Hour)
             lastHour == ReadOver(OtherAgents, "per_hour")
  <2>1. /\ Midnight \in Int /\ MonthStart \in Nat /\ Midnight >= MonthStart /\ now \in Nat
        /\ Hour \in Nat /\ now - Hour \in Int
    BY StartsAreLatest, MeteringAssumption DEF IInv
  <2>2. /\ T \in SUBSET Entries /\ H \in SUBSET Entries
        /\ T \cap Calls = {c \in Cleared : at[c] >= Midnight}
        /\ \A a : a # ChatAgent => Of(T, a) = Of({c \in Cleared : at[c] >= Midnight}, a)
    BY PermittedAre
  <2>3. /\ From(With(AuditRows, "allow"), Midnight) = today
        /\ From(With(AuditRows, "allow"), now - Hour) = {RowOf(c) : c \in H}
        /\ From(MeterRows, Midnight)
             = {ReadingOf(c) : c \in {d \in meter : sizedAt[d] >= Midnight}}
    BY <2>1, PermittedRows DEF Permitted
  <2>4. OtherAgents \in SUBSET Agents
    BY DEF OtherAgents
  <2>5. ASSUME NEW a \in DOMAIN page.byAgent \ {ChatAgent}
        PROVE  /\ page.byAgent[a].calls = Reading(a).per_day
               /\ page.byAgent[a].cost = Reading(a).daily
    <3> DEFINE own == {r \in today : r.agent = a}
    <3>1. page.byAgent = [b \in Leading(today) |->
            LET mine == {r \in today : r.agent = b}
            IN  [calls |-> Cardinality(mine), cost |-> TotalCost(mine)]]
      BY <2>3 DEF spendSummary
    <3>2. page.byAgent[a].calls = Cardinality(own) /\ page.byAgent[a].cost = TotalCost(own)
      <4> HIDE DEF page, today
      <4> QED
        BY <2>5, <3>1
    <3>3. own = {RowOf(c) : c \in Of(T, a)} /\ Of(T, a) \in SUBSET Entries
      BY <2>2 DEF RowOf, Of
    <3>4. Of(T, a) = Of(Since(Midnight), a)
      <4>1. a # ChatAgent
        BY <2>5
      <4>2. Of(Since(Midnight), a) = Of({c \in Cleared : at[c] >= Midnight}, a)
        BY <2>1, <4>1, WindowOfAgent
      <4> HIDE DEF T
      <4> QED
        BY <2>2, <4>1, <4>2
    <3> HIDE DEF own, page, T, today
    <3>5. Cardinality(own) = Cardinality(Of(T, a)) /\ TotalCost(own) = Spend(Of(T, a))
      BY <3>3, RowsOfEntries
    <3> QED
      BY <3>2, <3>4, <3>5 DEF Reading, countCallsSince
  <2>6. page.callsToday = ReadOver(OtherAgents, "per_day") + Cardinality(ChatRows(Midnight))
    <3> DEFINE v == [a \in OtherAgents |-> Reading(a)["per_day"]]
    <3>1. page.callsToday = Cardinality(today)
      BY <2>3 DEF spendSummary
    <3>2. Cardinality(today) = Cardinality(T)
      <4> HIDE DEF T
      <4> QED
        BY <2>2, RowsOfEntries
    <3>3. \A a \in OtherAgents : /\ v[a] = Cardinality(Of(Since(Midnight), a))
                                 /\ v[a] = Reading(a)["per_day"]
      BY DEF Reading, countCallsSince
    <3>4. Cardinality(T) = Cardinality(Named(T)) + Cardinality(ChatRows(Midnight))
      BY PermittedAre
    <3> HIDE DEF v, page, today
    <3>5. Weighs(v, OtherAgents) /\ Total(v, OtherAgents) = Cardinality(Named(T))
      BY <2>1, <3>3, WindowAddsUp
    <3>6. ReadOver(OtherAgents, "per_day") = Total(v, OtherAgents)
      BY <2>4, <3>3, <3>5, ReadOverIs
    <3> QED
      BY <3>1, <3>2, <3>4, <3>5, <3>6
  <2>7. page.costToday = ReadOver(Agents, "daily")
    <3> DEFINE v == [a \in Agents |-> Reading(a)["daily"]]
               S == {c \in Cleared : at[c] >= Midnight}
    <3>1. page.costToday = TotalCost(today)
      BY <2>3 DEF spendSummary
    <3>2. S \in SUBSET Calls /\ Since(Midnight) \in SUBSET Entries
          /\ Since(Midnight) \cap Calls = S /\ T \cap Calls = S
      BY <2>1, <2>2, WindowHolds DEF Cleared
    <3> HIDE DEF T, S
    <3>3. TotalCost(today) = Spend(T) /\ Spend(T) = Spend(S)
      BY <2>2, <3>2, RowsOfEntries, SpendOfCalls
    <3>4. \A a \in Agents : v[a] = Spend(Of(S, a)) /\ v[a] = Reading(a)["daily"]
      <4>1. \A a : /\ Of(Since(Midnight), a) \in SUBSET Entries
                   /\ Of(Since(Midnight), a) \cap Calls = Of(S, a)
        BY <3>2 DEF Of
      <4>2. \A a : Spend(Of(Since(Midnight), a)) = Spend(Of(S, a))
        BY <4>1, SpendOfCalls
      <4> QED
        BY <4>2 DEF Reading
    <3> HIDE DEF v, page, today
    <3>5. Weighs(v, Agents) /\ Total(v, Agents) = Spend(S)
      BY <3>2, <3>4, SpendByAgent
    <3>6. ReadOver(Agents, "daily") = Total(v, Agents)
      BY <3>4, <3>5, ReadOverIs
    <3> QED
      BY <3>1, <3>3, <3>5, <3>6
  <2>8. page.resultTokensToday = ReadOver(Agents, "tokens_per_day")
    <3> DEFINE v == [a \in Agents |-> Reading(a)["tokens_per_day"]]
               M == {d \in metered : sizedAt[d] >= Midnight}
               D == {d \in meter : sizedAt[d] >= Midnight}
               R == {d \in Calls : pc[d] = "returned" /\ sizedAt[d] >= Midnight}
    <3>1. page.resultTokensToday = TokensRead({ReadingOf(c) : c \in D})
      BY <2>3 DEF spendSummary, TokensRead
    <3>2. \A a \in Agents : v[a] = TokensOf(Of(M, a)) /\ v[a] = Reading(a)["tokens_per_day"]
      BY DEF Reading, resultTokensSince, TokensOf
    <3>3. R \in SUBSET Calls /\ M \subseteq R /\ D \subseteq R
          /\ M \in SUBSET Calls /\ D \in SUBSET Calls
      BY DEF Metered, IInv, MeteringTypeOK, Cleared
    <3>4. ASSUME NEW c \in R, Tokens[c] > 0 PROVE c \in M /\ c \in D
      <4>1. sizedAt[c] \in Nat /\ sizedAt[c] >= MonthStart
        BY <2>1 DEF IInv, MeteringTypeOK
      <4> QED
        BY <3>4, <4>1 DEF Metered
    <3> HIDE DEF v, M, D, R
    <3>5. TokensOf(M) = TokensOf(R) /\ TokensOf(D) = TokensOf(R)
      BY <3>3, <3>4, SameTokens
    <3>6. Weighs(v, Agents) /\ Total(v, Agents) = TokensOf(M)
      BY <3>2, <3>3, TokensByAgent
    <3>7. ReadOver(Agents, "tokens_per_day") = Total(v, Agents)
      BY <3>2, <3>6, ReadOverIs
    <3>8. TokensRead({ReadingOf(c) : c \in D}) = TokensOf(D)
      BY <3>3, ReadingsOfCalls
    <3> QED
      BY <3>1, <3>5, <3>6, <3>7, <3>8
  <2>9. /\ page.callsLastHour >= lastHour + Cardinality(ChatRows(now - Hour))
        /\ now - Hour >= MonthStart =>
             page.callsLastHour = lastHour + Cardinality(ChatRows(now - Hour))
    <3> DEFINE v == [a \in OtherAgents |-> Reading(a)["per_hour"]]
    <3>1. page.callsLastHour = Cardinality({RowOf(c) : c \in H})
      BY <2>3 DEF spendSummary
    <3>2. Cardinality({RowOf(c) : c \in H}) = Cardinality(H)
      <4> HIDE DEF H
      <4> QED
        BY <2>2, RowsOfEntries
    <3>3. \A a \in OtherAgents : /\ v[a] = Cardinality(Of(Since(now - Hour), a))
                                 /\ v[a] = Reading(a)["per_hour"]
      BY DEF Reading, countCallsSince
    <3>4. /\ Cardinality(H) = Cardinality(Named(H)) + Cardinality(ChatRows(now - Hour))
          /\ Cardinality(Named(H)) \in Nat /\ Cardinality(ChatRows(now - Hour)) \in Nat
      BY PermittedAre
    <3> HIDE DEF v, page
    <3>5. /\ Weighs(v, OtherAgents) /\ Total(v, OtherAgents) \in Nat
          /\ Total(v, OtherAgents) <= Cardinality(Named(H))
      BY <2>1, <3>3, WindowAddsUpToLess
    <3>6. now - Hour >= MonthStart => Total(v, OtherAgents) = Cardinality(Named(H))
      BY <2>1, <3>3, WindowAddsUp
    <3>7. lastHour = Total(v, OtherAgents)
      BY <2>4, <3>3, <3>5, ReadOverIs
    <3> HIDE DEF H, lastHour
    <3> QED
      BY <3>1, <3>2, <3>4, <3>5, <3>6, <3>7
  <2> HIDE DEF page
  <2> QED
    BY <2>5, <2>6, <2>7, <2>8, <2>9, SumsRead DEF SpendPageAgrees, page
<1> QED
  BY <1>1, Invariance, MeteredHolds, PTL

-----------------------------------------------------------------------------
(* The other pages, over any log.                                            *)

SumOf(v) == MapThenSumSet(LAMBDA a : v[a], DOMAIN v)

LEMMA SumOfIs ==
  ASSUME NEW v, IsFiniteSet(DOMAIN v), Weighs(v, DOMAIN v)
  PROVE  SumOf(v) = Total(v, DOMAIN v)
<1>1. PICK g : Adds(g, SUBSET DOMAIN v, v)
  BY AddsExists
<1>2. \E h : Adds(h, SUBSET DOMAIN v, v) /\ SumOf(v) = h[DOMAIN v]
  <2>1. g = [s \in SUBSET DOMAIN v |-> IF s = {} THEN 0 ELSE v[Chosen(s)] + g[s \ {Chosen(s)}]]
    BY <1>1, Zenon DEF Adds
  <2> QED
    BY <2>1, Zenon DEF Chosen, Adds, SumOf, MapThenSumSet, MapThenFoldSet
<1>3. PICK h : Adds(h, SUBSET DOMAIN v, v) /\ SumOf(v) = h[DOMAIN v]
  BY <1>2
<1>4. Totals(h, v, DOMAIN v)
  BY <1>3, TotalIs
<1> QED
  BY <1>3, <1>4 DEF Totals

(* What falls into classes is counted by class.                              *)
LEMMA CountedByClass ==
  ASSUME NEW S, IsFiniteSet(S), NEW f, NEW A, IsFiniteSet(A), Classifies(f, S, A),
         NEW v, DOMAIN v = A, \A a \in A : v[a] = Cardinality({x \in S : f[x] = a})
  PROVE  SumOf(v) = Cardinality(S)
<1> DEFINE ones == [x \in S |-> 1]
           Class(a) == {x \in S : f[x] = a}
<1>1. \A T \in SUBSET S : IsFiniteSet(T) /\ Cardinality(T) \in Nat /\ \A x \in T : ones[x] = 1
  BY FS_Subset, FS_CardinalityType
<1>2. Weighs(ones, S)
  BY DEF Weighs
<1> HIDE DEF ones
<1>3. \A T \in SUBSET S : Total(ones, T) = Cardinality(T)
  BY <1>1, TotalOfOnes
<1>4. ByClass(v, A, ones, S, f)
  <2>1. \A a : Class(a) \in SUBSET S
    OBVIOUS
  <2> QED
    BY <1>3, <2>1 DEF ByClass
<1>5. Weighs(v, A)
  <2>1. \A a : Class(a) \in SUBSET S
    OBVIOUS
  <2> QED
    BY <1>1, <2>1 DEF Weighs
<1>6. Total(v, A) = Total(ones, S)
  BY <1>2, <1>4, TotalOfClasses
<1>7. Total(ones, S) = Cardinality(S)
  BY <1>3
<1> QED
  BY <1>5, <1>6, <1>7, SumOfIs

(* The values of a function on a finite set are finitely many.               *)
LEMMA ImageIsFinite ==
  ASSUME NEW S, IsFiniteSet(S), NEW f, DOMAIN f = S
  PROVE  IsFiniteSet({f[x] : x \in S})
<1> DEFINE g == [x \in S |-> f[x]]
<1>1. g \in Surjection(S, {f[x] : x \in S})
  BY DEF Surjection
<1> QED
  BY <1>1, FS_Surjection

(* A log of rows that say "allow" or "deny", as the proxy writes them.       *)
IsLog(rows) ==
  /\ IsFiniteSet(rows)
  /\ \A r \in rows : r.id \in Nat /\ r.decision \in {"allow", "deny"}

LEMMA AllowedOrDenied ==
  ASSUME NEW rows, IsLog(rows)
  PROVE  /\ Cardinality(With(rows, "allow")) + Cardinality(With(rows, "deny")) = Cardinality(rows)
         /\ Cardinality(With(rows, "require_approval")) = 0
         /\ rows \ (With(rows, "deny") \cup With(rows, "allow")) = {}
<1> DEFINE allows == With(rows, "allow")
           denies == With(rows, "deny")
<1>1. /\ allows \in SUBSET rows /\ denies \in SUBSET rows
      /\ allows \cap denies = {} /\ allows \cup denies = rows
      /\ With(rows, "require_approval") = {}
  BY DEF IsLog, With
<1>2. IsFiniteSet(allows) /\ IsFiniteSet(denies)
  BY <1>1, FS_Subset DEF IsLog
<1> HIDE DEF allows, denies
<1>3. Cardinality(allows \cup denies) =
        Cardinality(allows) + Cardinality(denies) - Cardinality(allows \cap denies)
  BY <1>2, FS_Union
<1>4. /\ Cardinality({}) = 0
      /\ Cardinality(allows) \in Nat /\ Cardinality(denies) \in Nat
  BY <1>2, FS_EmptySet, FS_CardinalityType
<1>5. Cardinality(allows) + Cardinality(denies) = Cardinality(rows)
  <2>1. Cardinality(rows) = Cardinality(allows \cup denies) /\ Cardinality(allows \cap denies) = 0
    BY <1>1, <1>4
  <2> QED
    BY <1>3, <1>4, <2>1
<1>6. rows \ (denies \cup allows) = {}
  BY <1>1
<1> QED
  BY <1>1, <1>4, <1>5, <1>6 DEF allows, denies

(* The newest rows are all rows, if they are not more than are read.         *)
LEMMA AllAreRecent ==
  ASSUME NEW rows, IsLog(rows), NEW limit \in Nat, Cardinality(rows) <= limit
  PROVE  recentDecisions(rows, limit) = rows
<1>1. SUFFICES ASSUME NEW r \in rows PROVE Cardinality({s \in rows : s.id > r.id}) < limit
  BY DEF recentDecisions
<1> DEFINE newer == {s \in rows : s.id > r.id}
           others == rows \ {r}
<1>2. newer \in SUBSET others
  BY DEF IsLog
<1>3. /\ IsFiniteSet(others) /\ Cardinality(others) = Cardinality(rows) - 1
      /\ Cardinality(rows) \in Nat
  BY FS_RemoveElement, FS_CardinalityType DEF IsLog
<1> HIDE DEF newer, others
<1>4. Cardinality(newer) <= Cardinality(others) /\ IsFiniteSet(newer)
  BY <1>2, <1>3, FS_Subset
<1>5. Cardinality(newer) \in Nat
  BY <1>4, FS_CardinalityType
<1> QED
  BY <1>3, <1>4, <1>5 DEF newer

(* Every decision of a log is counted once: by its outcome, for its agent,   *)
(* registered or not, and, as long as the pages read all of it, in the       *)
(* breakdown by agent and in the groups of the threats page, whatever the    *)
(* agents, tools and detectors are (web: lib/audit.ts, lib/agents.ts,        *)
(* lib/dashboard.ts).                                                        *)
THEOREM PagesAddUp ==
  ASSUME NEW rows, IsLog(rows), NEW registry, IsFiniteSet(registry), NEW midnight,
         NEW limit \in Nat
  PROVE  LET sum == summary(rows)
             agents == mergeAgents(registry, agentActivity(rows))
             threats == threatSummary(rows, midnight, limit)
             groups == threats.groups
         IN  /\ sum.total = sum.allowed + sum.denied /\ sum.approvalPending = 0
             /\ sum.total = SumOf([a \in DOMAIN agents |-> agents[a].total])
             /\ Cardinality({r.agent : r \in rows}) <= TopRows => sum.total = SumOf(sum.byAgent)
             /\ threats.totalEvents = SumOf([k \in DOMAIN groups |-> groups[k].count])
             /\ \A k \in DOMAIN groups :
                  groups[k].denied + groups[k].allowed = groups[k].count /\ groups[k].escalated = 0
             /\ sum.threats <= limit => threats.totalEvents = sum.threats
<1> DEFINE sum == summary(rows)
           activity == agentActivity(rows)
           agents == mergeAgents(registry, activity)
           threats == threatSummary(rows, midnight, limit)
           groups == threats.groups
           Own(a) == {r \in rows : r.agent = a}
           seen == {r.agent : r \in rows}
           agentOf == [r \in rows |-> r.agent]
           flagged == {r \in rows : isThreat(r)}
           events == recentDecisions(flagged, limit)
           Key(r) == <<r.server, r.tool, r.threat>>
           keys == {Key(r) : r \in events}
           keyOf == [r \in events |-> Key(r)]
           In(k) == {r \in events : Key(r) = k}
<1>1. IsFiniteSet(rows) /\ IsFiniteSet(seen) /\ \A a : {r \in rows : agentOf[r] = a} = Own(a)
  <2>1. IsFiniteSet(rows)
    BY DEF IsLog
  <2>2. IsFiniteSet({agentOf[r] : r \in rows})
    BY <2>1, ImageIsFinite
  <2>3. {agentOf[r] : r \in rows} = seen /\ \A a : {r \in rows : agentOf[r] = a} = Own(a)
    OBVIOUS
  <2> QED
    BY <2>1, <2>2, <2>3
<1>2. /\ sum.total = Cardinality(rows) /\ sum.threats = Cardinality(flagged)
      /\ sum.allowed = Cardinality(With(rows, "allow")) /\ sum.denied = Cardinality(With(rows, "deny"))
      /\ sum.approvalPending = Cardinality(With(rows, "require_approval"))
      /\ sum.byAgent = [a \in Leading(rows) |-> Cardinality(Own(a))]
  BY DEF summary
<1>3. sum.total = sum.allowed + sum.denied /\ sum.approvalPending = 0
  <2> HIDE DEF sum
  <2> QED
    BY <1>2, AllowedOrDenied
<1>4. sum.total = SumOf([a \in DOMAIN agents |-> agents[a].total])
  <2> DEFINE v == [a \in DOMAIN agents |-> agents[a].total]
             A == registry \cup seen
  <2>1. DOMAIN activity = seen /\ \A a \in seen : activity[a].total = Cardinality(Own(a))
    BY DEF agentActivity
  <2> HIDE DEF activity
  <2>2. /\ DOMAIN agents = A
        /\ \A a \in A : agents[a].total = IF a \in DOMAIN activity THEN activity[a].total ELSE 0
    BY <2>1 DEF mergeAgents
  <2> HIDE DEF agents
  <2>3. \A a \in A : a \notin seen => Own(a) = {}
    OBVIOUS
  <2>4. DOMAIN v = A /\ \A a \in A : v[a] = Cardinality({r \in rows : agentOf[r] = a})
    <3> HIDE DEF Own, seen, agentOf
    <3> QED
      BY <1>1, <2>1, <2>2, <2>3, FS_EmptySet
  <2>5. IsFiniteSet(A) /\ Classifies(agentOf, rows, A)
    <3>1. Classifies(agentOf, rows, A)
      BY DEF Classifies
    <3> HIDE DEF seen
    <3> QED
      BY <1>1, <3>1, FS_Union
  <2> HIDE DEF v, A, agentOf
  <2>6. SumOf(v) = Cardinality(rows)
    BY <1>1, <2>4, <2>5, CountedByClass
  <2> QED
    BY <1>2, <2>6 DEF v
<1>5. ASSUME Cardinality(seen) <= TopRows PROVE sum.total = SumOf(sum.byAgent)
  <2>1. Leading(rows) = seen
    <3> DEFINE count == [a \in seen |-> Cardinality(Own(a))]
               Leads(top) == /\ Cardinality(top) = Min({TopRows, Cardinality(seen)})
                             /\ \A a \in top, b \in seen \ top : count[a] >= count[b]
    <3>1. Leading(rows) = CHOOSE top \in SUBSET seen : Leads(top)
      BY DEF Leading
    <3>2. Cardinality(seen) \in Nat /\ TopRows \in Nat
      BY <1>1, ViewsAssumption, FS_CardinalityType
    <3>3. Min({TopRows, Cardinality(seen)}) = Cardinality(seen)
      <4> DEFINE n == Cardinality(seen)
      <4> HIDE DEF n, seen
      <4>1. \A x \in {TopRows, n} : (\A y \in {TopRows, n} : x =< y) <=> x = n
        BY <1>5, <3>2 DEF n
      <4> QED
        BY <4>1 DEF Min, n
    <3>4. Leads(seen)
      BY <3>3
    <3> HIDE DEF seen, count
    <3>5. Leading(rows) \in SUBSET seen /\ Leads(Leading(rows))
      <4>1. \E top \in SUBSET seen : Leads(top)
        BY <3>4
      <4> HIDE DEF Leads
      <4> QED
        BY <3>1, <4>1
    <3> QED
      BY <1>1, <3>3, <3>5, FS_Subset
  <2>2. DOMAIN sum.byAgent = seen /\ \A a \in seen : sum.byAgent[a] = Cardinality({r \in rows : agentOf[r] = a})
    <3> HIDE DEF sum, seen, Own, agentOf
    <3> QED
      BY <1>1, <1>2, <2>1
  <2>3. Classifies(agentOf, rows, seen)
    BY DEF Classifies
  <2> HIDE DEF sum, seen, agentOf
  <2> QED
    BY <1>1, <1>2, <2>2, <2>3, CountedByClass
<1>6. /\ threats.totalEvents = Cardinality(events) /\ DOMAIN groups = keys
      /\ \A k \in keys : /\ groups[k].count = Cardinality(In(k))
                         /\ groups[k].denied = Cardinality(With(In(k), "deny"))
                         /\ groups[k].allowed = Cardinality(With(In(k), "allow"))
                         /\ groups[k].escalated =
                              Cardinality(In(k) \ (With(In(k), "deny") \cup With(In(k), "allow")))
  BY DEF threatSummary
<1>7. /\ flagged \in SUBSET rows /\ events \in SUBSET flagged /\ IsLog(flagged)
      /\ IsFiniteSet(events) /\ \A k : IsLog(In(k))
  <2>1. flagged \in SUBSET rows /\ events \in SUBSET flagged /\ \A k : In(k) \in SUBSET rows
    BY DEF recentDecisions
  <2>2. \A T \in SUBSET rows : IsLog(T) /\ IsFiniteSet(T)
    BY FS_Subset DEF IsLog
  <2> HIDE DEF flagged, events, In
  <2> QED
    BY <2>1, <2>2
<1>8. threats.totalEvents = SumOf([k \in DOMAIN groups |-> groups[k].count])
  <2> DEFINE v == [k \in DOMAIN groups |-> groups[k].count]
  <2>1. \A k : {r \in events : keyOf[r] = k} = In(k)
    OBVIOUS
  <2>2. IsFiniteSet({keyOf[r] : r \in events})
    BY <1>7, ImageIsFinite
  <2>3. {keyOf[r] : r \in events} = keys /\ Classifies(keyOf, events, keys)
    BY DEF Classifies
  <2> HIDE DEF threats, keys, In, keyOf, events
  <2>4. DOMAIN v = keys /\ \A k \in keys : v[k] = Cardinality({r \in events : keyOf[r] = k})
    BY <1>6, <2>1
  <2>5. SumOf(v) = Cardinality(events)
    <3> HIDE DEF v
    <3> QED
      BY <1>7, <2>2, <2>3, <2>4, CountedByClass
  <2> QED
    BY <1>6, <2>5
<1>9. \A k \in DOMAIN groups :
        groups[k].denied + groups[k].allowed = groups[k].count /\ groups[k].escalated = 0
  <2> HIDE DEF groups, keys, In
  <2> SUFFICES ASSUME NEW k \in keys
               PROVE  groups[k].denied + groups[k].allowed = groups[k].count /\ groups[k].escalated = 0
    BY <1>6
  <2>1. IsLog(In(k)) /\ IsFiniteSet(With(In(k), "allow")) /\ IsFiniteSet(With(In(k), "deny"))
    <3>1. \A d : With(In(k), d) \in SUBSET In(k)
      BY DEF With
    <3> QED
      BY <1>7, <3>1, FS_Subset DEF IsLog
  <2>2. Cardinality(With(In(k), "allow")) \in Nat /\ Cardinality(With(In(k), "deny")) \in Nat
    BY <2>1, FS_CardinalityType
  <2> QED
    BY <1>6, <2>1, <2>2, AllowedOrDenied, FS_EmptySet
<1>10. sum.threats <= limit => threats.totalEvents = sum.threats
  <2> HIDE DEF sum, threats, flagged
  <2> QED
    BY <1>2, <1>6, <1>7, AllAreRecent
<1> HIDE DEF sum, agents, groups, threats, seen
<1>11. Cardinality(seen) <= TopRows => sum.total = SumOf(sum.byAgent)
  BY <1>5
<1> QED
  BY <1>3, <1>4, <1>8, <1>9, <1>10, <1>11 DEF sum, agents, groups, threats, seen, activity
=============================================================================
