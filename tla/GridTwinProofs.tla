--------------------------- MODULE GridTwinProofs ---------------------------
(***************************************************************************)
(* The alerts and the snapshots of the digital twin, for every grid, every *)
(* set of thresholds and every stream of telemetry.                        *)
(***************************************************************************)
EXTENDS GridTwin, FiniteSetTheorems, TLAPS

-----------------------------------------------------------------------------
(* What check_state, acknowledge and suppress preserve, for every grid,     *)
(* every threshold and window and every order of time stamps.               *)

USE AlertAssumption

(* The de-duplication table remembers the latest alert of each pair.        *)
TableIsLatest ==
  /\ \A a \in active_alerts :
       a.watched \in DOMAIN dedup /\ a.timestamp_us <= dedup[a.watched]
  /\ \A w \in DOMAIN dedup :
       \E a \in active_alerts : a.watched = w /\ a.timestamp_us = dedup[w]

AlertInv ==
  /\ AlertTypeOK
  /\ IdsUnique
  /\ TableIsLatest
  /\ AlertsSpaced

LEMMA AlertInitInv == AlertInit => AlertInv
BY DEF AlertInit, AlertInv, AlertTypeOK, IdsUnique, TableIsLatest, AlertsSpaced

-----------------------------------------------------------------------------
(* Ids                                                                      *)

LEMMA WatchedFinite == IsFiniteSet(Watched)
<1>1. IsFiniteSet(Bus) /\ IsFiniteSet(Branch)
  BY FS_Interval DEF Bus, Branch
<1>2. IsFiniteSet({"Voltage"}) /\ IsFiniteSet({"Thermal"}) /\ IsFiniteSet({SystemFrequency})
  BY FS_Singleton
<1>3. IsFiniteSet({"Voltage"} \X Bus) /\ IsFiniteSet({"Thermal"} \X Branch)
  BY <1>1, <1>2, FS_Product
<1> QED
  BY <1>2, <1>3, FS_Union DEF Watched

(* The order of the checks is total.                                        *)
LEMMA RankInjective ==
  ASSUME NEW u \in Watched, NEW w \in Watched, Rank(u) = Rank(w)
  PROVE  u = w
<1>1. CASE u \in {"Voltage"} \X Bus
  BY <1>1 DEF Watched, SystemFrequency, Rank, Bus, Branch
<1>2. CASE u \in {"Thermal"} \X Branch
  BY <1>2 DEF Watched, SystemFrequency, Rank, Bus, Branch
<1>3. CASE u = SystemFrequency
  BY <1>3 DEF Watched, SystemFrequency, Rank, Bus, Branch
<1> QED
  BY <1>1, <1>2, <1>3 DEF Watched

LEMMA RankInt == \A w \in Watched : Rank(w) \in Int
BY DEF Watched, SystemFrequency, Rank, Bus, Branch

Before(w, raised) == {u \in raised : Rank(u) < Rank(w)}

LEMMA StrictlyFewer ==
  ASSUME NEW S, IsFiniteSet(S), NEW T \in SUBSET S, NEW x \in S, x \notin T
  PROVE  Cardinality(T) < Cardinality(S)
<1>1. /\ IsFiniteSet(T) /\ Cardinality(T) <= Cardinality(S)
      /\ Cardinality(S) # Cardinality(T)
  BY FS_Subset
<1>2. Cardinality(S) \in Nat /\ Cardinality(T) \in Nat
  BY <1>1, FS_CardinalityType
<1> QED
  BY <1>1, <1>2

(* One scan gives its alerts the ids from the counter on, each once.        *)
LEMMA NewIds ==
  ASSUME alert_counter \in Nat, NEW raised \in SUBSET Watched
  PROVE  /\ Cardinality(raised) \in Nat
         /\ \A w \in raised : /\ NewId(w, raised) \in Nat
                              /\ NewId(w, raised) >= alert_counter
                              /\ NewId(w, raised) < alert_counter + Cardinality(raised)
         /\ \A u, w \in raised : NewId(u, raised) = NewId(w, raised) => u = w
<1>1. IsFiniteSet(raised)
  BY WatchedFinite, FS_Subset
<1>2. \A w \in raised : /\ Before(w, raised) \in SUBSET raised
                        /\ IsFiniteSet(Before(w, raised))
                        /\ w \notin Before(w, raised)
  BY <1>1, FS_Subset, RankInt DEF Before
<1>3. /\ Cardinality(raised) \in Nat
      /\ \A w \in raised : Cardinality(Before(w, raised)) \in Nat
  BY <1>1, <1>2, FS_CardinalityType
<1>4. \A w \in raised : Cardinality(Before(w, raised)) < Cardinality(raised)
  BY <1>1, <1>2, StrictlyFewer
<1>5. \A w \in raised : NewId(w, raised) = alert_counter + Cardinality(Before(w, raised))
  BY DEF NewId, Before
<1>6. ASSUME NEW u \in raised, NEW w \in raised, Rank(u) < Rank(w)
      PROVE  Cardinality(Before(u, raised)) < Cardinality(Before(w, raised))
  <2>1. Before(u, raised) \in SUBSET Before(w, raised)
    BY <1>6, RankInt DEF Before
  <2>2. u \in Before(w, raised)
    BY <1>6 DEF Before
  <2> QED
    BY <1>2, <2>1, <2>2, StrictlyFewer
<1>7. ASSUME NEW u \in raised, NEW w \in raised, NewId(u, raised) = NewId(w, raised)
      PROVE  u = w
  <2>1. Cardinality(Before(u, raised)) = Cardinality(Before(w, raised))
    BY <1>3, <1>5, <1>7
  <2>2. ~(Rank(u) < Rank(w)) /\ ~(Rank(w) < Rank(u))
    BY <1>3, <1>6, <2>1
  <2>3. Rank(u) = Rank(w)
    BY <2>2, RankInt
  <2> QED
    BY <2>3, RankInjective
<1> QED
  BY <1>3, <1>4, <1>5, <1>7

-----------------------------------------------------------------------------
(* The operations                                                           *)

LEMMA SeverityTyped == \A s, w : Severity(s, w) \in Severities
BY DEF Severity, VoltageSeverity, LoadingSeverity, FrequencySeverity, Severities

LEMMA CheckStateInv ==
  ASSUME AlertInv, NEW s, NEW now \in Int, CheckState(s, now)
  PROVE  AlertInv'
<1> DEFINE raised == Raised(s, now)
           New(w) == MakeAlert(s, now, raised, w)
           id(w) == NewId(w, raised)
<1>1. raised \in SUBSET Watched
  BY DEF Raised
<1>2. /\ active_alerts' = active_alerts \cup {New(w) : w \in raised}
      /\ alert_counter' = alert_counter + Cardinality(raised)
      /\ dedup' = [w \in DOMAIN dedup \cup raised |-> IF w \in raised THEN now ELSE dedup[w]]
      /\ suppression_list' = suppression_list
  BY DEF CheckState, RecordDedup
<1>3. /\ alert_counter \in Nat /\ Cardinality(raised) \in Nat
      /\ \A w \in raised : id(w) \in Nat /\ id(w) >= alert_counter /\ id(w) < alert_counter'
      /\ \A u, w \in raised : id(u) = id(w) => u = w
  BY <1>1, <1>2, NewIds DEF AlertInv, AlertTypeOK
<1>4. \A w \in raised : /\ New(w).alert_id = id(w) /\ New(w).timestamp_us = now
                        /\ New(w).watched = w /\ New(w) \in Alert
  BY <1>1, <1>3, SeverityTyped DEF MakeAlert, Alert
<1>5. \A a \in active_alerts : /\ a.alert_id \in Nat /\ a.alert_id < alert_counter
                               /\ a.timestamp_us \in Int /\ a.watched \in DOMAIN dedup
                               /\ a.timestamp_us <= dedup[a.watched]
  BY DEF AlertInv, AlertTypeOK, Alert, IdsUnique, TableIsLatest
<1>6. \A w \in DOMAIN dedup : dedup[w] \in Int
  BY DEF AlertInv, AlertTypeOK
<1>7. \A w \in raised : w \in DOMAIN dedup => now - dedup[w] > Window
  BY DEF Raised, ShouldAlert
<1> HIDE DEF raised, New, id
<1>8. AlertTypeOK'
  <2>1. DOMAIN dedup' \subseteq Watched /\ dedup' \in [DOMAIN dedup' -> Int]
    BY <1>1, <1>2, <1>6 DEF AlertInv, AlertTypeOK
  <2>2. alert_counter' \in Nat
    BY <1>2, <1>3
  <2>3. active_alerts' \subseteq Alert
    BY <1>2, <1>4 DEF AlertInv, AlertTypeOK
  <2> QED
    BY <1>2, <2>1, <2>2, <2>3 DEF AlertInv, AlertTypeOK
<1>9. IdsUnique'
  <2>1. \A a \in active_alerts' : a.alert_id < alert_counter'
    BY <1>2, <1>3, <1>4, <1>5
  <2>2. ASSUME NEW a \in active_alerts', NEW b \in active_alerts', a.alert_id = b.alert_id
        PROVE  a = b
    <3>1. CASE a \in active_alerts /\ b \in active_alerts
      BY <2>2, <3>1 DEF AlertInv, IdsUnique
    <3>2. CASE a \in active_alerts /\ b \notin active_alerts
      BY <1>2, <1>3, <1>4, <1>5, <2>2, <3>2
    <3>3. CASE a \notin active_alerts /\ b \in active_alerts
      BY <1>2, <1>3, <1>4, <1>5, <2>2, <3>3
    <3>4. CASE a \notin active_alerts /\ b \notin active_alerts
      BY <1>2, <1>3, <1>4, <2>2, <3>4
    <3> QED
      BY <3>1, <3>2, <3>3, <3>4
  <2> QED
    BY <2>1, <2>2 DEF IdsUnique
<1>10. TableIsLatest'
  <2>1. ASSUME NEW a \in active_alerts'
        PROVE  a.watched \in DOMAIN dedup' /\ a.timestamp_us <= dedup'[a.watched]
    <3>1. CASE a \in active_alerts
      <4>1. CASE a.watched \in raised
        <5>1. now - dedup[a.watched] > Window
          BY <1>5, <1>7, <3>1, <4>1
        <5> QED
          BY <1>2, <1>5, <1>6, <3>1, <4>1, <5>1
      <4>2. CASE a.watched \notin raised
        BY <1>2, <1>5, <3>1, <4>2
      <4> QED
        BY <4>1, <4>2
    <3>2. CASE a \notin active_alerts
      BY <1>2, <1>4, <3>2
    <3> QED
      BY <3>1, <3>2
  <2>2. ASSUME NEW w \in DOMAIN dedup'
        PROVE  \E a \in active_alerts' : a.watched = w /\ a.timestamp_us = dedup'[w]
    <3>1. CASE w \in raised
      BY <1>2, <1>4, <3>1
    <3>2. CASE w \notin raised
      BY <1>2, <3>2 DEF AlertInv, TableIsLatest
    <3> QED
      BY <3>1, <3>2
  <2> QED
    BY <2>1, <2>2 DEF TableIsLatest
<1>11. AlertsSpaced'
  <2> SUFFICES ASSUME NEW a \in active_alerts', NEW b \in active_alerts',
                      a.watched = b.watched, a.alert_id < b.alert_id
               PROVE  b.timestamp_us - a.timestamp_us > Window
    BY DEF AlertsSpaced
  <2>1. CASE a \in active_alerts /\ b \in active_alerts
    BY <2>1 DEF AlertInv, AlertsSpaced
  <2>2. CASE a \in active_alerts /\ b \notin active_alerts
    <3>1. b.watched \in raised /\ b.timestamp_us = now
      BY <1>2, <1>4, <2>2
    <3>2. now - dedup[a.watched] > Window
      BY <1>5, <1>7, <2>2, <3>1
    <3> QED
      BY <1>5, <1>6, <2>2, <3>1, <3>2
  <2>3. CASE a \notin active_alerts /\ b \in active_alerts
    BY <1>2, <1>3, <1>4, <1>5, <2>3
  <2>4. CASE a \notin active_alerts /\ b \notin active_alerts
    BY <1>2, <1>3, <1>4, <2>4
  <2> QED
    BY <2>1, <2>2, <2>3, <2>4
<1> QED
  BY <1>8, <1>9, <1>10, <1>11 DEF AlertInv

(* Acknowledging changes one mark and nothing the others are judged by.     *)
LEMMA AcknowledgeKeeps ==
  ASSUME AlertInv, NEW i, Acknowledge(i)
  PROVE  /\ active_alerts' \subseteq Alert
         /\ \A x \in active_alerts' : \E y \in active_alerts :
              x.alert_id = y.alert_id /\ x.timestamp_us = y.timestamp_us /\ x.watched = y.watched
         /\ \A y \in active_alerts : \E x \in active_alerts' :
              x.alert_id = y.alert_id /\ x.timestamp_us = y.timestamp_us /\ x.watched = y.watched
         /\ \A x, y \in active_alerts' : x.alert_id = y.alert_id => x = y
<1>1. PICK a \in active_alerts :
        active_alerts' = (active_alerts \ {a}) \cup {[a EXCEPT !.acknowledged = TRUE]}
  BY DEF Acknowledge
<1> DEFINE marked == [a EXCEPT !.acknowledged = TRUE]
<1>2. active_alerts \subseteq Alert
  BY DEF AlertInv, AlertTypeOK
<1>3. /\ marked \in Alert /\ marked.alert_id = a.alert_id
      /\ marked.timestamp_us = a.timestamp_us /\ marked.watched = a.watched
  BY <1>2 DEF Alert
<1> HIDE DEF marked
<1>4. active_alerts' = (active_alerts \ {a}) \cup {marked}
  BY <1>1 DEF marked
<1>5. \A x, y \in active_alerts : x.alert_id = y.alert_id => x = y
  BY DEF AlertInv, IdsUnique
<1> QED
  BY <1>2, <1>3, <1>4, <1>5

LEMMA AcknowledgeInv ==
  ASSUME AlertInv, NEW i, Acknowledge(i)
  PROVE  AlertInv'
<1>1. UNCHANGED <<alert_counter, suppression_list, dedup>>
  BY DEF Acknowledge
<1>2. AlertTypeOK' /\ IdsUnique'
  BY <1>1, AcknowledgeKeeps DEF AlertInv, AlertTypeOK, IdsUnique
<1>3. TableIsLatest'
  <2>1. \A a \in active_alerts' :
          a.watched \in DOMAIN dedup' /\ a.timestamp_us <= dedup'[a.watched]
    BY <1>1, AcknowledgeKeeps DEF AlertInv, TableIsLatest
  <2>2. ASSUME NEW w \in DOMAIN dedup'
        PROVE  \E a \in active_alerts' : a.watched = w /\ a.timestamp_us = dedup'[w]
    <3>1. PICK y \in active_alerts : y.watched = w /\ y.timestamp_us = dedup[w]
      BY <1>1, <2>2 DEF AlertInv, TableIsLatest
    <3>2. PICK x \in active_alerts' : x.timestamp_us = y.timestamp_us /\ x.watched = y.watched
      BY AcknowledgeKeeps
    <3> QED
      BY <1>1, <3>1, <3>2
  <2> QED
    BY <2>1, <2>2 DEF TableIsLatest
<1>4. AlertsSpaced'
  <2> SUFFICES ASSUME NEW a \in active_alerts', NEW b \in active_alerts',
                      a.watched = b.watched, a.alert_id < b.alert_id
               PROVE  b.timestamp_us - a.timestamp_us > Window
    BY DEF AlertsSpaced
  <2>1. PICK c \in active_alerts : a.alert_id = c.alert_id /\ a.timestamp_us = c.timestamp_us
                                   /\ a.watched = c.watched
    BY AcknowledgeKeeps
  <2>2. PICK d \in active_alerts : b.alert_id = d.alert_id /\ b.timestamp_us = d.timestamp_us
                                   /\ b.watched = d.watched
    BY AcknowledgeKeeps
  <2> QED
    BY <2>1, <2>2 DEF AlertInv, AlertsSpaced
<1> QED
  BY <1>2, <1>3, <1>4 DEF AlertInv

LEMMA SuppressInv ==
  ASSUME AlertInv, NEW c \in {"Voltage", "Thermal", "Frequency"}, NEW e \in Nat, Suppress(c, e)
  PROVE  AlertInv'
BY DEF Suppress, AlertInv, AlertTypeOK, IdsUnique, TableIsLatest, AlertsSpaced

LEMMA AlertStutterInv == AlertInv /\ UNCHANGED alertVars => AlertInv'
BY DEF alertVars, AlertInv, AlertTypeOK, IdsUnique, TableIsLatest, AlertsSpaced

(* After a scan every limit it violates is suppressed or has an alert of    *)
(* the window before it.                                                    *)
LEMMA ScanCovered ==
  ASSUME AlertInv, NEW s, NEW now \in Int, CheckState(s, now),
         NEW w \in Watched, Severity(s, w) # "Info"
  PROVE  \/ w # SystemFrequency /\ w \in suppression_list'
         \/ \E a \in active_alerts' : a.watched = w /\ now - a.timestamp_us <= Window
<1>1. CASE IsSuppressed(w)
  BY <1>1 DEF IsSuppressed, CheckState
<1>2. CASE ~ShouldAlert(w, now)
  <2>1. w \in DOMAIN dedup /\ ~(now - dedup[w] > Window)
    BY <1>2 DEF ShouldAlert
  <2>2. PICK a \in active_alerts : a.watched = w /\ a.timestamp_us = dedup[w]
    BY <2>1 DEF AlertInv, TableIsLatest
  <2>3. dedup[w] \in Int
    BY <2>1 DEF AlertInv, AlertTypeOK
  <2> QED
    BY <2>1, <2>2, <2>3 DEF CheckState
<1>3. CASE ~IsSuppressed(w) /\ ShouldAlert(w, now)
  <2> DEFINE a == MakeAlert(s, now, Raised(s, now), w)
  <2>1. w \in Raised(s, now)
    BY <1>3 DEF Raised
  <2>2. a \in active_alerts' /\ a.watched = w /\ a.timestamp_us = now
    BY <2>1 DEF CheckState, MakeAlert
  <2> QED
    BY <2>2
<1> QED
  BY <1>1, <1>2, <1>3

-----------------------------------------------------------------------------
(* What ingest_batch and the operators' calls preserve.                     *)

USE TwinAssumption

(* What the twin keeps of the past: at most one previous snapshot, none     *)
(* before the first batch. Out of service no flow is ever reported.         *)
PastInv ==
  /\ \A s, t \in prev_state : s = t
  /\ prev_state = {} => state = FlatStart
  /\ heard.flows = Flows([branch_flows_mw |-> heard.flows], {})

TwinInv ==
  /\ AlertInv
  /\ PastInv
  /\ LatestReportKept
  /\ ViolationsCovered

LEMMA TwinInitInv == TwinInit => TwinInv
<1> SUFFICES ASSUME TwinInit PROVE TwinInv
  OBVIOUS
<1>1. AlertInv
  BY AlertInitInv DEF TwinInit
<1>2. heard = NothingHeard /\ state = FlatStart /\ prev_state = {}
  BY DEF TwinInit
<1>3. PastInv
  BY <1>2 DEF PastInv, FlatStart, NothingHeard, Flows
<1>4. LatestReportKept
  BY <1>2 DEF LatestReportKept, FlatStart, NothingHeard
<1>5. ViolationsCovered
  BY DEF TwinInit, ViolationsCovered
<1> QED
  BY <1>1, <1>3, <1>4, <1>5 DEF TwinInv

-----------------------------------------------------------------------------
(* One batch                                                                *)

(* The snapshots that may hold the latest report are the current one and    *)
(* the one the next is built from.                                          *)
LEMMA CurrentOrBase ==
  ASSUME PastInv, NEW s \in {state} \cup prev_state
  PROVE  s = state \/ s = Base
<1>1. CASE s \in prev_state
  BY <1>1 DEF PastInv, Base
<1> QED
  BY <1>1

(* What the batch does not report is as in the base, what it reports is     *)
(* there: the same as the history does with the latest reports.             *)
LEMMA FrequencyKept ==
  ASSUME PastInv, LatestReportKept, NEW batch, NEW se,
         state' = NextSnapshot(batch, se), heard' = Heard(batch, se)
  PROVE  heard'.freq \in {state.frequency_hz, state'.frequency_hz}
<1>1. PICK s \in {state} \cup prev_state : s.frequency_hz = heard.freq
  BY DEF LatestReportKept
<1>2. /\ heard'.freq = FrequencyOf(batch, [frequency_hz |-> heard.freq])
      /\ state'.frequency_hz = FrequencyOf(batch, Base)
  BY DEF Heard, NextSnapshot
<1>3. CASE s = state
  BY <1>1, <1>2, <1>3 DEF FrequencyOf
<1>4. CASE s = Base
  BY <1>1, <1>2, <1>4 DEF FrequencyOf
<1> QED
  BY <1>3, <1>4, CurrentOrBase

LEMMA FlowsKept ==
  ASSUME PastInv, LatestReportKept, NEW batch, NEW se,
         state' = NextSnapshot(batch, se), heard' = Heard(batch, se)
  PROVE  /\ heard'.flows \in {state.branch_flows_mw, state'.branch_flows_mw}
         /\ heard'.flows = Flows([branch_flows_mw |-> heard'.flows], {})
<1>1. PICK s \in {state} \cup prev_state : s.branch_flows_mw = heard.flows
  BY DEF LatestReportKept
<1>2. /\ heard'.flows = Flows([branch_flows_mw |-> heard.flows], se)
      /\ state'.branch_flows_mw = Flows(Base, se)
  BY DEF Heard, NextSnapshot
<1>3. heard'.flows = Flows([branch_flows_mw |-> heard'.flows], {})
  BY <1>2 DEF Flows
<1>4. CASE s = state
  <2>1. CASE se = {}
    BY <1>1, <1>2, <1>4, <2>1 DEF PastInv
  <2>2. CASE se # {}
    BY <1>2, <2>2 DEF Flows
  <2> QED
    BY <2>1, <2>2
<1>5. CASE s = Base
  BY <1>1, <1>2, <1>5 DEF Flows
<1> QED
  BY <1>3, <1>4, <1>5, CurrentOrBase

LEMMA VoltageKept ==
  ASSUME PastInv, LatestReportKept, NEW batch, NEW se,
         state' = NextSnapshot(batch, se), heard' = Heard(batch, se),
         NEW b \in Bus, Ends(b) = {}
  PROVE  heard'.volts[b] \in {state.voltage_magnitudes[b], state'.voltage_magnitudes[b]}
<1>1. PICK s \in {state} \cup prev_state : s.voltage_magnitudes[b] = heard.volts[b]
  BY DEF LatestReportKept
<1>2. heard'.volts[b] = IF IsMeasured(batch, b) THEN Measured(batch, b) ELSE heard.volts[b]
  BY DEF Heard
<1>3. b \notin Gaps(batch, se)
  BY DEF Gaps
<1>4. state'.voltage_magnitudes[b] =
        IF IsMeasured(batch, b) THEN Measured(batch, b) ELSE Base.voltage_magnitudes[b]
  BY <1>3 DEF NextSnapshot, Interpolate
<1> QED
  BY <1>1, <1>2, <1>4, CurrentOrBase

LEMMA BatchInv ==
  ASSUME TwinInv, NEW batch \in Batches, NEW se, IngestTelemetry(batch, se)
  PROVE  TwinInv'
<1>1. batch.scan_time_us \in Int
  BY DEF Batch
<1>2. /\ state' = NextSnapshot(batch, se) /\ prev_state' = {state}
      /\ update_count' = update_count + 1 /\ heard' = Heard(batch, se)
      /\ CheckState(state', batch.scan_time_us)
  BY DEF IngestTelemetry
<1>3. AlertInv'
  BY <1>1, <1>2, CheckStateInv DEF TwinInv
<1>4. state'.timestamp_us = batch.scan_time_us
  BY <1>2 DEF NextSnapshot
<1>5. PastInv'
  BY <1>2, FlowsKept DEF TwinInv, PastInv
<1>6. LatestReportKept'
  <2>1. state \in {state'} \cup prev_state' /\ state' \in {state'} \cup prev_state'
    BY <1>2
  <2>2. \E s \in {state'} \cup prev_state' : s.frequency_hz = heard'.freq
    BY <1>2, <2>1, FrequencyKept DEF TwinInv
  <2>3. \E s \in {state'} \cup prev_state' : s.branch_flows_mw = heard'.flows
    BY <1>2, <2>1, FlowsKept DEF TwinInv
  <2>4. ASSUME NEW b \in Bus, Ends(b) = {}
        PROVE  \E s \in {state'} \cup prev_state' : s.voltage_magnitudes[b] = heard'.volts[b]
    BY <1>2, <2>1, <2>4, VoltageKept DEF TwinInv
  <2> QED
    BY <2>2, <2>3, <2>4 DEF LatestReportKept, Ends
<1>7. ViolationsCovered'
  <2> SUFFICES ASSUME NEW w \in Watched, Severity(state', w) # "Info"
               PROVE  \/ w # SystemFrequency /\ w \in suppression_list'
                      \/ \E a \in active_alerts' :
                           a.watched = w /\ state'.timestamp_us - a.timestamp_us <= Window
    BY DEF ViolationsCovered, Severity, VoltageSeverity, LoadingSeverity, FrequencySeverity
  <2> QED
    BY <1>1, <1>2, <1>4, ScanCovered DEF TwinInv
<1> QED
  BY <1>3, <1>5, <1>6, <1>7 DEF TwinInv

-----------------------------------------------------------------------------
(* The operator                                                             *)

LEMMA OperatorInv ==
  ASSUME TwinInv, Operator
  PROVE  TwinInv'
<1>1. AlertInv'
  BY AcknowledgeInv, SuppressInv DEF Operator, TwinInv
<1>2. UNCHANGED <<state, prev_state, update_count, heard>>
  BY DEF Operator
<1>3. PastInv' /\ LatestReportKept'
  BY <1>2 DEF TwinInv, PastInv, LatestReportKept, Flows, FlatStart, Ends
<1>4. /\ suppression_list \subseteq suppression_list'
      /\ \A y \in active_alerts : \E x \in active_alerts' :
           x.timestamp_us = y.timestamp_us /\ x.watched = y.watched
  <2>1. CASE \E id \in AckIds : Acknowledge(id)
    BY <2>1, AcknowledgeKeeps DEF TwinInv, Acknowledge
  <2>2. CASE \E pair \in Suppressible : Suppress(pair[1], pair[2])
    BY <2>2 DEF Suppress
  <2> QED
    BY <2>1, <2>2 DEF Operator
<1>5. ViolationsCovered'
  <2> SUFFICES ASSUME update_count > 0, NEW w \in Watched, Severity(state, w) # "Info"
               PROVE  \/ w # SystemFrequency /\ w \in suppression_list'
                      \/ \E a \in active_alerts' :
                           a.watched = w /\ state.timestamp_us - a.timestamp_us <= Window
    BY <1>2 DEF ViolationsCovered, Severity, VoltageSeverity, LoadingSeverity, FrequencySeverity
  <2>1. CASE w # SystemFrequency /\ w \in suppression_list
    BY <1>4, <2>1
  <2>2. CASE \E a \in active_alerts : a.watched = w /\ state.timestamp_us - a.timestamp_us <= Window
    BY <1>4, <2>2
  <2> QED
    BY <2>1, <2>2 DEF TwinInv, ViolationsCovered
<1> QED
  BY <1>1, <1>3, <1>5 DEF TwinInv

LEMMA TwinStepInv == TwinInv /\ [TwinNext]_twinVars => TwinInv'
<1> SUFFICES ASSUME TwinInv, [TwinNext]_twinVars PROVE TwinInv'
  OBVIOUS
<1>1. CASE \E batch \in Batches : \E se \in Estimates(batch) : IngestTelemetry(batch, se)
  BY <1>1, BatchInv
<1>2. CASE Operator
  BY <1>2, OperatorInv
<1>3. CASE UNCHANGED twinVars
  <2>1. UNCHANGED alertVars /\ UNCHANGED <<state, prev_state, update_count, heard>>
    BY <1>3 DEF twinVars
  <2>2. AlertInv'
    BY <2>1, AlertStutterInv DEF TwinInv
  <2>3. PastInv' /\ LatestReportKept'
    BY <2>1 DEF TwinInv, PastInv, LatestReportKept, Flows, FlatStart, Ends
  <2>4. ViolationsCovered'
    BY <2>1 DEF TwinInv, ViolationsCovered, Severity, VoltageSeverity, LoadingSeverity,
                FrequencySeverity, alertVars
  <2> QED
    BY <2>2, <2>3, <2>4 DEF TwinInv
<1> QED
  BY <1>1, <1>2, <1>3 DEF TwinNext

(* The invariant holds for every grid and every stream of telemetry.        *)
THEOREM TwinInvariance == TwinSpec => []TwinInv
BY TwinInitInv, TwinStepInv, PTL DEF TwinSpec

(* Alerts stay well typed and their ids are given once, so that acknowledge *)
(* marks the alert it was asked for (alert.rs:320-329).                     *)
THEOREM AlertsIdentified == TwinSpec => [](AlertTypeOK /\ IdsUnique)
<1>1. TwinInv => AlertTypeOK /\ IdsUnique
  BY DEF TwinInv, AlertInv
<1> QED
  BY <1>1, TwinInvariance, PTL

(* Scans in any order never raise two alerts of one pair within a window.   *)
THEOREM AlertSpacing == TwinSpec => []AlertsSpaced
<1>1. TwinInv => AlertsSpaced
  BY DEF TwinInv, AlertInv
<1> QED
  BY <1>1, TwinInvariance, PTL

(* And the window never hides a violation that has no recent alert.         *)
THEOREM ViolationCoverage == TwinSpec => []ViolationsCovered
<1>1. TwinInv => ViolationsCovered
  BY DEF TwinInv
<1> QED
  BY <1>1, TwinInvariance, PTL

(* No report is lost between two batches that carry one of its kind.        *)
THEOREM ReportsKept == TwinSpec => []LatestReportKept
<1>1. TwinInv => LatestReportKept
  BY DEF TwinInv
<1> QED
  BY <1>1, TwinInvariance, PTL
=============================================================================
