------------------------------ MODULE GridTwin ------------------------------
(***************************************************************************)
(* The digital twin. ingest_telemetry builds the next snapshot from a      *)
(* batch of telemetry, replaces the current one and hands it to the alert  *)
(* engine. Operators acknowledge and suppress alerts meanwhile. A new      *)
(* snapshot starts from prev_state, which is the one before the current.   *)
(***************************************************************************)
EXTENDS AlertEngine, FiniteSetsExt

CONSTANTS
  From, To,         \* the end buses of each branch
  InService,        \* branch.status
  Staleness,        \* staleness_threshold_s
  RunSE,            \* run_se_on_scada
  FlatVoltage, FlatFrequency,
  PhasorFloor,      \* phasors below it are taken for currents
  NoReading,        \* a bus or frequency that a batch says nothing about
  Batches,          \* the telemetry that may arrive, in any order
  FlowEstimates,    \* what the state estimator may find, one flow per branch
  Suppressible,     \* the pairs an operator may silence
  AckIds,           \* bound on the alerts an operator acknowledges
  MaxBatches        \* bound on the number of batches

Frame == [ok : BOOLEAN, freq_hz : Int, phasors : [Bus -> Int]]

(* The good points of a scan and at most one PMU frame. volts and frequency *)
(* hold the last good point of each; powers says that a good power point    *)
(* is among them, which only the estimator uses.                            *)
Batch == [scan_time_us : Int, volts : [Bus -> Int], frequency : Int,
          powers : BOOLEAN, frames : SUBSET Frame]

ASSUME TwinAssumption ==
  /\ From \in [Branch -> Bus] /\ To \in [Branch -> Bus]
  /\ InService \subseteq Branch
  /\ {Staleness, FlatVoltage, FlatFrequency, PhasorFloor, NoReading} \subseteq Int
  /\ NoReading < PhasorFloor
  /\ RunSE \in BOOLEAN
  /\ Batches \subseteq Batch
  /\ \A batch \in Batches : \A f, g \in batch.frames : f = g
  /\ FlowEstimates \subseteq [Branch -> Int]
  /\ Suppressible \subseteq {"Voltage", "Thermal", "Frequency"} \X Nat

VARIABLES
  state,        \* the snapshot after the last batch
  prev_state,   \* none, or the snapshot before it
  update_count,
  heard         \* history: what was last reported of each quantity, and when

twinVars == <<alertVars, state, prev_state, update_count, heard>>

Qualities == {"Good", "Estimated", "Interpolated", "Stale", "Missing"}

Snapshot == [voltage_magnitudes : [Bus -> Int], branch_flows_mw : [Branch -> Int],
             frequency_hz : Int, timestamp_us : Int, data_quality : [Bus -> Qualities]]

TwinTypeOK ==
  /\ AlertTypeOK
  /\ state \in Snapshot
  /\ prev_state \subseteq Snapshot
  /\ \A s, t \in prev_state : s = t
  /\ update_count \in Nat

FlatStart ==
  [voltage_magnitudes |-> [b \in Bus |-> FlatVoltage],
   branch_flows_mw    |-> [k \in Branch |-> 0],
   frequency_hz       |-> FlatFrequency,
   timestamp_us       |-> 0,
   data_quality       |-> [b \in Bus |-> "Missing"]]

NothingHeard == [volts |-> FlatStart.voltage_magnitudes, freq |-> FlatFrequency,
                 flows |-> FlatStart.branch_flows_mw, at |-> [b \in Bus |-> {}]]

TwinInit ==
  /\ AlertInit
  /\ state = FlatStart
  /\ prev_state = {}
  /\ update_count = 0
  /\ heard = NothingHeard

-----------------------------------------------------------------------------
(* to_se_measurements: phasors follow the points, so a frame overrides the  *)
(* scan, whatever its status word says.                                     *)
Measured(batch, b) ==
  LET phasors == {f.phasors[b] : f \in {g \in batch.frames : g.phasors[b] >= PhasorFloor}}
  IN  IF phasors = {} THEN batch.volts[b] ELSE CHOOSE v \in phasors : TRUE

IsMeasured(batch, b) == Measured(batch, b) # NoReading

HasMeasurements(batch) == batch.powers \/ \E b \in Bus : IsMeasured(batch, b)

(* A frame takes precedence over the scan even when its own value is bad.   *)
FrequencyOf(batch, base) ==
  IF batch.frames # {}
  THEN LET f == CHOOSE g \in batch.frames : TRUE
       IN  IF f.ok THEN f.freq_hz ELSE base.frequency_hz
  ELSE IF batch.frequency # NoReading THEN batch.frequency ELSE base.frequency_hz

(* The buses at the other ends, once per branch, out of service or not.     *)
Ends(b) == {k \in Branch : From[k] = b \/ To[k] = b}
OtherEnd(b, k) == IF From[k] = b THEN To[k] ELSE From[k]

(* The loop over the buses fills a gap with the mean of its neighbours,     *)
(* those before it already filled. The mean is rounded down to the unit.    *)
Interpolate(volts, gaps) ==
  LET filled[b \in Bus] ==
        IF b \in gaps
        THEN MapThenSumSet(LAMBDA k : IF OtherEnd(b, k) < b THEN filled[OtherEnd(b, k)]
                                                         ELSE volts[OtherEnd(b, k)],
                           Ends(b)) \div Cardinality(Ends(b))
        ELSE volts[b]
  IN  [b \in Bus |-> IF b \in gaps THEN filled[b] ELSE volts[b]]

(* The estimator is a numerical solver: it fails, or finds any angles and   *)
(* with them any flows. Without it the flows follow from the old angles.    *)
Estimates(batch) ==
  IF RunSE /\ HasMeasurements(batch) THEN {{}} \cup {{e} : e \in FlowEstimates} ELSE {{}}

Flows(base, se) ==
  [k \in Branch |-> IF k \in InService
                    THEN IF se = {} THEN base.branch_flows_mw[k]
                                    ELSE (CHOOSE e \in se : TRUE)[k]
                    ELSE 0]

(* Neither measured nor estimated, with a neighbour to take a value from.   *)
Gaps(batch, se) ==
  IF se = {} THEN {b \in Bus : ~IsMeasured(batch, b) /\ Ends(b) # {}} ELSE {}

Outdated(batch, b) ==
  \E prev \in prev_state : /\ batch.scan_time_us - prev.timestamp_us > Staleness
                           /\ prev.data_quality[b] = "Good"

Quality(batch, se, b) ==
  CASE IsMeasured(batch, b)   -> "Good"
    [] ~IsMeasured(batch, b) /\ Outdated(batch, b) -> "Stale"
    [] ~IsMeasured(batch, b) /\ ~Outdated(batch, b) ->
         IF se # {} THEN "Estimated"
         ELSE IF b \in Gaps(batch, se) THEN "Interpolated" ELSE "Stale"

(* Mutated form: every snapshot is built from nothing. *)
BaseIsFlat == FlatStart

(* The snapshot a new one starts from.                                      *)
Base == IF prev_state = {} THEN FlatStart ELSE CHOOSE s \in prev_state : TRUE

NextSnapshot(batch, se) ==
  LET direct == [b \in Bus |-> IF IsMeasured(batch, b) THEN Measured(batch, b)
                                                       ELSE Base.voltage_magnitudes[b]]
  IN  [voltage_magnitudes |-> Interpolate(direct, Gaps(batch, se)),
       branch_flows_mw    |-> Flows(Base, se),
       frequency_hz       |-> FrequencyOf(batch, Base),
       timestamp_us       |-> batch.scan_time_us,
       data_quality       |-> [b \in Bus |-> Quality(batch, se, b)]]

(* History: the report of this batch on top of the reports before it, and   *)
(* when each bus was measured, until an estimate takes over.                *)
Heard(batch, se) ==
  [volts |-> [b \in Bus |-> IF IsMeasured(batch, b) THEN Measured(batch, b)
                                                    ELSE heard.volts[b]],
   freq  |-> FrequencyOf(batch, [frequency_hz |-> heard.freq]),
   flows |-> Flows([branch_flows_mw |-> heard.flows], se),
   at    |-> [b \in Bus |-> CASE IsMeasured(batch, b) -> {batch.scan_time_us}
                              [] ~IsMeasured(batch, b) /\ se # {} -> {}
                              [] ~IsMeasured(batch, b) /\ se = {} -> heard.at[b]]]

IngestTelemetry(batch, se) ==
  /\ update_count < MaxBatches
  /\ se \in Estimates(batch)
  /\ state' = NextSnapshot(batch, se)
  /\ prev_state' = {state}
  /\ update_count' = update_count + 1
  /\ heard' = Heard(batch, se)
  /\ CheckState(state', batch.scan_time_us)

(* The owner of the twin reaches the engine through alert_engine_mut.       *)
Operator ==
  /\ \/ \E id \in AckIds : Acknowledge(id)
     \/ \E pair \in Suppressible : Suppress(pair[1], pair[2])
  /\ UNCHANGED <<state, prev_state, update_count, heard>>

TwinNext ==
  \/ \E batch \in Batches : \E se \in Estimates(batch) : IngestTelemetry(batch, se)
  \/ Operator

TwinSpec == TwinInit /\ [][TwinNext]_twinVars

-----------------------------------------------------------------------------
(* No violation goes unnoticed: whatever order scans arrive in and whatever *)
(* an operator silences, each limit that the current snapshot violates has  *)
(* an alert that is at most a window old, or was suppressed, in which case  *)
(* it is not the frequency (twin.rs:353-360 with alert.rs:150-318).         *)
ViolationsCovered ==
  update_count > 0 =>
    \A w \in Watched :
      Severity(state, w) # "Info" =>
        \/ w # SystemFrequency /\ w \in suppression_list
        \/ \E a \in active_alerts : a.watched = w /\ state.timestamp_us - a.timestamp_us <= Window

(* A report is not lost before the next one of the same quantity: however   *)
(* many batches do not repeat it, the current or the previous snapshot has  *)
(* the latest frequency, the latest flows and the latest voltage of each    *)
(* bus (twin.rs:249-253 and :355-358, where one of the two is the base of   *)
(* the next). A bus with a neighbour may be interpolated and is left out.   *)
LatestReportKept ==
  LET recent == {state} \cup prev_state
  IN  /\ \E s \in recent : s.frequency_hz = heard.freq
      /\ \E s \in recent : s.branch_flows_mw = heard.flows
      /\ \A b \in Bus : Ends(b) = {} =>
           \E s \in recent : s.voltage_magnitudes[b] = heard.volts[b]

(* TwinConfig documents the staleness threshold as "Mark bus data as Stale  *)
(* if no update received within this window" (twin.rs:119): a bus that was  *)
(* measured longer ago than that, and neither measured nor estimated since, *)
(* should be marked Stale.                                                  *)
SilentBusIsStale ==
  \A b \in Bus : \A t \in heard.at[b] :
    state.timestamp_us - t > Staleness => state.data_quality[b] = "Stale"
=============================================================================
