---------------------------- MODULE AlertEngine ----------------------------
(***************************************************************************)
(* The alert engine of the digital twin. Each new state of the grid is     *)
(* compared with the thresholds; an alert is raised for a violated         *)
(* (category, element) pair unless the pair is suppressed or raised an     *)
(* alert within the de-duplication window. Nothing ever clears an alert.   *)
(***************************************************************************)
EXTENDS Integers, FiniteSets

CONSTANTS
  NBus, NBranch,                        \* elements, numbered from 1
  Window,                               \* DEDUP_WINDOW_US, 60 s
  VCritHigh, VHigh, VLow, VCritLow,     \* AlertThresholds
  FCritHigh, FHigh, FLow, FCritLow,
  LoadCrit, LoadWarn

ASSUME AlertAssumption ==
  /\ NBus \in Nat \ {0} /\ NBranch \in Nat
  /\ Window \in Nat
  /\ {VCritHigh, VHigh, VLow, VCritLow, FCritHigh, FHigh, FLow, FCritLow,
      LoadCrit, LoadWarn} \subseteq Int

VARIABLES
  alert_counter,     \* the next alert_id
  active_alerts,     \* every alert raised so far
  suppression_list,  \* (category, element) pairs an operator silenced
  dedup              \* when a pair last raised an alert, once it has

alertVars == <<alert_counter, active_alerts, suppression_list, dedup>>

Bus    == 1..NBus
Branch == 1..NBranch

(* The system-wide frequency has no element (None in the code). *)
SystemFrequency == <<"Frequency", 0>>
Watched == ({"Voltage"} \X Bus) \cup ({"Thermal"} \X Branch) \cup {SystemFrequency}

Severities == {"Info", "Warning", "Critical", "Emergency"}

Alert == [alert_id : Nat, timestamp_us : Int, severity : Severities,
          watched : Watched, acknowledged : BOOLEAN]

AlertTypeOK ==
  /\ alert_counter \in Nat
  /\ active_alerts \subseteq Alert
  /\ suppression_list \subseteq {"Voltage", "Thermal", "Frequency"} \X Nat
  /\ DOMAIN dedup \subseteq Watched
  /\ dedup \in [DOMAIN dedup -> Int]

AlertInit ==
  /\ alert_counter = 0
  /\ active_alerts = {}
  /\ suppression_list = {}
  /\ dedup = [w \in {} |-> 0]

-----------------------------------------------------------------------------
(* The severity of each quantity; Info is raised for none.                  *)
VoltageSeverity(v) ==
  CASE v > VCritHigh \/ v < VCritLow -> "Emergency"
    [] v > VHigh \/ v < VLow         -> "Warning"
    [] OTHER                         -> "Info"

LoadingSeverity(p) ==
  LET loading == IF p < 0 THEN -p ELSE p
  IN  CASE loading > LoadCrit -> "Critical"
        [] loading > LoadWarn -> "Warning"
        [] OTHER              -> "Info"

FrequencySeverity(f) ==
  CASE f > FCritHigh \/ f < FCritLow -> "Emergency"
    [] f > FHigh \/ f < FLow         -> "Warning"
    [] OTHER                         -> "Info"

Severity(state, w) ==
  CASE w[1] = "Voltage" -> VoltageSeverity(state.voltage_magnitudes[w[2]])
    [] w[1] = "Thermal" -> LoadingSeverity(state.branch_flows_mw[w[2]])
    [] OTHER            -> FrequencySeverity(state.frequency_hz)

(* Mutated form: one suppressed element silences its category. *)
IsSuppressedByCategory(w) == \E pair \in suppression_list : pair[1] = w[1]

(* The frequency check never consults the suppression list. *)
IsSuppressed(w) == w # SystemFrequency /\ w \in suppression_list

(* Mutated form: the distance in time is taken absolute. *)
ShouldAlertByDistance(w, now) ==
  w \in DOMAIN dedup => (now - dedup[w] > Window \/ dedup[w] - now > Window)

ShouldAlert(w, now) == w \in DOMAIN dedup => now - dedup[w] > Window

Raised(state, now) ==
  {w \in Watched : /\ Severity(state, w) # "Info"
                   /\ ~IsSuppressed(w)
                   /\ ShouldAlert(w, now)}

(* Buses are checked first, then branches, then the frequency. *)
Rank(w) ==
  CASE w[1] = "Voltage" -> w[2]
    [] w[1] = "Thermal" -> NBus + w[2]
    [] OTHER            -> NBus + NBranch + 1

NewId(w, raised) == alert_counter + Cardinality({u \in raised : Rank(u) < Rank(w)})

MakeAlert(state, now, raised, w) ==
  [alert_id |-> NewId(w, raised), timestamp_us |-> now,
   severity |-> Severity(state, w), watched |-> w, acknowledged |-> FALSE]

RecordDedup(raised, now) ==
  [w \in DOMAIN dedup \cup raised |-> IF w \in raised THEN now ELSE dedup[w]]

CheckState(state, now) ==
  LET raised == Raised(state, now)
  IN  /\ active_alerts' = active_alerts \cup
                          {MakeAlert(state, now, raised, w) : w \in raised}
      /\ alert_counter' = alert_counter + Cardinality(raised)
      /\ dedup' = RecordDedup(raised, now)
      /\ UNCHANGED suppression_list

(* The first alert with the id is marked; an unknown id changes nothing. *)
Acknowledge(id) ==
  /\ \E a \in active_alerts :
       /\ a.alert_id = id
       /\ active_alerts' = (active_alerts \ {a}) \cup {[a EXCEPT !.acknowledged = TRUE]}
  /\ UNCHANGED <<alert_counter, suppression_list, dedup>>

Suppress(category, element) ==
  /\ suppression_list' = suppression_list \cup {<<category, element>>}
  /\ UNCHANGED <<alert_counter, active_alerts, dedup>>

-----------------------------------------------------------------------------
(* The window as an operator experiences it: two alerts about one pair lie  *)
(* more than the window apart, and the later one in time is the one raised  *)
(* later, although scans may arrive in any order (alert.rs:377-399).        *)
AlertsSpaced ==
  \A a, b \in active_alerts :
    a.watched = b.watched /\ a.alert_id < b.alert_id
      => b.timestamp_us - a.timestamp_us > Window

(* An id names one alert, below the counter (alert.rs:359-360): this is     *)
(* what lets acknowledge stop at the first match.                           *)
IdsUnique ==
  /\ \A a \in active_alerts : a.alert_id < alert_counter
  /\ \A a, b \in active_alerts : a.alert_id = b.alert_id => a = b
=============================================================================
