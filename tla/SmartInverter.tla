--------------------------- MODULE SmartInverter ---------------------------
(***************************************************************************)
(* The ride-through state machine of a smart inverter. update runs it and  *)
(* keeps its verdict; check_ride_through, public as well, runs it and      *)
(* keeps only the violation time. Output is zero exactly in Tripped and    *)
(* Reconnecting; the ramped set points are numerics and left out.          *)
(***************************************************************************)
EXTENDS Integers

CONSTANTS
  LvrtThreshold, LvrtTime,    \* RideThroughConfig
  HvrtThreshold, HvrtTime,
  LfThreshold, HfThreshold,
  ReconnectDelay              \* RECONNECT_DELAY_S, 300 s

ASSUME InverterAssumption ==
  /\ {LvrtThreshold, HvrtThreshold, LfThreshold, HfThreshold} \subseteq Int
  /\ LvrtTime \in Nat /\ HvrtTime \in Nat /\ ReconnectDelay \in Nat

VARIABLES
  inverter,             \* InverterState: its name and, reconnecting, the time elapsed
  time_in_violation     \* time_in_violation_s

inverterVars == <<inverter, time_in_violation>>

InverterStates ==
  [name : {"Normal", "RidingThrough", "Tripped"}, elapsed : {0}]
    \cup [name : {"Reconnecting"}, elapsed : Nat]

InverterTypeOK ==
  /\ inverter \in InverterStates
  /\ time_in_violation \in Nat

In(name) == [name |-> name, elapsed |-> 0]

InverterInit ==
  /\ inverter = In("Normal")
  /\ time_in_violation = 0

InService == inverter.name \in {"Normal", "RidingThrough"}

InViolation(v, f) ==
  v < LvrtThreshold \/ v > HvrtThreshold \/ f < LfThreshold \/ f > HfThreshold

(* Low voltage is tested first.                                             *)
HighVoltage(v) == v >= LvrtThreshold /\ v > HvrtThreshold

(* The limit of the violation now present; a frequency violation takes the  *)
(* LVRT time.                                                               *)
TripTime(v) == IF HighVoltage(v) THEN HvrtTime ELSE LvrtTime

(* Mutated form: the violation time is not started afresh. *)
RideThroughOnTotal(v, f, dt) ==
  LET time == time_in_violation + dt
  IN  IF InViolation(v, f)
      THEN [state |-> IF time >= TripTime(v) THEN In("Tripped") ELSE In("RidingThrough"),
            time  |-> time]
      ELSE [state |-> In("Normal"), time |-> time_in_violation]

(* The verdict and the violation time while the inverter serves the grid:   *)
(* the time runs on when one kind of violation follows another.             *)
RideThrough(v, f, dt) ==
  LET time == IF inverter.name = "Normal" THEN dt ELSE time_in_violation + dt
  IN  IF InViolation(v, f)
      THEN [state |-> IF time >= TripTime(v) THEN In("Tripped") ELSE In("RidingThrough"),
            time  |-> time]
      ELSE [state |-> In("Normal"), time |-> 0]

StayOut(v, f) ==
  IF InViolation(v, f) THEN [state |-> In("Tripped"), time |-> time_in_violation]
                       ELSE [state |-> In("Reconnecting"), time |-> 0]

(* Mutated form: a violation does not end the reconnection. *)
ReconnectAgain(v, f, dt) ==
  LET elapsed == inverter.elapsed + dt
  IN  CASE InViolation(v, f) -> [state |-> inverter, time |-> dt]
        [] ~InViolation(v, f) /\ elapsed >= ReconnectDelay ->
             [state |-> In("Normal"), time |-> 0]
        [] ~InViolation(v, f) /\ elapsed < ReconnectDelay ->
             [state |-> [name |-> "Reconnecting", elapsed |-> elapsed],
              time  |-> time_in_violation]

Reconnect(v, f, dt) ==
  LET elapsed == inverter.elapsed + dt
  IN  CASE InViolation(v, f) -> [state |-> In("Tripped"), time |-> dt]
        [] ~InViolation(v, f) /\ elapsed >= ReconnectDelay ->
             [state |-> In("Normal"), time |-> 0]
        [] ~InViolation(v, f) /\ elapsed < ReconnectDelay ->
             [state |-> [name |-> "Reconnecting", elapsed |-> elapsed],
              time  |-> time_in_violation]

CheckRideThrough(v, f, dt) ==
  CASE inverter.name = "Tripped"      -> StayOut(v, f)
    [] inverter.name = "Reconnecting" -> Reconnect(v, f, dt)
    [] InService                      -> RideThrough(v, f, dt)

InverterUpdate(v, f, dt) ==
  /\ inverter' = CheckRideThrough(v, f, dt).state
  /\ time_in_violation' = CheckRideThrough(v, f, dt).time

(* A direct call of check_ride_through: the caller gets the verdict.        *)
InverterProbe(v, f, dt) ==
  /\ time_in_violation' = CheckRideThrough(v, f, dt).time
  /\ UNCHANGED inverter
=============================================================================
