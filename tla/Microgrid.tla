----------------------------- MODULE Microgrid -----------------------------
(***************************************************************************)
(* A microgrid through voltage and frequency events. In every time step    *)
(* the simulation that owns the devices samples the grid once and calls    *)
(* the load shedding scheme, the inverter and the islanding controller     *)
(* with the same sample, and the controller with the load of the moment.   *)
(* Between time steps the operator islands, reconnects, resets the scheme  *)
(* or asks the inverter for a verdict. The devices are modules of their    *)
(* own; the wiring and the history variables are of this one.              *)
(***************************************************************************)
EXTENDS LoadShedding, SmartInverter, IslandingController

CONSTANTS
  Voltages, Frequencies, Loads, Renewables, TimeSteps,   \* the samples
  MaxIslanded,     \* bound on the time spent islanded
  MaxViolation     \* bound on the violation time that probes add up

ASSUME MicrogridAssumption ==
  /\ MaxIslanded \in Nat /\ MaxViolation \in Nat
  /\ Voltages \subseteq Int /\ Frequencies \subseteq Int
  /\ Loads \subseteq Nat /\ Renewables \subseteq Nat /\ TimeSteps \subseteq Nat \ {0}

(* Settings that coordinate: the inverter calls a frequency low only below  *)
(* every step of the scheme, and rides longer than the scheme waits.        *)
ASSUME CoordinationAssumption ==
  \A i \in Step : Threshold[i] >= LfThreshold /\ ShedDelay[i] <= LvrtTime

VARIABLES
  stress,   \* history: time in violation since a sample without one, and its kind
  calm,     \* history: time without violation up to now, as the updates saw it
  pledged   \* history: the net critical load at islanding, none, or broken

microgridVars == <<uflsVars, inverterVars, islandVars, stress, calm, pledged>>

Kinds == {"none", "lowFrequency", "mixed", "high"}

NoPledge == -1

MicrogridTypeOK ==
  /\ UflsTypeOK /\ InverterTypeOK /\ IslandTypeOK
  /\ stress \in [for : Nat, kind : Kinds]
  /\ calm \in Nat
  /\ pledged \in Nat \cup {NoPledge}

MicrogridInit ==
  /\ UflsInit /\ InverterInit /\ IslandInit
  /\ stress = [for |-> 0, kind |-> "none"]
  /\ calm = 0
  /\ pledged = NoPledge

-----------------------------------------------------------------------------
AtMost(x, limit) == IF x > limit THEN limit ELSE x

(* Nothing below tells longer violations apart.                             *)
LongestTrip == IF HvrtTime > LvrtTime THEN HvrtTime ELSE LvrtTime

OnlyLowFrequency(v, f) == f < LfThreshold /\ v >= LvrtThreshold /\ v <= HvrtThreshold

StressAfter(v, f, dt) ==
  IF ~InViolation(v, f) THEN [for |-> 0, kind |-> "none"]
  ELSE [for  |-> AtMost(stress.for + dt, LongestTrip),
        kind |-> CASE HighVoltage(v) -> "high"
                   [] OnlyLowFrequency(v, f)
                      /\ stress.kind \in {"none", "lowFrequency"} -> "lowFrequency"
                   [] OTHER -> "mixed"]

(* The estimate stands while the island draws no more than it was based on. *)
PledgeAfter(net) ==
  IF transition.name = "Islanded" /\ net > pledged THEN NoPledge ELSE pledged

TimeStep(v, f, load, renewable, dt) ==
  /\ transition.name = "Islanded" => transition.elapsed < MaxIslanded
  /\ UflsStep(f, dt)
  /\ InverterUpdate(v, f, dt)
  /\ StepIslanded(dt, renewable, load)
  /\ pledged' = PledgeAfter(NetCritical(load, renewable))
  /\ stress' = StressAfter(v, f, dt)
  /\ calm' = IF InViolation(v, f) THEN 0 ELSE AtMost(calm + dt, ReconnectDelay)

Island ==
  /\ InitiateIslanding
  /\ pledged' = IF diesel_available THEN NoPledge ELSE NetCritical(load_mw, renewable_mw)
  /\ UNCHANGED <<uflsVars, inverterVars, stress, calm>>

Rejoin ==
  /\ ReconnectToGrid
  /\ pledged' = NoPledge
  /\ UNCHANGED <<uflsVars, inverterVars, stress, calm>>

(* What a low-frequency run owes to the scheme is forgotten with its timers. *)
ResetScheme ==
  /\ UflsReset
  /\ stress' = [stress EXCEPT !.kind = IF @ = "lowFrequency" THEN "mixed" ELSE @]
  /\ UNCHANGED <<inverterVars, islandVars, calm, pledged>>

(* The scheme does not see this sample, the violation time of the inverter  *)
(* does.                                                                    *)
Probe(v, f, dt) ==
  /\ time_in_violation < MaxViolation
  /\ InverterProbe(v, f, dt)
  /\ stress' = [StressAfter(v, f, dt) EXCEPT
                  !.kind = IF @ = "lowFrequency" THEN "mixed" ELSE @]
  /\ UNCHANGED <<uflsVars, inverter, islandVars, calm, pledged>>

SomeTimeStep ==
  \E v \in Voltages, f \in Frequencies, load \in Loads, renewable \in Renewables,
     dt \in TimeSteps : TimeStep(v, f, load, renewable, dt)

MicrogridNext ==
  \/ SomeTimeStep
  \/ \E v \in Voltages, f \in Frequencies, dt \in TimeSteps : Probe(v, f, dt)
  \/ Island
  \/ Rejoin
  \/ ResetScheme

MicrogridSpec == MicrogridInit /\ [][MicrogridNext]_microgridVars

(* The simulation goes on.                                                  *)
RunningSpec == MicrogridSpec /\ WF_microgridVars(SomeTimeStep)

-----------------------------------------------------------------------------
(* The inverter trips only when the violations it was shown, one after the  *)
(* other, lasted as long as the limit of the last of them, and serves the   *)
(* grid again only after the whole reconnection delay without a violation   *)
(* (smart_inverter.rs:518-595).                                             *)
RidesThrough ==
  [][/\ InService /\ ~InService'
          => stress'.for >= (IF stress'.kind = "high" THEN HvrtTime ELSE LvrtTime)
     /\ ~InService /\ InService' => calm' >= ReconnectDelay]_microgridVars

(* Load goes before generation: when low frequency alone makes the inverter *)
(* trip, the scheme has shed every step it has (frequency_monitoring.rs:429 *)
(* with smart_inverter.rs:518, under the coordination assumption).          *)
LoadShedsBeforeTrip ==
  [][InService /\ ~InService' /\ stress'.kind = "lowFrequency"
       => \A i \in Step : triggered'[i]]_microgridVars

(* The feasibility check keeps its word: an island on battery that draws no *)
(* more than the estimate was based on has, until the minimum autonomy is   *)
(* over, the energy for the rest of it (advanced_ems.rs:828-908).           *)
AutonomyHonoured ==
  transition.name \in {"PreIsland", "Islanded"} /\ pledged # NoPledge =>
    energy >= pledged * (MinAutonomy -
                         (IF transition.name = "Islanded" THEN transition.elapsed ELSE 0))

(* The controller is documented with "feasibility check, autonomous step,   *)
(* reconnection" (advanced_ems.rs:8) and Reconnecting as "Attempting        *)
(* resynchronization" (:768): once reconnection is initiated and the        *)
(* simulation goes on, the microgrid should be back on the grid some day.   *)
ReconnectionCompletes == transition.name = "Reconnecting" ~> grid_connected
=============================================================================
