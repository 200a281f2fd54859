------------------------- MODULE IslandingController -------------------------
(***************************************************************************)
(* The islanding transition controller: a feasibility check against the    *)
(* last known load and generation, a preparation phase, the island itself, *)
(* which draws on the battery when there is no diesel, and a reconnection  *)
(* that no operation completes. Energies are in MW times the unit of time: *)
(* energy is battery_soc * battery_mwh.                                    *)
(***************************************************************************)
EXTENDS Integers

CONSTANTS
  PrepareTime,             \* 5 s
  MinAutonomy,             \* half an hour
  CriticalShare, Parts,    \* 1 - non_critical_load_fraction as CriticalShare/Parts
  InitialLoad,             \* load_mw of new
  DieselMax, DieselEndurance,
  Energies                 \* the energies a battery may start with

ASSUME IslandAssumption ==
  /\ PrepareTime \in Nat /\ MinAutonomy \in Nat
  /\ CriticalShare \in Nat /\ Parts \in Nat \ {0}
  /\ InitialLoad \in Nat /\ DieselMax \in Nat /\ DieselEndurance \in Nat
  /\ Energies \subseteq Nat

VARIABLES
  grid_connected, diesel_available,
  energy,               \* what the battery still holds
  renewable_mw, load_mw,
  transition            \* TransitionState: its name and the time spent in it

islandVars == <<grid_connected, diesel_available, energy, renewable_mw, load_mw, transition>>

Transitions == [name : {"GridConnected", "PreIsland", "Islanded", "Reconnecting"}, elapsed : Nat]

IslandTypeOK ==
  /\ grid_connected \in BOOLEAN
  /\ diesel_available \in BOOLEAN
  /\ energy \in Nat
  /\ renewable_mw \in Nat
  /\ load_mw \in Nat
  /\ transition \in Transitions

Begin(name) == [name |-> name, elapsed |-> 0]

IslandInit ==
  /\ grid_connected = TRUE
  /\ diesel_available \in BOOLEAN
  /\ energy \in Energies
  /\ renewable_mw = 0
  /\ load_mw = InitialLoad
  /\ transition = Begin("GridConnected")

NonNegative(x) == IF x < 0 THEN 0 ELSE x

(* The part of the critical load that renewables do not cover.              *)
NetCritical(load, renewable) == NonNegative((load * CriticalShare) \div Parts - renewable)

DieselEnergy(net) ==
  IF diesel_available THEN (IF net < DieselMax THEN net ELSE DieselMax) * DieselEndurance ELSE 0

(* Mutated form: some stored energy is enough. *)
FeasibleFromBattery(net) == net = 0 \/ energy + DieselEnergy(net) > 0

(* check_islanding_feasible, with autonomy_estimate_h multiplied out.       *)
Feasible(net) == net = 0 \/ energy + DieselEnergy(net) >= MinAutonomy * net

InitiateIslanding ==
  /\ Feasible(NetCritical(load_mw, renewable_mw))
  /\ transition.name = "GridConnected"
  /\ transition' = Begin("PreIsland")
  /\ grid_connected' = FALSE
  /\ UNCHANGED <<diesel_available, energy, renewable_mw, load_mw>>

Prepare(dt) ==
  /\ transition.name = "PreIsland"
  /\ transition' = IF transition.elapsed + dt >= PrepareTime
                   THEN Begin("Islanded")
                   ELSE [transition EXCEPT !.elapsed = @ + dt]
  /\ UNCHANGED energy

RunIsland(dt, renewable, load) ==
  /\ transition.name = "Islanded"
  /\ transition' = [transition EXCEPT !.elapsed = @ + dt]
  /\ energy' = IF diesel_available
               THEN energy
               ELSE NonNegative(energy - NetCritical(load, renewable) * dt)

(* step_islanded takes the new load and generation in every state.          *)
StepIslanded(dt, renewable, load) ==
  /\ renewable_mw' = renewable
  /\ load_mw' = load
  /\ \/ Prepare(dt)
     \/ RunIsland(dt, renewable, load)
     \/ /\ transition.name \in {"GridConnected", "Reconnecting"}
        /\ UNCHANGED <<transition, energy>>
  /\ UNCHANGED <<grid_connected, diesel_available>>

ReconnectToGrid ==
  /\ transition.name = "Islanded"
  /\ transition' = Begin("Reconnecting")
  /\ UNCHANGED <<grid_connected, diesel_available, energy, renewable_mw, load_mw>>
=============================================================================
