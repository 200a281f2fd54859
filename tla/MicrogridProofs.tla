-------------------------- MODULE MicrogridProofs --------------------------
(***************************************************************************)
(* The microgrid's shedding order, ride-through, coordination and autonomy *)
(* for every number of shedding steps, all settings and every sample.      *)
(***************************************************************************)
EXTENDS Microgrid, TLAPS

USE UflsAssumption, InverterAssumption, IslandAssumption, MicrogridAssumption

-----------------------------------------------------------------------------
(* Load shedding                                                            *)

(* A lower step has not waited longer than a higher one that still waits.   *)
TimersInOrder ==
  \A i, j \in Step : i < j /\ ~triggered[i] => ~triggered[j] /\ timer[j] <= timer[i]

ShedInv == UflsTypeOK /\ TimersInOrder

LEMMA ShedInitInv == UflsInit => ShedInv
BY DEF UflsInit, ShedInv, UflsTypeOK, TimersInOrder

LEMMA ShedStepInv ==
  ASSUME ShedInv, NEW f \in Int, NEW dt \in Nat, UflsStep(f, dt)
  PROVE  ShedInv'
<1> USE DEF UflsTypeOK
<1>1. /\ timer' = [i \in Step |-> TimerAfter(f, dt, i)]
      /\ triggered' = [i \in Step |-> triggered[i] \/ Fires(f, dt, i)]
  BY DEF UflsStep
<1>2. \A i \in Step : TimerAfter(f, dt, i) \in Nat
  BY DEF TimerAfter, ShedInv
<1>3. UflsTypeOK'
  BY <1>1, <1>2 DEF ShedInv, Fires
<1>4. TimersInOrder'
  <2> SUFFICES ASSUME NEW i \in Step, NEW j \in Step, i < j, ~triggered'[i]
               PROVE  ~triggered'[j] /\ timer'[j] <= timer'[i]
    BY DEF TimersInOrder
  <2>1. ~triggered[i] /\ ~Fires(f, dt, i)
    BY <1>1
  <2>2. ~triggered[j] /\ timer[j] <= timer[i]
    BY <2>1 DEF ShedInv, TimersInOrder
  <2>3. Threshold[i] > Threshold[j] /\ ShedDelay[i] <= ShedDelay[j]
    OBVIOUS
  <2>4. TimerAfter(f, dt, j) <= TimerAfter(f, dt, i)
    <3>1. timer[i] \in Nat /\ timer[j] \in Nat /\ Threshold[i] \in Int /\ Threshold[j] \in Int
      BY DEF ShedInv
    <3>2. CASE f < Threshold[j]
      <4>1. f < Threshold[i]
        BY <2>3, <3>1, <3>2
      <4>2. TimerAfter(f, dt, j) = timer[j] + dt /\ TimerAfter(f, dt, i) = timer[i] + dt
        BY <2>1, <2>2, <3>1, <3>2, <4>1 DEF TimerAfter
      <4> QED
        BY <2>2, <3>1, <4>2
    <3>3. CASE ~(f < Threshold[j])
      <4>1. TimerAfter(f, dt, j) = 0
        BY <2>2, <3>1, <3>3 DEF TimerAfter
      <4> QED
        BY <1>2, <4>1
    <3> QED
      BY <3>2, <3>3
  <2>5. ~Fires(f, dt, j)
    BY <1>2, <2>1, <2>3, <2>4 DEF Fires
  <2> QED
    BY <1>1, <2>2, <2>4, <2>5
<1> QED
  BY <1>3, <1>4 DEF ShedInv

LEMMA ShedResetInv == UflsReset => ShedInv'
BY DEF UflsReset, ShedInv, UflsTypeOK, TimersInOrder

LEMMA ShedStutterInv == ShedInv /\ UNCHANGED <<triggered, timer>> => ShedInv'
BY DEF ShedInv, UflsTypeOK, TimersInOrder

-----------------------------------------------------------------------------
(* The inverter                                                             *)

(* The history accounts for the time the inverter counts.                   *)
HistoryCounts ==
  /\ inverter.name = "RidingThrough" => AtMost(time_in_violation, LongestTrip) <= stress.for
  /\ inverter.name = "Reconnecting"  => inverter.elapsed <= calm
  /\ stress.kind = "none" => stress.for = 0

RideInv ==
  /\ InverterTypeOK
  /\ stress \in [for : Nat, kind : Kinds]
  /\ calm \in Nat
  /\ HistoryCounts

LEMMA RideInitInv == MicrogridInit => RideInv
BY DEF MicrogridInit, InverterInit, In, InverterTypeOK, InverterStates, RideInv,
       HistoryCounts, Kinds

LEMMA StressTyped ==
  ASSUME RideInv, NEW v \in Int, NEW f \in Int, NEW dt \in Nat
  PROVE  /\ StressAfter(v, f, dt) \in [for : Nat, kind : Kinds]
         /\ StressAfter(v, f, dt).kind = "none" => ~InViolation(v, f)
         /\ StressAfter(v, f, dt).kind = "none" => StressAfter(v, f, dt).for = 0
         /\ InViolation(v, f) => StressAfter(v, f, dt).for = AtMost(stress.for + dt, LongestTrip)
BY DEF RideInv, StressAfter, AtMost, LongestTrip, Kinds

(* One verdict of the state machine, state by state.                        *)
LEMMA VerdictTyped ==
  ASSUME InverterTypeOK, NEW v \in Int, NEW f \in Int, NEW dt \in Nat
  PROVE  /\ CheckRideThrough(v, f, dt).state \in InverterStates
         /\ CheckRideThrough(v, f, dt).time \in Nat
<1> USE DEF InverterTypeOK, InverterStates, In
<1>1. CASE inverter.name = "Tripped"
  BY <1>1 DEF CheckRideThrough, StayOut, InService
<1>2. CASE inverter.name = "Reconnecting"
  BY <1>2 DEF CheckRideThrough, Reconnect, InService
<1>3. CASE InService
  BY <1>3 DEF CheckRideThrough, InService, RideThrough
<1> QED
  BY <1>1, <1>2, <1>3 DEF InService

LEMMA UpdateInv ==
  ASSUME RideInv, NEW v \in Int, NEW f \in Int, NEW dt \in Nat,
         InverterUpdate(v, f, dt), stress' = StressAfter(v, f, dt),
         calm' = IF InViolation(v, f) THEN 0 ELSE AtMost(calm + dt, ReconnectDelay)
  PROVE  RideInv'
<1>1. InverterTypeOK'
  BY VerdictTyped DEF InverterUpdate, InverterTypeOK, RideInv
<1>2. stress' \in [for : Nat, kind : Kinds] /\ (stress'.kind = "none" => stress'.for = 0)
  BY StressTyped
<1>3. calm' \in Nat
  BY DEF RideInv, AtMost
<1>4. inverter'.name = "RidingThrough" => AtMost(time_in_violation, LongestTrip)' <= stress'.for
  <2> SUFFICES ASSUME inverter'.name = "RidingThrough"
               PROVE  AtMost(time_in_violation', LongestTrip) <= stress'.for
    BY DEF AtMost, LongestTrip
  <2>1. InService /\ InViolation(v, f)
    BY DEF InverterUpdate, CheckRideThrough, StayOut, Reconnect, RideThrough, InService, In,
           InverterTypeOK, InverterStates, RideInv
  <2>2. time_in_violation' = IF inverter.name = "Normal" THEN dt ELSE time_in_violation + dt
    BY <2>1 DEF InverterUpdate, CheckRideThrough, RideThrough, InService
  <2>3. stress'.for = AtMost(stress.for + dt, LongestTrip)
    BY <2>1, StressTyped
  <2> QED
    BY <2>1, <2>2, <2>3 DEF AtMost, LongestTrip, HistoryCounts, RideInv, InverterTypeOK, InService
<1>5. inverter'.name = "Reconnecting" => inverter'.elapsed <= calm'
  <2> SUFFICES ASSUME inverter'.name = "Reconnecting" PROVE inverter'.elapsed <= calm'
    OBVIOUS
  <2>1. CASE inverter.name = "Tripped"
    BY <1>3, <2>1 DEF InverterUpdate, CheckRideThrough, StayOut, In, InService
  <2>2. CASE inverter.name = "Reconnecting"
    <3>1. ~InViolation(v, f) /\ inverter'.elapsed = inverter.elapsed + dt
          /\ inverter.elapsed + dt < ReconnectDelay
      BY <2>2 DEF InverterUpdate, CheckRideThrough, Reconnect, In, InService, InverterTypeOK,
                  InverterStates, RideInv
    <3> QED
      BY <2>2, <3>1 DEF AtMost, HistoryCounts, RideInv, InverterTypeOK, InverterStates
  <2>3. CASE InService
    BY <2>3 DEF InverterUpdate, CheckRideThrough, RideThrough, InService, In
  <2> QED
    BY <2>1, <2>2, <2>3 DEF RideInv, InverterTypeOK, InverterStates, InService
<1> QED
  BY <1>1, <1>2, <1>3, <1>4, <1>5 DEF RideInv, HistoryCounts

(* A direct call counts time too, in the state machine and in the history.  *)
LEMMA ProbeInv ==
  ASSUME RideInv, NEW v \in Int, NEW f \in Int, NEW dt \in Nat, Probe(v, f, dt)
  PROVE  RideInv'
<1>1. /\ time_in_violation' = CheckRideThrough(v, f, dt).time
      /\ inverter' = inverter /\ calm' = calm
      /\ stress' = [StressAfter(v, f, dt) EXCEPT !.kind = IF @ = "lowFrequency" THEN "mixed" ELSE @]
  BY DEF Probe, InverterProbe
<1>2. InverterTypeOK'
  BY <1>1, VerdictTyped DEF RideInv, InverterTypeOK
<1>3. /\ stress' \in [for : Nat, kind : Kinds]
      /\ stress'.for = StressAfter(v, f, dt).for
      /\ stress'.kind = "none" => stress'.for = 0
  BY <1>1, StressTyped DEF Kinds
<1>4. ASSUME inverter.name = "RidingThrough"
      PROVE  AtMost(time_in_violation', LongestTrip) <= stress'.for
  <2>1. CASE InViolation(v, f)
    <3>1. time_in_violation' = time_in_violation + dt
      BY <1>1, <1>4, <2>1 DEF CheckRideThrough, RideThrough, InService
    <3>2. stress'.for = AtMost(stress.for + dt, LongestTrip)
      BY <1>3, <2>1, StressTyped
    <3>3. time_in_violation \in Nat /\ stress.for \in Nat /\ LongestTrip \in Nat
      BY DEF RideInv, InverterTypeOK, LongestTrip
    <3>4. AtMost(time_in_violation, LongestTrip) <= stress.for
      BY <1>4 DEF RideInv, HistoryCounts
    <3> QED
      BY <3>1, <3>2, <3>3, <3>4 DEF AtMost
  <2>2. CASE ~InViolation(v, f)
    BY <1>1, <1>3, <1>4, <2>2 DEF CheckRideThrough, RideThrough, InService, AtMost, LongestTrip
  <2> QED
    BY <2>1, <2>2
<1> QED
  BY <1>1, <1>2, <1>3, <1>4 DEF RideInv, HistoryCounts, AtMost, LongestTrip

(* What the verdict that takes the inverter out or back rests on.           *)
LEMMA TripsLate ==
  ASSUME RideInv, NEW v \in Int, NEW f \in Int, NEW dt \in Nat,
         InverterUpdate(v, f, dt), stress' = StressAfter(v, f, dt), InService, ~InService'
  PROVE  stress'.for >= (IF stress'.kind = "high" THEN HvrtTime ELSE LvrtTime)
<1>1. InViolation(v, f)
  BY DEF InverterUpdate, CheckRideThrough, RideThrough, InService, In
<1>2. (IF inverter.name = "Normal" THEN dt ELSE time_in_violation + dt) >= TripTime(v)
  BY <1>1 DEF InverterUpdate, CheckRideThrough, RideThrough, InService, In
<1>3. stress'.for = AtMost(stress.for + dt, LongestTrip)
  BY <1>1, StressTyped
<1>4. stress'.kind = "high" <=> HighVoltage(v)
  BY <1>1 DEF StressAfter, OnlyLowFrequency, HighVoltage
<1>5. stress'.for >= TripTime(v)
  <2>1. stress.for \in Nat /\ time_in_violation \in Nat /\ LongestTrip \in Nat
    BY DEF RideInv, InverterTypeOK, LongestTrip
  <2>2. TripTime(v) \in Nat /\ TripTime(v) <= LongestTrip
    BY DEF TripTime, LongestTrip
  <2>3. CASE inverter.name = "Normal"
    BY <1>2, <1>3, <2>1, <2>2, <2>3 DEF AtMost
  <2>4. CASE inverter.name = "RidingThrough"
    BY <1>2, <1>3, <2>1, <2>2, <2>4 DEF AtMost, HistoryCounts, RideInv
  <2> QED
    BY <2>3, <2>4 DEF InService
<1> QED
  BY <1>4, <1>5 DEF TripTime

LEMMA ReturnsLate ==
  ASSUME RideInv, NEW v \in Int, NEW f \in Int, NEW dt \in Nat, InverterUpdate(v, f, dt),
         calm' = IF InViolation(v, f) THEN 0 ELSE AtMost(calm + dt, ReconnectDelay),
         ~InService, InService'
  PROVE  calm' >= ReconnectDelay
<1>1. inverter.name = "Reconnecting"
  BY DEF InverterUpdate, CheckRideThrough, StayOut, InService, In, RideInv, InverterTypeOK,
         InverterStates
<1>2. ~InViolation(v, f) /\ inverter.elapsed + dt >= ReconnectDelay
  BY <1>1 DEF InverterUpdate, CheckRideThrough, Reconnect, InService, In, RideInv, InverterTypeOK,
         InverterStates
<1> QED
  BY <1>1, <1>2 DEF RideInv, HistoryCounts, AtMost, InverterTypeOK, InverterStates

-----------------------------------------------------------------------------
(* Coordination of the scheme and the inverter                              *)

(* In a run of low-frequency samples every waiting step has waited as long. *)
SchemeKeepsPace ==
  stress.kind = "lowFrequency" => \A i \in Step : triggered[i] \/ timer[i] >= stress.for

LEMMA StepsShed ==
  ASSUME ShedInv, RideInv, SchemeKeepsPace,
         NEW v \in Int, NEW f \in Int, NEW dt \in Nat, UflsStep(f, dt),
         stress' = StressAfter(v, f, dt), stress'.kind = "lowFrequency", NEW i \in Step
  PROVE  /\ triggered'[i] \/ timer'[i] >= stress'.for
         /\ stress'.for >= LvrtTime => triggered'[i]
<1>1. f < LfThreshold /\ stress.kind \in {"none", "lowFrequency"}
      /\ stress'.for = AtMost(stress.for + dt, LongestTrip)
  BY DEF StressAfter, OnlyLowFrequency
<1>2. stress.for \in Nat /\ LongestTrip \in Nat /\ timer[i] \in Nat
  BY DEF RideInv, LongestTrip, ShedInv, UflsTypeOK
<1>3. f < Threshold[i] /\ ShedDelay[i] <= LvrtTime
  BY <1>1, CoordinationAssumption
<1>4. /\ timer'[i] = TimerAfter(f, dt, i)
      /\ triggered'[i] = (triggered[i] \/ Fires(f, dt, i))
  BY DEF UflsStep
<1>5. CASE triggered[i]
  BY <1>4, <1>5
<1>6. CASE ~triggered[i]
  <2>1. timer'[i] = timer[i] + dt
    BY <1>3, <1>4, <1>6 DEF TimerAfter
  <2>2. timer[i] >= stress.for
    BY <1>1, <1>2, <1>6 DEF SchemeKeepsPace, RideInv, HistoryCounts
  <2>3. timer'[i] >= stress'.for
    BY <1>1, <1>2, <2>1, <2>2 DEF AtMost
  <2>4. ASSUME stress'.for >= LvrtTime PROVE triggered'[i]
    <3>1. TimerAfter(f, dt, i) >= ShedDelay[i]
      <4>1. stress'.for \in Nat
        BY <1>1, <1>2 DEF AtMost
      <4>2. timer'[i] \in Nat /\ ShedDelay[i] \in Nat
        BY <1>2, <2>1
      <4> QED
        BY <1>3, <1>4, <2>3, <2>4, <4>1, <4>2
    <3> QED
      BY <1>3, <1>4, <1>6, <3>1 DEF Fires
  <2> QED
    BY <2>3, <2>4
<1> QED
  BY <1>5, <1>6

-----------------------------------------------------------------------------
(* The island                                                               *)

LEMMA NetTyped ==
  ASSUME NEW load \in Nat, NEW renewable \in Nat
  PROVE  NetCritical(load, renewable) \in Nat
<1>1. load * CriticalShare \in Nat
  OBVIOUS
<1>2. (load * CriticalShare) \div Parts \in Int
  BY <1>1
<1> QED
  BY <1>2 DEF NetCritical, NonNegative

(* What an island that draws no more than pledged leaves in the battery.    *)
LEMMA DrawsWithin ==
  ASSUME NEW e \in Nat, NEW n \in Nat, NEW p \in Nat, NEW dt \in Nat, NEW t \in Int,
         n <= p, e >= p * t
  PROVE  NonNegative(e - n * dt) >= p * (t - dt)
<1>1. n * dt <= p * dt
  BY SMTT(30)
<1>2. p * (t - dt) = p * t - p * dt
  BY SMTT(30)
<1>3. n * dt \in Int /\ p * dt \in Int /\ p * t \in Int
  OBVIOUS
<1>4. e - n * dt >= p * t - p * dt
  BY <1>1, <1>3
<1> QED
  BY <1>2, <1>3, <1>4 DEF NonNegative

(* Only the connected phase is connected, and a pledge is an island's that  *)
(* runs on its battery.                                                     *)
IslandInv ==
  /\ IslandTypeOK
  /\ grid_connected <=> transition.name = "GridConnected"
  /\ pledged \in Nat \cup {NoPledge}
  /\ pledged # NoPledge => ~diesel_available
  /\ AutonomyHonoured

LEMMA IslandInitInv == MicrogridInit => IslandInv
BY DEF MicrogridInit, IslandInit, Begin, Transitions, IslandTypeOK, IslandInv,
       AutonomyHonoured, NoPledge

LEMMA IslandingInv ==
  ASSUME IslandInv, Island
  PROVE  IslandInv'
<1> DEFINE net == NetCritical(load_mw, renewable_mw)
<1>1. net \in Nat
  BY NetTyped DEF IslandInv, IslandTypeOK
<1>2. /\ transition' = Begin("PreIsland") /\ grid_connected' = FALSE
      /\ UNCHANGED <<diesel_available, energy, renewable_mw, load_mw>>
      /\ pledged' = IF diesel_available THEN NoPledge ELSE net
      /\ Feasible(net)
  BY DEF Island, InitiateIslanding
<1> HIDE DEF net
<1>3. ~diesel_available => energy >= net * MinAutonomy
  <2> SUFFICES ASSUME ~diesel_available PROVE energy >= net * MinAutonomy
    OBVIOUS
  <2>1. energy \in Nat
    BY DEF IslandInv, IslandTypeOK
  <2>2. CASE net = 0
    BY <2>1, <2>2
  <2>3. CASE net # 0
    <3>1. energy + 0 >= MinAutonomy * net
      BY <1>2, <2>3 DEF Feasible, DieselEnergy
    <3>2. MinAutonomy * net = net * MinAutonomy /\ net * MinAutonomy \in Int
      BY <1>1
    <3> QED
      BY <2>1, <3>1, <3>2
  <2> QED
    BY <2>2, <2>3
<1>4. IslandTypeOK'
  BY <1>2 DEF IslandInv, IslandTypeOK, Begin, Transitions
<1>5. AutonomyHonoured'
  BY <1>1, <1>2, <1>3 DEF AutonomyHonoured, Begin, NoPledge
<1> QED
  BY <1>1, <1>2, <1>4, <1>5 DEF IslandInv, Begin

LEMMA IslandStepInv ==
  ASSUME IslandInv, NEW dt \in Nat, NEW renewable \in Nat, NEW load \in Nat,
         StepIslanded(dt, renewable, load),
         pledged' = PledgeAfter(NetCritical(load, renewable))
  PROVE  IslandInv'
<1> DEFINE net == NetCritical(load, renewable)
<1>1. net \in Nat
  BY NetTyped
<1>2. /\ renewable_mw' = renewable /\ load_mw' = load
      /\ UNCHANGED <<grid_connected, diesel_available>>
      /\ pledged' = IF transition.name = "Islanded" /\ net > pledged THEN NoPledge ELSE pledged
  BY DEF StepIslanded, PledgeAfter
<1>3. pledged' \in Nat \cup {NoPledge} /\ (pledged' # NoPledge => ~diesel_available')
  BY <1>2 DEF IslandInv
<1>4. /\ energy \in Nat /\ transition \in Transitions
      /\ transition.name \in {"GridConnected", "PreIsland", "Islanded", "Reconnecting"}
      /\ transition.elapsed \in Nat
  BY DEF IslandInv, IslandTypeOK, Transitions
<1>5. CASE Prepare(dt)
  <2>1. /\ transition.name = "PreIsland" /\ energy' = energy /\ pledged' = pledged
        /\ \/ transition' = Begin("Islanded")
           \/ transition' = [transition EXCEPT !.elapsed = transition.elapsed + dt]
    BY <1>2, <1>5 DEF Prepare
  <2>2. /\ transition' \in Transitions
        /\ transition'.name = "PreIsland" \/ transition' = Begin("Islanded")
    BY <1>4, <2>1 DEF Transitions, Begin
  <2>3. AutonomyHonoured'
    BY <2>1, <2>2 DEF AutonomyHonoured, IslandInv, Begin
  <2> QED
    BY <1>2, <1>3, <2>1, <2>2, <2>3 DEF IslandInv, IslandTypeOK, Begin
<1>6. CASE RunIsland(dt, renewable, load)
  <2>1. /\ transition.name = "Islanded"
        /\ transition' = [transition EXCEPT !.elapsed = transition.elapsed + dt]
        /\ energy' = IF diesel_available THEN energy ELSE NonNegative(energy - net * dt)
    BY <1>6 DEF RunIsland
  <2>2. /\ transition' \in Transitions /\ transition'.name = "Islanded"
        /\ transition'.elapsed = transition.elapsed + dt
    BY <1>4, <2>1 DEF Transitions
  <2>3. energy' \in Nat
    <3>1. net * dt \in Nat
      BY <1>1
    <3> QED
      BY <1>4, <2>1, <3>1 DEF NonNegative
  <2>4. AutonomyHonoured'
    <3> SUFFICES ASSUME pledged' # NoPledge
                 PROVE  energy' >= pledged' * (MinAutonomy - transition'.elapsed)
      BY <2>2 DEF AutonomyHonoured
    <3>1. pledged' = pledged /\ pledged \in Nat /\ net <= pledged /\ ~diesel_available
      BY <1>1, <1>2, <2>1 DEF IslandInv, NoPledge
    <3>2. energy >= pledged * (MinAutonomy - transition.elapsed)
      BY <2>1, <3>1 DEF IslandInv, AutonomyHonoured
    <3> DEFINE left == MinAutonomy - transition.elapsed
    <3>3. NonNegative(energy - net * dt) >= pledged * (left - dt)
      <4>1. left \in Int /\ energy >= pledged * left
        BY <1>4, <3>2
      <4> HIDE DEF left, net
      <4> QED
        BY <1>1, <1>4, <3>1, <4>1, DrawsWithin
    <3>4. left - dt = MinAutonomy - transition'.elapsed
      BY <1>4, <2>2
    <3> QED
      BY <2>1, <3>1, <3>3, <3>4
  <2> QED
    BY <1>2, <1>3, <2>1, <2>2, <2>3, <2>4 DEF IslandInv, IslandTypeOK
<1>7. CASE transition.name \in {"GridConnected", "Reconnecting"} /\ UNCHANGED <<transition, energy>>
  <2>1. AutonomyHonoured'
    BY <1>7 DEF AutonomyHonoured
  <2> QED
    BY <1>2, <1>3, <1>7, <2>1 DEF IslandInv, IslandTypeOK
<1> QED
  BY <1>5, <1>6, <1>7 DEF StepIslanded

LEMMA RejoinInv ==
  ASSUME IslandInv, Rejoin
  PROVE  IslandInv'
BY DEF Rejoin, ReconnectToGrid, Begin, IslandInv, IslandTypeOK, Transitions, AutonomyHonoured,
       NoPledge

LEMMA IslandStutterInv == IslandInv /\ UNCHANGED <<islandVars, pledged>> => IslandInv'
BY DEF islandVars, IslandInv, IslandTypeOK, AutonomyHonoured

-----------------------------------------------------------------------------
(* The composition                                                          *)

MicrogridInv ==
  /\ ShedInv
  /\ RideInv
  /\ SchemeKeepsPace
  /\ IslandInv

LEMMA MicrogridInitInv == MicrogridInit => MicrogridInv
<1> SUFFICES ASSUME MicrogridInit PROVE MicrogridInv
  OBVIOUS
<1>1. ShedInv
  BY ShedInitInv DEF MicrogridInit
<1>2. SchemeKeepsPace
  BY DEF MicrogridInit, SchemeKeepsPace
<1> QED
  BY <1>1, <1>2, RideInitInv, IslandInitInv DEF MicrogridInv

LEMMA SamplesTyped ==
  /\ \A v \in Voltages : v \in Int
  /\ \A f \in Frequencies : f \in Int
  /\ \A dt \in TimeSteps : dt \in Nat
  /\ \A x \in Loads \cup Renewables : x \in Nat
OBVIOUS

LEMMA TimeStepInv ==
  ASSUME MicrogridInv, NEW v \in Int, NEW f \in Int, NEW load \in Nat,
         NEW renewable \in Nat, NEW dt \in Nat, TimeStep(v, f, load, renewable, dt)
  PROVE  MicrogridInv'
<1>1. ShedInv'
  BY ShedStepInv DEF MicrogridInv, TimeStep
<1>2. RideInv'
  BY UpdateInv DEF MicrogridInv, TimeStep
<1>3. SchemeKeepsPace'
  BY StepsShed DEF MicrogridInv, TimeStep, SchemeKeepsPace
<1>4. IslandInv'
  BY IslandStepInv DEF MicrogridInv, TimeStep
<1> QED
  BY <1>1, <1>2, <1>3, <1>4 DEF MicrogridInv

LEMMA MicrogridStepInv ==
  MicrogridInv /\ [MicrogridNext]_microgridVars => MicrogridInv'
<1> SUFFICES ASSUME MicrogridInv, [MicrogridNext]_microgridVars PROVE MicrogridInv'
  OBVIOUS
<1>1. CASE \E v \in Voltages, f \in Frequencies, load \in Loads, renewable \in Renewables,
              dt \in TimeSteps : TimeStep(v, f, load, renewable, dt)
  BY <1>1, TimeStepInv, SamplesTyped
<1>2. CASE \E v \in Voltages, f \in Frequencies, dt \in TimeSteps : Probe(v, f, dt)
  <2>1. PICK v \in Voltages, f \in Frequencies, dt \in TimeSteps : Probe(v, f, dt)
    BY <1>2
  <2>2. RideInv'
    BY <2>1, ProbeInv, SamplesTyped DEF MicrogridInv
  <2>3. /\ UNCHANGED <<triggered, timer>> /\ UNCHANGED <<islandVars, pledged>>
        /\ stress'.kind # "lowFrequency"
    <3>1. StressAfter(v, f, dt) \in [for : Nat, kind : Kinds]
      BY StressTyped, SamplesTyped DEF MicrogridInv
    <3> QED
      BY <2>1, <3>1 DEF Probe, uflsVars
  <2> QED
    BY <2>2, <2>3, ShedStutterInv, IslandStutterInv DEF MicrogridInv, SchemeKeepsPace
<1>3. CASE Island
  <2>1. UNCHANGED <<uflsVars, inverterVars, stress, calm>>
    BY <1>3 DEF Island
  <2> QED
    BY <1>3, <2>1, IslandingInv, ShedStutterInv
       DEF MicrogridInv, SchemeKeepsPace, RideInv, HistoryCounts, InverterTypeOK, AtMost,
           LongestTrip, uflsVars, inverterVars
<1>4. CASE Rejoin
  <2>1. UNCHANGED <<uflsVars, inverterVars, stress, calm>>
    BY <1>4 DEF Rejoin
  <2> QED
    BY <1>4, <2>1, RejoinInv, ShedStutterInv
       DEF MicrogridInv, SchemeKeepsPace, RideInv, HistoryCounts, InverterTypeOK, AtMost,
           LongestTrip, uflsVars, inverterVars
<1>5. CASE ResetScheme
  <2>1. /\ UflsReset /\ UNCHANGED <<inverterVars, calm>> /\ UNCHANGED <<islandVars, pledged>>
        /\ stress' = [stress EXCEPT !.kind = IF @ = "lowFrequency" THEN "mixed" ELSE @]
    BY <1>5 DEF ResetScheme
  <2>2. /\ stress' \in [for : Nat, kind : Kinds] /\ stress'.for = stress.for
        /\ stress'.kind # "lowFrequency" /\ (stress'.kind = "none" => stress.kind = "none")
    BY <2>1 DEF MicrogridInv, RideInv, Kinds
  <2>3. RideInv'
    BY <2>1, <2>2 DEF MicrogridInv, RideInv, HistoryCounts, InverterTypeOK, AtMost, LongestTrip,
                      inverterVars
  <2> QED
    BY <2>1, <2>2, <2>3, ShedResetInv, IslandStutterInv DEF MicrogridInv, SchemeKeepsPace
<1>6. CASE UNCHANGED microgridVars
  BY <1>6, ShedStutterInv, IslandStutterInv
     DEF microgridVars, MicrogridInv, SchemeKeepsPace, RideInv, HistoryCounts, InverterTypeOK,
         AtMost, LongestTrip, uflsVars, inverterVars
<1> QED
  BY <1>1, <1>2, <1>3, <1>4, <1>5, <1>6 DEF MicrogridNext, SomeTimeStep

(* The invariant of the whole microgrid.                                    *)
THEOREM MicrogridInvariance == MicrogridSpec => []MicrogridInv
BY MicrogridInitInv, MicrogridStepInv, PTL DEF MicrogridSpec

(* Every device keeps its type, the battery never falls below empty.        *)
THEOREM MicrogridTypes == MicrogridSpec => []MicrogridTypeOK
<1>1. MicrogridInv => MicrogridTypeOK
  BY DEF MicrogridInv, ShedInv, RideInv, IslandInv, MicrogridTypeOK
<1> QED
  BY <1>1, MicrogridInvariance, PTL

(* No step of the scheme fires before the steps above it.                   *)
THEOREM SheddingOrder == MicrogridSpec => []ShedsInOrder
<1>1. MicrogridInv => ShedsInOrder
  BY DEF MicrogridInv, ShedInv, TimersInOrder, ShedsInOrder
<1> QED
  BY <1>1, MicrogridInvariance, PTL

(* An island on battery has the energy its feasibility check promised.      *)
THEOREM AutonomyKept == MicrogridSpec => []AutonomyHonoured
<1>1. MicrogridInv => AutonomyHonoured
  BY DEF MicrogridInv, IslandInv
<1> QED
  BY <1>1, MicrogridInvariance, PTL

(* Outside a time step the inverter stays in or out of service.             *)
LEMMA OnlyTimeStepsSwitch ==
  ASSUME [MicrogridNext]_microgridVars, InService' # InService
  PROVE  \E v \in Voltages, f \in Frequencies, load \in Loads, renewable \in Renewables,
            dt \in TimeSteps : TimeStep(v, f, load, renewable, dt)
<1>1. inverter' # inverter
  BY DEF InService
<1> QED
  BY <1>1 DEF MicrogridNext, SomeTimeStep, Probe, InverterProbe, Island, Rejoin, ResetScheme,
              inverterVars,
              microgridVars

(* Trips and returns keep their delays, however the samples come.           *)
THEOREM RideThroughKept == MicrogridSpec => RidesThrough
<1> DEFINE Rides ==
      /\ InService /\ ~InService'
           => stress'.for >= (IF stress'.kind = "high" THEN HvrtTime ELSE LvrtTime)
      /\ ~InService /\ InService' => calm' >= ReconnectDelay
<1>1. ASSUME MicrogridInv, [MicrogridNext]_microgridVars PROVE Rides
  <2> SUFFICES ASSUME InService' # InService PROVE Rides
    BY DEF InService
  <2>1. PICK v \in Voltages, f \in Frequencies, load \in Loads, renewable \in Renewables,
             dt \in TimeSteps : TimeStep(v, f, load, renewable, dt)
    BY <1>1, OnlyTimeStepsSwitch
  <2> QED
    BY <1>1, <2>1, TripsLate, ReturnsLate, SamplesTyped DEF TimeStep, MicrogridInv
<1>2. MicrogridInv /\ [MicrogridNext]_microgridVars => [Rides]_microgridVars
  BY <1>1
<1> QED
  BY <1>2, MicrogridInvariance, PTL DEF MicrogridSpec, RidesThrough

(* Low frequency alone takes the inverter out only when the scheme has shed *)
(* every step, for all settings that coordinate.                            *)
THEOREM ShedBeforeTrip == MicrogridSpec => LoadShedsBeforeTrip
<1> DEFINE Sheds == InService /\ ~InService' /\ stress'.kind = "lowFrequency"
                      => \A i \in Step : triggered'[i]
<1>1. ASSUME MicrogridInv, [MicrogridNext]_microgridVars PROVE Sheds
  <2> SUFFICES ASSUME InService, ~InService', stress'.kind = "lowFrequency", NEW i \in Step
               PROVE  triggered'[i]
    OBVIOUS
  <2>1. PICK v \in Voltages, f \in Frequencies, load \in Loads, renewable \in Renewables,
             dt \in TimeSteps : TimeStep(v, f, load, renewable, dt)
    BY <1>1, OnlyTimeStepsSwitch
  <2>2. stress'.for >= LvrtTime
    BY <1>1, <2>1, TripsLate, SamplesTyped DEF TimeStep, MicrogridInv
  <2> QED
    BY <1>1, <2>1, <2>2, StepsShed, SamplesTyped DEF TimeStep, MicrogridInv
<1>2. MicrogridInv /\ [MicrogridNext]_microgridVars => [Sheds]_microgridVars
  BY <1>1
<1> QED
  BY <1>2, MicrogridInvariance, PTL DEF MicrogridSpec, LoadShedsBeforeTrip
=============================================================================
