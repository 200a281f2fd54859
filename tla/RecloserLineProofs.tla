------------------------- MODULE RecloserLineProofs -------------------------
(***************************************************************************)
(* Proofs about the recloser on its line: every step of the composition is *)
(* a step of the device or leaves it alone, so what is proved of the       *)
(* device holds on the line, and there its position is the breaker's.      *)
(***************************************************************************)
EXTENDS RecloserLine, AutorecloserProofs

(* The device takes its own steps only.                                     *)
LEMMA LineStepIsDeviceStep == [LineNext]_lineVars => [Next]_vars
<1> SUFFICES ASSUME [LineNext]_lineVars PROVE [Next]_vars
  OBVIOUS
<1>1. CASE \E f \in Faults : FaultStrikes(f)
  BY <1>1 DEF FaultStrikes
<1>2. CASE ArcExtinguishes \/ CrewRepairs \/ OperatorCloses
  BY <1>2 DEF ArcExtinguishes, CrewRepairs, OperatorCloses
<1>3. CASE RelayTrips \/ StrayTrip
  BY <1>3 DEF RelayTrips, StrayTrip, Next
<1>4. CASE MonitorReports \/ StrayVerdict
  BY <1>4 DEF MonitorReports, StrayVerdict, Next
<1>5. CASE \E dt \in TickSizes : LineTick(dt)
  BY <1>5 DEF LineTick, Next
<1>6. CASE OperatorInhibits \/ OperatorReleases \/ OperatorResets
  BY <1>6 DEF OperatorInhibits, OperatorReleases, OperatorResets, Next
<1>7. CASE UNCHANGED lineVars
  BY <1>7 DEF lineVars
<1> QED
  BY <1>1, <1>2, <1>3, <1>4, <1>5, <1>6, <1>7 DEF LineNext, LineRuns

(* The line drives the device through behaviours of its own specification   *)
(* only: nothing proved of process_event and tick is lost in composition.   *)
THEOREM LineRunsDevice == LineSpec => Spec
<1>1. LineInit => Init
  BY DEF LineInit
<1> QED
  BY <1>1, LineStepIsDeviceStep, PTL DEF LineSpec, Spec

------------------------------------------------------------------------------
(* Opening and closing reach the breaker through the command.               *)
LEMMA OpenFollowed ==
  ASSUME Opened, command' \in {"OpenBreaker", "LockOut"}, Follow
  PROVE  breakerClosed' = position'
<1>1. position' = FALSE
  BY DEF Follow
<1> QED
  BY <1>1 DEF Opened

LEMMA FiredFollowed ==
  ASSUME NEW n, FireShot(n) \/ GoLockout(n), Opened, Follow
  PROVE  breakerClosed' = position'
<1>1. command' \in {"OpenBreaker", "LockOut"}
  BY DEF FireShot, GoLockout
<1> QED
  BY <1>1, OpenFollowed

LEMMA SilentFollowed ==
  ASSUME command' \in {"None", "Alarm"}, Follow
  PROVE  position' = position
BY DEF Follow

LEMMA IgnoredFollowed ==
  ASSUME SequencePositionAgrees, Ignored, Follow
  PROVE  SequencePositionAgrees'
<1>1. command' = "None" /\ phase' = phase /\ breakerClosed' = breakerClosed
  BY DEF Ignored
<1>2. position' = position
  BY <1>1, SilentFollowed
<1> QED
  BY <1>1, <1>2 DEF SequencePositionAgrees

LEMMA TripFollowed ==
  ASSUME IInv, SequencePositionAgrees, FaultTrip, Follow
  PROVE  SequencePositionAgrees'
<1>1. CASE TripFromNormal
  BY <1>1, FiredFollowed DEF TripFromNormal, SequencePositionAgrees
<1>2. CASE TripInDeadTime
  BY <1>2, OpenInDeadTime, FiredFollowed DEF TripInDeadTime, SequencePositionAgrees
<1>3. CASE TripInReclaim
  BY <1>3, FiredFollowed DEF TripInReclaim, SequencePositionAgrees
<1>4. CASE Ignored
  BY <1>4, IgnoredFollowed
<1> QED
  BY <1>1, <1>2, <1>3, <1>4 DEF FaultTrip

LEMMA ReportFollowed ==
  ASSUME IInv, SequencePositionAgrees, FaultPersisted \/ FaultCleared, Follow
  PROVE  SequencePositionAgrees'
<1>1. CASE FaultPersisted /\ phase = "ReclosingAttempt"
  BY <1>1, FiredFollowed DEF FaultPersisted, SequencePositionAgrees
<1>2. CASE FaultCleared /\ phase = "ReclosingAttempt"
  <2>1. breakerClosed' = TRUE /\ command' = "None"
    BY <1>2 DEF FaultCleared
  <2>2. position' = position
    BY <2>1, SilentFollowed
  <2>3. position = TRUE
    BY <1>2 DEF IInv, TypeOK, BreakerFollowsPhase, SequencePositionAgrees
  <2> QED
    BY <2>1, <2>2, <2>3 DEF SequencePositionAgrees
<1>3. CASE phase # "ReclosingAttempt"
  BY <1>3, IgnoredFollowed DEF FaultPersisted, FaultCleared
<1> QED
  BY <1>1, <1>2, <1>3

LEMMA TickFollowed ==
  ASSUME SequencePositionAgrees, NEW dt \in TickSizes, Tick(dt), Follow
  PROVE  SequencePositionAgrees'
<1>1. CASE TickWaiting(dt)
  <2>1. CASE DeadTimeOver(elapsed + dt)
    <3>1. breakerClosed' = TRUE /\ command' = "CloseBreaker"
      BY <1>1, <2>1 DEF TickWaiting
    <3> QED
      BY <3>1 DEF Follow, SequencePositionAgrees
  <2>2. CASE ~DeadTimeOver(elapsed + dt)
    <3>1. command' = "None" /\ phase' = phase /\ breakerClosed' = breakerClosed
      BY <1>1, <2>2 DEF TickWaiting
    <3> QED
      BY <3>1, SilentFollowed DEF SequencePositionAgrees
  <2> QED
    BY <2>1, <2>2
<1>2. CASE TickReclaiming(dt)
  <2>1. /\ command' = "None" /\ breakerClosed' = breakerClosed
        /\ phase' \in {"Normal", phase}
    BY <1>2 DEF TickReclaiming, ToNormal, Enter
  <2> QED
    BY <2>1, SilentFollowed DEF SequencePositionAgrees
<1>3. CASE Ignored
  BY <1>3, IgnoredFollowed
<1> QED
  BY <1>1, <1>2, <1>3 DEF Tick

LEMMA PositionStep ==
  ASSUME IInv, SequencePositionAgrees, [LineNext]_lineVars
  PROVE  SequencePositionAgrees'
<1>1. CASE \E f \in Faults : FaultStrikes(f)
  BY <1>1 DEF FaultStrikes, vars, SequencePositionAgrees
<1>2. CASE ArcExtinguishes \/ CrewRepairs
  BY <1>2 DEF ArcExtinguishes, CrewRepairs, vars, SequencePositionAgrees
<1>3. CASE RelayTrips \/ StrayTrip
  BY <1>3, TripFollowed DEF RelayTrips, StrayTrip
<1>4. CASE MonitorReports \/ StrayVerdict
  BY <1>4, ReportFollowed DEF MonitorReports, StrayVerdict
<1>5. CASE \E dt \in TickSizes : LineTick(dt)
  BY <1>5, TickFollowed DEF LineTick
<1>6. CASE OperatorInhibits
  BY <1>6 DEF OperatorInhibits, InhibitSignal, Enter, SequencePositionAgrees
<1>7. CASE OperatorReleases
  BY <1>7, IgnoredFollowed
  DEF OperatorReleases, InhibitReleased, ToNormal, Enter, SequencePositionAgrees
<1>8. CASE OperatorResets
  BY <1>8 DEF OperatorResets, ManualReset, ToNormal, Enter, SequencePositionAgrees
<1>9. CASE OperatorCloses
  BY <1>9 DEF OperatorCloses, vars, SequencePositionAgrees
<1>10. CASE UNCHANGED lineVars
  BY <1>10 DEF lineVars, line, vars, SequencePositionAgrees
<1> QED
  BY <1>1, <1>2, <1>3, <1>4, <1>5, <1>6, <1>7, <1>8, <1>9, <1>10 DEF LineNext, LineRuns

(* From a trip to the end of the sequence the position the device believes  *)
(* is the breaker's, for every configuration, weather and operator.         *)
THEOREM PositionAgrees == LineSpec => []SequencePositionAgrees
<1>1. LineInit => SequencePositionAgrees
  BY DEF LineInit, Init, SequencePositionAgrees
<1>2. LineSpec => []IInv
  BY LineRunsDevice, Invariance, PTL
<1> QED
  BY <1>1, <1>2, PositionStep, PTL DEF LineSpec

------------------------------------------------------------------------------
(* The dead time                                                            *)

USE ConfigAssumption, LineAssumption

(* While the dead time runs, the line has been dead for at least as long as *)
(* the timer says: the timer restarts with every shot, the line does not    *)
(* come alive in between.                                                   *)
DeadTimeServed == phase = "WaitingDeadTime" => elapsed <= deadFor

LineInv ==
  /\ IInv
  /\ SequencePositionAgrees
  /\ LineTypeOK
  /\ DeadTimeServed

LEMMA DeadTimeTyped == \A s \in 0..NShots : DeadTime(s) \in Nat
<1> SUFFICES ASSUME NEW s \in 0..NShots PROVE DeadTime(s) \in Nat
  OBVIOUS
<1>1. Len(DeadTimes) \in Nat /\ \A i \in 1..Len(DeadTimes) : DeadTimes[i] \in Nat
  OBVIOUS
<1> QED
  BY <1>1 DEF DeadTime

(* What a tick adds to the time on the dead line.                           *)
LEMMA DeadForCounts ==
  ASSUME LineTypeOK, NEW dt \in TickSizes, LineTick(dt)
  PROVE  /\ deadFor' \in 0..MaxDead
         /\ ~position => \A t \in Nat : t <= deadFor + dt /\ t <= MaxDead => t <= deadFor'
<1>1. deadFor \in 0..MaxDead /\ position \in BOOLEAN /\ dt \in Nat
  BY DEF LineTypeOK
<1>2. CASE position
  BY <1>1, <1>2 DEF LineTick
<1>3. CASE ~position /\ deadFor + dt < MaxDead
  BY <1>1, <1>3 DEF LineTick
<1>4. CASE ~position /\ deadFor + dt >= MaxDead
  BY <1>1, <1>4 DEF LineTick
<1> QED
  BY <1>1, <1>2, <1>3, <1>4

(* A waiting device has its breaker open.                                   *)
LEMMA WaitingIsOpen ==
  ASSUME IInv, SequencePositionAgrees, phase = "WaitingDeadTime"
  PROVE  /\ ~position
         /\ elapsed \in Nat
         /\ DeadTime(shot) + Holdoff \in Nat /\ DeadTime(shot) + Holdoff <= MaxDead
<1>1. ~breakerClosed /\ breakerClosed = position /\ elapsed \in Nat
  BY DEF IInv, TypeOK, BreakerFollowsPhase, SequencePositionAgrees
<1>2. shot \in 1..NShots
  BY DEF IInv, ShotsConfigured, InSequence
<1>3. shot \in 0..NShots
  BY <1>2
<1>4. DeadTime(shot) \in Nat
  BY ONLY <1>3, DeadTimeTyped
<1> QED
  BY <1>1, <1>3, <1>4

(* The timer starts from zero whenever the wait begins.                     *)
LEMMA TripRestartsTimer ==
  ASSUME FaultTrip \/ FaultPersisted, phase' = "WaitingDeadTime"
  PROVE  elapsed' = 0 \/ (Ignored /\ phase = "WaitingDeadTime")
<1> USE DEF FireShot, GoLockout, Enter
<1>1. CASE FaultTrip
  BY <1>1 DEF FaultTrip, TripFromNormal, TripInDeadTime, TripInReclaim, Ignored
<1>2. CASE FaultPersisted
  BY <1>2 DEF FaultPersisted, Ignored
<1> QED
  BY <1>1, <1>2

LEMMA TickServes ==
  ASSUME LineInv, NEW dt \in TickSizes, LineTick(dt), phase' = "WaitingDeadTime"
  PROVE  elapsed' <= deadFor'
<1>1. /\ TickWaiting(dt) /\ phase = "WaitingDeadTime" /\ ~DeadTimeOver(elapsed + dt)
      /\ elapsed' = elapsed + dt
  BY DEF LineTick, Tick, TickWaiting, TickReclaiming, ToNormal, Enter, Ignored
<1>2. /\ ~position /\ elapsed \in Nat /\ DeadTime(shot) + Holdoff \in Nat
      /\ DeadTime(shot) + Holdoff <= MaxDead
  BY <1>1, WaitingIsOpen DEF LineInv
<1>3. /\ dt \in Nat /\ deadFor \in Nat /\ MaxDead \in Nat
  BY DEF LineInv, LineTypeOK
<1>4. elapsed <= deadFor
  BY <1>1 DEF LineInv, DeadTimeServed
<1>5. elapsed + dt \in Nat /\ elapsed + dt <= deadFor + dt /\ elapsed + dt <= MaxDead
  BY <1>1, <1>2, <1>3, <1>4 DEF DeadTimeOver
<1> QED
  BY <1>1, <1>2, <1>5, DeadForCounts DEF LineInv

LEMMA LineInvStep ==
  ASSUME LineInv, IInv', SequencePositionAgrees', [LineNext]_lineVars
  PROVE  LineInv'
<1>1. TypeOK'
  BY DEF IInv
<1>2. CASE \E f \in Faults : FaultStrikes(f)
  BY <1>1, <1>2 DEF FaultStrikes, vars, LineInv, LineTypeOK, DeadTimeServed
<1>3. CASE ArcExtinguishes \/ CrewRepairs \/ OperatorCloses
  <2>1. /\ UNCHANGED vars /\ fault' \in {fault, "none"}
        /\ position' \in {position, TRUE}
        /\ deadFor' \in {deadFor, 0}
        /\ phase = "WaitingDeadTime" => deadFor' = deadFor
    BY <1>3 DEF ArcExtinguishes, CrewRepairs, OperatorCloses, vars
  <2>2. /\ deadFor' \in 0..MaxDead
        /\ position' \in BOOLEAN
        /\ fault' \in Faults
    <3>1. deadFor \in 0..MaxDead /\ 0 \in 0..MaxDead
      BY DEF LineInv, LineTypeOK
    <3>2. position \in BOOLEAN /\ fault \in Faults
      BY DEF LineInv, LineTypeOK
    <3>3. deadFor' \in 0..MaxDead
      BY <2>1, <3>1, Zenon
    <3>4. position' \in BOOLEAN
      BY <2>1, <3>2, Zenon
    <3> QED
      BY <2>1, <3>2, <3>3, <3>4 DEF Faults
  <2>3. LineTypeOK'
    BY <1>1, <2>2 DEF LineTypeOK
  <2> QED
    BY <2>1, <2>3 DEF vars, LineInv, DeadTimeServed
<1>4. ASSUME Follow PROVE position' \in BOOLEAN
  BY <1>4 DEF Follow, LineInv, LineTypeOK
<1>5. CASE RelayTrips \/ StrayTrip \/ MonitorReports \/ StrayVerdict
  <2>1. Follow /\ CountFromOpening /\ fault' = fault /\ deadFor' \in {deadFor, 0}
    BY <1>5 DEF RelayTrips, StrayTrip, MonitorReports, StrayVerdict, CountFromOpening
  <2>2. LineTypeOK'
    BY <1>1, <1>4, <2>1 DEF LineInv, LineTypeOK
  <2>3. ASSUME phase' = "WaitingDeadTime" PROVE elapsed' <= deadFor'
    <3>1. CASE Ignored
      BY <2>1, <2>3, <3>1 DEF Ignored, CountFromOpening, LineInv, DeadTimeServed
    <3>2. CASE ~Ignored
      <4>1. FaultTrip \/ FaultPersisted
        BY <1>5, <2>3, <3>2
        DEF RelayTrips, StrayTrip, MonitorReports, StrayVerdict, FaultCleared, Enter
      <4>2. elapsed' = 0
        BY <2>3, <3>2, <4>1, TripRestartsTimer
      <4> QED
        BY <2>2, <4>2 DEF LineTypeOK
    <3> QED
      BY <3>1, <3>2
  <2> QED
    BY <2>2, <2>3 DEF LineInv, DeadTimeServed
<1>6. CASE \E dt \in TickSizes : LineTick(dt)
  <2>1. PICK dt \in TickSizes : LineTick(dt)
    BY <1>6
  <2>2. LineTypeOK'
    BY <1>1, <1>4, <2>1, DeadForCounts DEF LineTick, LineInv, LineTypeOK
  <2>3. DeadTimeServed'
    BY <2>1, TickServes DEF DeadTimeServed
  <2> QED
    BY <2>2, <2>3 DEF LineInv
<1>7. CASE OperatorInhibits \/ OperatorReleases \/ OperatorResets
  <2>1. /\ Follow /\ fault' = fault /\ deadFor' = deadFor
        /\ phase' \in {"Inhibited", "Normal"} \/ Ignored
    BY <1>7 DEF OperatorInhibits, OperatorReleases, OperatorResets, InhibitSignal,
                InhibitReleased, ManualReset, ToNormal, Enter
  <2>2. LineTypeOK'
    BY <1>1, <1>4, <2>1 DEF LineInv, LineTypeOK
  <2>3. DeadTimeServed'
    BY <2>1 DEF LineInv, DeadTimeServed, Ignored
  <2> QED
    BY <2>2, <2>3 DEF LineInv
<1>8. CASE UNCHANGED lineVars
  BY <1>1, <1>8 DEF lineVars, line, vars, LineInv, LineTypeOK, DeadTimeServed
<1> QED
  BY <1>2, <1>3, <1>5, <1>6, <1>7, <1>8 DEF LineNext, LineRuns

THEOREM LineInvariance == LineSpec => []LineInv
<1>1. IInv /\ LineInit => LineInv
  BY DEF LineInit, Init, LineInv, LineTypeOK, DeadTimeServed,
                        SequencePositionAgrees, IInv, Faults
<1>2. LineSpec => []IInv
  BY LineRunsDevice, Invariance, PTL
<1>3. LineInv /\ IInv' /\ SequencePositionAgrees' /\ [LineNext]_lineVars => LineInv'
  BY LineInvStep
<1> QED
  BY <1>1, <1>2, <1>3, PositionAgrees, PTL DEF LineSpec

(* The line and the device on it stay well typed.                           *)
THEOREM LineTypes == LineSpec => []LineTypeOK
<1>1. LineInv => LineTypeOK
  BY DEF LineInv
<1> QED
  BY <1>1, LineInvariance, PTL

(* No event handler returns CloseBreaker: only the clock closes.            *)
LEMMA EventsNeverClose ==
  ASSUME FaultTrip \/ FaultPersisted \/ FaultCleared
           \/ InhibitSignal \/ InhibitReleased \/ ManualReset
  PROVE  command' # "CloseBreaker"
<1> USE DEF FireShot, GoLockout, Ignored
<1>1. CASE FaultTrip
  BY <1>1 DEF FaultTrip, TripFromNormal, TripInDeadTime, TripInReclaim
<1>2. CASE FaultPersisted \/ FaultCleared
  BY <1>2 DEF FaultPersisted, FaultCleared
<1>3. CASE InhibitSignal \/ InhibitReleased \/ ManualReset
  BY <1>3 DEF InhibitSignal, InhibitReleased, ManualReset
<1> QED
  BY <1>1, <1>2, <1>3

(* No reclose comes before the dead time and the hold-off of its shot are   *)
(* over, for every list of dead times and every clock.                      *)
THEOREM DeadLineReclosing == LineSpec => ReclosesOntoDeadLine
<1> DEFINE Dead == ~position /\ position' /\ phase # "Normal"
                     => deadFor' >= DeadTime(shot) + Holdoff
<1>1. ASSUME LineInv, LineInv', [LineNext]_lineVars PROVE Dead
  <2> SUFFICES ASSUME ~position, position', phase # "Normal"
               PROVE  deadFor' >= DeadTime(shot) + Holdoff
    OBVIOUS
  <2>1. Follow /\ position' # position
    BY <1>1 DEF LineNext, LineRuns, FaultStrikes, ArcExtinguishes, CrewRepairs,
                RelayTrips, MonitorReports, StrayTrip, StrayVerdict, LineTick,
                OperatorInhibits, OperatorReleases, OperatorResets, OperatorCloses,
                lineVars, line
  <2>2. command' = "CloseBreaker"
    BY <2>1 DEF Follow
  <2>3. PICK dt \in TickSizes : LineTick(dt)
    <3>1. ~(FaultTrip \/ FaultPersisted \/ FaultCleared
              \/ InhibitSignal \/ InhibitReleased \/ ManualReset)
      BY <2>2, EventsNeverClose
    <3> QED
      BY <1>1, <2>1, <3>1
      DEF LineNext, LineRuns, FaultStrikes, ArcExtinguishes, CrewRepairs, RelayTrips,
          MonitorReports, StrayTrip, StrayVerdict, OperatorInhibits, OperatorReleases,
          OperatorResets, OperatorCloses, lineVars, line
  <2>4. phase = "WaitingDeadTime" /\ DeadTimeOver(elapsed + dt)
    BY <2>2, <2>3 DEF LineTick, Tick, TickWaiting, TickReclaiming, Ignored
  <2>5. /\ DeadTime(shot) + Holdoff \in Nat /\ DeadTime(shot) + Holdoff <= MaxDead
        /\ elapsed \in Nat /\ elapsed <= deadFor /\ deadFor \in Nat /\ dt \in Nat
    BY <1>1, <2>4, WaitingIsOpen DEF LineInv, LineTypeOK, DeadTimeServed
  <2>6. DeadTime(shot) + Holdoff <= deadFor + dt
    BY <2>4, <2>5 DEF DeadTimeOver
  <2>7. DeadTime(shot) + Holdoff <= deadFor'
    BY <1>1, <2>3, <2>5, <2>6, DeadForCounts DEF LineInv
  <2>8. deadFor' \in Nat
    BY <1>1 DEF LineInv, LineTypeOK
  <2> QED
    BY <2>5, <2>7, <2>8
<1>2. LineInv /\ LineInv' /\ [LineNext]_lineVars => [Dead]_lineVars
  BY <1>1
<1> QED
  BY <1>2, LineInvariance, PTL DEF LineSpec, ReclosesOntoDeadLine
==============================================================================
