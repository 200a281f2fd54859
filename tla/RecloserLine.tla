---------------------------- MODULE RecloserLine ----------------------------
(***************************************************************************)
(* The auto-recloser driving a real breaker on a line that suffers faults. *)
(* The breaker obeys the commands process_event and tick return.  The      *)
(* relay and the current monitor report what the line shows, but trips and *)
(* verdicts may also come twice, late or for no reason, and an operator    *)
(* inhibits, releases, resets and closes by hand, in any phase.            *)
(***************************************************************************)
EXTENDS Autorecloser

CONSTANT MaxDead   \* where deadFor stops: no reclose waits longer

ASSUME LineAssumption ==
  /\ MaxDead \in Nat
  /\ \A s \in 0..NShots : DeadTime(s) + Holdoff <= MaxDead

VARIABLES
  fault,      \* the fault on the line: none, transient or permanent
  position,   \* the real breaker: TRUE when its contacts are closed
  deadFor     \* ticks on the dead line since the last OpenBreaker, up to MaxDead

line == <<fault, position, deadFor>>
lineVars == <<vars, line>>

Faults == {"none", "transient", "permanent"}

LineTypeOK ==
  /\ TypeOK
  /\ fault \in Faults
  /\ position \in BOOLEAN
  /\ deadFor \in 0..MaxDead

LineInit ==
  /\ Init
  /\ fault = "none"
  /\ position = TRUE
  /\ deadFor = 0

(* The breaker does what the returned command says. *)
Follow ==
  position' = CASE command' = "CloseBreaker"               -> TRUE
                [] command' \in {"OpenBreaker", "LockOut"} -> FALSE
                [] OTHER                                   -> position

(* Each OpenBreaker starts the count afresh, also on an open breaker.       *)
CountFromOpening == deadFor' = IF command' = "OpenBreaker" THEN 0 ELSE deadFor

(* The bound on the cumulative counter: from MaxFired shots on, neither the *)
(* weather nor the operator does what could start another sequence.         *)
MoreSequences == totalShotsFired < MaxFired

(* A fault needs a live line. *)
FaultStrikes(f) ==
  /\ fault = "none" /\ f # "none"
  /\ position
  /\ MoreSequences
  /\ fault' = f
  /\ UNCHANGED <<vars, position, deadFor>>

(* The arc of a transient fault dies while the line is dead. *)
ArcExtinguishes ==
  /\ fault = "transient"
  /\ ~position
  /\ fault' = "none"
  /\ UNCHANGED <<vars, position, deadFor>>

CrewRepairs ==
  /\ fault # "none"
  /\ phase = "Lockout"
  /\ fault' = "none"
  /\ UNCHANGED <<vars, position, deadFor>>

(* The device may not be listening: a trip before the verdict is dropped.   *)
RelayTrips ==
  /\ fault # "none"
  /\ position
  /\ FaultTrip
  /\ Follow /\ CountFromOpening
  /\ UNCHANGED fault

(* A trip of a second relay, on a line that may be dead or sound.           *)
StrayTrip ==
  /\ FaultTrip
  /\ Follow /\ CountFromOpening
  /\ UNCHANGED fault

(* After a reclose the monitor reports whether the overcurrent is back. *)
MonitorReports ==
  /\ phase = "ReclosingAttempt"
  /\ IF fault = "none" THEN FaultCleared ELSE FaultPersisted
  /\ Follow /\ CountFromOpening
  /\ UNCHANGED fault

(* A verdict that is wrong, or comes when the phase has changed.            *)
StrayVerdict ==
  /\ MoreSequences
  /\ FaultCleared \/ FaultPersisted
  /\ Follow /\ CountFromOpening
  /\ UNCHANGED fault

LineTick(dt) ==
  /\ Tick(dt)
  /\ Follow
  /\ deadFor' = CASE position                             -> 0
                [] ~position /\ deadFor + dt < MaxDead  -> deadFor + dt
                [] ~position /\ deadFor + dt >= MaxDead -> MaxDead
  /\ UNCHANGED fault

OperatorInhibits == InhibitSignal /\ Follow /\ UNCHANGED <<fault, deadFor>>

OperatorReleases ==
  /\ MoreSequences
  /\ InhibitReleased
  /\ Follow
  /\ UNCHANGED <<fault, deadFor>>

(* In any phase; beyond the bound only what was locked out, which is open.  *)
OperatorResets ==
  /\ phase = "Lockout" \/ MoreSequences
  /\ ManualReset
  /\ Follow
  /\ UNCHANGED <<fault, deadFor>>

(* The manual close the reset asks for: no event tells the recloser of it.  *)
OperatorCloses ==
  /\ phase = "Normal"
  /\ ~position
  /\ MoreSequences
  /\ position' = TRUE
  /\ deadFor' = 0
  /\ UNCHANGED <<vars, fault>>

(* The line with its relay and its monitor, both reliable.                  *)
LineRuns ==
  \/ \E f \in Faults : FaultStrikes(f)
  \/ ArcExtinguishes \/ CrewRepairs
  \/ RelayTrips \/ MonitorReports
  \/ \E dt \in TickSizes : LineTick(dt)

LineNext ==
  \/ LineRuns
  \/ StrayTrip \/ StrayVerdict
  \/ OperatorInhibits \/ OperatorReleases \/ OperatorResets \/ OperatorCloses

(* Time passes and the relay and the monitor answer; the operator and the   *)
(* weather need not do anything.                                            *)
LineFairness ==
  /\ WF_lineVars(\E dt \in TickSizes : LineTick(dt))
  /\ WF_lineVars(RelayTrips)
  /\ WF_lineVars(MonitorReports)

LineSpec == LineInit /\ [][LineNext]_lineVars /\ LineFairness

(* Nobody operates the device and no event is out of place.                 *)
UnattendedSpec == LineInit /\ [][LineRuns]_lineVars

------------------------------------------------------------------------------
(* Properties *)

(* From a trip until the device is back in service, the position it keeps   *)
(* is the position of the real breaker, although it never reads it.         *)
SequencePositionAgrees ==
  phase \notin {"Normal", "Inhibited"} => breakerClosed = position

(* The device closes the breaker only onto a line that has been dead for    *)
(* the whole dead time and hold-off of the shot since the trip that began   *)
(* this shot, also when that trip came while an earlier dead time ran.      *)
ReclosesOntoDeadLine ==
  [][~position /\ position' /\ phase # "Normal" =>
       deadFor' >= DeadTime(shot) + Holdoff]_lineVars

(* A sequence always ends: back to service, locked out or inhibited.        *)
SequenceEnds == InSequence ~> ~InSequence

(* A fault on a line in service is eventually off the line, or the device   *)
(* is locked out, or the operator inhibited it, or reset it with the line   *)
(* open: no trip that is dropped and no wrong verdict loses it for good.    *)
FaultResolved ==
  fault # "none" /\ phase = "Normal" /\ position
    ~> \/ fault = "none"
       \/ phase \in {"Lockout", "Inhibited"}
       \/ phase = "Normal" /\ ~position

==============================================================================
