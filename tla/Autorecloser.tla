---------------------------- MODULE Autorecloser ----------------------------
(***************************************************************************)
(* The auto-recloser state machine of protection/autorecloser.rs: the      *)
(* handlers process_event (one action per event, one disjunct per match    *)
(* arm) and tick.  Every event may arrive in every phase, as the public    *)
(* API allows.  Time is counted in ticks.  state.time_in_state_s is left   *)
(* out: it only accumulates dt and no code reads it.                       *)
(***************************************************************************)
EXTENDS Naturals, Sequences

CONSTANTS
  NShots,            \* config.n_shots
  DeadTimes,         \* config.dead_times_s, in ticks; any length
  FallbackDeadTime,  \* the 30 s used when dead_times_s is empty
  Holdoff,           \* config.holdoff_time_s
  ReclaimTime,       \* config.reclaim_time_s
  TickSizes,         \* the dt_s values a caller advances time by
  MaxFired           \* bound: no new sequence starts once this many shots fired

ASSUME ConfigAssumption ==
  /\ NShots \in Nat
  /\ DeadTimes \in Seq(Nat)
  /\ FallbackDeadTime \in Nat /\ Holdoff \in Nat /\ ReclaimTime \in Nat
  /\ TickSizes \subseteq Nat \ {0}
  /\ MaxFired \in Nat

VARIABLES
  phase,             \* RecloserPhase, the variant
  shot,              \* its shot / shots_used / n_shots payload, 0 when it has none
  elapsed,           \* its elapsed_s payload, 0 when it has none
  breakerClosed,     \* state.breaker_closed
  totalShotsFired,   \* state.total_shots_fired, cumulative
  command,           \* the RecloserCommand the last call returned
  closures           \* history: CloseBreaker commands since the phase was Normal

vars == <<phase, shot, elapsed, breakerClosed, totalShotsFired, command, closures>>

Phases == {"Normal", "WaitingDeadTime", "ReclosingAttempt", "Reclaiming",
           "Lockout", "Inhibited"}
Commands == {"None", "OpenBreaker", "CloseBreaker", "LockOut", "Alarm"}

(* Types, and the payloads: only phases that carry a shot number or a timer *)
(* have one.                                                                *)
TypeOK ==
  /\ phase \in Phases
  /\ shot \in Nat /\ elapsed \in Nat
  /\ breakerClosed \in BOOLEAN
  /\ totalShotsFired \in Nat
  /\ command \in Commands
  /\ closures \in Nat
  /\ phase \in {"Normal", "Inhibited"} => shot = 0
  /\ phase \notin {"WaitingDeadTime", "Reclaiming"} => elapsed = 0

Init ==
  /\ phase = "Normal" /\ shot = 0 /\ elapsed = 0
  /\ breakerClosed = TRUE
  /\ totalShotsFired = 0
  /\ command = "None"
  /\ closures = 0

------------------------------------------------------------------------------
(* Phase changes *)

(* Mutated form: the timer of the phase just left keeps running. *)
EnterKeepsTimer(p, s) == phase' = p /\ shot' = s /\ elapsed' = elapsed

Enter(p, s) == phase' = p /\ shot' = s /\ elapsed' = 0

Opened == breakerClosed' = FALSE

(* Give up; the payload keeps the shot count. *)
GoLockout(n) == Enter("Lockout", n) /\ command' = "LockOut" /\ UNCHANGED closures

(* Count one more shot and start its dead time. *)
FireShot(n) ==
  /\ Enter("WaitingDeadTime", n)
  /\ command' = "OpenBreaker"
  /\ totalShotsFired' = totalShotsFired + 1
  /\ UNCHANGED closures

ToNormal == Enter("Normal", 0) /\ closures' = 0

(* Every (phase, event) pair without an arm of its own. *)
Ignored ==
  /\ command' = "None"
  /\ UNCHANGED <<phase, shot, elapsed, breakerClosed, totalShotsFired, closures>>

------------------------------------------------------------------------------
(* process_event *)

TripFromNormal ==
  /\ phase = "Normal"
  /\ totalShotsFired < MaxFired
  /\ Opened
  /\ IF NShots = 0
     THEN GoLockout(0) /\ totalShotsFired' = totalShotsFired + 1
     ELSE FireShot(1)

(* Another trip during the dead time: breaker_closed is not assigned. *)
TripInDeadTime ==
  /\ phase = "WaitingDeadTime"
  /\ IF shot >= NShots
     THEN GoLockout(totalShotsFired) /\ UNCHANGED totalShotsFired
     ELSE FireShot(shot + 1)
  /\ UNCHANGED breakerClosed

(* Mutated form: a trip during the reclaim time starts again at shot 1. *)
TripInReclaimRestarts == phase = "Reclaiming" /\ Opened /\ FireShot(1)

(* Mutated form: like the dead-time arm, it does not assign breaker_closed. *)
TripInReclaimStaysClosed ==
  /\ phase = "Reclaiming"
  /\ IF totalShotsFired >= NShots
     THEN GoLockout(totalShotsFired) /\ UNCHANGED totalShotsFired
     ELSE FireShot(totalShotsFired + 1)
  /\ UNCHANGED breakerClosed

(* The cumulative counter, not the shots_used of the phase, is tested here. *)
TripInReclaim ==
  /\ phase = "Reclaiming"
  /\ Opened
  /\ IF totalShotsFired >= NShots
     THEN GoLockout(totalShotsFired) /\ UNCHANGED totalShotsFired
     ELSE FireShot(totalShotsFired + 1)

FaultTrip ==
  \/ TripFromNormal
  \/ TripInDeadTime
  \/ TripInReclaim
  \/ phase \in {"ReclosingAttempt", "Lockout", "Inhibited"} /\ Ignored

(* Mutated form: one shot too many before giving up. *)
FaultPersistedLate ==
  /\ phase = "ReclosingAttempt"
  /\ Opened
  /\ IF shot > NShots
     THEN GoLockout(totalShotsFired) /\ UNCHANGED totalShotsFired
     ELSE FireShot(shot + 1)

(* Mutated form: the last shot's failure is not acted upon. *)
FaultPersistedStays ==
  /\ phase = "ReclosingAttempt"
  /\ IF shot >= NShots THEN Ignored ELSE Opened /\ FireShot(shot + 1)

FaultPersisted ==
  \/ /\ phase = "ReclosingAttempt"
     /\ Opened
     /\ IF shot >= NShots
        THEN GoLockout(totalShotsFired) /\ UNCHANGED totalShotsFired
        ELSE FireShot(shot + 1)
  \/ phase # "ReclosingAttempt" /\ Ignored

FaultCleared ==
  \/ /\ phase = "ReclosingAttempt"
     /\ Enter("Reclaiming", shot)
     /\ breakerClosed' = TRUE
     /\ command' = "None"
     /\ UNCHANGED <<totalShotsFired, closures>>
  \/ phase # "ReclosingAttempt" /\ Ignored

InhibitSignal ==
  /\ Enter("Inhibited", 0)
  /\ command' = "Alarm"
  /\ UNCHANGED <<breakerClosed, totalShotsFired, closures>>

InhibitReleased ==
  \/ /\ phase = "Inhibited"
     /\ ToNormal
     /\ command' = "None"
     /\ UNCHANGED <<breakerClosed, totalShotsFired>>
  \/ phase # "Inhibited" /\ Ignored

(* Mutated form: the reset forgets that the breaker needs a manual close. *)
ManualResetCloses ==
  /\ ToNormal
  /\ breakerClosed' = TRUE
  /\ command' = "Alarm"
  /\ UNCHANGED totalShotsFired

ManualReset ==
  /\ ToNormal
  /\ breakerClosed' = FALSE
  /\ command' = "Alarm"
  /\ UNCHANGED totalShotsFired

------------------------------------------------------------------------------
(* tick *)

(* The dead time of a shot: past the end of the list its last entry is used. *)
DeadTime(s) ==
  LET i == IF s = 0 THEN 1 ELSE s
      n == Len(DeadTimes)
  IN  CASE n = 0           -> FallbackDeadTime
        [] n > 0 /\ i <= n -> DeadTimes[i]
        [] n > 0 /\ i > n  -> DeadTimes[n]

DeadTimeOver(e) == e >= DeadTime(shot) + Holdoff

(* Mutated form: the elapsed time is overwritten instead of accumulated. *)
TickWaitingOverwrites(dt) ==
  /\ phase = "WaitingDeadTime"
  /\ IF DeadTimeOver(dt)
     THEN /\ Enter("ReclosingAttempt", shot)
          /\ breakerClosed' = TRUE
          /\ command' = "CloseBreaker"
          /\ closures' = closures + 1
     ELSE /\ elapsed' = dt
          /\ command' = "None"
          /\ UNCHANGED <<phase, shot, breakerClosed, closures>>
  /\ UNCHANGED totalShotsFired

TickWaiting(dt) ==
  /\ phase = "WaitingDeadTime"
  /\ IF DeadTimeOver(elapsed + dt)
     THEN /\ Enter("ReclosingAttempt", shot)
          /\ breakerClosed' = TRUE
          /\ command' = "CloseBreaker"
          /\ closures' = closures + 1
     ELSE /\ elapsed' = elapsed + dt
          /\ command' = "None"
          /\ UNCHANGED <<phase, shot, breakerClosed, closures>>
  /\ UNCHANGED totalShotsFired

TickReclaiming(dt) ==
  /\ phase = "Reclaiming"
  /\ IF elapsed + dt >= ReclaimTime
     THEN ToNormal
     ELSE elapsed' = elapsed + dt /\ UNCHANGED <<phase, shot, closures>>
  /\ command' = "None"
  /\ UNCHANGED <<breakerClosed, totalShotsFired>>

Tick(dt) ==
  \/ TickWaiting(dt)
  \/ TickReclaiming(dt)
  \/ phase \notin {"WaitingDeadTime", "Reclaiming"} /\ Ignored

Next ==
  \/ FaultTrip \/ FaultPersisted \/ FaultCleared
  \/ InhibitSignal \/ InhibitReleased \/ ManualReset
  \/ \E dt \in TickSizes : Tick(dt)

Spec == Init /\ [][Next]_vars

------------------------------------------------------------------------------
(* Properties *)

InSequence == phase \in {"WaitingDeadTime", "ReclosingAttempt", "Reclaiming"}

(* The breaker position agrees with the phase whatever mix of events led    *)
(* there: open while a dead time runs and in lockout (some arms that enter  *)
(* these phases do not assign breaker_closed), closed while a reclose is    *)
(* tried and while the reclaim time runs.                                   *)
BreakerFollowsPhase ==
  /\ phase \in {"WaitingDeadTime", "Lockout"} => ~breakerClosed
  /\ phase \in {"ReclosingAttempt", "Reclaiming"} => breakerClosed

(* Between two returns to Normal the device recloses at most n_shots times, *)
(* whichever of the three arms (dead time, persisted fault, fault during    *)
(* the reclaim time) moved it from one shot to the next.                    *)
ReclosuresBounded == closures <= NShots

(* The strengthening that makes ReclosuresBounded inductive: inside a       *)
(* sequence the shot number is configured and never exceeds the cumulative  *)
(* counter, and the reclosures made so far are below it.                    *)
ShotsConfigured == InSequence => shot \in 1..NShots /\ shot <= totalShotsFired

ClosuresBelowShot ==
  /\ phase = "Normal" => closures = 0
  /\ phase = "WaitingDeadTime" => closures < shot
  /\ phase \in {"ReclosingAttempt", "Reclaiming"} => closures <= shot

IInv ==
  /\ TypeOK
  /\ BreakerFollowsPhase
  /\ ShotsConfigured
  /\ ClosuresBelowShot
  /\ ReclosuresBounded

(* Inside a sequence the shot number never goes back, and every new opening *)
(* uses a later shot, so no dead time of the configuration is used twice:   *)
(* the reclaim arm numbers its shot from the cumulative counter, the others *)
(* from the phase.                                                          *)
ShotsAdvance ==
  [][InSequence /\ InSequence' =>
       /\ shot' >= shot
       /\ command' = "OpenBreaker" => shot' > shot]_vars

(* The state machine implements the reclosing contract: phases are mapped   *)
(* to modes, breaker_closed to the contract's position.                     *)
ModeOfPhase ==
  CASE phase = "Normal"    -> "service"
    [] phase = "Lockout"   -> "locked"
    [] phase = "Inhibited" -> "blocked"
    [] InSequence          -> "sequence"

Contract == INSTANCE ReclosingContract
              WITH Limit <- NShots, mode <- ModeOfPhase,
                   closed <- breakerClosed, used <- closures

ImplementsContract == Contract!Spec

(* RecloserPhase::Lockout is documented as "all shots exhausted, breaker    *)
(* locked open": the device should lock out only from the last shot of the  *)
(* sequence in progress.                                                    *)
LockoutOnlyWhenExhausted ==
  [][phase # "Lockout" /\ phase' = "Lockout" => shot = NShots]_vars

==============================================================================
