------------------------- MODULE AutorecloserProofs -------------------------
(***************************************************************************)
(* The recloser's invariants, its shot numbering and its implementation of *)
(* ReclosingContract, for every number of shots and every timing.          *)
(***************************************************************************)
EXTENDS Autorecloser, TLAPS

USE ConfigAssumption

(* The initial state of the device satisfies the inductive invariant. *)
LEMMA InitInv == Init => IInv
BY DEF Init, IInv, TypeOK, Phases, Commands, BreakerFollowsPhase,
       ShotsConfigured, InSequence, ClosuresBelowShot, ReclosuresBounded

------------------------------------------------------------------------------
(* The phase changes the handlers share. *)

(* In the dead time the breaker is open already: the arm that handles a     *)
(* trip there need not open it.                                             *)
LEMMA OpenInDeadTime == IInv /\ TripInDeadTime => Opened
BY DEF IInv, TypeOK, BreakerFollowsPhase, TripInDeadTime, Opened

(* Firing shot n keeps the invariant when n is configured, is at most the   *)
(* next value of the cumulative counter and exceeds the reclosures made.    *)
LEMMA FireShotInv ==
  ASSUME IInv, NEW n \in 1..NShots, n <= totalShotsFired + 1, closures < n,
         FireShot(n), Opened
  PROVE  IInv'
<1>1. /\ phase' = "WaitingDeadTime" /\ shot' = n /\ elapsed' = 0
      /\ breakerClosed' = FALSE /\ command' = "OpenBreaker"
      /\ totalShotsFired' = totalShotsFired + 1 /\ closures' = closures
  BY DEF FireShot, Enter, Opened
<1>2. TypeOK'
  <2>1. n \in Nat /\ totalShotsFired + 1 \in Nat /\ closures \in Nat
    BY DEF IInv, TypeOK
  <2>2. QED
    BY <1>1, <2>1 DEF TypeOK, Phases, Commands
<1>3. BreakerFollowsPhase'
  BY <1>1 DEF BreakerFollowsPhase
<1>4. ShotsConfigured'
  BY <1>1 DEF ShotsConfigured
<1>5. ClosuresBelowShot' /\ ReclosuresBounded'
  BY <1>1 DEF IInv, TypeOK, ClosuresBelowShot, ReclosuresBounded
<1>6. QED
  BY <1>2, <1>3, <1>4, <1>5 DEF IInv

(* Locking out keeps the invariant.                                         *)
LEMMA GoLockoutInv ==
  ASSUME IInv, NEW n \in Nat, GoLockout(n), Opened, totalShotsFired' \in Nat
  PROVE  IInv'
<1>1. /\ phase' = "Lockout" /\ shot' = n /\ elapsed' = 0
      /\ breakerClosed' = FALSE /\ command' = "LockOut"
      /\ closures' = closures
  BY DEF GoLockout, Enter, Opened
<1>2. TypeOK'
  BY <1>1 DEF IInv, TypeOK, Phases, Commands
<1>3. BreakerFollowsPhase'
  BY <1>1 DEF BreakerFollowsPhase
<1>4. ShotsConfigured'
  BY <1>1 DEF ShotsConfigured, InSequence
<1>5. ClosuresBelowShot' /\ ReclosuresBounded'
  BY <1>1 DEF IInv, ClosuresBelowShot, ReclosuresBounded
<1>6. QED
  BY <1>2, <1>3, <1>4, <1>5 DEF IInv

(* Returning to Normal keeps the invariant, wherever the breaker is.        *)
LEMMA ToNormalInv ==
  ASSUME IInv, ToNormal, breakerClosed' \in BOOLEAN, command' \in Commands,
         totalShotsFired' = totalShotsFired
  PROVE  IInv'
<1>1. phase' = "Normal" /\ shot' = 0 /\ elapsed' = 0 /\ closures' = 0
  BY DEF ToNormal, Enter
<1>2. TypeOK'
  BY <1>1 DEF IInv, TypeOK, Phases
<1>3. BreakerFollowsPhase'
  BY <1>1 DEF BreakerFollowsPhase
<1>4. ShotsConfigured'
  BY <1>1 DEF ShotsConfigured, InSequence
<1>5. ClosuresBelowShot' /\ ReclosuresBounded'
  BY <1>1 DEF ClosuresBelowShot, ReclosuresBounded
<1>6. QED
  BY <1>2, <1>3, <1>4, <1>5 DEF IInv

(* A call that is ignored keeps the invariant.                              *)
LEMMA IgnoredInv == IInv /\ Ignored => IInv'
<1> SUFFICES ASSUME IInv, Ignored PROVE IInv'
  OBVIOUS
<1>1. TypeOK'
  BY DEF IInv, TypeOK, Commands, Ignored
<1>2. BreakerFollowsPhase' /\ ShotsConfigured'
  BY DEF IInv, Ignored, BreakerFollowsPhase, ShotsConfigured, InSequence
<1>3. ClosuresBelowShot' /\ ReclosuresBounded'
  BY DEF IInv, Ignored, ClosuresBelowShot, ReclosuresBounded
<1>4. QED
  BY <1>1, <1>2, <1>3 DEF IInv

------------------------------------------------------------------------------
(* The handlers. *)

(* A trip keeps the inductive invariant, in each phase that handles it.     *)
LEMMA TripInv == IInv /\ FaultTrip => IInv'
<1> SUFFICES ASSUME IInv, FaultTrip PROVE IInv'
  OBVIOUS
<1> USE DEF IInv, TypeOK
<1>1. CASE TripFromNormal
  <2>1. CASE NShots = 0
    BY <1>1, <2>1, GoLockoutInv DEF TripFromNormal
  <2>2. CASE NShots # 0
    <3>1. FireShot(1) /\ Opened /\ closures < 1
      BY <1>1, <2>2 DEF TripFromNormal, ClosuresBelowShot
    <3>2. QED
      BY <2>2, <3>1, FireShotInv
  <2>3. QED
    BY <2>1, <2>2
<1>2. CASE TripInDeadTime
  <2>0. Opened
    BY <1>2, OpenInDeadTime DEF Opened
  <2>1. CASE shot >= NShots
    BY <1>2, <2>0, <2>1, GoLockoutInv DEF TripInDeadTime
  <2>2. CASE ~(shot >= NShots)
    <3>1. FireShot(shot + 1) /\ closures < shot + 1
      BY <1>2, <2>2 DEF TripInDeadTime, ClosuresBelowShot
    <3>2. shot + 1 \in 1..NShots /\ shot + 1 <= totalShotsFired + 1
      BY <1>2, <2>2 DEF TripInDeadTime, ShotsConfigured, InSequence
    <3>3. QED
      BY <2>0, <3>1, <3>2, FireShotInv
  <2>3. QED
    BY <2>1, <2>2
<1>3. CASE TripInReclaim
  <2>1. CASE totalShotsFired >= NShots
    BY <1>3, <2>1, GoLockoutInv DEF TripInReclaim
  <2>2. CASE ~(totalShotsFired >= NShots)
    <3> DEFINE n == totalShotsFired + 1
    <3>1. FireShot(n) /\ Opened /\ closures <= shot
      BY <1>3, <2>2 DEF TripInReclaim, ClosuresBelowShot
    <3>2. shot <= totalShotsFired
      BY <1>3 DEF TripInReclaim, ShotsConfigured, InSequence
    <3>3. n \in 1..NShots /\ closures < n
      BY <2>2, <3>1, <3>2
    <3>4. QED
      BY <3>1, <3>3, FireShotInv
  <2>3. QED
    BY <2>1, <2>2
<1>4. CASE Ignored
  BY <1>4, IgnoredInv
<1>5. QED
  BY <1>1, <1>2, <1>3, <1>4 DEF FaultTrip

(* A persisted fault keeps the inductive invariant.                         *)
LEMMA PersistedInv == IInv /\ FaultPersisted => IInv'
<1> SUFFICES ASSUME IInv, FaultPersisted PROVE IInv'
  OBVIOUS
<1> USE DEF IInv, TypeOK
<1>1. CASE phase = "ReclosingAttempt" /\ shot >= NShots
  BY <1>1, GoLockoutInv, IgnoredInv DEF FaultPersisted
<1>2. CASE phase = "ReclosingAttempt" /\ ~(shot >= NShots)
  <2>1. FireShot(shot + 1) /\ Opened /\ closures < shot + 1
    BY <1>2 DEF FaultPersisted, ClosuresBelowShot
  <2>2. shot + 1 \in 1..NShots /\ shot + 1 <= totalShotsFired + 1
    BY <1>2 DEF ShotsConfigured, InSequence
  <2>3. QED
    BY <2>1, <2>2, FireShotInv
<1>3. CASE phase # "ReclosingAttempt"
  BY <1>3, IgnoredInv DEF FaultPersisted
<1>4. QED
  BY <1>1, <1>2, <1>3

(* A cleared fault keeps the inductive invariant.                           *)
LEMMA ClearedInv == IInv /\ FaultCleared => IInv'
<1> SUFFICES ASSUME IInv, FaultCleared PROVE IInv'
  OBVIOUS
<1>1. CASE phase = "ReclosingAttempt"
  <2>1. /\ phase' = "Reclaiming" /\ shot' = shot /\ elapsed' = 0
        /\ breakerClosed' = TRUE /\ command' = "None"
        /\ totalShotsFired' = totalShotsFired /\ closures' = closures
    BY <1>1 DEF FaultCleared, Enter
  <2>2. TypeOK'
    BY <2>1 DEF IInv, TypeOK, Phases, Commands
  <2>3. BreakerFollowsPhase'
    BY <2>1 DEF BreakerFollowsPhase
  <2>4. ShotsConfigured' /\ ClosuresBelowShot' /\ ReclosuresBounded'
    BY <1>1, <2>1 DEF IInv, ShotsConfigured, InSequence, ClosuresBelowShot,
                      ReclosuresBounded
  <2>5. QED
    BY <2>2, <2>3, <2>4 DEF IInv
<1>2. CASE phase # "ReclosingAttempt"
  BY <1>2, IgnoredInv DEF FaultCleared
<1>3. QED
  BY <1>1, <1>2

(* Inhibiting, releasing and resetting keep the inductive invariant.        *)
LEMMA OperatorInv ==
  IInv /\ (InhibitSignal \/ InhibitReleased \/ ManualReset) => IInv'
<1> SUFFICES ASSUME IInv, InhibitSignal \/ InhibitReleased \/ ManualReset
             PROVE  IInv'
  OBVIOUS
<1> USE DEF IInv
<1>1. CASE InhibitSignal
  <2>1. TypeOK'
    BY <1>1 DEF InhibitSignal, TypeOK, Phases, Commands, Enter
  <2>2. BreakerFollowsPhase' /\ ShotsConfigured' /\ ClosuresBelowShot'
    BY <1>1 DEF InhibitSignal, Enter, BreakerFollowsPhase, ShotsConfigured,
                InSequence, ClosuresBelowShot
  <2>3. ReclosuresBounded'
    BY <1>1 DEF InhibitSignal, ReclosuresBounded
  <2>4. QED
    BY <2>1, <2>2, <2>3
<1>2. CASE InhibitReleased
  <2>1. CASE Ignored
    BY <2>1, IgnoredInv
  <2>2. CASE ToNormal /\ ~Ignored
    BY <1>2, <2>2, ToNormalInv DEF InhibitReleased, TypeOK, Commands
  <2>3. QED
    BY <1>2, <2>1, <2>2 DEF InhibitReleased
<1>3. CASE ManualReset
  BY <1>3, ToNormalInv DEF ManualReset, Commands
<1>4. QED
  BY <1>1, <1>2, <1>3

(* The passing of time keeps the inductive invariant.                       *)
LEMMA TickInv == ASSUME NEW dt \in TickSizes PROVE IInv /\ Tick(dt) => IInv'
<1> SUFFICES ASSUME IInv, Tick(dt) PROVE IInv'
  OBVIOUS
<1>0. dt \in Nat
  OBVIOUS
<1> USE DEF IInv
<1>1. CASE TickWaiting(dt)
  <2>1. CASE DeadTimeOver(elapsed + dt)
    <3>1. /\ phase' = "ReclosingAttempt" /\ shot' = shot /\ elapsed' = 0
          /\ breakerClosed' = TRUE /\ command' = "CloseBreaker"
          /\ totalShotsFired' = totalShotsFired /\ closures' = closures + 1
      BY <1>1, <2>1 DEF TickWaiting, Enter
    <3>2. TypeOK'
      BY <3>1 DEF TypeOK, Phases, Commands
    <3>3. BreakerFollowsPhase'
      BY <3>1 DEF BreakerFollowsPhase
    <3>4. closures < shot /\ shot \in 1..NShots /\ shot <= totalShotsFired
      BY <1>1 DEF TickWaiting, ClosuresBelowShot, ShotsConfigured, InSequence
    <3>5. ShotsConfigured' /\ ClosuresBelowShot' /\ ReclosuresBounded'
      BY <3>1, <3>4 DEF TypeOK, ShotsConfigured, ClosuresBelowShot,
                        ReclosuresBounded
    <3>6. QED
      BY <3>2, <3>3, <3>5
  <2>2. CASE ~DeadTimeOver(elapsed + dt)
    <3>1. TypeOK'
      BY <1>0, <1>1, <2>2 DEF TickWaiting, TypeOK, Commands
    <3>2. BreakerFollowsPhase' /\ ShotsConfigured' /\ ClosuresBelowShot'
      BY <1>1, <2>2 DEF TickWaiting, BreakerFollowsPhase, ShotsConfigured,
                        InSequence, ClosuresBelowShot
    <3>3. QED
      BY <1>1, <2>2, <3>1, <3>2 DEF TickWaiting, ReclosuresBounded
  <2>3. QED
    BY <2>1, <2>2
<1>2. CASE TickReclaiming(dt)
  <2>1. CASE elapsed + dt >= ReclaimTime
    BY <1>2, <2>1, ToNormalInv DEF TickReclaiming, TypeOK, Commands
  <2>2. CASE ~(elapsed + dt >= ReclaimTime)
    <3>1. TypeOK'
      BY <1>0, <1>2, <2>2 DEF TickReclaiming, TypeOK, Commands
    <3>2. BreakerFollowsPhase' /\ ShotsConfigured' /\ ClosuresBelowShot'
      BY <1>2, <2>2 DEF TickReclaiming, BreakerFollowsPhase, ShotsConfigured,
                        InSequence, ClosuresBelowShot
    <3>3. QED
      BY <1>2, <2>2, <3>1, <3>2 DEF TickReclaiming, ReclosuresBounded
  <2>3. QED
    BY <2>1, <2>2
<1>3. CASE Ignored
  BY <1>3, IgnoredInv
<1>4. QED
  BY <1>1, <1>2, <1>3 DEF Tick

(* Every step keeps the inductive invariant.                                *)
LEMMA NextInv == IInv /\ [Next]_vars => IInv'
<1> SUFFICES ASSUME IInv, [Next]_vars PROVE IInv'
  OBVIOUS
<1>1. CASE FaultTrip
  BY <1>1, TripInv
<1>2. CASE FaultPersisted \/ FaultCleared
  BY <1>2, PersistedInv, ClearedInv
<1>3. CASE InhibitSignal \/ InhibitReleased \/ ManualReset
  BY <1>3, OperatorInv
<1>4. CASE \E dt \in TickSizes : Tick(dt)
  BY <1>4, TickInv
<1>5. CASE UNCHANGED vars
  BY <1>5 DEF vars, IInv, TypeOK, BreakerFollowsPhase, ShotsConfigured,
              InSequence, ClosuresBelowShot, ReclosuresBounded
<1>6. QED
  BY <1>1, <1>2, <1>3, <1>4, <1>5 DEF Next

(* The inductive invariant holds in every reachable state.                  *)
THEOREM Invariance == Spec => []IInv
BY InitInv, NextInv, PTL DEF Spec

(* Type correctness of the device state, for every configuration.           *)
THEOREM TypeCorrect == Spec => []TypeOK
<1>1. IInv => TypeOK
  BY DEF IInv
<1>2. QED
  BY <1>1, Invariance, PTL

(* The breaker position agrees with the phase in every reachable state:     *)
(* process_event never leaves a locked-out device closed.                   *)
THEOREM BreakerAgrees == Spec => []BreakerFollowsPhase
<1>1. IInv => BreakerFollowsPhase
  BY DEF IInv
<1>2. QED
  BY <1>1, Invariance, PTL

(* At most n_shots reclosures between two returns to Normal, for every      *)
(* n_shots and every order of events and ticks.                             *)
THEOREM BoundedReclosures == Spec => []ReclosuresBounded
<1>1. IInv => ReclosuresBounded
  BY DEF IInv
<1>2. QED
  BY <1>1, Invariance, PTL

------------------------------------------------------------------------------
(* Shot numbering. *)

(* A step inside a sequence keeps the shot number, and an opening raises it. *)
LEMMA ShotStep ==
  ASSUME IInv, [Next]_vars, InSequence, InSequence'
  PROVE  \/ shot' >= shot /\ (command' = "OpenBreaker" => shot' > shot)
         \/ UNCHANGED vars
<1> USE DEF IInv, TypeOK
<1>0. shot \in 1..NShots /\ shot <= totalShotsFired
  BY DEF ShotsConfigured
<1>1. CASE FaultTrip
  <2>1. CASE TripInDeadTime
    BY <1>0, <2>1 DEF TripInDeadTime, GoLockout, FireShot, Enter, InSequence
  <2>2. CASE TripInReclaim
    BY <1>0, <2>2 DEF TripInReclaim, GoLockout, FireShot, Enter, InSequence
  <2>3. CASE Ignored
    BY <1>0, <2>3 DEF Ignored
  <2>4. ~TripFromNormal
    BY DEF TripFromNormal, InSequence
  <2>5. QED
    BY <1>1, <2>1, <2>2, <2>3, <2>4 DEF FaultTrip
<1>2. CASE FaultPersisted
  BY <1>0, <1>2 DEF FaultPersisted, GoLockout, FireShot, Enter, InSequence, Ignored
<1>3. CASE FaultCleared
  BY <1>0, <1>3 DEF FaultCleared, Enter, Ignored
<1>4. CASE InhibitSignal \/ InhibitReleased \/ ManualReset
  BY <1>0, <1>4 DEF InhibitSignal, InhibitReleased, ManualReset, ToNormal, Enter,
                    Ignored, InSequence
<1>5. ASSUME NEW dt \in TickSizes, Tick(dt)
      PROVE  shot' >= shot /\ command' # "OpenBreaker"
  <2>1. CASE TickWaiting(dt)
    BY <1>0, <2>1 DEF TickWaiting, Enter
  <2>2. CASE TickReclaiming(dt)
    BY <1>0, <2>2 DEF TickReclaiming, ToNormal, Enter, InSequence
  <2>3. CASE Ignored
    BY <1>0, <2>3 DEF Ignored
  <2>4. QED
    BY <1>5, <2>1, <2>2, <2>3 DEF Tick
<1>6. QED
  BY <1>1, <1>2, <1>3, <1>4, <1>5 DEF Next

(* Shot numbers only advance within a sequence, so no dead time of the      *)
(* configuration is used twice for one fault.                               *)
THEOREM ShotNumbering == Spec => ShotsAdvance
<1>1. IInv /\ [Next]_vars =>
        [InSequence /\ InSequence' =>
           shot' >= shot /\ (command' = "OpenBreaker" => shot' > shot)]_vars
  BY ShotStep
<1>2. QED
  BY <1>1, Invariance, PTL DEF Spec, ShotsAdvance

------------------------------------------------------------------------------
(* Implementation of the reclosing contract. *)

(* Firing a shot is a Trip of the contract. *)
LEMMA FireShotTrips ==
  ASSUME NEW n, FireShot(n), Opened, phase \in {"Normal", "WaitingDeadTime",
                                         "ReclosingAttempt", "Reclaiming"}
  PROVE  Contract!Trip
<1>1. ModeOfPhase \in {"service", "sequence"}
  BY DEF ModeOfPhase, InSequence
<1>2. ModeOfPhase' = "sequence"
  BY DEF FireShot, Enter, ModeOfPhase, InSequence
<1>3. QED
  BY <1>1, <1>2 DEF FireShot, Opened, Contract!Trip

(* Giving up is a LockOut of the contract. *)
LEMMA GoLockoutLocks ==
  ASSUME NEW n, GoLockout(n), Opened, phase \in {"Normal", "WaitingDeadTime",
                                          "ReclosingAttempt", "Reclaiming"}
  PROVE  Contract!LockOut
<1>1. ModeOfPhase \in {"service", "sequence"}
  BY DEF ModeOfPhase, InSequence
<1>2. ModeOfPhase' = "locked"
  BY DEF GoLockout, Enter, ModeOfPhase, InSequence
<1>3. QED
  BY <1>1, <1>2 DEF GoLockout, Opened, Contract!LockOut

(* A call that is ignored is a stuttering step of the contract. *)
LEMMA IgnoredStutters == Ignored => UNCHANGED Contract!cvars
BY DEF Ignored, Contract!cvars, ModeOfPhase, InSequence

(* Every step of the device is a step, or a stutter, of the contract.       *)
LEMMA ContractStep ==
  ASSUME IInv, [Next]_vars PROVE [Contract!Next]_(Contract!cvars)
<1> USE DEF Contract!Next
<1>1. CASE FaultTrip
  BY <1>1, OpenInDeadTime, FireShotTrips, GoLockoutLocks, IgnoredStutters
     DEF FaultTrip, TripFromNormal, TripInDeadTime, TripInReclaim
<1>2. CASE FaultPersisted
  BY <1>2, FireShotTrips, GoLockoutLocks, IgnoredStutters DEF FaultPersisted
<1>3. CASE FaultCleared
  <2>1. CASE phase = "ReclosingAttempt"
    <3>1. ModeOfPhase = "sequence" /\ ModeOfPhase' = "sequence"
      BY <1>3, <2>1 DEF FaultCleared, Enter, ModeOfPhase, InSequence
    <3>2. breakerClosed' = breakerClosed /\ closures' = closures
      BY <1>3, <2>1 DEF FaultCleared, IInv, TypeOK, BreakerFollowsPhase
    <3>3. QED
      BY <3>1, <3>2 DEF Contract!cvars
  <2>2. CASE phase # "ReclosingAttempt"
    BY <1>3, <2>2, IgnoredStutters DEF FaultCleared
  <2>3. QED
    BY <2>1, <2>2
<1>4. CASE InhibitSignal
  <2>1. ModeOfPhase' = "blocked"
    BY <1>4 DEF InhibitSignal, Enter, ModeOfPhase, InSequence
  <2>2. QED
    BY <1>4, <2>1 DEF InhibitSignal, Contract!Block
<1>5. CASE InhibitReleased
  <2>1. CASE phase = "Inhibited" /\ ToNormal
    <3>1. ModeOfPhase = "blocked" /\ ModeOfPhase' = "service"
      BY <2>1 DEF ToNormal, Enter, ModeOfPhase, InSequence
    <3>2. breakerClosed' = breakerClosed
      BY <1>5, <2>1 DEF InhibitReleased, Ignored
    <3>3. QED
      BY <2>1, <3>1, <3>2 DEF ToNormal, Contract!Unblock
  <2>2. CASE Ignored
    BY <2>2, IgnoredStutters
  <2>3. QED
    BY <1>5, <2>1, <2>2 DEF InhibitReleased
<1>6. CASE ManualReset
  <2>1. ModeOfPhase' = "service"
    BY <1>6 DEF ManualReset, ToNormal, Enter, ModeOfPhase, InSequence
  <2>2. QED
    BY <1>6, <2>1 DEF ManualReset, ToNormal, Contract!Reset
<1>7. CASE \E dt \in TickSizes : Tick(dt)
  <2> PICK dt \in TickSizes : Tick(dt)
    BY <1>7
  <2>1. CASE TickWaiting(dt) /\ DeadTimeOver(elapsed + dt)
    <3>1. ModeOfPhase = "sequence" /\ ModeOfPhase' = "sequence"
      BY <2>1 DEF TickWaiting, Enter, ModeOfPhase, InSequence
    <3>2. ~breakerClosed
      BY <2>1 DEF TickWaiting, IInv, BreakerFollowsPhase
    <3>3. closures < NShots
      BY <2>1 DEF TickWaiting, IInv, TypeOK, ClosuresBelowShot, ShotsConfigured,
                  InSequence
    <3>4. QED
      BY <2>1, <3>1, <3>2, <3>3 DEF TickWaiting, Contract!Reclose
  <2>2. CASE TickWaiting(dt) /\ ~DeadTimeOver(elapsed + dt)
    BY <2>2 DEF TickWaiting, Contract!cvars, ModeOfPhase, InSequence
  <2>3. CASE TickReclaiming(dt) /\ elapsed + dt >= ReclaimTime
    <3>1. ModeOfPhase = "sequence" /\ ModeOfPhase' = "service"
      BY <2>3 DEF TickReclaiming, ToNormal, Enter, ModeOfPhase, InSequence
    <3>2. breakerClosed
      BY <2>3 DEF TickReclaiming, IInv, BreakerFollowsPhase
    <3>3. QED
      BY <2>3, <3>1, <3>2 DEF TickReclaiming, ToNormal, Contract!Settle
  <2>4. CASE TickReclaiming(dt) /\ ~(elapsed + dt >= ReclaimTime)
    BY <2>4 DEF TickReclaiming, Contract!cvars, ModeOfPhase, InSequence
  <2>5. CASE Ignored
    BY <2>5, IgnoredStutters
  <2>6. QED
    BY <2>1, <2>2, <2>3, <2>4, <2>5 DEF Tick
<1>8. CASE UNCHANGED vars
  BY <1>8 DEF vars, Contract!cvars, ModeOfPhase, InSequence
<1>9. QED
  BY <1>1, <1>2, <1>3, <1>4, <1>5, <1>6, <1>7, <1>8 DEF Next

(* The recloser implements the reclosing contract for every configuration:  *)
(* no order of events and ticks makes it reclose more often, or from a mode *)
(* from which, the contract does not allow.                                 *)
THEOREM ContractImplemented == Spec => ImplementsContract
<1>1. Init => Contract!Init
  BY DEF Init, Contract!Init, ModeOfPhase, InSequence
<1>2. IInv /\ [Next]_vars => [Contract!Next]_(Contract!cvars)
  BY ContractStep
<1>3. QED
  BY <1>1, <1>2, Invariance, PTL DEF Spec, ImplementsContract, Contract!Spec

==============================================================================
