---------------------------- MODULE LoadShedding ----------------------------
(***************************************************************************)
(* The underfrequency load shedding scheme (UFLS): steps with descending   *)
(* thresholds, each with a timer of its own that runs while the frequency  *)
(* is below its threshold and sheds its share of the load once.            *)
(***************************************************************************)
EXTENDS Integers, FiniteSetsExt

CONSTANTS
  NSteps,      \* the steps, the highest threshold first
  Threshold,   \* freq_threshold_hz of each
  ShedDelay,   \* time_delay_s of each
  ShedMw       \* shed_fraction * total_load_mw of each

Step == 1..NSteps

(* The order that new_entso_e and new_nerc build and that the doc of steps  *)
(* asks for; their delays are equal.                                        *)
ASSUME UflsAssumption ==
  /\ NSteps \in Nat
  /\ Threshold \in [Step -> Int]
  /\ ShedDelay \in [Step -> Nat]
  /\ ShedMw \in [Step -> Nat]
  /\ \A i, j \in Step : i < j => Threshold[i] > Threshold[j] /\ ShedDelay[i] <= ShedDelay[j]

VARIABLES
  triggered,   \* has the step fired?
  timer,       \* how long the frequency has been below its threshold
  shed_mw      \* total_shed_mw: the sum over shed_history

uflsVars == <<triggered, timer, shed_mw>>

UflsTypeOK ==
  /\ triggered \in [Step -> BOOLEAN]
  /\ timer \in [Step -> Nat]

UflsInit ==
  /\ triggered = [i \in Step |-> FALSE]
  /\ timer = [i \in Step |-> 0]
  /\ shed_mw = 0

TimerAfter(freq, dt, i) ==
  CASE triggered[i]                           -> timer[i]
    [] ~triggered[i] /\ freq < Threshold[i]   -> timer[i] + dt
    [] ~triggered[i] /\ freq >= Threshold[i]  -> 0

Fires(freq, dt, i) ==
  /\ ~triggered[i]
  /\ freq < Threshold[i]
  /\ TimerAfter(freq, dt, i) >= ShedDelay[i]

(* step: one sample of the frequency, dt after the last.                    *)
UflsStep(freq, dt) ==
  LET fired == {i \in Step : Fires(freq, dt, i)}
  IN  /\ timer' = [i \in Step |-> TimerAfter(freq, dt, i)]
      /\ triggered' = [i \in Step |-> triggered[i] \/ i \in fired]
      /\ shed_mw' = shed_mw + MapThenSumSet(LAMBDA i : ShedMw[i], fired)

(* Mutated form: only the first step is reset. *)
UflsResetFirst ==
  /\ triggered' = [i \in Step |-> triggered[i] /\ i # 1]
  /\ timer' = [i \in Step |-> 0]
  /\ shed_mw' = 0

(* reset: for the next disturbance. *)
UflsReset ==
  /\ triggered' = [i \in Step |-> FALSE]
  /\ timer' = [i \in Step |-> 0]
  /\ shed_mw' = 0

-----------------------------------------------------------------------------
(* Load is shed in the planned order: no step has fired before all steps    *)
(* with a higher threshold, whatever the frequency does between samples of  *)
(* any length (frequency_monitoring.rs:429-454).                            *)
ShedsInOrder == \A i, j \in Step : i < j /\ triggered[j] => triggered[i]
=============================================================================
