---------------------------- MODULE MCMicrogrid ----------------------------
(* Two shedding steps, an inverter that rides low voltage and frequency     *)
(* longer than high voltage, and a battery that a load of ten drains. Time  *)
(* in units of the shedding delay, frequencies in tenths of a hertz,        *)
(* voltages in percent.                                                     *)
EXTENDS Microgrid

MCThreshold == <<490, 480>>
MCShedDelay == <<1, 2>>
MCShedMw    == <<4, 4>>
MCVoltages    == {100, 115}
MCFrequencies == {500, 485, 470}
MCLoads       == {6, 12}
MCRenewables  == {0, 3}
MCTimeSteps   == {1, 2}
MCEnergies    == {6, 13}
=============================================================================
