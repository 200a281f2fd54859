----------------------------- MODULE MCGridTwin -----------------------------
(* Three buses: 1 and 2 joined by the only branch, 3 on its own. Voltages in *)
(* percent, frequencies in tenths of a hertz, loading in percent, time in    *)
(* half minutes, so that the window of a minute is two units.                *)
EXTENDS GridTwin

MCFrom == <<1>>
MCTo   == <<2>>
MCInService == {1}
MCNoReading == -1

(* A scan that reports the voltage v3 of bus 3 and the frequency f.         *)
Scan(t, v3, f) ==
  [scan_time_us |-> t, volts |-> <<NoReading, NoReading, v3>>, frequency |-> f,
   powers |-> FALSE, frames |-> {}]

PmuFrame(ok, f, v1) == [ok |-> ok, freq_hz |-> f, phasors |-> <<v1, NoReading, 40>>]

(* One scan with power points only; one with a critically low voltage and a *)
(* good frame whose frequency is used instead of its own; and a frame whose *)
(* status word says that it is bad, with a high voltage and a current.      *)
MCBatches ==
  {[Scan(1, NoReading, 490) EXCEPT !.powers = TRUE],
   [Scan(4, 85, 490) EXCEPT !.frames = {PmuFrame(TRUE, 500, NoReading)}],
   [Scan(2, NoReading, NoReading) EXCEPT !.frames = {PmuFrame(FALSE, 497, 108)}]}

MCFlowEstimates == {<<-90>>}
MCSuppressible == {<<"Voltage", 1>>, <<"Frequency", 1>>}
=============================================================================
