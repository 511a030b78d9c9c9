----------------------------- MODULE MCPanel ------------------------------
(***************************************************************************)
(* Two instances of the panel for TLC.  MCPanelLevels moves the limits of  *)
(* the backlight and keeps the set point still; MCPanelSetPoint does the   *)
(* reverse, with frames, both units and restarts.  IdleMod leaves room for *)
(* a full ramp between the last input and the wrap of millis().            *)
(***************************************************************************)
EXTENDS ThermostatPanel

\* The line of the settings means nothing on the other screens.
Line == IF panel.scr = "Settings" THEN panel.sPos ELSE 1
SetPointView == <<[panel EXCEPT !.sPos = Line], eeprom, radioSet, raced>>

MCSlowTurns  == {"none", "left"}
MCTurns      == MCSlowTurns \cup {"right", "miss", "fastLeft", "fastRight"}
MCEvenPass   == {1}
MCPassTimes  == {1, 2}
MCNoFrames   == {NoFrame}
MCFrames     == {NoFrame} \cup [kind : {"point"}, value : {32}]
                          \cup [kind : {"unit"}, value : {"C", "F"}]
MCDegrees    == {0}
MCMild       == {1}
MCFirstSaved == {-1}
===========================================================================
