------------------------- MODULE MCTelemetryMetrics -------------------------
(* An instance of TelemetryMetrics for TLC: sequences from a small range    *)
(* with room for gaps, with measurements and flags that depend on them.     *)
EXTENDS TelemetryMetrics

MCFrame(sequence, flags, temperature, supply) ==
    [sequence |-> sequence, flags |-> flags, temperature |-> temperature,
     supply |-> supply]

MCFrames ==
    {MCFrame(0, {}, 0, 0),
     MCFrame(1, {"sensor_warning"}, -3, 2),
     MCFrame(2, {"voltage_warning", "watchdog_event"}, 5, 1),
     MCFrame(3, {"communication_warning"}, -1, 4),
     MCFrame(3, StatusFlags, 2, 4),
     MCFrame(5, {}, 1, 3)}
=============================================================================
