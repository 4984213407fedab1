------------------------ MODULE SimulatedFrameSource ------------------------
(****************************************************************************)
(* The deterministic input of the host demo (simulated_frame_source.cpp):   *)
(* fifteen raw frames, eight of which deserialize.  A raw frame is what the *)
(* deserializer makes of it: the error it returns, "none" for a well-formed *)
(* frame, and the frame the bytes were made from.                           *)
(****************************************************************************)
EXTENDS Integers, Sequences

ParseErrors ==
    {"invalid_frame_size", "invalid_magic", "unsupported_version",
     "unsupported_message_type", "invalid_payload_size", "checksum_mismatch"}

RawFrame(error, sequence, temperature, supply, flags) ==
    [error |-> error,
     frame |-> [sequence |-> sequence, temperature |-> temperature,
                supply |-> supply, flags |-> flags]]

\* make_raw_frame serializes, so that the bytes are well-formed.
MakeRawFrame(sequence, temperature, supply, flags) ==
    RawFrame("none", sequence, temperature, supply, flags)

\* A copy of a well-formed frame with a byte changed, or cut off.
Corrupted(raw, error) == [raw EXCEPT !.error = error]

Valid100 == MakeRawFrame(100, -5000, 3000, {"sensor_warning"})
Valid101 == MakeRawFrame(101, 0, 3100, {"voltage_warning"})
Valid103Communication ==
    MakeRawFrame(103, 10000, 3200, {"communication_warning"})
Valid103Watchdog == MakeRawFrame(103, 20000, 3300, {"watchdog_event"})
Valid102 ==
    MakeRawFrame(102, -10000, 2900, {"sensor_warning", "voltage_warning"})
Valid104 ==
    MakeRawFrame(104, 30000, 3400,
                 {"communication_warning", "watchdog_event"})
Valid105 == MakeRawFrame(105, 5000, 3500, {})
Valid106 ==
    MakeRawFrame(106, 15000, 3600,
                 {"sensor_warning", "voltage_warning",
                  "communication_warning", "watchdog_event"})

\* SimulatedFrameSource::generate, in the order of the push_backs.
Generate ==
    <<Valid100,
      Corrupted(Valid100, "invalid_magic"),
      Valid101,
      Corrupted(Valid101, "unsupported_version"),
      Valid103Communication,
      Corrupted(Valid103Communication, "unsupported_message_type"),
      Valid103Watchdog,
      Corrupted(Valid103Watchdog, "invalid_payload_size"),
      Valid102,
      Corrupted(Valid104, "checksum_mismatch"),
      Valid104,
      Corrupted(Valid105, "checksum_mismatch"),
      Valid105,
      Corrupted(Valid106, "invalid_frame_size"),
      Valid106>>
=============================================================================
