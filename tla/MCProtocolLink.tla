--------------------------- MODULE MCProtocolLink ---------------------------
(* Frames for ProtocolLink: the smallest and the largest values of every    *)
(* field, a frame with all its bytes different, and the example of          *)
(* docs/PROTOCOL.md:82-91.                                                  *)
EXTENDS ProtocolLink

MCFrame(sequence, timestamp, temperature, pressure, supply, flags) ==
    [version |-> SupportedVersion, message_type |-> SupportedMessageType,
     payload_size |-> {}, sequence |-> sequence, timestamp |-> timestamp,
     temperature |-> temperature, pressure |-> pressure, supply |-> supply,
     flags |-> flags]

MCMinimum == MCFrame({}, {}, {31}, {}, {}, {})
MCMaximum == MCFrame(0..31, 0..63, 0..30, 0..31, 0..15, 0..15)

\* Sequence 1, timestamp 2, 1000 millicelsius, 100000 Pa, 3300 mV, sensor.
MCExample ==
    MCFrame({0}, {1}, {3, 5, 6, 7, 8, 9}, {5, 7, 9, 10, 15, 16},
            {2, 5, 6, 7, 10, 11}, {0})

\* make_frame of the protocol's tests: 0x12345678, 0x0102030405060708.
MCDistinct ==
    MCFrame({3, 4, 5, 6, 9, 10, 12, 14, 18, 20, 21, 25, 28},
            {3, 8, 9, 10, 17, 18, 24, 26, 34, 40, 41, 49, 56},
            {0, 2, 5, 9, 13, 14}, {0, 2, 3, 6, 7, 8, 10, 11, 15, 16},
            {2, 5, 6, 7, 10, 11}, {0, 3})

MCFrames == {MCMinimum, MCMaximum, MCExample, MCDistinct}
MCOneFrame == {MCDistinct}

MCAllBits == 0..(8 * frame_size - 1)
MCNoBits == {}
MCNoCorruptions == {}

\* The checksum of the documented example: 0xB6FAE4FA.
MCExampleChecksum ==
    {1, 3, 4, 5, 6, 7, 10, 13, 14, 15, 17, 19, 20, 21, 22, 23, 25, 26, 28,
     29, 31}

\* The documented example gets the checksum that docs/PROTOCOL.md:85-91 shows.
ASSUME ExampleIsDocumented ==
    CalculateCrc32(Body(MCExample)) = MCExampleChecksum
=============================================================================
