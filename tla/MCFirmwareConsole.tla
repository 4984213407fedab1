-------------------------- MODULE MCFirmwareConsole --------------------------
(* Spoiled characters for FirmwareConsole: a digit of every field, at both  *)
(* ends of the frame, and of its checksum; what becomes of it is one of two *)
(* digits, or a small letter.                                               *)
EXTENDS FirmwareConsole, ChecksumDistance

\* Magic, version, payload size, sequence, timestamp, temperature, pressure,
\* supply, flags and checksum.
MCPlaces == {1, 6, 12, 20, 30, 37, 48, 54, 60, 61, 68}
MCCharacters == {"0", "F", "c"}

Text(string) == [i \in 1..Len(string) |-> SubSeq(string, i, i)]

\* The lines that README.md:210-217 shows as the controlled output, after
\* their first word.
MCDocumented ==
    <<"0001 544C0101000C000003E800000000000F4240FFFFEA84000180C40B54000085599092",
      "0002 544C0101000C000003E900000000001312D000000000000186A00CE400018A4C876C",
      "0003 544C0101000C000003EA000000000016E360000030D4000189C00C4E0002954F1074",
      "0004 544C0101000C000003EB00000000001AB3F0000059D800018BCD0CE400043F14B6C9",
      "0005 544C0101000C000003EC00000000001E848000007B0C00018ED40CB20008F6997EB3",
      "0006 544C0101000C000003ED00000000002255100000AFC8000184AC0AF00003D7449939",
      "0007 544C0101000C000003EE00000000002625A000004844000188940BB8000C8E1C7527",
      "0008 544C0101000C000003EF000000000029F6300000697800018DA80D1600002A874BCC">>

\* What the firmware has printed when nothing was spoiled is, character by
\* character, the documented output: its fields are in the documented order
\* of bytes, which a serializer and a deserializer that agree on another one
\* would not show (README.md:210-217, serializer.cpp:15-46).
OutputIsDocumented ==
    ~HasNext(next_index) /\ faults = 0 =>
        console = [k \in 1..8 |->
                      [index |-> Text(SubSeq(MCDocumented[k], 1, 4)),
                       encoded |-> Text(SubSeq(MCDocumented[k], 6, 73))]]
=============================================================================
