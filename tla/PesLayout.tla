------------------------------- MODULE PesLayout -------------------------------
(***************************************************************************)
(* How many transport stream packets a PES packet takes: the reckoning of  *)
(* packetized_packets (output_ts.h), which write_packet reserves memory    *)
(* by. Sizes are in bytes; `stamps` is the number of time stamps in the    *)
(* PES header (none, pts alone, or pts and dts); `first` says that the     *)
(* stream has sent nothing yet, `pcr` that it carries the clock.           *)
(***************************************************************************)
EXTENDS Integers

PacketSize == 188           \* TS_PACKET_SIZE
HeaderSize == 4             \* sync byte, flags, pid, continuity counter
Room == PacketSize - HeaderSize

\* The adaptation field of the first packet, with its length byte.
FieldSize(pcr, first) == IF pcr THEN 8 ELSE IF first THEN 2 ELSE 0

\* Start code and stream id, packet length, flags and header length.
PesHeaderSize(stamps) == 4 + 5 * stamps + 5

Once(pcr, first, stamps) == FieldSize(pcr, first) + PesHeaderSize(stamps)

\* Faulty: one packet more when the payload comes out even.
PacketizedPacketsOneMore(pcr, first, stamps, size) ==
    IF size <= Room - Once(pcr, first, stamps) THEN 1
    ELSE 2 + (size - (Room - Once(pcr, first, stamps))) \div Room

PacketizedPackets(pcr, first, stamps, size) ==
    IF size <= Room - Once(pcr, first, stamps) THEN 1
    ELSE 1 + (size - (Room - Once(pcr, first, stamps)) + Room - 1) \div Room

\* pts alone when dts is not known or the same.
Stamps(dts, pts, none) ==
    IF pts = none THEN 0 ELSE IF dts # none /\ dts # pts THEN 2 ELSE 1

===============================================================================
