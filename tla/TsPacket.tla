------------------------------- MODULE TsPacket -------------------------------
(***************************************************************************)
(* write_packet (output_ts.h) on one stream: PES packets cut into          *)
(* transport stream packets of 188 bytes, one step per packet. Before the  *)
(* first byte the code computes the number of packets and allocates just   *)
(* that; the loop then runs until the payload is used up.                  *)
(*                                                                         *)
(* packets and cc are fields of the stream and live on from one PES packet *)
(* to the next. packet keeps the layout of the packet written last, of     *)
(* which the code keeps only bytes.                                        *)
(***************************************************************************)
EXTENDS PesLayout

CONSTANTS
    PayloadSizes,   \* the sizes a PES payload can have
    CounterRange,   \* 16: the continuity counter has four bits
    MaxPes          \* bound: PES packets per behaviour

ASSUME PayloadAssumption == PayloadSizes \subseteq Nat \ {0}
ASSUME CounterAssumption == CounterRange \in Nat \ {0} /\ MaxPes \in Nat

VARIABLES
    pcr,            \* pid_ = pcr_pid_
    packets, cc,    \* packets_, cc_ of the stream
    stamps,         \* of the PES packet being written
    payload_size,   \* what is left of its payload
    is_start, discontinuity,
    reserved,       \* packets there is memory for
    written,        \* packets written to it
    packet,         \* the layout of the last one
    pes,            \* number of PES packets begun
    pc              \* "idle", "writing"

vars == <<pcr, packets, cc, stamps, payload_size, is_start, discontinuity,
          reserved, written, packet, pes, pc>>

NoPacket == [cc |-> 0, field |-> 0, flagged |-> FALSE, header |-> 0, data |-> 0]

Init ==
    /\ pcr \in BOOLEAN
    /\ packets = 0 /\ cc = 0
    /\ stamps = 0 /\ payload_size = 0
    /\ is_start = FALSE /\ discontinuity = FALSE
    /\ reserved = 0 /\ written = 0
    /\ packet = NoPacket
    /\ pes = 0
    /\ pc = "idle"

\* The memory of out_buf is reserved; without it write_packet returns.
Begin ==
    /\ pc = "idle" /\ pes < MaxPes
    /\ payload_size' \in PayloadSizes
    /\ stamps' \in 0 .. 2
    /\ is_start' = TRUE
    /\ discontinuity' = (packets = 0)
    /\ reserved' = PacketizedPackets(pcr, packets = 0, stamps', payload_size')
    /\ written' = 0
    /\ pes' = pes + 1
    /\ pc' = "writing"
    /\ UNCHANGED <<pcr, packets, cc, packet>>

Smaller(a, b) == IF a <= b THEN a ELSE b

\* The adaptation field before stuffing.
Field == FieldSize(is_start /\ pcr, discontinuity)

PesHeader == IF is_start THEN PesHeaderSize(stamps) ELSE 0

Data == Smaller(Room - Field - PesHeader, payload_size)

Stuffing == Room - Field - PesHeader - Data

\* Faulty: counts the length byte itself.
LengthByteItself == IF Field > 0 THEN (Field - 1) + Stuffing ELSE Stuffing

\* The length byte of the field is what grows: by the stuffing, or from
\* nothing to one less than the stuffing.
LengthByte == IF Field > 0 THEN (Field - 1) + Stuffing ELSE Stuffing - 1

FieldWritten == IF Field > 0 \/ Stuffing > 0 THEN 1 + LengthByte ELSE 0

\* buf[5], the flags of the field, gets the marks of a stream's first packet.
Flagged == discontinuity \/ packets = 0

WritePacket ==
    /\ pc = "writing" /\ payload_size > 0
    /\ packet' = [cc |-> cc, field |-> FieldWritten, flagged |-> Flagged,
                  header |-> PesHeader, data |-> Data]
    /\ cc' = (cc + 1) % CounterRange
    /\ payload_size' = payload_size - Data
    /\ packets' = packets + 1
    /\ written' = written + 1
    /\ is_start' = FALSE /\ discontinuity' = FALSE
    /\ UNCHANGED <<pcr, stamps, reserved, pes, pc>>

\* out_buf goes to the bucket, all of it.
Return ==
    /\ pc = "writing" /\ payload_size = 0
    /\ pc' = "idle"
    /\ UNCHANGED <<pcr, packets, cc, stamps, payload_size, is_start, discontinuity,
                   reserved, written, packet, pes>>

Next == Begin \/ WritePacket \/ Return

Spec == Init /\ [][Next]_vars

-------------------------------------------------------------------------------
TypeOK ==
    /\ pcr \in BOOLEAN /\ is_start \in BOOLEAN /\ discontinuity \in BOOLEAN
    /\ packets \in Nat /\ cc \in 0 .. CounterRange - 1
    /\ stamps \in 0 .. 2
    /\ payload_size \in Nat /\ reserved \in Nat /\ written \in Nat /\ pes \in 0 .. MaxPes
    /\ packet \in [cc : 0 .. CounterRange - 1, field : 0 .. Room, flagged : BOOLEAN,
                   header : 0 .. Room, data : 0 .. Room]
    /\ pc \in {"idle", "writing"}

\* "reserve the exact number of packets we need for this payload": the loop
\* never writes past the memory reserved and leaves none of it unwritten, so
\* that "incorrect number of packets" is never printed.
ReservedExactly ==
    pc = "writing" =>
        /\ written <= reserved
        /\ payload_size = 0 <=> written = reserved

\* Every packet is filled: header, field with its stuffing, PES header and
\* payload make up 188 bytes, and a packet that carries marks has the byte they
\* are in.
PacketFilled ==
    written > 0 =>
        /\ HeaderSize + packet.field + packet.header + packet.data = PacketSize
        /\ packet.flagged => packet.field >= 2
        /\ packet.data > 0

===============================================================================
